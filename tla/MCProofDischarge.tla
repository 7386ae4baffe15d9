------------------------- MODULE MCProofDischarge ---------------------------
(***************************************************************************)
(* Two threads, a default and an explicit solver, one unsatisfiable and    *)
(* one satisfiable query.                                                  *)
(***************************************************************************)
EXTENDS ProofDischarge

CONSTANTS t1, t2, p1, p2, q1, q2

MCThreads == {t1, t2}
MCPaths == {p1, p2}
MCQueries == {q1, q2}
MCUnsat == {q1}
MCModelled == {q2}

\* Environments: a cache, with a clean and a dirty default solver, and without one
\* with the explicit solver replaced or the recorder armed; a server, alone and with
\* the recorder.
Env == [cache |-> "on", build |-> "clean", server |-> "on", pipe |-> "holds",
        reinstalls |-> 0, recordings |-> 0]
CacheEnv == [Env EXCEPT !.server = "off"]
ServerEnv == [Env EXCEPT !.cache = "off"]
MCEnvs ==
    {CacheEnv, [CacheEnv EXCEPT !.build = "dirty"],
     [CacheEnv EXCEPT !.build = "absent", !.reinstalls = 1],
     [CacheEnv EXCEPT !.build = "absent", !.recordings = 1],
     ServerEnv, [ServerEnv EXCEPT !.build = "absent", !.recordings = 1]}
FullPipe == {[ServerEnv EXCEPT !.pipe = "fills"]}
=============================================================================
