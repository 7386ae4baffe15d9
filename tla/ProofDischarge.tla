--------------------------- MODULE ProofDischarge ---------------------------
(***************************************************************************)
(* verify_with_cli_smt2 (trust-cg-verify/src/ay_bridge.rs): the discharge  *)
(* of one obligation's query.  Committed certificates, the session memo    *)
(* and the certificate store are consulted first, then the resident        *)
(* process, then a fresh process whose proof an independent checker        *)
(* replays.  Several threads discharge at once.                            *)
(*                                                                         *)
(* Solvers and stored certificates are arbitrary.  The checkers are        *)
(* external and sound: they accept nothing for a satisfiable query.  The   *)
(* runs of the checkers, and of the solver that mints a certificate, have  *)
(* no deadline: such a run is a stage of its own and may never answer.     *)
(***************************************************************************)
EXTENDS ResidentSolver, FiniteSets

CONSTANTS
    Unsat,          \* the queries that are unsatisfiable
    Modelled,       \* the queries generate_sat_model_query has a model query for
    MaxDischarges   \* bound on the discharges

\* AYResult
Results == {"Verified", "CounterExample", "Timeout", "Unknown", "Error"}

ASSUME DischargeAssumption ==
    /\ None \notin Results
    /\ Unsat \subseteq Queries /\ Modelled \subseteq Queries
    /\ MaxDischarges \in Nat

VARIABLES
    job,         \* the discharge in progress on each thread
    memo,        \* session_proof_cache
    recorder,    \* verdict_db::recorder: the recorded queries, or None
    recordings,  \* record_begin calls so far
    discharges   \* discharges so far

dischargeVars == <<job, memo, recorder, recordings, discharges>>
vars == <<env, identityVars, residentVars, dischargeVars>>

Idle == [at |-> "idle", path |-> None, q |-> None, recording |-> 0, key |-> None,
         script |-> None, result |-> None]

Init ==
    /\ IdentityInit /\ ResidentInit
    /\ job = [t \in Threads |-> Idle]
    /\ memo = {} /\ recorder = None /\ recordings = 0 /\ discharges = 0

\* What an independent checker (drat-trim, Carcara) may accept.
Refutable(q) == q \in Unsat

Goto(t, at) == job' = [job EXCEPT ![t].at = at]

\* The discharge returns r to its caller.
Returns(t, r) ==
    job' = [job EXCEPT ![t] = [Idle EXCEPT !.at = "returned", !.q = job[t].q, !.result = r]]

\* record_begin and record_take, by the owner of the regeneration.
RecordBegin ==
    /\ recordings < env.recordings
    /\ recorder' = {} /\ recordings' = recordings + 1
    /\ UNCHANGED <<job, memo, discharges, identityVars, residentVars>>

RecordTake ==
    /\ recorder # None /\ recorder' = None
    /\ UNCHANGED <<job, memo, recordings, discharges, identityVars, residentVars>>

\* Entry, for the thread's first or next obligation: recording_active is read once.
\* The job keeps which recording it saw.
Discharge(t, p, q) ==
    /\ job[t].at \in {"idle", "returned"} /\ discharges < MaxDischarges
    /\ discharges' = discharges + 1
    /\ job' = [job EXCEPT ![t] = [Idle EXCEPT !.at = "canary", !.path = p, !.q = q,
                  !.recording = IF recorder # None THEN recordings ELSE 0]]
    /\ UNCHANGED <<memo, recorder, recordings, identityVars, residentVars>>

\* canary_cert::cert_skip_verified, before any solver is selected: a committed
\* certificate of the query is replayed by drat-trim.
CanaryAsk(t) ==
    /\ job[t].at = "canary" /\ job[t].recording = 0 /\ recorder = None
    /\ Goto(t, "canarycheck")
    /\ UNCHANGED <<memo, recorder, recordings, discharges, identityVars, residentVars>>

CanaryHit(t) ==
    /\ job[t].at = "canarycheck" /\ Refutable(job[t].q)
    /\ Returns(t, "Verified")
    /\ UNCHANGED <<memo, recorder, recordings, discharges, identityVars, residentVars>>

\* select_solver_for_obligation finds no solver.
NoSolver(t) == job[t].path = DefaultPath /\ env.build = "absent"

CanaryMiss(t) ==
    /\ job[t].at \in {"canary", "canarycheck"}
    /\ IF NoSolver(t) THEN Returns(t, "Error")
       ELSE Goto(t, IF job[t].recording # 0 THEN "gate" ELSE "key")
    /\ UNCHANGED <<memo, recorder, recordings, discharges>>
    /\ UNCHANGED <<identityVars, residentVars>>

(***************************************************************************)
(* session_proof_cache_key, the session memo and the certificate store     *)
(***************************************************************************)

\* Mutant: a solver that cannot be read has a key too.
MutKeyed(t, id) ==
    job' = [job EXCEPT ![t].at = "lookup", ![t].key = [id |-> id, q |-> job[t].q]]

\* The key binds the solver's identity and the exact query.
Keyed(t, id) ==
    job' = [job EXCEPT ![t].at = IF id = None THEN "gate" ELSE "lookup",
                       ![t].key = IF id = None THEN None ELSE [id |-> id, q |-> job[t].q]]

\* Explicit paths and TCG_BLOCKING_IDENTITY wait for the hash.
KeyBlocking(t) ==
    /\ job[t].at = "key" /\ env.cache # "off"
    /\ env.cache = "blocking" \/ job[t].path # DefaultPath
    /\ hashCall' = CallHash(t, job[t].path) /\ Goto(t, "hash")
    /\ UNCHANGED <<binary, slots, misses, warmed, residentVars>>
    /\ UNCHANGED <<memo, recorder, recordings, discharges>>

\* No key without a cache, or for a dirty default solver.
KeyDeclined(t) ==
    /\ job[t].at = "key"
    /\ \/ env.cache = "off"
       \/ env.cache = "on" /\ job[t].path = DefaultPath /\ env.build = "dirty"
    /\ Keyed(t, None)
    /\ UNCHANGED <<memo, recorder, recordings, discharges>>
    /\ UNCHANGED <<identityVars, residentVars>>

\* The identity if it is there; otherwise the warm-up is started, and from
\* BlockAfter misses on the caller waits for the hash.
KeyIfReady(t) ==
    /\ job[t].at = "key" /\ env.cache = "on"
    /\ job[t].path = DefaultPath /\ env.build = "clean"
    /\ \E id \in IfReady(DefaultPath) :
          IF id # None
          THEN Keyed(t, id) /\ UNCHANGED identityVars
          ELSE /\ warmed' = TRUE
               /\ misses' = IF misses < BlockAfter THEN misses + 1 ELSE misses
               /\ IF misses < BlockAfter
                  THEN Keyed(t, None) /\ hashCall' = StartWarm
                  ELSE /\ Goto(t, "hash")
                       /\ hashCall' = [StartWarm EXCEPT
                             ![t] = [NoCall EXCEPT !.at = "wait", !.stat = Current(DefaultPath)]]
               /\ UNCHANGED <<binary, slots>>
    /\ UNCHANGED <<memo, recorder, recordings, discharges, residentVars>>

KeyHashed(t) ==
    /\ job[t].at = "hash" /\ hashCall[t].at = "done"
    /\ Keyed(t, hashCall[t].hash)
    /\ hashCall' = [hashCall EXCEPT ![t] = NoCall]
    /\ UNCHANGED <<binary, slots, misses, warmed, residentVars>>
    /\ UNCHANGED <<memo, recorder, recordings, discharges>>

\* session_proof_cache_lookup_verified
InMemo(key) == key \in memo

MemoHit(t) ==
    /\ job[t].at = "lookup" /\ InMemo(job[t].key)
    /\ Returns(t, "Verified")
    /\ UNCHANGED <<memo, recorder, recordings, discharges, identityVars, residentVars>>

MemoMiss(t) ==
    /\ job[t].at = "lookup" /\ ~InMemo(job[t].key)
    /\ Goto(t, "cert")
    /\ UNCHANGED <<memo, recorder, recordings, discharges>>
    /\ UNCHANGED <<identityVars, residentVars>>

\* session_proof_cache_store_verified
Store(t) == memo' = memo \union ({job[t].key} \ {None})

\* A further solver_identity_hash of the job's solver, which waits for its slot.
Rehash(t) ==
    LET s == Current(job[t].path) IN
    /\ ~SlotLocked(s)
    /\ slots' = [slots EXCEPT ![s] = IF @ = None THEN s ELSE @]
    /\ UNCHANGED <<binary, hashCall, misses, warmed>>

\* alethe_cert_skip_verified: a certificate that names this solver and query, whose
\* bytes are arbitrary, goes to the checker.  One wait stands for the probe of the
\* checker, which comes before the hash, and for the replay.
CertAsk(t) ==
    /\ job[t].at = "cert" /\ recorder = None
    /\ job[t].key.id = Current(job[t].path) /\ Rehash(t)
    /\ Goto(t, "certcheck")
    /\ UNCHANGED <<memo, recorder, recordings, discharges, residentVars>>

CertHit(t) ==
    /\ job[t].at = "certcheck" /\ Refutable(job[t].q)
    /\ Store(t) /\ Returns(t, "Verified")
    /\ UNCHANGED <<recorder, recordings, discharges, identityVars, residentVars>>

CertMiss(t) ==
    /\ \/ job[t].at = "cert" /\ (Rehash(t) \/ UNCHANGED identityVars)
       \/ job[t].at = "certcheck" /\ UNCHANGED identityVars
    /\ Goto(t, "gate")
    /\ UNCHANGED <<memo, recorder, recordings, discharges, residentVars>>

(***************************************************************************)
(* The resident process                                                    *)
(***************************************************************************)

\* Mutant: the server stays on while a recording runs.
MutServerEnabled == TRUE

\* ay_server_enabled
ServerEnabled == recorder = None

\* Use the resident process for the verdict query, or go to a fresh one.
Gate(t) ==
    /\ job[t].at = "gate"
    /\ IF ServerEnabled /\ env.server = "on" /\ job[t].path \notin unusable
       THEN /\ nextSeq' = nextSeq + 1
            /\ job' = [job EXCEPT ![t].at = "lock",
                                  ![t].script = Asked(job[t].q, "verdict", nextSeq)]
       ELSE Goto(t, "fresh") /\ UNCHANGED nextSeq
    /\ UNCHANGED <<server, holder, window, unusable, identityVars>>
    /\ UNCHANGED <<memo, recorder, recordings, discharges>>

Acquire(t) ==
    /\ job[t].at = "lock" /\ AcquireServer(t, job[t].path, job[t].script)
    /\ Goto(t, "write")
    /\ UNCHANGED <<memo, recorder, recordings, discharges, identityVars>>

Write(t) ==
    /\ job[t].at = "write" /\ WriteScript /\ Goto(t, "read")
    /\ UNCHANGED <<memo, recorder, recordings, discharges, identityVars>>

Recv(t) ==
    /\ job[t].at = "read" /\ RecvLine
    /\ UNCHANGED <<dischargeVars, identityVars>>

\* parse_solver_output, without UNSAT
Plain(o) ==
    CASE o = "unknown" -> "Unknown" [] o = "timeout" -> "Timeout"
      [] o = "sat" -> "CounterExample" [] OTHER -> "Error"

\* A completed window.  UNSAT is only a candidate and is replayed by a fresh
\* process; SAT asks the resident process for a model; the model query must
\* answer SAT again.
Completed(t) ==
    /\ job[t].at = "read" /\ CompleteWindow
    /\ \E a \in Answers :
          IF job[t].script.ask = "model"
          THEN Returns(t, IF a = "sat" THEN "CounterExample" ELSE "Error")
          ELSE IF a = "unsat" THEN Goto(t, "replay")
          ELSE IF a = "sat" /\ job[t].q \in Modelled THEN Goto(t, "model")
          ELSE Returns(t, Plain(a))
    /\ UNCHANGED <<memo, recorder, recordings, discharges, identityVars>>

\* enrich_sat_counterexample_via_server
AskModel(t) ==
    /\ job[t].at = "model"
    /\ nextSeq' = nextSeq + 1
    /\ job' = [job EXCEPT ![t].at = "lock", ![t].script = Asked(job[t].q, "model", nextSeq)]
    /\ UNCHANGED <<server, holder, window, unusable, identityVars>>
    /\ UNCHANGED <<memo, recorder, recordings, discharges>>

\* The deadline ends the discharge: no second budget is spent.
TimedOut(t) ==
    /\ job[t].at = "read" /\ Deadline /\ Returns(t, "Timeout")
    /\ UNCHANGED <<memo, recorder, recordings, discharges, identityVars>>

Anomaly(t) ==
    /\ \/ job[t].at = "lock" /\ SpawnFails(job[t].path)
       \/ job[t].at = "write" /\ WriteFails
       \/ job[t].at = "read" /\ (MisframedWindow \/ Disconnected)
    /\ Goto(t, "anomaly")
    /\ UNCHANGED <<memo, recorder, recordings, discharges, identityVars>>

\* mark_ay_server_unusable, then the fresh process.
MarkUnusable(t) ==
    /\ job[t].at = "anomaly"
    /\ unusable' = unusable \union {job[t].path}
    /\ Goto(t, IF job[t].script.ask = "model" THEN "freshmodel" ELSE "fresh")
    /\ UNCHANGED <<server, holder, window, nextSeq, identityVars>>
    /\ UNCHANGED <<memo, recorder, recordings, discharges>>

(***************************************************************************)
(* A fresh process                                                         *)
(***************************************************************************)

\* What run_solver_command and parse_solver_process_output may give.
Outputs == {"unsat", "sat", "unknown", "error", "timeout"}

\* run_solver_command with the fallback of verify_with_cli_smt2: an UNSAT that comes
\* with a proof goes to the checker.
Fresh(t, o, proof) ==
    /\ job[t].at \in {"fresh", "replay"}
    /\ IF o = "sat" /\ job[t].q \in Modelled THEN Goto(t, "freshmodel")
       ELSE IF o = "unsat" /\ proof
       THEN Goto(t, IF job[t].at = "fresh" THEN "freshcheck" ELSE "replaycheck")
       ELSE Returns(t, IF o = "unsat" THEN "Unknown" ELSE Plain(o))
    /\ UNCHANGED <<memo, recorder, recordings, discharges, identityVars, residentVars>>

\* Mutant: UNSAT is believed where no capable checker is installed.
MutPromotes(q, capable, full) == full /\ (capable => Refutable(q))

\* promote_fresh_solver_unsat: the checker is capable, accepts the proof and
\* reports it free of holes.
Promotes(q, capable, full) == capable /\ full /\ Refutable(q)

\* record_live_result keeps Verified only, and only while the recorder is armed.
Record(t) ==
    recorder' = IF job[t].recording # 0 /\ job[t].at = "freshcheck" /\ recorder # None
                THEN recorder \union {job[t].q} ELSE recorder

\* The checker has answered: store, record and mint, or no verdict.
Checked(t, capable, full) ==
    /\ job[t].at \in {"freshcheck", "replaycheck"}
    /\ IF Promotes(job[t].q, capable, full)
       THEN /\ Store(t) /\ Record(t)
            /\ IF job[t].key = None THEN Returns(t, "Verified") ELSE Goto(t, "mint")
       ELSE Returns(t, "Unknown") /\ UNCHANGED <<memo, recorder>>
    /\ UNCHANGED <<recordings, discharges, identityVars, residentVars>>

\* run_sat_model_query_fresh
FreshModel(t, o) ==
    /\ job[t].at = "freshmodel"
    /\ Returns(t, CASE o = "sat" -> "CounterExample" [] o = "timeout" -> "Timeout"
                    [] OTHER -> "Error")
    /\ UNCHANGED <<memo, recorder, recordings, discharges, identityVars, residentVars>>

\* mint_alethe_cert: unless it declines, it hashes the solver again and runs it for
\* a certificate of its own, then the checker on that.
MintDeclines(t) ==
    /\ job[t].at = "mint" /\ Returns(t, "Verified")
    /\ Rehash(t) \/ UNCHANGED identityVars
    /\ UNCHANGED <<memo, recorder, recordings, discharges, residentVars>>

Mint(t) ==
    /\ job[t].at = "mint" /\ recorder = None
    /\ job[t].key.id = Current(job[t].path) /\ Rehash(t)
    /\ Goto(t, "minting")
    /\ UNCHANGED <<memo, recorder, recordings, discharges, residentVars>>

Minted(t) ==
    /\ job[t].at = "minting" /\ Returns(t, "Verified")
    /\ Rehash(t) \/ UNCHANGED identityVars
    /\ UNCHANGED <<memo, recorder, recordings, discharges, residentVars>>

(***************************************************************************)
(* Specification                                                           *)
(***************************************************************************)

Advance(t) ==
    \/ CanaryAsk(t) \/ CanaryHit(t) \/ CanaryMiss(t)
    \/ KeyBlocking(t) \/ KeyDeclined(t) \/ KeyIfReady(t) \/ KeyHashed(t)
    \/ MemoHit(t) \/ MemoMiss(t)
    \/ CertAsk(t) \/ CertHit(t) \/ CertMiss(t)
    \/ Gate(t) \/ Acquire(t) \/ Write(t) \/ Recv(t) \/ Completed(t) \/ AskModel(t)
    \/ TimedOut(t) \/ Anomaly(t) \/ MarkUnusable(t)
    \/ \E o \in Outputs, proof \in BOOLEAN : Fresh(t, o, proof)
    \/ \E capable, full \in BOOLEAN : Checked(t, capable, full)
    \/ \E o \in Outputs : FreshModel(t, o)
    \/ MintDeclines(t) \/ Mint(t) \/ Minted(t)

Hash(c) == IdentityStep(c) /\ UNCHANGED <<residentVars, dischargeVars>>

Step ==
    \/ \E t \in Threads : Advance(t) \/ (\E p \in Paths, q \in Queries : Discharge(t, p, q))
    \/ \E c \in Callers : Hash(c)
    \/ InitWarm /\ UNCHANGED <<residentVars, dischargeVars>>
    \/ WarmDone /\ UNCHANGED <<residentVars, dischargeVars>>
    \/ ProcessStep /\ UNCHANGED <<identityVars, dischargeVars>>
    \/ \E p \in Paths : ReplaceBinary(p) /\ UNCHANGED <<residentVars, dischargeVars>>
    \/ RecordBegin \/ RecordTake

Next == Step /\ UNCHANGED env

Spec == Init /\ [][Next]_vars

\* The runs of a checker, or of the minting solver, that have no deadline.
Undeadlined == {"canarycheck", "certcheck", "freshcheck", "replaycheck", "minting"}

\* What a thread does on its own: not the answers of the runs without a deadline.
ThreadStep(t) == (job[t].at \notin Undeadlined /\ Advance(t)) \/ Hash(t)

\* Threads are scheduled, the warm-up among them, and an armed deadline passes.
\* Nothing is assumed of the resident process or of a run without a deadline.
FairSpec ==
    Spec /\ \A t \in Threads : WF_vars(ThreadStep(t) /\ UNCHANGED env)
         /\ WF_vars(Hash(Warm) /\ UNCHANGED env)

(***************************************************************************)
(* Properties                                                              *)
(***************************************************************************)

Stages ==
    {"idle", "canary", "key", "hash", "lookup", "cert", "gate", "lock", "write", "read",
     "model", "anomaly", "replay", "fresh", "freshmodel", "mint", "returned"}
    \union Undeadlined

Jobs ==
    [at : Stages, path : Paths \union {None}, q : Queries \union {None}, recording : Nat,
     key : [id : Versions, q : Queries] \union {None}, script : Scripts \union {None},
     result : Results \union {None}]

\* The state of the discharge path is well formed.
TypeOK ==
    /\ IdentityTypeOK /\ ResidentTypeOK
    /\ job \in [Threads -> Jobs]
    /\ memo \subseteq [id : Versions, q : Queries]
    /\ recorder \in (SUBSET Queries) \union {None}
    /\ recordings \in 0..env.recordings /\ discharges \in 0..MaxDischarges

\* No tier of verify_with_cli_smt2 returns Verified for a satisfiable query,
\* whatever the solvers answer and the certificate store holds, and no such
\* query is recorded as proved.
VerifiedIsUnsat ==
    /\ \A t \in Threads : job[t].result = "Verified" => job[t].q \in Unsat
    /\ recorder # None => recorder \subseteq Unsat

\* run_solver_via_server: the verdict a window has read was printed for this
\* window's script by a process spawned from the solver the caller named, also
\* when an earlier query timed out before its answer came.
WindowsNeverMix ==
    holder # None /\ window.source # None =>
        /\ window.source.script = window.script
        /\ window.source.path = job[holder].path

\* verify_with_cli_smt2: a discharge that started under a recording that still
\* runs reaches neither the memo, nor the store, nor the resident process.
RecorderSeesFreshRuns ==
    \A t \in Threads : recorder # None /\ job[t].recording = recordings =>
        job[t].at \in {"canary", "gate", "fresh", "freshcheck", "freshmodel"}

\* verify_with_cli_smt2 with a timeout: a discharge returns unless a checker or the
\* minting solver that it has itself started never answers.  A resident process that
\* hangs, and another thread's checker that does, keep nobody waiting.
EveryDischargeEnds ==
    \A t \in Threads :
        []<>(job[t].at \notin Undeadlined) => (job[t].at # "idle" ~> job[t].at = "returned")
====
