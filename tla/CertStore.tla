----------------------------- MODULE CertStore -----------------------------
(***************************************************************************)
(* The store of checked proof certificates (obligation_cert_store.rs):     *)
(* consuming a stored certificate instead of a solver run, minting one     *)
(* after a run, and the memo of which checker binaries can check at all.   *)
(* Threads of one process share the memos; the store directory, the        *)
(* checker binary and the solver binary belong to others as well.          *)
(*                                                                         *)
(* A binary's identity is the hash of its bytes.  Builds are numbered in   *)
(* the order in which they are installed at the one path; an installation  *)
(* never brings an earlier build back.  A proof is the query it refutes.   *)
(***************************************************************************)
EXTENDS Naturals, FiniteSets

CONSTANTS
    Threads,
    Queries,       \* SMT2 texts
    Provable,      \* the unsatisfiable ones: only these have proofs
    NumCheckers,   \* builds of the external checker
    Capable,       \* the builds that can check Alethe proofs
    NumSolvers,    \* builds of the solver
    Foreign,       \* certificate texts that may arrive from elsewhere
    MaxCalls,      \* bound on calls
    MaxFaults,     \* bound on foreign files and process restarts together
    Bogus,         \* a text that proves nothing
    Torn,          \* a file that AletheCert::parse rejects
    None           \* Option::None

Checkers == 1..NumCheckers

Solvers == 1..NumSolvers

\* AletheCert
Certs ==
    [producer_ay_identity : Solvers, external_clean_checker_identity : Checkers,
     smt2_sha256 : Queries, smt2 : Queries, alethe_proof : Provable \cup {Bogus}]

\* verdict_cache_key_v2: a key is its solver identity and its query.
Keys == Solvers \X Queries

ASSUME CertAssumption ==
    /\ NumCheckers \in Nat \ {0} /\ NumSolvers \in Nat \ {0}
    /\ MaxCalls \in Nat /\ MaxFaults \in Nat
    /\ Provable \subseteq Queries /\ Capable \subseteq Checkers
    /\ Foreign \subseteq Certs \cup {Torn}
    /\ Bogus \notin Queries /\ Torn \notin Certs
    /\ None \notin Certs \cup {Torn} \cup Checkers \cup Solvers
    /\ None \notin {"ok", "defect", "consume", "mint", "promote", "staging", "store", "gone"}

VARIABLES
    checker,       \* the checker build installed now
    solver,        \* the solver build installed now
    capability,    \* checker_capability_memo: identity -> "ok", "defect" or None
    consumed,      \* consume_memo: the keys it answers true for
    store,         \* key -> the file at cert_path, or None
    staging,       \* key -> the file .{key}.tmp, or None
    job,           \* thread -> the call it is in
    calls, faults,
    probed,        \* history: builds that verified the control proof
    checked,       \* history: <<build, query, proof>> that a checker accepted
    produced,      \* history: <<build, query, proof>> that a solver emitted
    overlapped,    \* history: keys whose staging file two mints had at once
    arrived        \* history: keys that hold or held a foreign file

disk == <<store, staging, overlapped, arrived>>

world == <<checker, solver, calls, faults>>

memos == <<capability, consumed>>

history == <<probed, checked, produced>>

vars == <<disk, world, memos, job, history>>

Idle ==
    [at |-> "idle", kind |-> None, query |-> None, key |-> None, id |-> None,
     sid |-> None, ok |-> FALSE, text |-> None, proof |-> None, fd |-> None]

Init ==
    /\ checker = 1 /\ solver = 1
    /\ capability = [b \in Checkers |-> None] /\ consumed = {}
    /\ store = [k \in Keys |-> None] /\ staging = [k \in Keys |-> None]
    /\ job = [t \in Threads |-> Idle]
    /\ calls = 0 /\ faults = 0
    /\ probed = {} /\ checked = {} /\ produced = {} /\ overlapped = {} /\ arrived = {}

Goto(t, j) == job' = [job EXCEPT ![t] = j]

\* The call returns false, or true: the certificate stands for the solver run, or
\* the run's verdict for a checked one.
Return(t, yes) ==
    Goto(t, IF ~yes THEN Idle
            ELSE [job[t] EXCEPT !.at = IF job[t].kind = "promote" THEN "promoted"
                                       ELSE "skipped"])

\* verdict_key was derived by the caller from the solver it found.
Begin(t, j) ==
    /\ job[t].at \in {"idle", "skipped", "promoted"} /\ calls < MaxCalls
    /\ calls' = calls + 1
    /\ Goto(t, [j EXCEPT !.key = <<solver, j.query>>])
    /\ UNCHANGED <<disk, checker, solver, faults, memos, history>>

\* alethe_cert_skip_verified
BeginConsume(t, q) ==
    Begin(t, [Idle EXCEPT !.at = "hash", !.kind = "consume", !.query = q])

\* mint_alethe_cert
BeginMint(t, q) ==
    Begin(t, [Idle EXCEPT !.at = "exists", !.kind = "mint", !.query = q])

\* carcara_verify, on what a solver run handed over as a proof
BeginPromote(t, q) ==
    \E proof \in ({q} \cap Provable) \cup {Bogus} :
        Begin(t, [Idle EXCEPT !.at = "hash", !.kind = "promote", !.query = q,
                              !.proof = proof])

-----------------------------------------------------------------------------
(* clean_checker_capability                                                *)

\* Where a call goes on once its checker is known to be capable.
Capability(t, ok) ==
    IF ~ok THEN Return(t, FALSE)
    ELSE Goto(t, [job[t] EXCEPT !.ok = FALSE,
                                !.at = CASE job[t].kind = "mint" -> "derive"
                                         [] job[t].kind = "consume" -> "read"
                                         [] job[t].kind = "promote" -> "before"])

HashChecker(t) ==
    /\ job[t].at = "hash"
    /\ Goto(t, [job[t] EXCEPT !.at = "recall", !.id = checker])
    /\ UNCHANGED <<disk, world, memos, history>>

Recall(t) ==
    /\ job[t].at = "recall"
    /\ IF capability[job[t].id] = None
       THEN Goto(t, [job[t] EXCEPT !.at = "probe"])
       ELSE Capability(t, capability[job[t].id] = "ok")
    /\ UNCHANGED <<disk, world, memos, history>>

\* probe_clean_checker runs whatever is installed by now; it may fail to spawn.
Probe(t) ==
    /\ job[t].at = "probe"
    /\ \E ok \in BOOLEAN :
          /\ ok => checker \in Capable
          /\ Goto(t, [job[t] EXCEPT !.at = "rehash", !.ok = ok])
          /\ probed' = IF ok THEN probed \cup {checker} ELSE probed
    /\ UNCHANGED <<disk, world, memos, checked, produced>>

\* Mutant: the binary is not hashed again after the probe.
MutRehash(t) ==
    /\ job[t].at = "rehash"
    /\ Goto(t, [job[t] EXCEPT !.at = "remember"])
    /\ UNCHANGED <<disk, world, memos, history>>

\* A binary that changed during its probe counts as not runnable.
Rehash(t) ==
    /\ job[t].at = "rehash"
    /\ Goto(t, [job[t] EXCEPT !.at = "remember", !.ok = @ /\ checker = job[t].id])
    /\ UNCHANGED <<disk, world, memos, history>>

\* The first verdict for an identity stays; each caller goes by its own.
Remember(t) ==
    /\ job[t].at = "remember"
    /\ capability' = IF capability[job[t].id] # None THEN capability
                     ELSE [capability EXCEPT ![job[t].id] =
                             IF job[t].ok THEN "ok" ELSE "defect"]
    /\ Capability(t, job[t].ok)
    /\ UNCHANGED <<disk, world, consumed, history>>

-----------------------------------------------------------------------------
(* alethe_cert_skip_verified                                               *)

ReadCert(t) ==
    /\ job[t].at = "read"
    /\ IF store[job[t].key] = None THEN Return(t, FALSE)
       ELSE Goto(t, [job[t] EXCEPT !.at = "consult", !.text = store[job[t].key]])
    /\ UNCHANGED <<disk, world, memos, history>>

\* Mutant: the text of the certificate is not part of the key.
MutConsumeMemoKey(j) ==
    [key |-> j.key, solver |-> j.sid, query |-> j.query, checker |-> j.id]

\* consume_memo_key
ConsumeMemoKey(j) ==
    [key |-> j.key, solver |-> j.sid, query |-> j.query, text |-> j.text,
     checker |-> j.id]

Consult(t) ==
    LET j == [job[t] EXCEPT !.sid = solver]
    IN  /\ job[t].at = "consult"
        /\ IF ConsumeMemoKey(j) \in consumed
           THEN Return(t, TRUE)
           ELSE Goto(t, [j EXCEPT !.at = "bind"])
        /\ UNCHANGED <<disk, world, memos, history>>

\* consume_verified_text, up to the check: parsing, solver identity, query and
\* checker identity.
Binds(text, j) ==
    /\ text # Torn
    /\ <<solver, j.query>> = j.key
    /\ text.producer_ay_identity = solver
    /\ text.smt2_sha256 = j.query /\ text.smt2 = j.query
    /\ text.external_clean_checker_identity = j.id

Bind(t) ==
    /\ job[t].at = "bind"
    /\ IF Binds(job[t].text, job[t])
       THEN Goto(t, [job[t] EXCEPT !.at = "before", !.proof = job[t].text.alethe_proof])
       ELSE Return(t, FALSE)
    /\ UNCHANGED <<disk, world, memos, history>>

\* Only a positive answer is remembered.
Keep(t) ==
    /\ job[t].at = "keep"
    /\ consumed' = consumed \cup {ConsumeMemoKey(job[t])}
    /\ Return(t, TRUE)
    /\ UNCHANGED <<disk, world, capability, history>>

-----------------------------------------------------------------------------
(* carcara_verify_with_expected_checker                                    *)

HashBefore(t) ==
    /\ job[t].at = "before"
    /\ IF checker = job[t].id THEN Goto(t, [job[t] EXCEPT !.at = "run"])
       ELSE Return(t, FALSE)
    /\ UNCHANGED <<disk, world, memos, history>>

Accepts(build, query, proof) == build \in Capable /\ proof = query

\* The build installed by now answers; the run may fail.
RunChecker(t) ==
    LET run == <<checker, job[t].query, job[t].proof>>
    IN  /\ job[t].at = "run"
        /\ \E ok \in BOOLEAN :
              /\ ok => Accepts(checker, job[t].query, job[t].proof)
              /\ Goto(t, [job[t] EXCEPT !.at = "after", !.ok = ok])
              /\ checked' = IF ok THEN checked \cup {run} ELSE checked
        /\ UNCHANGED <<disk, world, memos, probed, produced>>

\* Where a call goes on once its proof is checked.
Answer(t, ok) ==
    IF ~ok \/ job[t].kind = "promote" THEN Return(t, ok)
    ELSE Goto(t, [job[t] EXCEPT !.at = IF job[t].kind = "mint" THEN "create" ELSE "keep"])

HashAfter(t) ==
    /\ job[t].at = "after"
    /\ Answer(t, job[t].ok /\ checker = job[t].id)
    /\ UNCHANGED <<disk, world, memos, history>>

-----------------------------------------------------------------------------
(* mint_alethe_cert, mint_into                                             *)

Exists(t) ==
    /\ job[t].at = "exists"
    /\ IF store[job[t].key] # None THEN Return(t, FALSE)
       ELSE Goto(t, [job[t] EXCEPT !.at = "hash"])
    /\ UNCHANGED <<disk, world, memos, history>>

Derive(t) ==
    /\ job[t].at = "derive"
    /\ IF store[job[t].key] = None /\ <<solver, job[t].query>> = job[t].key
       THEN Goto(t, [job[t] EXCEPT !.at = "prove", !.sid = solver])
       ELSE Return(t, FALSE)
    /\ UNCHANGED <<disk, world, memos, history>>

\* The solver run: no exact unsat, or a proof of some kind.
Prove(t) ==
    /\ job[t].at = "prove"
    /\ \/ Return(t, FALSE) /\ UNCHANGED produced
       \/ \E proof \in ({job[t].query} \cap Provable) \cup {Bogus} :
             /\ Goto(t, [job[t] EXCEPT !.at = "resolve", !.proof = proof])
             /\ produced' = produced \cup {<<solver, job[t].query, proof>>}
    /\ UNCHANGED <<disk, world, memos, probed, checked>>

\* Mutant: the solver is not hashed again after its run.
MutResolve(t) ==
    /\ job[t].at = "resolve"
    /\ Goto(t, [job[t] EXCEPT !.at = "before"])
    /\ UNCHANGED <<disk, world, memos, history>>

Resolve(t) ==
    /\ job[t].at = "resolve"
    /\ IF solver = job[t].sid THEN Goto(t, [job[t] EXCEPT !.at = "before"])
       ELSE Return(t, FALSE)
    /\ UNCHANGED <<disk, world, memos, history>>

\* The certificate of a finished check.
CertOf(j) ==
    [producer_ay_identity |-> j.sid, external_clean_checker_identity |-> j.id,
     smt2_sha256 |-> j.query, smt2 |-> j.query, alethe_proof |-> j.proof]

\* fs::write opens .{key}.tmp, one name for all mints of the key, and truncates.
Create(t) ==
    /\ job[t].at = "create"
    /\ staging' = [staging EXCEPT ![job[t].key] = Torn]
    /\ overlapped' =
          IF \E u \in Threads \ {t} : job[u].key = job[t].key
                                      /\ job[u].at \in {"write", "rename"}
          THEN overlapped \cup {job[t].key} ELSE overlapped
    /\ Goto(t, [job[t] EXCEPT !.at = "write", !.fd = "staging"])
    /\ UNCHANGED <<store, arrived, world, memos, history>>

\* What a file holds after text was written over its start: the rest of a longer
\* text stays.
Overwritten(old, text) == IF old \in {Torn, text} THEN {text} ELSE {text, Torn}

\* The handle follows the file, whatever name it has by now.
Write(t) ==
    /\ job[t].at = "write"
    /\ LET k == job[t].key IN
       CASE job[t].fd = "staging" ->
              /\ \E text \in Overwritten(staging[k], CertOf(job[t])) :
                    staging' = [staging EXCEPT ![k] = text]
              /\ UNCHANGED store
         [] job[t].fd = "store" ->
              /\ \E text \in Overwritten(store[k], CertOf(job[t])) :
                    store' = [store EXCEPT ![k] = text]
              /\ UNCHANGED staging
         [] OTHER -> UNCHANGED <<store, staging>>
    /\ Goto(t, [job[t] EXCEPT !.at = "rename", !.fd = None])
    /\ UNCHANGED <<overlapped, arrived, world, memos, history>>

\* Handles of other mints after the file at the key's path was replaced.
Moved(u, k) ==
    IF job[u].key # k \/ job[u].fd = None THEN job[u]
    ELSE [job[u] EXCEPT !.fd = IF @ = "staging" THEN "store" ELSE "gone"]

\* rename fails if another mint has taken the file; nothing is left to remove.
Rename(t) ==
    /\ job[t].at = "rename"
    /\ LET k == job[t].key IN
       IF staging[k] = None THEN Return(t, FALSE) /\ UNCHANGED <<store, staging>>
       ELSE /\ store' = [store EXCEPT ![k] = staging[k]]
            /\ staging' = [staging EXCEPT ![k] = None]
            /\ job' = [u \in Threads |->
                         IF u = t THEN Idle
                         ELSE Moved(u, k)]
    /\ UNCHANGED <<overlapped, arrived, world, memos, history>>

\* The write fails: the staging file stays.
MintFails(t) ==
    /\ job[t].at \in {"create", "write"}
    /\ Return(t, FALSE)
    /\ UNCHANGED <<disk, world, memos, history>>

-----------------------------------------------------------------------------
(* The environment                                                         *)

ReplaceChecker ==
    /\ checker < NumCheckers
    /\ checker' = checker + 1
    /\ UNCHANGED <<disk, solver, calls, faults, memos, job, history>>

ReplaceSolver ==
    /\ solver < NumSolvers
    /\ solver' = solver + 1
    /\ UNCHANGED <<disk, checker, calls, faults, memos, job, history>>

\* A file is put into the store directory from elsewhere.
Arrive(k, text) ==
    /\ faults < MaxFaults
    /\ faults' = faults + 1
    /\ store' = [store EXCEPT ![k] = text]
    /\ arrived' = arrived \cup {k}
    /\ job' = [u \in Threads |->
                 IF job[u].key = k /\ job[u].fd = "store" THEN [job[u] EXCEPT !.fd = "gone"]
                 ELSE job[u]]
    /\ UNCHANGED <<staging, overlapped, checker, solver, calls, memos, history>>

\* The process dies and starts again: memos and calls are lost, files stay.
Crash ==
    /\ faults < MaxFaults
    /\ faults' = faults + 1
    /\ job' = [t \in Threads |-> Idle]
    /\ capability' = [b \in Checkers |-> None] /\ consumed' = {}
    /\ UNCHANGED <<disk, checker, solver, calls, history>>

Next ==
    \/ \E t \in Threads :
          \/ \E q \in Queries : BeginConsume(t, q) \/ BeginMint(t, q) \/ BeginPromote(t, q)
          \/ HashChecker(t) \/ Recall(t) \/ Probe(t) \/ Rehash(t) \/ Remember(t)
          \/ ReadCert(t) \/ Consult(t) \/ Bind(t) \/ Keep(t)
          \/ HashBefore(t) \/ RunChecker(t) \/ HashAfter(t)
          \/ Exists(t) \/ Derive(t) \/ Prove(t) \/ Resolve(t)
          \/ Create(t) \/ Write(t) \/ Rename(t) \/ MintFails(t)
    \/ ReplaceChecker \/ ReplaceSolver \/ Crash
    \/ \E k \in Keys, text \in Foreign : Arrive(k, text)

Spec == Init /\ [][Next]_vars

-----------------------------------------------------------------------------
(* Properties                                                              *)

\* A call that returns true rests on a proof of this very query that was accepted
\* by a run of the very checker build the call had identified, and that build had
\* verified the control proof, however binaries and files were replaced between
\* the steps.  For a skip of the solver (alethe_cert_skip_verified) it is the proof
\* in the text the call had read; for a promotion (carcara_verify), the proof it
\* was given.
AcceptedWasChecked ==
    \A t \in Threads :
        /\ job[t].at = "skipped" =>
              /\ job[t].text # Torn /\ job[t].text.smt2 = job[t].query
              /\ <<job[t].id, job[t].query, job[t].text.alethe_proof>> \in checked
              /\ job[t].id \in probed
        /\ job[t].at = "promoted" =>
              /\ <<job[t].id, job[t].query, job[t].proof>> \in checked
              /\ job[t].id \in probed

\* checker_capability_memo says of an identity that it can check proofs only if a
\* binary with these bytes verified the control proof: a binary replaced during
\* its probe leaves no verdict to the bytes before it.
CapabilityIsOfBytes == \A b \in Checkers : capability[b] = "ok" => b \in probed

\* The certificate belongs under the key, and its proof was emitted by the solver
\* and accepted by the checker it names.
WasVerified(text, k) ==
    /\ <<text.producer_ay_identity, text.smt2>> = k
    /\ <<text.producer_ay_identity, text.smt2, text.alethe_proof>> \in produced
    /\ <<text.external_clean_checker_identity, text.smt2, text.alethe_proof>> \in checked

\* What mint_into puts under a key is whole, belongs there and was verified before;
\* only two mints of one key that overlap, and so share a staging file, can leave
\* a torn file behind, and no crash can.
PublishedWasVerified ==
    \A k \in Keys \ arrived : store[k] # None =>
        \/ store[k] = Torn /\ k \in overlapped
        \/ store[k] # Torn /\ WasVerified(store[k], k)

=============================================================================
