------------------------ MODULE ProofDischargeProofs ------------------------
(***************************************************************************)
(* A discharge returns Verified only for an unsatisfiable query, windows   *)
(* of the resident process never mix, a recording sees fresh runs only and *)
(* a binary is hashed once per stat key, for every set of threads, solvers *)
(* and queries, every environment and every bound.                         *)
(***************************************************************************)
EXTENDS ProofDischarge, TLAPS

\* Most steps are first-order; those that count or compare name SMT.
USE Zenon

Keys == [id : Versions, q : Queries]

\* The stages a job that saw a recording never reaches.
Keyless ==
    {"canarycheck", "key", "hash", "lookup", "cert", "certcheck", "mint", "minting"}

\* What a job carries at each stage of verify_with_cli_smt2: its key is that of
\* its query, a job that saw a recording has no key, and a query that is minted
\* or returned as Verified is unsatisfiable.
JobOK(j) ==
    /\ j.at \notin {"idle", "returned"} => j.path \in Paths /\ j.q \in Queries
    /\ j.at \in {"lookup", "cert", "certcheck"} => j.key \in Keys /\ j.key.q = j.q
    /\ j.key # None => j.key.q = j.q
    /\ j.at \in {"lock", "write", "read", "anomaly"} => j.script \in Scripts
    /\ j.recording # 0 => j.key = None /\ j.at \notin Keyless
    /\ j.at \in {"mint", "minting"} \/ j.result = "Verified" => j.q \in Unsat

JobInv == job \in [Threads -> Jobs] /\ \A t \in Threads : JobOK(job[t])

\* A query that is memoized or recorded is unsatisfiable.
ProofInv ==
    /\ memo \subseteq Keys /\ \A m \in memo : m.q \in Unsat
    /\ recorder \in (SUBSET Queries) \union {None} /\ (recorder # None => recorder \subseteq Unsat)

\* The thread inside run_solver_via_server holds the slot, with a process of
\* its solver and a window of its script.
LockInv ==
    /\ \A t \in Threads : job[t].at \in {"write", "read"} <=> holder = t
    /\ holder # None =>
          /\ server \in Servers /\ server.solver.path = job[holder].path
          /\ window.script = job[holder].script

\* Nothing of an earlier query is in a pipe when a window opens, and while it
\* is read what is in a pipe belongs to it.
PipeInv ==
    /\ \/ holder = None /\ server # None
       \/ holder # None /\ job[holder].at = "write"
       => server.stdin = <<>> /\ server.line = None
    /\ holder # None /\ job[holder].at = "read" =>
          \/ /\ server.stdin = <<window.script>>
             /\ server.line # None => /\ server.line.kind # "sentinel"
                                      /\ server.line.script = window.script
          \/ /\ server.stdin = <<>>
             /\ server.line.kind = "sentinel" /\ server.line.script = window.script
    /\ WindowsNeverMix

\* A job saw a recording that has begun.
RecordingInv ==
    /\ recordings \in 0..env.recordings /\ discharges \in 0..MaxDischarges
    /\ recorder # None => recordings > 0
    /\ \A t \in Threads : job[t].recording <= recordings
    /\ RecorderSeesFreshRuns

-----------------------------------------------------------------------------
(* What an action does to the job of its thread                            *)

\* Goto moves a job and changes nothing else.
LEMMA GotoJob ==
    ASSUME job \in [Threads -> Jobs], NEW t \in Threads, NEW at \in Stages, Goto(t, at)
    PROVE  /\ job' \in [Threads -> Jobs]
           /\ job'[t].at = at /\ job'[t].path = job[t].path /\ job'[t].q = job[t].q
           /\ job'[t].recording = job[t].recording /\ job'[t].key = job[t].key
           /\ job'[t].script = job[t].script /\ job'[t].result = job[t].result
           /\ \A s \in Threads \ {t} : job'[s] = job[s]
<1>1. job[t] \in Jobs
  OBVIOUS
<1>2. [job[t] EXCEPT !.at = at] \in Jobs
  BY <1>1 DEF Jobs
<1>3. job' = [job EXCEPT ![t] = [job[t] EXCEPT !.at = at]]
  BY DEF Goto
<1> QED
  BY <1>1, <1>2, <1>3 DEF Jobs

\* Returns ends a job with its result (the returns of verify_with_cli_smt2).
LEMMA ReturnsJob ==
    ASSUME job \in [Threads -> Jobs], NEW t \in Threads, NEW r \in Results, Returns(t, r)
    PROVE  /\ job' \in [Threads -> Jobs]
           /\ job'[t].at = "returned" /\ job'[t].q = job[t].q /\ job'[t].result = r
           /\ job'[t].recording = 0 /\ job'[t].key = None
           /\ \A s \in Threads \ {t} : job'[s] = job[s]
<1>1. job[t] \in Jobs
  OBVIOUS
<1>2. [Idle EXCEPT !.at = "returned", !.q = job[t].q, !.result = r] \in Jobs
  BY <1>1 DEF Jobs, Idle, Stages, Undeadlined
<1> QED
  BY <1>1, <1>2 DEF Returns, Idle

\* Keyed files the identity with the query, or goes on without a key
\* (session_proof_cache_key).
LEMMA KeyedJob ==
    ASSUME job \in [Threads -> Jobs], NEW t \in Threads, NEW id \in Versions \union {None},
           job[t].q \in Queries, Keyed(t, id)
    PROVE  /\ job' \in [Threads -> Jobs]
           /\ job'[t].at \in {"gate", "lookup"}
           /\ job'[t].at = "lookup" => job'[t].key \in Keys /\ job'[t].key.q = job[t].q
           /\ job'[t].key # None => job'[t].key.q = job[t].q
           /\ job'[t].path = job[t].path /\ job'[t].q = job[t].q
           /\ job'[t].recording = job[t].recording
           /\ job'[t].script = job[t].script /\ job'[t].result = job[t].result
           /\ \A s \in Threads \ {t} : job'[s] = job[s]
<1> DEFINE at == IF id = None THEN "gate" ELSE "lookup"
           key == IF id = None THEN None ELSE [id |-> id, q |-> job[t].q]
<1>1. job[t] \in Jobs
  OBVIOUS
<1>2. [job[t] EXCEPT !.at = at, !.key = key] \in Jobs
  BY <1>1, ZenonT(30) DEF Jobs, Stages, Undeadlined
<1>3. job' = [job EXCEPT ![t] = [job[t] EXCEPT !.at = at, !.key = key]]
  BY DEF Keyed
<1> QED
  BY <1>1, <1>2, <1>3 DEF Jobs, Keys

-----------------------------------------------------------------------------
(* The identity memo                                                       *)

IdentityInv ==
    /\ IdentityTypeOK /\ HashOnce
    /\ \A c \in Callers : hashCall[c].at \in {"wait", "read"} => hashCall[c].stat \in Versions

\* The stat of a path is a stat key (solver_identity_hash).
LEMMA CurrentTyped ==
    ASSUME IdentityTypeOK, NEW p \in Paths
    PROVE  Current(p) \in Versions
BY DEF IdentityTypeOK, Current, Versions

\* A caller that is not reading may change its call to one that is not
\* reading (the entry and the exit of solver_identity_hash).
LEMMA CallChanges ==
    ASSUME IdentityInv, NEW c \in Callers, NEW f \in HashCalls, f.at # "read",
           f.at = "wait" => f.stat \in Versions,
           hashCall' = [hashCall EXCEPT ![c] = f], UNCHANGED <<env, binary, slots>>,
           misses' \in 0..BlockAfter, warmed' \in BOOLEAN
    PROVE  IdentityInv'
BY DEF IdentityInv, IdentityTypeOK, HashOnce

\* A call waits, with the stat key of its path (solver_identity_hash).
LEMMA WaitTyped ==
    ASSUME IdentityTypeOK, NEW p \in Paths
    PROVE  [NoCall EXCEPT !.at = "wait", !.stat = Current(p)] \in HashCalls
BY CurrentTyped DEF NoCall, HashCalls

\* LockSlot takes a slot nobody reads, and ReadBinary resolves only the slot
\* its caller holds.
LEMMA IdentityStepKeeps ==
    ASSUME IdentityInv, NEW c \in Callers, IdentityStep(c), UNCHANGED env
    PROVE  IdentityInv'
<1> USE DEF IdentityInv, IdentityTypeOK
<1>0. hashCall[c] \in HashCalls
  OBVIOUS
<1>1. CASE LockSlot(c)
  <2> DEFINE s == hashCall[c].stat
             f == [hashCall[c] EXCEPT !.at = IF slots[s] # None THEN "done" ELSE "read",
                                      !.hash = slots[s]]
  <2>1. /\ hashCall[c].at = "wait" /\ ~SlotLocked(s)
        /\ hashCall' = [hashCall EXCEPT ![c] = f] /\ UNCHANGED <<binary, slots, misses, warmed>>
    BY <1>1 DEF LockSlot
  <2>2. s \in Versions /\ slots[s] \in Versions \union {None}
    BY <2>1
  <2>3. /\ f \in HashCalls /\ f.stat = s /\ f.at \in {"done", "read"}
        /\ f.at = "read" => slots[s] = None
    BY <1>0, <2>2 DEF HashCalls
  <2>4. \A d \in Callers : hashCall[d].at = "read" => hashCall[d].stat # s
    BY <2>1 DEF SlotLocked
  <2> HIDE DEF f
  <2> QED
    BY <2>1, <2>2, <2>3, <2>4, SMT DEF HashOnce
<1>2. CASE ReadBinary(c)
  <2> DEFINE s == hashCall[c].stat
             h == Current(s.path)
             f == [hashCall[c] EXCEPT !.at = "done", !.hash = h]
  <2>1. /\ hashCall[c].at = "read" /\ slots' = [slots EXCEPT ![s] = h]
        /\ hashCall' = [hashCall EXCEPT ![c] = f] /\ UNCHANGED <<binary, misses, warmed>>
    BY <1>2 DEF ReadBinary
  <2>2. s \in Versions /\ h \in Versions
    BY <2>1, CurrentTyped DEF Versions
  <2>3. f \in HashCalls /\ f.at = "done"
    BY <1>0, <2>2 DEF HashCalls
  <2> HIDE DEF f, h
  <2> QED
    BY <2>1, <2>2, <2>3 DEF HashOnce
<1>3. CASE ReadFails(c)
  <2> DEFINE f == [hashCall[c] EXCEPT !.at = "done"]
  <2>1. hashCall' = [hashCall EXCEPT ![c] = f] /\ UNCHANGED <<binary, slots, misses, warmed>>
    BY <1>3 DEF ReadFails
  <2>2. f \in HashCalls /\ f.at = "done"
    BY <1>0 DEF HashCalls
  <2> HIDE DEF f
  <2> QED
    BY <2>1, <2>2 DEF HashOnce
<1> QED
  BY <1>1, <1>2, <1>3 DEF IdentityStep

\* A further hash of a solver resolves a slot nobody reads (Rehash).
LEMMA RehashKeeps ==
    ASSUME IdentityInv, NEW t \in Threads, job[t].path \in Paths, Rehash(t), UNCHANGED env
    PROVE  IdentityInv'
<1> DEFINE s == Current(job[t].path)
<1>1. s \in Versions
  BY CurrentTyped DEF IdentityInv
<1>2. \A d \in Callers : hashCall[d].at = "read" => hashCall[d].stat # s
  BY DEF Rehash, SlotLocked
<1>3. /\ slots' = [slots EXCEPT ![s] = IF slots[s] = None THEN s ELSE slots[s]]
      /\ UNCHANGED <<binary, hashCall, misses, warmed>>
  BY DEF Rehash
<1> HIDE DEF s
<1> QED
  BY <1>1, <1>2, <1>3 DEF IdentityInv, IdentityTypeOK, HashOnce

\* Warm is a caller, and so is every thread.
LEMMA AllCallers == Warm \in Callers /\ Threads \subseteq Callers /\ NoCall \in HashCalls
BY DEF Callers, NoCall, HashCalls

\* start_solver_identity_warm makes the warm-up thread wait, or changes nothing.
LEMMA StartWarmKeeps ==
    ASSUME IdentityInv, hashCall' = StartWarm, UNCHANGED <<env, binary, slots>>,
           misses' \in 0..BlockAfter, warmed' \in BOOLEAN
    PROVE  IdentityInv'
<1> DEFINE f == [NoCall EXCEPT !.at = "wait", !.stat = Current(DefaultPath)]
<1>1. f \in HashCalls /\ f.at = "wait" /\ f.stat \in Versions
  BY WaitTyped, CurrentTyped, IdentityAssumption DEF IdentityInv, NoCall
<1>2. CASE hashCall' = hashCall
  BY <1>2 DEF IdentityInv, IdentityTypeOK, HashOnce
<1>3. CASE hashCall' = [hashCall EXCEPT ![Warm] = f]
  <2> HIDE DEF f
  <2> QED
    BY <1>1, <1>3, AllCallers, CallChanges
<1> QED
  BY <1>2, <1>3, SMTT(30) DEF StartWarm, CallHash

\* Every step keeps the identity memo well formed and hashes a binary once.
LEMMA IdentityKeeps ==
    ASSUME IdentityInv, JobInv, [Next]_vars
    PROVE  IdentityInv'
<1>1. CASE UNCHANGED <<env, identityVars>>
  BY <1>1 DEF IdentityInv, IdentityTypeOK, HashOnce, identityVars
<1>2. ASSUME NEW t \in Threads, KeyBlocking(t), UNCHANGED env
      PROVE  IdentityInv'
  <2> DEFINE f == [NoCall EXCEPT !.at = "wait", !.stat = Current(job[t].path)]
  <2>1. job[t].path \in Paths
    BY <1>2 DEF KeyBlocking, JobInv, JobOK
  <2>2. f \in HashCalls /\ f.at = "wait" /\ f.stat \in Versions
    BY <2>1, WaitTyped, CurrentTyped DEF IdentityInv, NoCall
  <2>3. /\ hashCall' = [hashCall EXCEPT ![t] = f] /\ UNCHANGED <<binary, slots>>
        /\ misses' \in 0..BlockAfter /\ warmed' \in BOOLEAN
    BY <1>2 DEF KeyBlocking, CallHash, IdentityInv, IdentityTypeOK
  <2> HIDE DEF f
  <2> QED
    BY <1>2, <2>2, <2>3, AllCallers, CallChanges
<1>3. ASSUME NEW t \in Threads, KeyIfReady(t), UNCHANGED env, ~UNCHANGED identityVars
      PROVE  IdentityInv'
  <2> DEFINE f == [NoCall EXCEPT !.at = "wait", !.stat = Current(DefaultPath)]
  <2>1. /\ UNCHANGED <<binary, slots>> /\ warmed' \in BOOLEAN
        /\ misses' = IF misses < BlockAfter THEN misses + 1 ELSE misses
        /\ hashCall' = StartWarm \/ hashCall' = [StartWarm EXCEPT ![t] = f]
    BY <1>3 DEF KeyIfReady
  <2>2. misses' \in 0..BlockAfter
    BY <2>1, IdentityAssumption, SMT DEF IdentityInv, IdentityTypeOK
  <2>3. f \in HashCalls /\ f.at = "wait" /\ f.stat \in Versions
    BY WaitTyped, CurrentTyped, IdentityAssumption DEF IdentityInv, NoCall
  <2>4. CASE hashCall' = StartWarm
    BY <1>3, <2>1, <2>2, <2>4, StartWarmKeeps
  <2>5. CASE hashCall' = [StartWarm EXCEPT ![t] = f]
    <3>1. StartWarm = hashCall \/ StartWarm = [hashCall EXCEPT ![Warm] = f]
      BY DEF StartWarm, CallHash
    <3> HIDE DEF f
    <3> QED
      BY <1>3, <2>1, <2>2, <2>3, <2>5, <3>1, AllCallers, SMT DEF IdentityInv, IdentityTypeOK, HashOnce
  <2> QED
    BY <2>1, <2>4, <2>5
<1>4. ASSUME NEW t \in Threads, KeyHashed(t), UNCHANGED env
      PROVE  IdentityInv'
  <2>1. /\ hashCall' = [hashCall EXCEPT ![t] = NoCall] /\ UNCHANGED <<binary, slots>>
        /\ misses' \in 0..BlockAfter /\ warmed' \in BOOLEAN
    BY <1>4 DEF KeyHashed, IdentityInv, IdentityTypeOK
  <2>2. NoCall.at = "out"
    BY DEF NoCall
  <2> QED
    BY <1>4, <2>1, <2>2, AllCallers, CallChanges
<1>5. ASSUME NEW t \in Threads, UNCHANGED env,
             CertAsk(t) \/ CertMiss(t) \/ MintDeclines(t) \/ Mint(t) \/ Minted(t)
      PROVE  IdentityInv'
  <2>1. job[t].path \in Paths
    BY <1>5 DEF CertAsk, CertMiss, MintDeclines, Mint, Minted, JobInv, JobOK
  <2>2. CASE Rehash(t)
    BY <1>5, <2>1, <2>2, RehashKeeps
  <2> QED
    BY <1>1, <1>5, <2>2 DEF CertAsk, CertMiss, MintDeclines, Mint, Minted
<1>6. ASSUME NEW c \in Callers, Hash(c), UNCHANGED env
      PROVE  IdentityInv'
  BY <1>6, IdentityStepKeeps DEF Hash
<1>7. CASE InitWarm /\ UNCHANGED env
  BY <1>7, StartWarmKeeps DEF InitWarm, IdentityInv, IdentityTypeOK
<1>8. CASE WarmDone /\ UNCHANGED env
  <2>1. /\ hashCall' = [hashCall EXCEPT ![Warm] = NoCall] /\ UNCHANGED <<binary, slots>>
        /\ misses' \in 0..BlockAfter /\ warmed' \in BOOLEAN
    BY <1>8 DEF WarmDone, IdentityInv, IdentityTypeOK
  <2>2. NoCall.at = "out"
    BY DEF NoCall
  <2> QED
    BY <1>8, <2>1, <2>2, AllCallers, CallChanges
<1>9. ASSUME NEW p \in Paths, ReplaceBinary(p), UNCHANGED env
      PROVE  IdentityInv'
  <2>1. binary[p] < env.reinstalls /\ env.reinstalls \in 0..MaxReplacements
    BY <1>9, IdentityAssumption DEF ReplaceBinary, IdentityInv, IdentityTypeOK
  <2>2. binary' \in [Paths -> 0..MaxReplacements]
    BY <1>9, <2>1, IdentityAssumption, SMT DEF ReplaceBinary, IdentityInv, IdentityTypeOK
  <2> QED
    BY <1>9, <2>2 DEF ReplaceBinary, IdentityInv, IdentityTypeOK, HashOnce
<1> QED
  <2>1. CASE UNCHANGED vars
    BY <1>1, <2>1 DEF vars
  <2>2. ASSUME NEW t \in Threads, Advance(t), UNCHANGED env
        PROVE  IdentityInv'
    BY <1>1, <1>2, <1>3, <1>4, <1>5, <2>2
       DEF Advance, CanaryAsk, CanaryHit, CanaryMiss, KeyDeclined, MemoHit, MemoMiss, CertHit, Gate,
           Acquire, Write, Recv, Completed, AskModel, TimedOut, Anomaly, MarkUnusable, Fresh, Checked,
           FreshModel
  <2>3. ASSUME Step, UNCHANGED env
        PROVE  IdentityInv'
    BY <1>1, <1>6, <1>7, <1>8, <1>9, <2>2, <2>3
       DEF Step, Discharge, ProcessStep, RecordBegin, RecordTake
  <2> QED
    BY <2>1, <2>3 DEF Next

-----------------------------------------------------------------------------
(* The jobs                                                                *)

\* A job goes on to a stage that asks nothing more of it.
LEMMA GotoOK ==
    ASSUME JobInv, NEW t \in Threads, NEW at \in Stages, Goto(t, at),
           job[t].at \notin {"idle", "returned"},
           at \notin Keyless,
           at \in {"write", "read", "anomaly", "lock"} => job[t].script \in Scripts
    PROVE  JobInv'
<1>1. /\ job' \in [Threads -> Jobs]
      /\ job'[t].at = at /\ job'[t].path = job[t].path /\ job'[t].q = job[t].q
      /\ job'[t].recording = job[t].recording /\ job'[t].key = job[t].key
      /\ job'[t].script = job[t].script /\ job'[t].result = job[t].result
      /\ \A s \in Threads \ {t} : job'[s] = job[s]
  BY GotoJob DEF JobInv
<1> QED
  BY <1>1, SMT DEF JobInv, JobOK, Keyless

\* A job returns, with Verified only for an unsatisfiable query.
LEMMA ReturnsOK ==
    ASSUME JobInv, NEW t \in Threads, NEW r \in Results, Returns(t, r),
           r = "Verified" => job[t].q \in Unsat
    PROVE  JobInv'
<1>1. /\ job' \in [Threads -> Jobs]
      /\ job'[t].at = "returned" /\ job'[t].q = job[t].q /\ job'[t].result = r
      /\ job'[t].recording = 0 /\ job'[t].key = None
      /\ \A s \in Threads \ {t} : job'[s] = job[s]
  BY ReturnsJob DEF JobInv
<1> QED
  BY <1>1 DEF JobInv, JobOK

\* session_proof_cache_key gives a job that saw no recording its key.
LEMMA KeyedOK ==
    ASSUME JobInv, NEW t \in Threads, NEW id \in Versions \union {None},
           job[t].at \in {"key", "hash"}, Keyed(t, id)
    PROVE  JobInv'
<1>1. job[t].q \in Queries /\ job[t].path \in Paths /\ job[t].recording = 0
  BY DEF JobInv, JobOK, Keyless
<1>2. /\ job' \in [Threads -> Jobs]
      /\ job'[t].at \in {"gate", "lookup"}
      /\ job'[t].at = "lookup" => job'[t].key \in Keys /\ job'[t].key.q = job[t].q
      /\ job'[t].key # None => job'[t].key.q = job[t].q
      /\ job'[t].path = job[t].path /\ job'[t].q = job[t].q
      /\ job'[t].recording = job[t].recording
      /\ job'[t].script = job[t].script /\ job'[t].result = job[t].result
      /\ \A s \in Threads \ {t} : job'[s] = job[s]
  BY <1>1, KeyedJob DEF JobInv
<1> QED
  BY <1>1, <1>2, SMT DEF JobInv, JobOK

\* Replacing one job by a well-formed one.
LEMMA JobSet ==
    ASSUME JobInv, NEW t \in Threads, NEW j \in Jobs, JobOK(j), job' = [job EXCEPT ![t] = j]
    PROVE  JobInv'
BY DEF JobInv, JobOK

\* A job asks the resident process (Gate, AskModel).
LEMMA AskedOK ==
    ASSUME JobInv, NEW t \in Threads, job[t].at \in {"gate", "model"}, nextSeq \in Nat,
           NEW ask \in {"verdict", "model"},
           job' = [job EXCEPT ![t].at = "lock", ![t].script = Asked(job[t].q, ask, nextSeq)]
    PROVE  JobInv'
<1> DEFINE sc == Asked(job[t].q, ask, nextSeq)
           j == [job[t] EXCEPT !.at = "lock", !.script = sc]
<1>1. job[t] \in Jobs /\ job[t].q \in Queries /\ job[t].path \in Paths
  BY DEF JobInv, JobOK
<1>2. sc \in Scripts
  BY <1>1 DEF Asked, Scripts
<1> HIDE DEF sc
<1>3. /\ j \in Jobs /\ j.at = "lock" /\ j.script = sc /\ j.path = job[t].path /\ j.q = job[t].q
      /\ j.recording = job[t].recording /\ j.key = job[t].key /\ j.result = job[t].result
  BY <1>1, <1>2 DEF Jobs, Stages, Undeadlined
<1>4. job' = [job EXCEPT ![t] = j]
  BY DEF sc
<1>5. JobOK(j)
  BY <1>1, <1>2, <1>3 DEF JobInv, JobOK, Keyless
<1> QED
  BY <1>3, <1>4, <1>5, JobSet

\* A discharge in progress stays well formed, whatever its tiers answer.
LEMMA AdvanceKeepsJobs ==
    ASSUME IdentityInv, ResidentTypeOK, JobInv, ProofInv, NEW t \in Threads, Advance(t)
    PROVE  JobInv'
<1>0. job \in [Threads -> Jobs] /\ JobOK(job[t])
  BY DEF JobInv
<1>1. CASE CanaryAsk(t) \/ CanaryHit(t)
  <2>1. CASE CanaryAsk(t)
    <3>1. Goto(t, "canarycheck") /\ job[t].at = "canary" /\ job[t].recording = 0
      BY <2>1 DEF CanaryAsk
    <3> QED
      BY <1>0, <3>1, GotoJob, SMT DEF JobInv, JobOK, Keyless, Stages, Undeadlined
  <2>2. CASE CanaryHit(t)
    BY <2>2, ReturnsOK DEF CanaryHit, Refutable, Results
  <2> QED
    BY <1>1, <2>1, <2>2
<1>2. CASE CanaryMiss(t)
  <2>1. CASE NoSolver(t)
    BY <1>2, <2>1, ReturnsOK DEF CanaryMiss, Results
  <2>2. CASE ~NoSolver(t) /\ job[t].recording # 0
    BY <1>2, <2>2, GotoOK, SMTT(30) DEF CanaryMiss, Keyless, Stages, Undeadlined
  <2>3. CASE ~NoSolver(t) /\ job[t].recording = 0
    <3>1. Goto(t, "key") /\ job[t].at \in {"canary", "canarycheck"}
      BY <1>2, <2>3, SMTT(30) DEF CanaryMiss
    <3> QED
      BY <1>0, <2>3, <3>1, GotoJob, SMT DEF JobInv, JobOK, Keyless, Stages, Undeadlined
  <2> QED
    BY <2>1, <2>2, <2>3
<1>3. CASE KeyBlocking(t)
  <2>1. Goto(t, "hash") /\ job[t].at = "key"
    BY <1>3 DEF KeyBlocking
  <2> QED
    BY <1>0, <2>1, GotoJob, SMT DEF JobInv, JobOK, Keyless, Stages, Undeadlined
<1>4. CASE KeyDeclined(t)
  BY <1>4, KeyedOK DEF KeyDeclined
<1>5. CASE KeyIfReady(t)
  <2>1. PICK id \in IfReady(DefaultPath) : Keyed(t, id) \/ Keyed(t, None) \/ Goto(t, "hash")
    BY <1>5 DEF KeyIfReady
  <2>2. id \in Versions \union {None}
    BY IdentityAssumption, CurrentTyped DEF IfReady, IdentityInv, IdentityTypeOK
  <2>3. job[t].at = "key"
    BY <1>5, SMTT(30) DEF KeyIfReady
  <2>4. CASE Goto(t, "hash")
    BY <1>0, <2>3, <2>4, GotoJob, SMT DEF JobInv, JobOK, Keyless, Stages, Undeadlined
  <2> QED
    BY <2>1, <2>2, <2>3, <2>4, KeyedOK
<1>6. CASE KeyHashed(t)
  <2>1. hashCall[t].hash \in Versions \union {None}
    BY AllCallers DEF IdentityInv, IdentityTypeOK, HashCalls
  <2> QED
    BY <1>6, <2>1, KeyedOK DEF KeyHashed
<1>7. CASE MemoHit(t)
  BY <1>0, <1>7, ReturnsOK, SMTT(30) DEF MemoHit, InMemo, ProofInv, JobOK, Results
<1>8. CASE MemoMiss(t)
  <2>1. Goto(t, "cert") /\ job[t].at = "lookup"
    BY <1>8 DEF MemoMiss
  <2> QED
    BY <1>0, <2>1, GotoJob, SMT DEF JobInv, JobOK, Keyless, Stages, Undeadlined
<1>9. CASE CertAsk(t) \/ CertHit(t)
  <2>1. CASE CertAsk(t)
    <3>1. Goto(t, "certcheck") /\ job[t].at = "cert"
      BY <2>1 DEF CertAsk
    <3> QED
      BY <1>0, <3>1, GotoJob, SMT DEF JobInv, JobOK, Keyless, Stages, Undeadlined
  <2>2. CASE CertHit(t)
    BY <2>2, ReturnsOK DEF CertHit, Refutable, Results
  <2> QED
    BY <1>9, <2>1, <2>2
<1>10. CASE CertMiss(t)
  BY <1>10, GotoOK DEF CertMiss, Keyless, Stages, Undeadlined
<1>11. CASE Gate(t)
  <2>1. CASE Goto(t, "fresh")
    BY <1>11, <2>1, GotoOK DEF Gate, Keyless, Stages, Undeadlined
  <2>2. CASE job' = [job EXCEPT ![t].at = "lock",
                                ![t].script = Asked(job[t].q, "verdict", nextSeq)]
    BY <1>11, <2>2, AskedOK DEF Gate, ResidentTypeOK
  <2> QED
    BY <1>11, <2>1, <2>2 DEF Gate
<1>12. CASE Acquire(t)
  BY <1>0, <1>12, GotoOK DEF Acquire, Keyless, Stages, Undeadlined, JobOK
<1>13. CASE Write(t)
  BY <1>0, <1>13, GotoOK DEF Write, Keyless, Stages, Undeadlined, JobOK
<1>14. CASE Recv(t)
  BY <1>14 DEF Recv, dischargeVars, JobInv
<1>15. CASE Completed(t)
  <2>1. PICK r \in {"CounterExample", "Timeout", "Unknown", "Error"} :
            Returns(t, r) \/ Goto(t, "replay") \/ Goto(t, "model")
    BY <1>15 DEF Completed, Plain
  <2>2. CASE Returns(t, r)
    BY <2>2, ReturnsOK DEF Results
  <2>3. CASE Goto(t, "replay") \/ Goto(t, "model")
    BY <1>15, <2>3, GotoOK DEF Completed, Keyless, Stages, Undeadlined
  <2> QED
    BY <2>1, <2>2, <2>3
<1>16. CASE AskModel(t)
  BY <1>16, AskedOK DEF AskModel, ResidentTypeOK
<1>17. CASE TimedOut(t)
  BY <1>17, ReturnsOK DEF TimedOut, Results
<1>18. CASE Anomaly(t)
  BY <1>0, <1>18, GotoOK DEF Anomaly, Keyless, Stages, Undeadlined, JobOK
<1>19. CASE MarkUnusable(t)
  BY <1>19, GotoOK DEF MarkUnusable, Keyless, Stages, Undeadlined
<1>20. ASSUME NEW o \in Outputs, NEW proof, Fresh(t, o, proof)
       PROVE  JobInv'
  <2>1. job[t].at \in {"fresh", "replay"}
    BY <1>20 DEF Fresh
  <2>2. ASSUME NEW at \in {"freshmodel", "freshcheck", "replaycheck"}, Goto(t, at)
        PROVE  JobInv'
    BY <2>1, <2>2, GotoOK, SMTT(30) DEF Keyless, Stages, Undeadlined
  <2>3. CASE Returns(t, IF o = "unsat" THEN "Unknown" ELSE Plain(o))
    BY <2>3, ReturnsOK DEF Results, Plain
  <2> QED
    BY <1>20, <2>2, <2>3 DEF Fresh
<1>21. ASSUME NEW o \in Outputs, FreshModel(t, o)
       PROVE  JobInv'
  BY <1>21, ReturnsOK DEF FreshModel, Results
<1>22. ASSUME NEW capable, NEW full, Checked(t, capable, full)
       PROVE  JobInv'
  <2>1. CASE Goto(t, "mint") /\ Promotes(job[t].q, capable, full) /\ job[t].key # None
    <3>1. /\ job[t].q \in Unsat /\ Goto(t, "mint") /\ job[t].key # None
          /\ job[t].at \in {"freshcheck", "replaycheck"}
      BY <1>22, <2>1 DEF Checked, Promotes, Refutable
    <3>2. job[t].recording = 0
      BY <1>0, <3>1 DEF JobOK
    <3> QED
      BY <1>0, <3>1, <3>2, GotoJob, SMTT(60) DEF JobInv, JobOK, Keyless, Stages, Undeadlined
  <2>2. CASE Returns(t, "Verified") /\ Promotes(job[t].q, capable, full)
    BY <2>2, ReturnsOK DEF Results, Promotes, Refutable
  <2>3. CASE Returns(t, "Unknown")
    BY <2>3, ReturnsOK DEF Results
  <2> QED
    BY <1>22, <2>1, <2>2, <2>3 DEF Checked
<1>23. CASE MintDeclines(t) \/ Minted(t)
  BY <1>0, <1>23, ReturnsOK DEF MintDeclines, Minted, Results, JobOK
<1>24. CASE Mint(t)
  <2>1. Goto(t, "minting") /\ job[t].at = "mint"
    BY <1>24 DEF Mint
  <2> QED
    BY <1>0, <2>1, GotoJob, SMT DEF JobInv, JobOK, Keyless, Stages, Undeadlined
<1> QED
  BY Zenon, <1>1, <1>2, <1>3, <1>4, <1>5, <1>6, <1>7, <1>8, <1>9, <1>10, <1>11, <1>12, <1>13, <1>14, <1>15,
     <1>16, <1>17, <1>18, <1>19, <1>20, <1>21, <1>22, <1>23, <1>24 DEF Advance

\* A new discharge is well formed.
LEMMA DischargeKeepsJobs ==
    ASSUME JobInv, recordings \in Nat, NEW t \in Threads, NEW p \in Paths, NEW q \in Queries,
           Discharge(t, p, q)
    PROVE  JobInv'
<1> DEFINE n == IF recorder # None THEN recordings ELSE 0
           j == [Idle EXCEPT !.at = "canary", !.path = p, !.q = q, !.recording = n]
<1>1. n \in Nat
  OBVIOUS
<1> HIDE DEF n
<1>2. j \in Jobs /\ JobOK(j)
  BY <1>1, DischargeAssumption DEF Idle, Jobs, JobOK, Keyless, Stages, Undeadlined, Results
<1>3. job' = [job EXCEPT ![t] = j]
  BY DEF Discharge, n
<1> QED
  BY <1>2, <1>3, JobSet

\* Every step keeps the discharges well formed.
LEMMA JobsKeep ==
    ASSUME IdentityInv, ResidentTypeOK, JobInv, ProofInv, recordings \in Nat, [Next]_vars
    PROVE  JobInv'
<1>1. CASE UNCHANGED job
  BY <1>1 DEF JobInv
<1> QED
  BY <1>1, AdvanceKeepsJobs, DischargeKeepsJobs
     DEF Next, Step, Hash, dischargeVars, vars, RecordBegin, RecordTake

\* A step of a thread leaves the jobs of the others alone.
LEMMA OtherJobs ==
    ASSUME job \in [Threads -> Jobs], NEW t \in Threads, Advance(t)
    PROVE  \A s \in Threads \ {t} : job'[s] = job[s]
BY ZenonT(30) DEF Advance, CanaryAsk, CanaryHit, CanaryMiss, KeyBlocking, KeyDeclined, KeyIfReady, KeyHashed, MemoHit,
       MemoMiss, CertAsk, CertHit, CertMiss, Gate, Acquire, Write, Recv, Completed, AskModel, TimedOut,
       Anomaly, MarkUnusable, Fresh, Checked, FreshModel, MintDeclines, Mint, Minted, Goto, Returns, Keyed, dischargeVars

\* What is memoized and recorded was accepted by a checker.
LEMMA ProofsKeep ==
    ASSUME IdentityInv, JobInv, ProofInv, [Next]_vars
    PROVE  ProofInv'
<1>1. CASE UNCHANGED <<memo, recorder>>
  BY <1>1, SMTT(30) DEF ProofInv
<1>2. ASSUME NEW t \in Threads, job[t].q \in Unsat, Store(t)
      PROVE  memo' \subseteq Keys /\ \A m \in memo' : m.q \in Unsat
  <2>1. job[t].key # None => job[t].key \in Keys /\ job[t].key.q \in Unsat
    BY <1>2 DEF JobInv, JobOK, Jobs, Keys
  <2> QED
    BY <1>2, <2>1 DEF Store, ProofInv
<1>3. ASSUME NEW t \in Threads, CertHit(t)
      PROVE  ProofInv'
  <2>1. job[t].q \in Unsat /\ Store(t) /\ UNCHANGED recorder
    BY <1>3 DEF CertHit, Refutable
  <2> QED
    BY <1>2, <2>1, SMTT(30) DEF ProofInv
<1>4. ASSUME NEW t \in Threads, NEW capable, NEW full, Checked(t, capable, full)
      PROVE  ProofInv'
  <2>1. CASE Store(t) /\ Record(t) /\ Promotes(job[t].q, capable, full)
    <3>1. job[t].q \in Unsat /\ job[t].q \in Queries
      BY <1>4, <2>1 DEF Checked, Promotes, Refutable, JobInv, JobOK
    <3> QED
      BY <1>2, <2>1, <3>1, SMTT(30) DEF Record, ProofInv
  <2> QED
    BY <1>1, <1>4, <2>1, SMTT(30) DEF Checked
<1>5. CASE RecordBegin \/ RecordTake
  <2>1. memo' = memo /\ (recorder' = {} \/ recorder' = None)
    BY <1>5 DEF RecordBegin, RecordTake
  <2>2. CASE recorder' = {}
    BY <2>1, <2>2 DEF ProofInv
  <2>3. CASE recorder' = None
    BY <2>1, <2>3 DEF ProofInv
  <2> QED
    BY <2>1, <2>2, <2>3
<1>6. ASSUME NEW t \in Threads, Advance(t)
      PROVE  ProofInv'
  BY <1>1, <1>3, <1>4, <1>6
     DEF Advance, CanaryAsk, CanaryHit, CanaryMiss, KeyBlocking, KeyDeclined, KeyIfReady, KeyHashed, MemoHit,
         MemoMiss, CertAsk, CertMiss, Gate, Acquire, Write, Recv, Completed, AskModel, TimedOut, Anomaly,
         MarkUnusable, Fresh, FreshModel, MintDeclines, Mint, Minted, dischargeVars
<1> QED
  BY <1>1, <1>5, <1>6 DEF Next, Step, Discharge, Hash, dischargeVars, vars

\* A job that saw the running recording goes from the embedded certificates to
\* a fresh process, and to nothing else.
LEMMA AdvanceKeepsRecording ==
    ASSUME JobInv, RecordingInv, env.recordings \in Nat, UNCHANGED env, NEW t \in Threads, Advance(t)
    PROVE  RecordingInv'
<1> DEFINE Fresher == {"canary", "gate", "fresh", "freshcheck", "freshmodel"}
<1>0. job \in [Threads -> Jobs] /\ JobOK(job[t]) /\ recordings \in Nat
  BY SMTT(30) DEF JobInv, RecordingInv
<1>1. /\ UNCHANGED <<recordings, discharges>> /\ (recorder' # None => recorder # None)
  BY DEF Advance, CanaryAsk, CanaryHit, CanaryMiss, KeyBlocking, KeyDeclined, KeyIfReady, KeyHashed, MemoHit,
         MemoMiss, CertAsk, CertHit, CertMiss, Gate, Acquire, Write, Recv, Completed, AskModel, TimedOut,
         Anomaly, MarkUnusable, Fresh, Checked, FreshModel, MintDeclines, Mint, Minted, Record, dischargeVars
<1>2. job'[t].recording \in {0, job[t].recording}
  <2>1. \/ \E at : Goto(t, at)
        \/ \E r : Returns(t, r)
        \/ \E id : Keyed(t, id)
        \/ UNCHANGED job
        \/ \E sc : job' = [job EXCEPT ![t].at = "lock", ![t].script = sc]
    BY Zenon
       DEF Advance, CanaryAsk, CanaryHit, CanaryMiss, KeyBlocking, KeyDeclined, KeyIfReady, KeyHashed, MemoHit,
           MemoMiss, CertAsk, CertHit, CertMiss, Gate, Acquire, Write, Recv, Completed, AskModel, TimedOut,
           Anomaly, MarkUnusable, Fresh, Checked, FreshModel, MintDeclines, Mint, Minted, dischargeVars
  <2>2. ASSUME NEW r, Returns(t, r)
        PROVE  job'[t].recording = 0
    BY <1>0, <2>2 DEF Returns, Idle
  <2>3. ASSUME NEW at, NEW key, NEW sc, \/ Goto(t, at)
                                        \/ Keyed(t, key)
                                        \/ job' = [job EXCEPT ![t].at = "lock", ![t].script = sc]
        PROVE  job'[t].recording = job[t].recording
    BY <1>0, <2>3 DEF Goto, Keyed, Jobs
  <2> QED
    BY <2>1, <2>2, <2>3
<1>3. ASSUME recorder' # None, job'[t].recording = recordings
      PROVE  job'[t].at \in Fresher
  <2>1. /\ job[t].recording = recordings /\ recordings # 0 /\ recorder # None
        /\ job[t].at \in Fresher /\ job[t].key = None
    BY <1>0, <1>1, <1>2, <1>3, SMT DEF RecordingInv, RecorderSeesFreshRuns, JobOK
  <2>2. ASSUME NEW r, Returns(t, r)
        PROVE  FALSE
    BY <1>0, <1>3, <2>1, <2>2, SMTT(30) DEF Returns, Idle
  <2>3. \E at \in Fresher : Goto(t, at)
    BY <2>1, <2>2
       DEF Advance, CanaryAsk, CanaryHit, CanaryMiss, KeyBlocking, KeyDeclined, KeyIfReady, KeyHashed, MemoHit,
           MemoMiss, CertAsk, CertHit, CertMiss, Gate, Acquire, Write, Recv, Completed, AskModel, TimedOut,
           Anomaly, MarkUnusable, Fresh, Checked, FreshModel, MintDeclines, Mint, Minted, ServerEnabled
  <2> QED
    BY <1>0, <2>3 DEF Goto, Jobs
<1> QED
  BY <1>0, <1>1, <1>2, <1>3, OtherJobs, SMT DEF RecordingInv, RecorderSeesFreshRuns

\* Every step keeps a recording to fresh runs.
LEMMA RecordingKeeps ==
    ASSUME JobInv, RecordingInv, env.recordings \in Nat, [Next]_vars
    PROVE  RecordingInv'
<1>0. job \in [Threads -> Jobs] /\ recordings \in Nat /\ \A t \in Threads : job[t].recording \in Nat
  BY SMT DEF JobInv, RecordingInv, Jobs
<1>1. CASE UNCHANGED <<env, dischargeVars>>
  BY <1>1 DEF RecordingInv, RecorderSeesFreshRuns, dischargeVars
<1>2. ASSUME NEW t \in Threads, NEW p, NEW q, Discharge(t, p, q), UNCHANGED env
      PROVE  RecordingInv'
  <2>1. /\ job'[t].at = "canary" /\ job'[t].recording \in {0, recordings}
        /\ \A s \in Threads \ {t} : job'[s] = job[s]
    BY <1>0, <1>2 DEF Discharge, Idle
  <2>2. discharges' \in 0..MaxDischarges
    BY <1>2, DischargeAssumption, SMT DEF Discharge, RecordingInv
  <2> QED
    BY <1>0, <1>2, <2>1, <2>2, SMT DEF Discharge, RecordingInv, RecorderSeesFreshRuns
<1>3. CASE RecordBegin /\ UNCHANGED env
  <2>1. recordings' = recordings + 1 /\ recordings < env.recordings /\ UNCHANGED <<job, discharges>>
    BY <1>3 DEF RecordBegin
  <2> QED
    BY <1>0, <1>3, <2>1, SMT DEF RecordingInv, RecorderSeesFreshRuns
<1>4. CASE RecordTake /\ UNCHANGED env
  BY <1>4 DEF RecordTake, RecordingInv, RecorderSeesFreshRuns
<1> QED
  BY <1>1, <1>2, <1>3, <1>4, AdvanceKeepsRecording DEF Next, Step, Hash, dischargeVars, vars

-----------------------------------------------------------------------------
(* The resident process                                                    *)

ResidentInv == ResidentTypeOK /\ LockInv /\ PipeInv

\* A thread outside run_solver_via_server does not disturb the window of the
\* thread inside it.
LEMMA OutsideKeeps ==
    ASSUME ResidentInv, NEW t \in Threads, UNCHANGED <<server, holder, window>>,
           nextSeq' \in Nat, unusable' \subseteq Paths,
           \A s \in Threads \ {t} : job'[s] = job[s],
           job[t].at \notin {"write", "read"}, job'[t].at \notin {"write", "read"}
    PROVE  ResidentInv'
<1>1. holder # t /\ (holder # None => holder \in Threads /\ job'[holder] = job[holder])
  BY DEF ResidentInv, ResidentTypeOK, LockInv
<1>2. ResidentTypeOK'
  BY DEF ResidentInv, ResidentTypeOK
<1>3. LockInv'
  BY <1>1 DEF ResidentInv, LockInv
<1>4. PipeInv'
  BY <1>1 DEF ResidentInv, PipeInv, WindowsNeverMix
<1> QED
  BY <1>2, <1>3, <1>4 DEF ResidentInv

\* A thread that leaves run_solver_via_server keeps the process only when
\* nothing is left in its pipes.
LEMMA LeaveKeeps ==
    ASSUME ResidentInv, NEW t \in Threads, holder = t, NEW s \in Servers \union {None}, Leave(s),
           s # None => s.stdin = <<>> /\ s.line = None,
           \A u \in Threads \ {t} : job'[u] = job[u], job'[t].at \notin {"write", "read"}
    PROVE  ResidentInv'
<1>1. server' = s /\ holder' = None /\ window' = NoWindow /\ UNCHANGED <<nextSeq, unusable>>
  BY DEF Leave
<1>2. NoWindow \in Windows
  BY DEF NoWindow, Windows
<1>3. ResidentTypeOK'
  BY <1>1, <1>2 DEF ResidentInv, ResidentTypeOK
<1>4. LockInv'
  BY <1>1, IdentityAssumption DEF ResidentInv, LockInv
<1>5. PipeInv'
  BY <1>1 DEF PipeInv, WindowsNeverMix
<1> QED
  BY <1>3, <1>4, <1>5 DEF ResidentInv

\* The process found or spawned for a path is of that path, with empty pipes
\* (AcquireServer).
LEMMA AcquireKeeps ==
    ASSUME IdentityInv, JobInv, ResidentInv, NEW t \in Threads, Acquire(t)
    PROVE  ResidentInv'
<1> DEFINE p == job[t].path
<1>1. /\ job[t].at = "lock" /\ holder = None /\ holder' = t /\ server' = Resident(p)
      /\ window' = [NoWindow EXCEPT !.script = job[t].script]
      /\ UNCHANGED <<nextSeq, unusable>> /\ Goto(t, "write")
  BY DEF Acquire, AcquireServer
<1>2. /\ p \in Paths /\ job[t].script \in Scripts /\ t # None
  BY <1>1, IdentityAssumption DEF JobInv, JobOK
<1>3. /\ job'[t].at = "write" /\ job'[t].path = p /\ job'[t].script = job[t].script
      /\ \A s \in Threads \ {t} : job'[s] = job[s]
  BY <1>1, GotoJob, SMTT(30) DEF JobInv, Stages, Undeadlined
<1>4. Spawn(p) \in Servers /\ Spawn(p).solver.path = p /\ Spawn(p).stdin = <<>> /\ Spawn(p).line = None
  <2>1. Current(p) \in Versions /\ Current(p).path = p
    BY <1>2, CurrentTyped DEF IdentityInv, Current
  <2>2. 0 \in 0..MaxLines /\ <<>> \in Seq(Scripts)
    BY ResidentAssumption, SMT
  <2> QED
    BY <2>1, <2>2, SMTT(30) DEF Spawn, Servers
<1>5. server' \in Servers /\ server'.solver.path = p /\ server'.stdin = <<>> /\ server'.line = None
  BY <1>1, <1>4 DEF Resident, ResidentInv, ResidentTypeOK, PipeInv
<1>6. window' \in Windows /\ window'.script = job[t].script /\ window'.source = None
  BY <1>1, <1>2 DEF Windows, NoWindow
<1>7. ResidentTypeOK'
  BY <1>1, <1>5, <1>6 DEF ResidentInv, ResidentTypeOK
<1>8. LockInv'
  BY <1>1, <1>3, <1>5, <1>6, IdentityAssumption DEF ResidentInv, LockInv
<1>9. PipeInv'
  BY <1>1, <1>3, <1>5, <1>6 DEF PipeInv, WindowsNeverMix
<1> QED
  BY <1>7, <1>8, <1>9 DEF ResidentInv

\* The script is alone in the pipe (WriteScript).
LEMMA WriteKeeps ==
    ASSUME JobInv, ResidentInv, NEW t \in Threads, Write(t)
    PROVE  ResidentInv'
<1>1. /\ job[t].at = "write" /\ Goto(t, "read")
      /\ server' = [server EXCEPT !.stdin = Append(@, window.script)]
      /\ UNCHANGED <<holder, window, nextSeq, unusable>>
  BY DEF Write, WriteScript
<1>2. /\ holder = t /\ t # None /\ server \in Servers /\ server.solver.path = job[t].path
      /\ window.script = job[t].script /\ job[t].script \in Scripts
  BY <1>1, IdentityAssumption DEF ResidentInv, LockInv, JobInv, JobOK
<1>3. server.stdin = <<>> /\ server.line = None
  BY <1>1, <1>2 DEF ResidentInv, PipeInv
<1>4. /\ job'[t].at = "read" /\ job'[t].path = job[t].path /\ job'[t].script = job[t].script
      /\ \A s \in Threads \ {t} : job'[s] = job[s]
  BY <1>1, GotoJob DEF JobInv, Stages, Undeadlined
<1>5. /\ server' \in Servers /\ server'.stdin = <<window.script>> /\ server'.line = None
      /\ server'.solver = server.solver
  <2> DEFINE pipe == <<window.script>>
  <2>1. Append(server.stdin, window.script) = pipe /\ pipe \in Seq(Scripts)
    BY <1>2, <1>3, SMT
  <2>2. server' = [server EXCEPT !.stdin = pipe]
    BY <1>1, <2>1
  <2> HIDE DEF pipe
  <2>3. /\ server' \in Servers /\ server'.stdin = pipe /\ server'.line = server.line
        /\ server'.solver = server.solver
    BY <1>2, <2>1, <2>2 DEF Servers
  <2> QED
    BY <1>3, <2>3 DEF pipe
<1>6. ResidentTypeOK'
  BY <1>1, <1>5 DEF ResidentInv, ResidentTypeOK
<1>7. LockInv'
  BY <1>1, <1>2, <1>4, <1>5 DEF ResidentInv, LockInv
<1>8. PipeInv'
  BY <1>1, <1>2, <1>4, <1>5 DEF ResidentInv, PipeInv, WindowsNeverMix
<1> QED
  BY <1>6, <1>7, <1>8 DEF ResidentInv

\* A line read into a window was printed for it (RecvLine).
LEMMA RecvKeeps ==
    ASSUME JobInv, ResidentInv, NEW t \in Threads, Recv(t)
    PROVE  ResidentInv'
<1> DEFINE l == server.line
           src == [path |-> server.solver.path, script |-> l.script]
<1>1. /\ job[t].at = "read" /\ l # None /\ ~IsSentinel(l)
      /\ server' = [server EXCEPT !.line = None] /\ UNCHANGED <<job, holder, nextSeq, unusable>>
  BY DEF Recv, RecvLine, dischargeVars
<1>2. /\ holder = t /\ t # None /\ server \in Servers /\ server.solver.path = job[t].path
      /\ window.script = job[t].script /\ job[t].script \in Scripts /\ window \in Windows
  BY <1>1, IdentityAssumption DEF ResidentInv, ResidentTypeOK, LockInv, JobInv, JobOK
<1>3. server.stdin = <<window.script>> /\ l.script = window.script
  BY <1>1, <1>2 DEF ResidentInv, PipeInv, IsSentinel
<1>4. /\ server' \in Servers /\ server'.stdin = server.stdin /\ server'.line = None
      /\ server'.solver = server.solver
  BY <1>1, <1>2 DEF Servers
<1>5. src \in [path : Paths, script : Scripts] /\ src.path = job[t].path /\ src.script = window.script
  BY <1>2, <1>3 DEF Servers, Versions
<1>6. /\ window' \in Windows /\ window'.script = window.script
      /\ window'.source = window.source \/ window'.source = src
  <2> HIDE DEF src
  <2>1. CASE l.kind \in Verdicts
    <3> DEFINE v == IF window.verdict = None THEN l.kind ELSE window.verdict
               o == IF window.source = None THEN src ELSE window.source
    <3>1. window' = [window EXCEPT !.count = window.count + 1, !.verdict = v, !.source = o]
      BY <2>1 DEF Recv, RecvLine, src
    <3>2. /\ v \in Verdicts \union {None} /\ window.count + 1 \in Nat
          /\ o \in [path : Paths, script : Scripts] \union {None}
      BY <1>2, <1>5, <2>1, SMT DEF Windows
    <3>3. o = window.source \/ o = src
      OBVIOUS
    <3> HIDE DEF v, o
    <3> QED
      BY <1>2, <3>1, <3>2, <3>3 DEF Windows
  <2>2. CASE l.kind \notin Verdicts
    BY <1>2, <2>2 DEF Recv, RecvLine, Windows
  <2> QED
    BY <2>1, <2>2
<1> HIDE DEF l, src
<1>7. ResidentTypeOK'
  BY <1>1, <1>4, <1>6 DEF ResidentInv, ResidentTypeOK
<1>8. LockInv'
  BY <1>1, <1>2, <1>4, <1>6 DEF ResidentInv, LockInv
<1>9. PipeInv'
  BY <1>1, <1>2, <1>3, <1>4, <1>5, <1>6, SMTT(30) DEF ResidentInv, PipeInv, WindowsNeverMix
<1> QED
  BY <1>7, <1>8, <1>9 DEF ResidentInv

\* A window ends on its own sentinel, with nothing left in the pipes, or the
\* process is dropped (Completed, TimedOut, Anomaly).
LEMMA WindowEndKeeps ==
    ASSUME JobInv, ResidentInv, NEW t \in Threads, Completed(t) \/ TimedOut(t) \/ Anomaly(t), Advance(t),
           job'[t].at \notin {"write", "read"}
    PROVE  ResidentInv'
<1>0. \A s \in Threads \ {t} : job'[s] = job[s]
  BY OtherJobs DEF JobInv
<1>1. job[t].at \in {"write", "read"} => holder = t /\ t # None /\ server \in Servers
  BY IdentityAssumption DEF ResidentInv, LockInv
<1>2. CASE Completed(t)
  <2> DEFINE s == [server EXCEPT !.line = None]
  <2>1. job[t].at = "read" /\ Framed /\ Leave(s)
    BY <1>2 DEF Completed, CompleteWindow
  <2>2. server.stdin = <<>>
    BY <1>1, <2>1 DEF Framed, IsSentinel, ResidentInv, PipeInv
  <2>3. s \in Servers /\ s.stdin = server.stdin /\ s.line = None
    BY <1>1, <2>1 DEF Servers
  <2> HIDE DEF s
  <2> QED
    BY <1>0, <1>1, <2>1, <2>2, <2>3, LeaveKeeps
<1>3. ASSUME job[t].at \in {"write", "read"}, Leave(None)
      PROVE  ResidentInv'
  BY <1>0, <1>1, <1>3, LeaveKeeps
<1>4. CASE TimedOut(t)
  BY <1>3, <1>4, SMTT(30) DEF TimedOut, Deadline
<1>5. CASE job[t].at = "lock" /\ SpawnFails(job[t].path)
  <2>1. holder = None /\ server' = None /\ UNCHANGED <<holder, window, nextSeq, unusable>>
    BY <1>5, SMTT(30) DEF SpawnFails
  <2> QED
    BY <1>0, <1>5, <2>1, IdentityAssumption
       DEF ResidentInv, ResidentTypeOK, LockInv, PipeInv, WindowsNeverMix
<1>6. CASE Anomaly(t) /\ job[t].at # "lock"
  BY <1>3, <1>6 DEF Anomaly, WriteFails, MisframedWindow, Disconnected
<1> QED
  BY <1>2, <1>4, <1>5, <1>6 DEF Anomaly

\* A pipe that holds one script (WriteScript).
LEMMA OneScript ==
    ASSUME NEW S, NEW sc, <<sc>> \in Seq(S)
    PROVE  sc \in S /\ Head(<<sc>>) = sc /\ Tail(<<sc>>) = <<>> /\ <<>> \in Seq(S)
<1>1. <<sc>>[1] \in S /\ Len(<<sc>>) = 1
  BY SMT
<1> QED
  BY <1>1, SMT

\* Whatever the process prints, it prints for the script it was given, and
\* the sentinel last (ProcessStep).
LEMMA ProcessKeeps ==
    ASSUME ResidentInv, ProcessStep, UNCHANGED job
    PROVE  ResidentInv'
<1>0. UNCHANGED <<holder, window, nextSeq, unusable>> /\ server # None /\ server \in Servers
  BY DEF ProcessStep, PrintLine, PrintSentinel, Stops, Busy, ResidentInv, ResidentTypeOK
<1>1. ASSUME Busy
      PROVE  /\ holder # None /\ job[holder].at = "read" /\ server.stdin = <<window.script>>
             /\ Head(server.stdin) = window.script /\ Tail(server.stdin) = <<>>
             /\ window.script \in Scripts /\ <<>> \in Seq(Scripts)
  <2>1. holder # None /\ job[holder].at = "read" /\ server.stdin = <<window.script>>
    BY <1>0, <1>1 DEF Busy, ResidentInv, ResidentTypeOK, LockInv, PipeInv
  <2>2. server.stdin \in Seq(Scripts)
    BY <1>0 DEF Servers
  <2> QED
    BY <2>1, <2>2, OneScript, SMT
<1>2. ASSUME server' \in Servers, server'.solver = server.solver
      PROVE  ResidentTypeOK' /\ LockInv'
  BY <1>0, <1>2 DEF ResidentInv, ResidentTypeOK, LockInv
<1>3. ASSUME NEW k \in Verdicts \union {"error"}, PrintLine(k)
      PROVE  ResidentInv'
  <2> DEFINE l == [kind |-> k, script |-> window.script]
             n == server.printed + 1
  <2>1. Busy /\ server.printed < MaxLines /\ server' = [server EXCEPT !.printed = n, !.line = l]
    BY <1>1, <1>3 DEF PrintLine
  <2>2. n \in 0..MaxLines
    BY <1>0, <2>1, ResidentAssumption, SMT DEF Servers
  <2>3. l \in Lines /\ l.kind = k /\ l.script = window.script /\ k # "sentinel"
    BY <1>1, <2>1 DEF Lines, Verdicts
  <2> HIDE DEF l, n
  <2>4. /\ server' \in Servers /\ server'.solver = server.solver
        /\ server'.stdin = server.stdin /\ server'.line = l
    BY <1>0, <2>1, <2>2, <2>3 DEF Servers
  <2>5. PipeInv'
    BY <1>0, <1>1, <2>1, <2>3, <2>4 DEF ResidentInv, PipeInv, WindowsNeverMix
  <2> QED
    BY <1>2, <2>4, <2>5 DEF ResidentInv
<1>4. CASE PrintSentinel
  <2> DEFINE l == [kind |-> "sentinel", script |-> window.script]
             e == Tail(server.stdin)
  <2>1. Busy /\ server' = [server EXCEPT !.printed = 0, !.stdin = e, !.line = l]
    BY <1>1, <1>4 DEF PrintSentinel
  <2>2. e = <<>> /\ <<>> \in Seq(Scripts)
    BY <1>1, <2>1
  <2>3. l \in Lines /\ l.kind = "sentinel" /\ l.script = window.script
    BY <1>1, <2>1 DEF Lines
  <2> HIDE DEF l, e
  <2>4. e \in Seq(Scripts)
    BY <2>2
  <2>5. 0 \in 0..MaxLines
    BY ResidentAssumption, SMT
  <2>6. /\ server' \in Servers /\ server'.solver = server.solver
        /\ server'.stdin = e /\ server'.line = l
    BY <1>0, <2>1, <2>3, <2>4, <2>5 DEF Servers
  <2>7. PipeInv'
    BY <1>0, <1>1, <2>1, <2>2, <2>3, <2>6 DEF ResidentInv, PipeInv, WindowsNeverMix
  <2> QED
    BY <1>2, <2>6, <2>7 DEF ResidentInv
<1>5. ASSUME NEW how \in {"hung", "dead"}, Stops(how)
      PROVE  ResidentInv'
  <2>1. /\ server' \in Servers /\ server'.solver = server.solver
        /\ server'.stdin = server.stdin /\ server'.line = server.line
    BY <1>0, <1>5 DEF Stops, Servers
  <2>2. PipeInv'
    BY <1>0, <2>1 DEF ResidentInv, PipeInv, WindowsNeverMix
  <2> QED
    BY <1>2, <2>1, <2>2 DEF ResidentInv
<1> QED
  BY <1>3, <1>4, <1>5, SMTT(30) DEF ProcessStep

\* Where a step outside run_solver_via_server takes a job.
LEMMA MovesOutside ==
    ASSUME JobInv, NEW t \in Threads
    PROVE  /\ \A at : Goto(t, at) /\ at \notin {"write", "read"} => job'[t].at \notin {"write", "read"}
           /\ \A r : Returns(t, r) => job'[t].at \notin {"write", "read"}
           /\ \A id : Keyed(t, id) => job'[t].at \notin {"write", "read"}
           /\ \A sc : job' = [job EXCEPT ![t].at = "lock", ![t].script = sc] =>
                     job'[t].at \notin {"write", "read"}
<1>1. job \in [Threads -> Jobs] /\ job[t] \in Jobs
  BY DEF JobInv
<1>2. ASSUME NEW r, Returns(t, r)
      PROVE  job'[t].at = "returned"
  BY <1>1, <1>2 DEF Returns, Idle
<1>3. ASSUME NEW sc, job' = [job EXCEPT ![t].at = "lock", ![t].script = sc]
      PROVE  job'[t].at = "lock"
  BY <1>1, <1>3 DEF Jobs
<1>4. ASSUME NEW id, Keyed(t, id)
      PROVE  job'[t].at \in {"gate", "lookup"}
  <2> DEFINE at == IF id = None THEN "gate" ELSE "lookup"
             key == IF id = None THEN None ELSE [id |-> id, q |-> job[t].q]
  <2>1. at \in {"gate", "lookup"} /\ job' = [job EXCEPT ![t].at = at, ![t].key = key]
    BY <1>4 DEF Keyed
  <2> HIDE DEF at, key
  <2> QED
    BY <1>1, <2>1 DEF Jobs
<1>5. ASSUME NEW at, Goto(t, at)
      PROVE  job'[t].at = at
  BY <1>1, <1>5 DEF Goto, Jobs
<1> QED
  BY <1>2, <1>3, <1>4, <1>5

\* Every step keeps the windows of the resident process apart.
LEMMA ResidentKeeps ==
    ASSUME IdentityInv, JobInv, ResidentInv, [Next]_vars
    PROVE  ResidentInv'
<1>1. CASE UNCHANGED <<residentVars, job>>
  BY <1>1, ZenonT(30) DEF residentVars, ResidentInv, ResidentTypeOK, LockInv, PipeInv, WindowsNeverMix
<1>2. ASSUME NEW t \in Threads, NEW p, NEW q, Discharge(t, p, q)
      PROVE  ResidentInv'
  <2>1. job[t].at \in {"idle", "returned"} /\ job'[t].at = "canary" /\ \A s \in Threads \ {t} : job'[s] = job[s]
    BY <1>2, SMT DEF Discharge, Idle, JobInv
  <2>2. UNCHANGED <<server, holder, window>> /\ nextSeq' \in Nat /\ unusable' \subseteq Paths
    BY <1>2 DEF Discharge, residentVars, ResidentInv, ResidentTypeOK
  <2> QED
    BY <2>1, <2>2, OutsideKeeps
<1>3. ASSUME NEW t \in Threads, Advance(t)
      PROVE  ResidentInv'
  <2> DEFINE Outside ==
        /\ UNCHANGED <<server, holder, window>> /\ nextSeq' \in Nat /\ unusable' \subseteq Paths
        /\ job[t].at \notin {"write", "read"} /\ job'[t].at \notin {"write", "read"}
  <2>0. nextSeq \in Nat /\ nextSeq + 1 \in Nat /\ unusable \subseteq Paths /\ JobOK(job[t])
    BY SMT DEF ResidentInv, ResidentTypeOK, JobInv
  <2>1. CASE Outside
    BY <1>3, <2>1, OtherJobs, OutsideKeeps DEF JobInv
  <2>2. CASE CanaryAsk(t) \/ CanaryHit(t) \/ CanaryMiss(t) \/ MemoHit(t) \/ MemoMiss(t) \/ CertAsk(t)
             \/ CertHit(t) \/ CertMiss(t) \/ MintDeclines(t) \/ Mint(t) \/ Minted(t)
    BY <2>0, <2>1, <2>2, MovesOutside DEF CanaryAsk, CanaryHit, CanaryMiss, MemoHit, MemoMiss, CertAsk,
          CertHit, CertMiss, MintDeclines, Mint, Minted, residentVars
  <2>3. CASE KeyBlocking(t) \/ KeyDeclined(t) \/ KeyIfReady(t) \/ KeyHashed(t)
    BY <2>0, <2>1, <2>3, MovesOutside DEF KeyBlocking, KeyDeclined, KeyIfReady, KeyHashed, residentVars
  <2>4. CASE Gate(t) \/ AskModel(t)
    BY <2>0, <2>1, <2>4, MovesOutside DEF Gate, AskModel
  <2>5. CASE MarkUnusable(t)
    <3>1. unusable' \subseteq Paths
      BY <2>0, <2>5 DEF MarkUnusable, JobOK
    <3> QED
      BY <2>0, <2>1, <2>5, <3>1, MovesOutside DEF MarkUnusable
  <2>6. ASSUME NEW o, NEW proof, NEW capable, NEW full,
               Fresh(t, o, proof) \/ Checked(t, capable, full) \/ FreshModel(t, o)
        PROVE  ResidentInv'
    BY <2>0, <2>1, <2>6, MovesOutside DEF Fresh, Checked, FreshModel, residentVars
  <2>7. CASE Completed(t) \/ TimedOut(t) \/ Anomaly(t)
    <3>1. job'[t].at \notin {"write", "read"}
      BY <2>7, MovesOutside DEF Completed, TimedOut, Anomaly
    <3> QED
      BY <1>3, <2>7, <3>1, WindowEndKeeps
  <2> HIDE DEF Outside
  <2> QED
    BY <1>3, <2>2, <2>3, <2>4, <2>5, <2>6, <2>7, AcquireKeeps, WriteKeeps, RecvKeeps DEF Advance
<1>4. CASE ProcessStep /\ UNCHANGED job
  BY <1>4, ProcessKeeps
<1> QED
  BY <1>1, <1>2, <1>3, <1>4, SMTT(30) DEF Next, Step, Hash, RecordBegin, RecordTake, dischargeVars, vars

-----------------------------------------------------------------------------
(* The theorems                                                            *)

Inv == IdentityInv /\ ResidentInv /\ JobInv /\ ProofInv /\ RecordingInv

\* The inductive invariant holds at the start of the process.
LEMMA InitInv == Init => Inv
<1> SUFFICES ASSUME Init PROVE Inv
  OBVIOUS
<1>1. IdentityInv
  <2>1. IdentityTypeOK
    <3>1. binary \in [Paths -> 0..MaxReplacements] /\ misses \in 0..BlockAfter
      BY IdentityAssumption, SMT DEF Init, IdentityInit
    <3>2. slots \in [Versions -> Versions \union {None}] /\ hashCall \in [Callers -> HashCalls]
      BY AllCallers DEF Init, IdentityInit
    <3> QED
      BY <3>1, <3>2 DEF Init, IdentityInit, IdentityTypeOK
  <2>2. \A c \in Callers : hashCall[c].at = "out"
    BY DEF Init, IdentityInit, NoCall
  <2> QED
    BY <2>1, <2>2 DEF IdentityInv, HashOnce
<1>2. \A t \in Threads : job[t].at = "idle" /\ job[t].recording = 0
  BY DEF Init, Idle
<1>3. ResidentInv
  <2>1. NoWindow \in Windows
    BY SMTT(30) DEF NoWindow, Windows
  <2> QED
    BY <1>2, <2>1, IdentityAssumption, SMTT(30)
       DEF Init, ResidentInit, ResidentInv, ResidentTypeOK, LockInv, PipeInv, WindowsNeverMix
<1>4. JobInv
  BY DischargeAssumption DEF Init, JobInv, JobOK, Keyless, Idle, Jobs, Stages, Undeadlined, Results
<1>5. ProofInv
  BY DEF Init, ProofInv
<1>6. RecordingInv
  <2>1. env.recordings \in Nat
    BY <1>1, IdentityAssumption DEF IdentityInv, IdentityTypeOK
  <2> QED
    BY <1>2, <2>1, DischargeAssumption, SMT DEF Init, RecordingInv, RecorderSeesFreshRuns
<1> QED
  BY <1>1, <1>3, <1>4, <1>5, <1>6 DEF Inv

\* Every step of the discharge path keeps the inductive invariant.
LEMMA NextInv == Inv /\ [Next]_vars => Inv'
<1> SUFFICES ASSUME Inv, [Next]_vars PROVE Inv'
  OBVIOUS
<1>1. env.recordings \in Nat
  BY IdentityAssumption DEF Inv, IdentityInv, IdentityTypeOK
<1>2. recordings \in Nat
  BY SMTT(30) DEF Inv, RecordingInv
<1> QED
  BY <1>1, <1>2, IdentityKeeps, ResidentKeeps, JobsKeep, ProofsKeep, RecordingKeeps DEF Inv, ResidentInv

\* The inductive invariant gives the properties.
LEMMA InvImplies ==
    Inv => TypeOK /\ VerifiedIsUnsat /\ WindowsNeverMix /\ RecorderSeesFreshRuns /\ HashOnce
BY DEF Inv, IdentityInv, ResidentInv, PipeInv, JobInv, JobOK, ProofInv, RecordingInv, TypeOK,
       VerifiedIsUnsat, Keys

\* The discharge path is type correct.
THEOREM TypeCorrect == Spec => []TypeOK
BY InitInv, NextInv, InvImplies, PTL DEF Spec

\* verify_with_cli_smt2 returns Verified, and the recorder keeps a query, only
\* when the query is unsatisfiable, whatever the solvers answer.
THEOREM VerifiedSound == Spec => []VerifiedIsUnsat
BY InitInv, NextInv, InvImplies, PTL DEF Spec

\* run_solver_via_server never reads a verdict of another query or another
\* solver into a window.
THEOREM WindowsApart == Spec => []WindowsNeverMix
BY InitInv, NextInv, InvImplies, PTL DEF Spec

\* A discharge under a running recording is answered by a fresh process.
THEOREM RecordingFresh == Spec => []RecorderSeesFreshRuns
BY InitInv, NextInv, InvImplies, PTL DEF Spec

\* solver_identity_hash streams a binary once per stat key at a time.
THEOREM HashedOnce == Spec => []HashOnce
BY InitInv, NextInv, InvImplies, PTL DEF Spec
=============================================================================
