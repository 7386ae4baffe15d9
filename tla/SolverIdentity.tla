--------------------------- MODULE SolverIdentity ---------------------------
(***************************************************************************)
(* solver_identity_hash and its callers (trust-cg-verify/src/              *)
(* ay_bridge.rs): the identity of a solver binary is the hash of its       *)
(* bytes, memoized per stat key.  Each memo entry is a mutex around an     *)
(* optional hash, held while the bytes are read, so that a second caller   *)
(* waits for the first.  A detached thread warms the default solver.       *)
(*                                                                         *)
(* The binary at a path is replaced up to MaxReplacements times; its       *)
(* version stands for its bytes and, since a replacement changes inode and *)
(* ctime, for its stat key.                                                *)
(***************************************************************************)
EXTENDS Naturals

CONSTANTS
    Threads,          \* the threads that discharge obligations
    Warm,             \* the warm-up thread
    Paths,            \* the solver paths callers name
    DefaultPath,      \* select_solver_binary().path
    Envs,             \* the environments a process may run in
    BlockAfter,       \* UNCACHED_SOLVES_BEFORE_BLOCKING
    MaxReplacements,  \* bound on the replacements of binaries
    None

ASSUME IdentityAssumption ==
    /\ Warm \notin Threads /\ None \notin Threads /\ DefaultPath \in Paths
    /\ Envs \subseteq [cache : {"on", "off", "blocking"}, build : {"clean", "dirty", "absent"},
                     server : {"on", "off"}, pipe : {"holds", "fills"},
                     reinstalls : 0..MaxReplacements, recordings : Nat]
    /\ BlockAfter \in Nat /\ MaxReplacements \in Nat

VARIABLES
    env,       \* the environment: cache is TCG_NO_PROOF_CACHE and
               \* TCG_BLOCKING_IDENTITY; build is what the default solver reports, if any;
               \* server is TCG_NO_SOLVER_SERVER and the strict campaign; pipe is
               \* whether a script fits the pipe of a process that does not read;
               \* reinstalls and recordings bound what happens around the process
    binary,    \* the version of the file at each path
    slots,     \* SolverIdentityMemo: stat key to hash, or None
    hashCall,  \* the solver_identity_hash call of each thread
    misses,    \* MISSES, up to BlockAfter
    warmed     \* STARTED of start_solver_identity_warm

identityVars == <<binary, slots, hashCall, misses, warmed>>

Callers == Threads \union {Warm}
Versions == [path : Paths, version : 0..MaxReplacements]

NoCall == [at |-> "out", stat |-> None, hash |-> None]
HashCalls ==
    [at : {"out", "wait", "read", "done"}, stat : Versions \union {None},
     hash : Versions \union {None}]

\* std::fs::metadata, and the bytes of the file: both follow the version.
Current(p) == [path |-> p, version |-> binary[p]]

IdentityInit ==
    /\ env \in Envs
    /\ binary = [p \in Paths |-> 0]
    /\ slots = [s \in Versions |-> None]
    /\ hashCall = [c \in Callers |-> NoCall]
    /\ misses = 0 /\ warmed = FALSE

\* A build or an installation replaces the solver at p.
ReplaceBinary(p) ==
    /\ \A r \in Paths : binary[r] < env.reinstalls
    /\ binary' = [binary EXCEPT ![p] = @ + 1]
    /\ UNCHANGED <<slots, hashCall, misses, warmed>>

\* solver_identity_hash, on entry: stat the path and find its slot.
CallHash(c, p) == [hashCall EXCEPT ![c] = [NoCall EXCEPT !.at = "wait", !.stat = Current(p)]]

\* Mutant: the slot is not locked while the bytes are read.
MutSlotLocked(s) == FALSE

\* The slot's mutex is held across the hash.
SlotLocked(s) == \E c \in Callers : hashCall[c].at = "read" /\ hashCall[c].stat = s

\* The slot is resolved, or this caller hashes the binary.
LockSlot(c) ==
    LET s == hashCall[c].stat IN
    /\ hashCall[c].at = "wait" /\ ~SlotLocked(s)
    /\ hashCall' = [hashCall EXCEPT ![c].at = IF slots[s] # None THEN "done" ELSE "read",
                                    ![c].hash = slots[s]]
    /\ UNCHANGED <<binary, slots, misses, warmed>>

\* The bytes are those of the file at the path by now.
ReadBinary(c) ==
    /\ hashCall[c].at = "read"
    /\ LET s == hashCall[c].stat
           h == Current(s.path)
       IN /\ slots' = [slots EXCEPT ![s] = h]
          /\ hashCall' = [hashCall EXCEPT ![c].at = "done", ![c].hash = h]
    /\ UNCHANGED <<binary, misses, warmed>>

\* A failed open or read leaves the slot unresolved.
ReadFails(c) ==
    /\ hashCall[c].at = "read"
    /\ hashCall' = [hashCall EXCEPT ![c].at = "done"]
    /\ UNCHANGED <<binary, slots, misses, warmed>>

\* solver_identity_hash_if_ready: never waits; None when a lock is taken.
IfReady(p) ==
    {None} \union (IF SlotLocked(Current(p)) THEN {} ELSE {slots[Current(p)]})

\* warm_solver_identity needs a cache and a default solver that is not dirty.
WarmUseful == env.cache # "off" /\ env.build = "clean"

\* start_solver_identity_warm, once per process.
StartWarm == IF warmed \/ ~WarmUseful THEN hashCall ELSE CallHash(Warm, DefaultPath)

\* init starts the warm-up before the first obligation.
InitWarm ==
    /\ ~warmed /\ WarmUseful
    /\ warmed' = TRUE /\ hashCall' = StartWarm
    /\ UNCHANGED <<binary, slots, misses>>

WarmDone ==
    /\ hashCall[Warm].at = "done"
    /\ hashCall' = [hashCall EXCEPT ![Warm] = NoCall]
    /\ UNCHANGED <<binary, slots, misses, warmed>>

IdentityStep(c) == LockSlot(c) \/ ReadBinary(c) \/ ReadFails(c)

(***************************************************************************)
(* Properties                                                              *)
(***************************************************************************)

\* The state of the identity memo is well formed.
IdentityTypeOK ==
    /\ env \in Envs
    /\ binary \in [Paths -> 0..MaxReplacements]
    /\ slots \in [Versions -> Versions \union {None}]
    /\ hashCall \in [Callers -> HashCalls]
    /\ misses \in 0..BlockAfter /\ warmed \in BOOLEAN

\* solver_identity_hash: while a thread streams a binary its slot is
\* unresolved, and no other thread streams it for the same stat key.
HashOnce ==
    \A c \in Callers : hashCall[c].at = "read" =>
        /\ slots[hashCall[c].stat] = None
        /\ \A d \in Callers \ {c} :
              ~(hashCall[d].at = "read" /\ hashCall[d].stat = hashCall[c].stat)
=============================================================================
