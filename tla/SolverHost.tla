----------------------------- MODULE SolverHost -----------------------------
(***************************************************************************)
(* trust_cg_propagate (trust-cg-sat-host/src/propagate.rs): the host that  *)
(* runs, for each propagate call of MicroSAT, a JIT kernel in place of or  *)
(* next to the native implementation.  A thread solves one formula after   *)
(* another; the thread-local session (JIT_PROVIDER) is filled on first use *)
(* through the compile cache and dropped only by                           *)
(* reset_jit_shadow_for_tests.                                             *)
(*                                                                         *)
(* What the kernel and the native code compute is external: any result.    *)
(* The clauses of the solver's DB, in DB order, are its formula.           *)
(***************************************************************************)
EXTENDS JitCompileCache

CONSTANTS
    Kernel,       \* JIT_KERNEL_CHOICE: "scan", or a kernel with reset_arena
    ShadowMode,   \* SHADOW_MODE
    PrimaryMode,  \* PRIMARY_JIT_MODE
    Warmup        \* JIT_HARDFAIL_WARMUP

ASSUME HostAssumption ==
    ShadowMode \in BOOLEAN /\ PrimaryMode \in BOOLEAN /\ Warmup \in Nat \ {0}

VARIABLES
    solver,     \* the formula of the solve in progress, or None
    session,    \* JIT_PROVIDER: translation table and provider, or None
    evaluated,  \* JIT_SHADOW_EVALUATED
    stage,      \* where the propagate call is
    runs,       \* the kernel calls the current propagate call has made
    successes   \* JIT_SUCCESSFUL_RUNS, up to Warmup

hostVars == <<solver, session, evaluated, stage, runs, successes>>

Out == [at |-> "out"]

HostInit ==
    /\ CacheInit
    /\ solver = None /\ session = None /\ evaluated = FALSE
    /\ stage = Out /\ runs = {} /\ successes = 0

\* parse and initCDCL of the next formula on this thread.  The session stays.
StartSolve(f) ==
    /\ stage = Out /\ solver = None
    /\ solver' = f /\ runs' = {}
    /\ UNCHANGED <<session, evaluated, stage, successes>> /\ UNCHANGED cacheVars

\* solve returns.
EndSolve ==
    /\ stage = Out /\ solver # None
    /\ solver' = None
    /\ UNCHANGED <<session, evaluated, stage, runs, successes>>
    /\ UNCHANGED cacheVars

\* reset_jit_shadow_for_tests, which only tests call.
Reset ==
    /\ stage = Out /\ solver = None
    /\ session' = None /\ evaluated' = FALSE
    /\ UNCHANGED <<solver, stage, runs, successes>>
    /\ UNCHANGED cacheVars

\* reset_jit_compile_caches_for_tests
ResetCaches == stage = Out /\ solver = None /\ ClearCache /\ UNCHANGED hostVars

\* set_disk_backed on this thread's cache.
ConfigureCache(b) == stage = Out /\ solver = None /\ SetDiskBacked(b) /\ UNCHANGED hostVars

\* Entry: an empty unprocessed trail counts as authoritative.  Native alone runs
\* when both modes are off.
Propagate(authoritative, nonempty, forced) ==
    /\ stage = Out /\ solver # None /\ (ShadowMode \/ PrimaryMode)
    /\ nonempty \/ authoritative
    /\ stage' = [at |-> IF PrimaryMode /\ nonempty /\ (authoritative \/ forced)
                        THEN "replace" ELSE "compare",
                 authoritative |-> authoritative]
    /\ runs' = {}
    /\ UNCHANGED <<solver, session, evaluated, successes>>
    /\ UNCHANGED cacheVars

InPropagate == stage.at \in {"replace", "compare"}

\* First use of the session: compile_chosen_provider on the snapshot of the DB.
Compile ==
    /\ InPropagate /\ session = None
    /\ Request(solver) \/ Build \/ BuildFails
    /\ UNCHANGED hostVars

\* Mutant: the session of a failed compile records a provider.
MutOpenSession ==
    /\ InPropagate /\ session = None /\ call.at \in {"done", "failed"}
    /\ session' = [translation |-> solver,
                   provider |-> IF call.at = "done" THEN call.provider ELSE Len(heap) + 1]
    /\ evaluated' = FALSE
    /\ Return
    /\ UNCHANGED <<solver, stage, runs, successes>>

\* Mutant: the session takes the provider that was built last.
MutLatestProvider ==
    /\ InPropagate /\ session = None /\ call.at \in {"done", "failed"}
    /\ session' = [translation |-> solver,
                   provider |-> IF call.at = "done" THEN Len(heap) ELSE None]
    /\ evaluated' = FALSE
    /\ Return
    /\ UNCHANGED <<solver, stage, runs, successes>>

\* The session keeps the provider, if any, and the DB offsets of the clauses.
OpenSession ==
    /\ InPropagate /\ session = None /\ call.at \in {"done", "failed"}
    /\ session' = [translation |-> solver,
                   provider |-> IF call.at = "done" THEN call.provider ELSE None]
    /\ evaluated' = FALSE
    /\ Return
    /\ UNCHANGED <<solver, stage, runs, successes>>

\* The provider can back the primary path.
SupportsPrimary == session.provider # None /\ Kernel # "scan"

\* One kernel call on the session's provider.
KernelRun(path) == [path |-> path, provider |-> session.provider]

Bump(n) == IF n < Warmup THEN n + 1 ELSE n

\* try_jit_replace_native: the kernel's implications and reasons are applied and
\* native is skipped, or the kernel surrenders to native.
Replace ==
    /\ stage.at = "replace" /\ session # None
    /\ IF SupportsPrimary
       THEN \E outcome \in {"applied", "surrendered"} :
               /\ runs' = {KernelRun(outcome)}
               /\ IF outcome = "applied"
                  THEN stage' = Out /\ successes' = Bump(successes)
                  ELSE stage' = [stage EXCEPT !.at = "compare"] /\ UNCHANGED successes
       ELSE /\ stage' = [stage EXCEPT !.at = "compare"]
            /\ UNCHANGED <<runs, successes>>
    /\ UNCHANGED <<solver, session, evaluated>> /\ UNCHANGED cacheVars

RunsShadow == ShadowMode /\ ~evaluated /\ session.provider # None

RunsPrimary == PrimaryMode /\ stage.authoritative /\ SupportsPrimary

\* After native: the shadow call, then the primary comparison, each at most once.
\* A divergence panics once the warm-up is over.
Compare ==
    /\ stage.at = "compare" /\ session # None
    /\ runs' = (IF RunsShadow THEN {KernelRun("shadow")} ELSE {})
               \cup (IF RunsPrimary THEN {KernelRun("primary")} ELSE {})
    /\ evaluated' = (evaluated \/ RunsShadow)
    /\ \E result \in IF RunsPrimary THEN {"agree", "diverge", "undecided"} ELSE {"undecided"} :
          /\ successes' = IF result = "agree" THEN Bump(successes) ELSE successes
          /\ stage' = IF result = "diverge" /\ successes >= Warmup
                      THEN [at |-> "panicked"] ELSE Out
    /\ UNCHANGED <<solver, session>> /\ UNCHANGED cacheVars

HostNext ==
    \/ \E f \in Formulas : StartSolve(f)
    \/ EndSolve \/ Reset \/ ResetCaches
    \/ \E b \in BOOLEAN : ConfigureCache(b)
    \/ \E authoritative, nonempty, forced \in BOOLEAN :
          Propagate(authoritative, nonempty, forced)
    \/ Compile \/ OpenSession \/ Replace \/ Compare

HostSpec == HostInit /\ [][HostNext]_<<cacheVars, hostVars>>

-----------------------------------------------------------------------------
(* Properties                                                              *)

Runs == [path : {"applied", "surrendered", "shadow", "primary"},
         provider : 1..Len(heap)]

\* The cache and the host have their types.
HostTypeOK ==
    /\ CacheTypeOK
    /\ solver \in Formulas \cup {None}
    /\ session \in [translation : Formulas, provider : 1..Len(heap) \cup {None}] \cup {None}
    /\ evaluated \in BOOLEAN
    /\ stage \in [at : {"out", "panicked"}]
                 \cup [at : {"replace", "compare"}, authoritative : BOOLEAN]
    /\ runs \subseteq Runs
    /\ successes \in 0..Warmup

\* Every kernel call of trust_cg_propagate runs over the clauses of the formula the
\* session's translation table was made for, whichever formulas shared its bucket,
\* were evicted or failed to compile before.
KernelRunsSessionFormula ==
    session # None => \A r \in runs :
        FormulaKey(heap[r.provider]) = FormulaKey(session.translation)

\* The provider is set up "once per solve" and production code need not reset it
\* (JIT_PROVIDER, reset_jit_shadow_for_tests): every kernel call runs over the
\* clauses of the formula that is being solved.
KernelRunsThisFormula ==
    solver # None => \A r \in runs :
        FormulaKey(heap[r.provider]) = FormulaKey(solver)
=============================================================================
