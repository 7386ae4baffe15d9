----------------------------- MODULE SolverTrail ----------------------------
(***************************************************************************)
(* One solve of the SAT host: MicroSAT's solve loop with propagate         *)
(* replaced by trust_cg_propagate (trust-cg-sat-host/src/propagate.rs).    *)
(* With the primary mode on, the kernel runs first: at decision level zero *)
(* its answer stands for native propagation, above it only a conflict is   *)
(* used, through analyze and with reasons in the scratch arena; in every   *)
(* other case native propagation runs on the state the attempt left.       *)
(*                                                                         *)
(* A step is an attempt of the kernel, one watched clause of native        *)
(* propagation, or the decision that ends an iteration of solve.           *)
(***************************************************************************)
EXTENDS MicroSat, BcpKernel

CONSTANTS
    None,             \* no value
    Instances,        \* what may be solved: records [formula, primary, adf]
    ScratchReserve    \* words of the scratch arena (max(8 * nVars, 64) in the code)

ASSUME TrailConstants == ScratchReserve \in Nat

VARIABLES
    inst,        \* the formula, PRIMARY_JIT_MODE and JIT_ANALYZE_DRIVER_FORCE
    S,           \* the solver struct
    last,        \* last_processed_offset of the session, None at first
    native,      \* the locals of native propagation
    decision,    \* the local of solve
    lemmas,      \* old_nLemmas of solve
    pc,          \* "propagate", "native", "decide" or "done"
    result       \* what solve returned, None before

vars == <<inst, S, last, native, decision, lemmas, pc, result>>

-----------------------------------------------------------------------------
(* The replacement of native propagation. *)

\* The values and the unprocessed literals the host passes to the kernel.
snapshot_initial_values(T) ==
    [v \in Vars |-> IF T.false[-v] # 0 THEN 1 ELSE IF T.false[v] # 0 THEN -1 ELSE 0]
snapshot_unprocessed_trail_as_decisions(T) ==
    [i \in 1 .. Len(T.stack) - T.processed |-> -T.stack[T.processed + i]]

jit_is_authoritative_at_root(T) ==
    \/ T.processed = Len(T.stack)
    \/ ~ IsDecision(T, T.stack[T.processed + 1])

read_microsat_forced_flag(T) ==
    T.processed < Len(T.stack) /\ ~ IsDecision(T, T.stack[T.processed + 1])

\* The implied literals with the clauses of DB as reasons.
apply_jit_implications(T, implied_literals, forced) ==
    LET U == FoldLeft(LAMBDA V, im : assign(V, im.lit, im.ci, forced),
                      T, implied_literals)
    IN  [U EXCEPT !.processed = Len(U.stack),
                  !.forced = IF forced THEN Len(U.stack) ELSE @]

\* Words of a synthetic clause: its literals and the terminator.
Words(c) == Len(c) + 1
Cursor(T) == FoldLeft(LAMBDA n, c : n + Words(c), 0, T.scratch)

\* Mutant: the antecedents stop one literal early.
MutSynthetic(T, im) ==
    <<im.lit>> \o Front(SelectSeq(T.DB[im.ci], LAMBDA l : l # im.lit))

\* The clause of DB that forced lit, with lit in front.
Synthetic(T, im) ==
    <<im.lit>> \o SelectSeq(T.DB[im.ci], LAMBDA l : l # im.lit)

\* install_scratch_reasons_for_jit: allocates until the arena is full.
RECURSIVE InstallScratch(_, _)
InstallScratch(T, ims) ==
    IF ims = <<>> THEN [ok |-> TRUE, S |-> T]
    ELSE LET c == Synthetic(T, Head(ims))
         IN  IF Cursor(T) + Words(c) > ScratchReserve THEN [ok |-> FALSE, S |-> T]
             ELSE InstallScratch([T EXCEPT !.scratch = Append(@, c)], Tail(ims))

\* The reasons of the implied literals are the last records of the arena.
PushImplied(T, ims) ==
    LET base == Len(T.scratch) - Len(ims)
        U == FoldLeft(LAMBDA V, i : assign(V, ims[i].lit, -(base + i), FALSE),
                      T, [i \in 1 .. Len(ims) |-> i])
    IN  [U EXCEPT !.processed = Len(U.stack)]

AllFalse(T, c) == \A i \in 1 .. Len(c) : T.false[c[i]] # 0

jit_conflict_clause_is_native_first(T, ci) ==
    LET c == T.DB[ci]
    IN  /\ Len(c) > 1
        /\ Last(T.stack) \in {c[1], c[2]}
        /\ AllFalse(T, c)

\* The first clause that is false on a walk over the watch lists of the literals
\* from offset `start' on; 0 if there is none.
native_find_first_conflict_clause(T, start) ==
    LET walk == FlattenSeq([i \in 1 .. Len(T.stack) - start |->
                               T.first[T.stack[start + i]]])
        hits == {i \in 1 .. Len(walk) : AllFalse(T, T.DB[walk[i]])}
    IN  IF hits = {} THEN 0 ELSE walk[Min(hits)]

\* What the attempt returns: an answer for solve, a lemma after which native
\* propagation goes on, or nothing, with native propagation on the state it left.
Outcome(r, T) == [rc |-> r, S |-> T]

\* A conflict above decision level zero: the analyze driver.
AnalyzeDriver(T, K) ==
    LET I == InstallScratch(T, K.implied)
        P == PushImplied(I.S, K.implied)
        clause == IF jit_conflict_clause_is_native_first(P, K.conflict)
                  THEN K.conflict
                  ELSE native_find_first_conflict_clause(P, T.processed)
        L == Learn(P, P.DB[clause], FALSE)
    IN  IF ~ I.ok THEN Outcome("surrender", I.S)
        ELSE IF clause = 0 THEN Outcome("surrender", P)
        ELSE IF L.lemma = <<>> THEN Outcome("empty lemma", L.S)
        ELSE Outcome("driven", L.S)

try_jit_replace_native(T0) ==
    LET T == IF last # None /\ T0.processed < last
             THEN [T0 EXCEPT !.scratch = <<>>] ELSE T0
        K == bcp_propagate_watched_literal(inst.formula, snapshot_initial_values(T),
                 snapshot_unprocessed_trail_as_decisions(T))
        root == trust_cg_decision_level_is_zero(T)
        applied == apply_jit_implications(T, K.implied, read_microsat_forced_flag(T))
    IN  IF K.conflict = 0
        THEN IF root THEN Outcome("SAT", applied) ELSE Outcome("surrender", T)
        ELSE IF root THEN Outcome("UNSAT", applied) ELSE AnalyzeDriver(T, K)

TriesJit ==
    /\ inst.primary
    /\ S.processed < Len(S.stack)
    /\ jit_is_authoritative_at_root(S) \/ inst.adf

Idle == [lit |-> 0, watches |-> <<>>, forced |-> FALSE, driven |-> FALSE]

Returned(rc) ==
    /\ result' = IF rc = "SAT" THEN None ELSE rc
    /\ pc' = IF rc = "SAT" THEN "decide" ELSE "done"
    /\ native' = Idle

\* trust_cg_propagate, up to its call of native propagation if it makes one.
trust_cg_propagate ==
    /\ pc = "propagate"
    /\ lemmas' = nLemmas(S)
    /\ \E R \in {IF TriesJit THEN try_jit_replace_native(S)
                 ELSE Outcome("surrender", S)} :
          /\ S' = R.S
          /\ IF R.rc \in {"surrender", "driven"}
             THEN /\ native' = [Idle EXCEPT !.driven = (R.rc = "driven"),
                                  !.forced = trust_cg_decision_level_is_zero(R.S)]
                  /\ pc' = "native"
                  /\ UNCHANGED <<last, result>>
             ELSE /\ last' = R.S.processed
                  /\ Returned(R.rc)
    /\ UNCHANGED <<inst, decision>>

-----------------------------------------------------------------------------
(* microsat_native_propagate. *)

Walking == pc = "native" /\ native.watches # <<>>
BetweenLiterals == pc = "native" /\ native.watches = <<>>

TakeLiteral ==
    /\ BetweenLiterals
    /\ S.processed < Len(S.stack)
    /\ LET lit == S.stack[S.processed + 1]
       IN  native' = [native EXCEPT !.lit = lit, !.watches = S.first[lit]]
    /\ S' = [S EXCEPT !.processed = @ + 1]
    /\ UNCHANGED <<inst, last, decision, lemmas, pc, result>>

NextWatch == native' = [native EXCEPT !.watches = Tail(@)]

\* The clause has another literal to watch, or its other watch is true.
PassClause ==
    /\ Walking
    /\ \E V \in {Visit(S, native.lit, Head(native.watches))} :
          /\ V.moved \/ S.false[-V.other] # 0
          /\ S' = V.S
    /\ NextWatch
    /\ UNCHANGED <<inst, last, decision, lemmas, pc, result>>

AssignUnit ==
    /\ Walking
    /\ \E V \in {Visit(S, native.lit, Head(native.watches))} :
          /\ ~ V.moved
          /\ S.false[-V.other] = 0
          /\ S.false[V.other] = 0
          /\ S' = assign(V.S, V.other, Head(native.watches), native.forced)
    /\ NextWatch
    /\ UNCHANGED <<inst, last, decision, lemmas, pc, result>>

Conflict ==
    /\ Walking
    /\ \E V \in {Visit(S, native.lit, Head(native.watches))} :
          /\ ~ V.moved
          /\ S.false[V.other] # 0
          /\ IF native.forced
             THEN /\ S' = V.S
                  /\ Returned("UNSAT")
             ELSE \E L \in {Learn(V.S, V.S.DB[Head(native.watches)], FALSE)} :
                    /\ S' = L.S
                    /\ IF L.lemma = <<>>
                       THEN Returned("empty lemma")
                       ELSE /\ native' = [native EXCEPT !.watches = <<>>,
                                                        !.forced = L.forced]
                            /\ UNCHANGED <<pc, result>>
    /\ UNCHANGED <<inst, last, decision, lemmas>>

\* Nothing is left to propagate; a driven call records where the trail ends.
NativeReturns ==
    /\ BetweenLiterals
    /\ S.processed = Len(S.stack)
    /\ S' = IF native.forced THEN [S EXCEPT !.forced = S.processed] ELSE S
    /\ last' = IF native.driven THEN S.processed ELSE last
    /\ Returned("SAT")
    /\ UNCHANGED <<inst, decision, lemmas>>

-----------------------------------------------------------------------------
(* solve. *)

Init ==
    /\ inst \in Instances
    /\ \E P \in {parse(inst.formula)} :
          /\ S = P.S
          /\ result = IF P.ok THEN None ELSE "UNSAT"
          /\ pc = IF P.ok THEN "propagate" ELSE "done"
    /\ last = None
    /\ native = Idle
    /\ decision = NVars
    /\ lemmas = 0

\* The end of the decision list is a solution; otherwise decide and go on.
DecideFrom(T, from) ==
    LET v == NextDecision(T, from)
    IN  /\ decision' = v
        /\ S' = IF v = 0 THEN T ELSE Decide(T, v)
        /\ result' = IF v = 0 THEN "SAT" ELSE None
        /\ pc' = IF v = 0 THEN "done" ELSE "propagate"
        /\ UNCHANGED <<inst, last, native, lemmas>>

Learned == nLemmas(S) > lemmas

DecideNext ==
    /\ pc = "decide"
    /\ DecideFrom(S, IF Learned THEN head(S) ELSE decision)

\* After a lemma the moving averages may call for a restart.
RestartAndDecide ==
    /\ pc = "decide"
    /\ Learned
    /\ LET R == restart(S)
           T == IF nLemmas(R) > R.maxLemmas THEN reduceDB(R, KeepBelow) ELSE R
       IN  DecideFrom(T, head(T))

Done == pc = "done" /\ UNCHANGED vars

Steps ==
    \/ trust_cg_propagate \/ TakeLiteral \/ PassClause \/ AssignUnit \/ Conflict
    \/ NativeReturns \/ DecideNext \/ RestartAndDecide

Next == Steps \/ Done

Spec == Init /\ [][Next]_vars

\* solve is one thread's loop: it takes a step as long as it has not returned.
FairSpec == Spec /\ ([]<>(pc = "done") \/ []<><<Steps>>_vars)

-----------------------------------------------------------------------------
(* Properties. *)

Satisfies(a, c) == \E i \in 1 .. Len(c) : a[Var(c[i])] = (c[i] > 0)
Models == {a \in [Vars -> BOOLEAN] : \A i \in 1 .. Len(inst.formula) :
                                        Satisfies(a, inst.formula[i])}

\* solve answers UNSAT only for a formula without a model, and at SAT its saved
\* phases are a model, whichever of the kernel, the analyze driver and native
\* propagation served its calls; no conflict ends in a lemma without a literal.
VerdictIsRight ==
    /\ result \in {None, "SAT", "UNSAT"}
    /\ result = "SAT" => S.model \in Models
    /\ result = "UNSAT" => Models = {}

\* Every lemma in DB is true in all models of the formula: neither the reasons the
\* host keeps in its arena (reset on a rewind, full, or left by an attempt that
\* surrendered) nor those reduceDB moves lead analyze astray.
LemmasFollow ==
    \A i \in S.fixed + 1 .. Len(S.DB) : \A a \in Models : Satisfies(a, S.DB[i])

\* solve returns, although restarts undo its decisions, reduceDB drops lemmas and
\* an attempt of the kernel may leave its work to native propagation.
EverySolveEnds == <>(pc = "done")
=============================================================================
