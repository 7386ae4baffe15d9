------------------------------ MODULE MicroSat ------------------------------
(***************************************************************************)
(* The CDCL solver of third_party/vendor/microsat/microsat.c, as operators *)
(* on its solver struct, with line 133 as the host's build rewrites it.    *)
(*                                                                         *)
(* A literal is a non-zero integer.  DB holds the clauses in the order in  *)
(* which they were added, the first `fixed' of them the input; `stack' is  *)
(* falseStack up to `assigned', `processed' and `forced' are offsets into  *)
(* it; `list' is the decision list, its last element the head; first[l] is *)
(* the watch list of l.  A reason is 0 for a decision, a positive index of *)
(* DB, or a negative index of `scratch', the records the host keeps at the *)
(* end of DB's memory.  The moving averages that trigger a restart are     *)
(* left to the caller.                                                     *)
(***************************************************************************)
EXTENDS Integers, Sequences, SequencesExt, FiniteSetsExt

CONSTANTS
    NVars,        \* variables of the formulas
    MaxLemmas,    \* lemmas kept before the first reduceDB (2000 in the code)
    LemmaStep,    \* growth of that number (300 in the code)
    KeepBelow     \* reduceDB keeps a lemma with fewer satisfied literals (6)

ASSUME MicroSatConstants ==
    /\ NVars \in Nat \ {0}
    /\ {MaxLemmas, LemmaStep, KeepBelow} \subseteq Nat \ {0}

Vars == 1 .. NVars
Lits == {l \in -NVars .. NVars : l # 0}
Var(l) == IF l < 0 THEN -l ELSE l

MARK == 2
IMPLIED == 6

initCDCL ==
    [DB |-> <<>>, fixed |-> 0, scratch |-> <<>>, maxLemmas |-> MaxLemmas,
     model |-> [v \in Vars |-> FALSE], reason |-> [v \in Vars |-> 0],
     stack |-> <<>>, forced |-> 0, processed |-> 0,
     false |-> [l \in Lits |-> 0], first |-> [l \in Lits |-> <<>>],
     list |-> [v \in Vars |-> v]]

nLemmas(S) == Len(S.DB) - S.fixed

unassign(S, lit) == [S EXCEPT !.false[lit] = 0]

\* Unassigns what lies above the first k entries of falseStack.
Rewind(S, k) ==
    LET gone == {S.stack[i] : i \in k + 1 .. Len(S.stack)}
    IN  [S EXCEPT !.stack = SubSeq(@, 1, k), !.processed = k,
                  !.false = [l \in Lits |-> IF l \in gone THEN 0 ELSE @[l]]]

restart(S) == Rewind(S, S.forced)

assign(S, lit, reason, forced) ==
    [S EXCEPT !.false[-lit] = IF forced THEN IMPLIED ELSE 1,
              !.stack = Append(@, -lit),
              !.reason[Var(lit)] = reason,
              !.model[Var(lit)] = lit > 0]

addWatch(S, lit, c) == [S EXCEPT !.first[lit] = <<c>> \o @]

addClause(S, in) ==
    LET c == Len(S.DB) + 1
        T == [S EXCEPT !.DB = Append(@, in)]
    IN  IF Len(in) > 1 THEN addWatch(addWatch(T, in[1], c), in[2], c) ELSE T

\* The bound is raised in steps until the lemmas fit.
Raised(S) ==
    LET missing == nLemmas(S) - S.maxLemmas
    IN  IF missing <= 0 THEN S.maxLemmas
        ELSE S.maxLemmas + LemmaStep * ((missing + LemmaStep - 1) \div LemmaStep)

\* Mutant: the lemmas go, none comes back, and the bound stays as it is.
MutReduceDB(S, k) ==
    [S EXCEPT !.first = [l \in Lits |-> SelectSeq(@[l], LAMBDA c : c <= S.fixed)],
              !.DB = SubSeq(@, 1, S.fixed)]

\* The lemmas with k or more literals that the saved phases satisfy are dropped.
reduceDB(S, k) ==
    LET lemmas == SubSeq(S.DB, S.fixed + 1, Len(S.DB))
        satisfied(c) == Len(SelectSeq(c, LAMBDA l : (l > 0) = S.model[Var(l)]))
        bare == [S EXCEPT
            !.maxLemmas = Raised(S),
            !.first = [l \in Lits |-> SelectSeq(@[l], LAMBDA c : c <= S.fixed)],
            !.DB = SubSeq(@, 1, S.fixed)]
    IN  FoldLeft(LAMBDA T, c : IF satisfied(c) < k THEN addClause(T, c) ELSE T,
                 bare, lemmas)

-----------------------------------------------------------------------------
(* Conflict analysis. *)

bump(S, lit) ==
    IF S.false[lit] = IMPLIED THEN S
    ELSE [S EXCEPT !.false[lit] = MARK,
                   !.list = Append(SelectSeq(@, LAMBDA v : v # Var(lit)), Var(lit))]

BumpAll(S, lits) == FoldLeft(bump, S, lits)

ReasonClause(S, lit) ==
    LET r == S.reason[Var(lit)] IN IF r > 0 THEN S.DB[r] ELSE S.scratch[-r]

\* implied: whether lit follows from MARKed literals; it caches its answer in false.
RECURSIVE implied(_, _), AllImplied(_, _)
implied(S, lit) ==
    IF S.false[lit] > MARK THEN [S |-> S, yes |-> S.false[lit] = IMPLIED]
    ELSE IF S.reason[Var(lit)] = 0 THEN [S |-> S, yes |-> FALSE]
    ELSE LET r == AllImplied(S, Tail(ReasonClause(S, lit)))
         IN  [r EXCEPT !.S.false[lit] = IF r.yes THEN IMPLIED ELSE IMPLIED - 1]
AllImplied(S, lits) ==
    IF lits = <<>> THEN [S |-> S, yes |-> TRUE]
    ELSE IF S.false[Head(lits)] = MARK THEN AllImplied(S, Tail(lits))
    ELSE LET r == implied(S, Head(lits))
         IN  IF r.yes THEN AllImplied(r.S, Tail(lits)) ELSE r

IsDecision(S, lit) == S.reason[Var(lit)] = 0

\* The last literal of the stack is the only MARKed one of its decision level.
FirstUIP(S) ==
    LET below == {i \in 1 .. Len(S.stack) - 1 :
                    S.false[S.stack[i]] = MARK \/ IsDecision(S, S.stack[i])}
    IN  S.false[S.stack[Max(below)]] # MARK

\* Resolves backwards along the stack, down to the first UIP or the decision.
RECURSIVE Resolve(_)
Resolve(S) ==
    LET top == Last(S.stack)
        pop(T) == [unassign(T, top) EXCEPT !.stack = Front(@)]
    IN  IF IsDecision(S, top) THEN S
        ELSE IF S.false[top] # MARK THEN Resolve(pop(S))
        ELSE IF FirstUIP(S) THEN S
        ELSE Resolve(pop(BumpAll(S, Tail(ReasonClause(S, top)))))

\* Collects the MARKed literals that are not implied, from position p of the stack
\* down to forced; `back' is the position to return to.
RECURSIVE Build(_, _, _, _)
Build(S, p, buffer, back) ==
    IF p <= S.forced THEN [S |-> S, buffer |-> buffer, back |-> back]
    ELSE LET lit == S.stack[p]
             r == IF S.false[lit] = MARK THEN implied(S, lit)
                  ELSE [S |-> S, yes |-> TRUE]
             b == IF r.yes THEN buffer ELSE Append(buffer, lit)
         IN  Build([r.S EXCEPT !.false[lit] = 1], p - 1, b,
                   IF IsDecision(S, lit) /\ Len(b) = 1 THEN p ELSE back)

analyze(S, clause) ==
    LET R == Resolve(BumpAll(S, clause))
        B == Build(R, Len(R.stack), <<>>, Len(R.stack))
    IN  [S |-> addClause(Rewind(B.S, B.back - 1), B.buffer), lemma |-> B.buffer]

-----------------------------------------------------------------------------
(* Unit propagation. *)

trust_cg_decision_level_is_zero(S) ==
    \A i \in 1 .. Len(S.stack) : ~ IsDecision(S, S.stack[i])

\* What propagate makes of the watch at clause c while it processes lit: the clause
\* with lit moved behind a literal that is not false, or kept at the second place.
Visit(S, lit, c) ==
    LET d == S.DB[c]
        other == IF d[1] = lit THEN d[2] ELSE d[1]
        open == {i \in 3 .. Len(d) : S.false[d[i]] = 0}
        i == Min(open)
    IN  IF open # {}
        THEN [moved |-> TRUE, other |-> other,
              S |-> addWatch([S EXCEPT
                        !.DB[c] = [d EXCEPT ![1] = other, ![2] = d[i], ![i] = lit],
                        !.first[lit] = SelectSeq(@, LAMBDA w : w # c)], d[i], c)]
        ELSE [moved |-> FALSE, other |-> other,
              S |-> [S EXCEPT !.DB[c] = [d EXCEPT ![1] = other, ![2] = lit]]]

\* The lemma of a conflict at `clause', and the assignment it forces; an empty lemma
\* would leave nothing to assign.
Learn(S, clause, forced) ==
    LET A == analyze(S, clause)
        unit == Len(A.lemma) = 1
    IN  [lemma |-> A.lemma, forced |-> forced \/ unit,
         S |-> IF A.lemma = <<>> THEN A.S
               ELSE assign(A.S, A.lemma[1], Len(A.S.DB), forced \/ unit)]

-----------------------------------------------------------------------------
(* Reading a formula, and choosing a decision. *)

\* parse: clauses are added in order; unit clauses are assigned at once, and an
\* empty clause or a unit clause that is already false ends the run.
AddInput(P, in) ==
    LET T == addClause(P.S, in)
        unit == Len(in) = 1
    IN  IF ~ P.ok THEN P
        ELSE IF in = <<>> \/ (unit /\ P.S.false[in[1]] # 0) THEN [ok |-> FALSE, S |-> T]
        ELSE IF unit /\ P.S.false[-in[1]] = 0
        THEN [ok |-> TRUE, S |-> assign(T, in[1], Len(T.DB), TRUE)]
        ELSE [ok |-> TRUE, S |-> T]
parse(formula) ==
    FoldLeft(AddInput, [ok |-> TRUE, S |-> [initCDCL EXCEPT !.fixed = Len(formula)]],
             formula)

Assigned(S, v) == S.false[v] # 0 \/ S.false[-v] # 0
head(S) == Last(S.list)

\* The next unassigned variable at or before `from' in the decision list, 0 if none.
NextDecision(S, from) ==
    LET open == {i \in 1 .. NVars :
                   /\ ~ Assigned(S, S.list[i])
                   /\ \E j \in i .. NVars : S.list[j] = from}
    IN  IF open = {} THEN 0 ELSE S.list[Max(open)]

\* The decision on v, with the phase the model saved.
Decide(S, v) ==
    LET lit == IF S.model[v] THEN v ELSE -v
    IN  [S EXCEPT !.false[-lit] = 1, !.stack = Append(@, -lit), !.reason[v] = 0]
=============================================================================
