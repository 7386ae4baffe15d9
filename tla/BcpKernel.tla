----------------------------- MODULE BcpKernel ------------------------------
(***************************************************************************)
(* The watched-literal BCP kernel that bcp_module_builder.rs writes in     *)
(* trust-ir and the host calls in place of MicroSAT's propagate.  A call   *)
(* starts from the clauses in their original order, from the values of the *)
(* host's assignment, and from the literals of the trail the host has not  *)
(* yet propagated.  The kernel's state during one call is K: the clauses,  *)
(* the values (1, -1 or 0 per variable), the watch lists, the trail with   *)
(* the number of entries walked, the implied literals with the index of    *)
(* the clause that forced each, and the conflicting clause (0 for none).   *)
(***************************************************************************)
EXTENDS Integers, Sequences, SequencesExt, FiniteSetsExt

KVar(l) == IF l < 0 THEN -l ELSE l

value_of_lit(K, l) == IF l < 0 THEN -K.values[KVar(l)] ELSE K.values[KVar(l)]

\* Phases 0 to 2: seed the values, and watch the first two literals of every clause
\* of two literals or more.
Seed(clauses, values) ==
    [clauses |-> clauses, values |-> values, trail |-> <<>>, qhead |-> 0,
     watches |-> [l \in DOMAIN values \cup {-v : v \in DOMAIN values} |->
        SelectSeq([ci \in 1 .. Len(clauses) |-> ci],
                  LAMBDA ci : /\ Len(clauses[ci]) >= 2
                              /\ l \in {clauses[ci][1], clauses[ci][2]})],
     implied |-> <<>>, conflict |-> 0]

Push(K, l) ==
    [K EXCEPT !.values[KVar(l)] = IF l < 0 THEN -1 ELSE 1, !.trail = Append(@, l)]

\* Phase 3: the literals the host passes are written and pushed unconditionally.
Decode(K, decisions) == FoldLeft(Push, K, decisions)

Imply(K, l, ci) ==
    [Push(K, l) EXCEPT !.implied = Append(@, [lit |-> l, ci |-> ci])]

\* Phase 4: unit clauses, in order, up to the first false one.
Units(K) ==
    LET step(T, ci) ==
            IF T.conflict # 0 \/ Len(T.clauses[ci]) # 1 THEN T
            ELSE LET l == T.clauses[ci][1]
                     val == value_of_lit(T, l)
                 IN  IF val < 0 THEN [T EXCEPT !.conflict = ci]
                     ELSE IF val = 0 THEN Imply(T, l, ci) ELSE T
    IN  FoldLeft(step, K, [ci \in 1 .. Len(K.clauses) |-> ci])

\* Mutant: the scan starts one literal late.
MutOpen(K, c) == {k \in 4 .. Len(c) : value_of_lit(K, c[k]) >= 0}

\* The places of c behind its watches whose literal is not false.
Open(K, c) == {k \in 3 .. Len(c) : value_of_lit(K, c[k]) >= 0}

\* One clause of the watch list of the falsified literal f.
WatchWalkBody(K, f, ci) ==
    LET c == K.clauses[ci]
        other == IF c[1] = f THEN c[2] ELSE c[1]
        k == Min(Open(K, c))
        front == [c EXCEPT ![1] = other, ![2] = f]
        T == [K EXCEPT !.clauses[ci] = front]
    IN  IF value_of_lit(K, other) > 0 THEN T
        ELSE IF Open(K, c) # {}
        THEN [K EXCEPT !.clauses[ci] = [front EXCEPT ![2] = c[k], ![k] = f],
                       !.watches[f] = SelectSeq(@, LAMBDA w : w # ci),
                       !.watches[c[k]] = Append(@, ci)]
        ELSE IF value_of_lit(K, other) < 0 THEN [T EXCEPT !.conflict = ci]
        ELSE Imply(T, other, ci)

\* Phase 5: walks the watch lists of the trail, up to a fixed point or a conflict.
RECURSIVE BcpLoop(_)
BcpLoop(K) ==
    IF K.conflict # 0 \/ K.qhead = Len(K.trail) THEN K
    ELSE LET f == -K.trail[K.qhead + 1]
             step(T, ci) == IF T.conflict # 0 THEN T ELSE WatchWalkBody(T, f, ci)
         IN  BcpLoop(FoldLeft(step, [K EXCEPT !.qhead = @ + 1], K.watches[f]))

bcp_propagate_watched_literal(clauses, values, decisions) ==
    BcpLoop(Units(Decode(Seed(clauses, values), decisions)))
=============================================================================
