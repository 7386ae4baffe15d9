--------------------------- MODULE MCSolverTrail ----------------------------
(* Instances of SolverTrail for TLC. *)
EXTENDS SolverTrail

\* Clauses over four variables: a pool that leads to chains of lemmas, one to chains of
\* implications before a conflict, one whose unit clause settles part of the trail at
\* the root, and one of longer clauses.  Most parts of a pool are satisfiable, and
\* each pool but the last is unsatisfiable as a whole.
Dense ==
    << <<1, 2, 4>>, <<-4, 3>>, <<1, 2, -3>>, <<1, -2, 3>>, <<1, -2, -3>>,
       <<-1, 2, 3>>, <<-1, 2, -3>>, <<-1, -2, 4>>, <<-1, -2, -3>>, <<-3, -4, 2>>,
       <<4, 1, 3>> >>
Chained ==
    << <<4, 3>>, <<4, -3, 2>>, <<-3, -2, 1>>, <<-2, -1, 4>>, <<-4, 3, 1>>, <<-4, 1, -3>>,
       <<-4, -1, 2>>, <<-4, -1, -2>>, <<-3, 2, -1>>, <<2, 1>> >>
Rooted ==
    << <<-1, -3, 2>>, <<4>>, <<-2, -4>>, <<3, 1, -4>>, <<3, -4, -1>>, <<1, 2, -3>>,
       <<1, -2, 3>>, <<1, -2, -3>>, <<-1, 2, 3>>, <<1, 2, 4>>, <<-4, -1, -3>> >>
Wide ==
    << <<1, 2, 3, 4>>, <<-1>>, <<-2, 3>>, <<-3, 4, 2>>, <<-3, -4>>, <<1, -4, 2, 3>>,
       <<-1, -2, -3, -4>>, <<3, -2>> >>

Chosen(pool, places) ==
    LET order == SelectSeq([i \in 1 .. Len(pool) |-> i], LAMBDA i : i \in places)
    IN  [i \in 1 .. Len(order) |-> pool[order[i]]]
Formulas(pool) == {Chosen(pool, places) : places \in SUBSET (1 .. Len(pool))}

Solve(formula, primary, adf) == [formula |-> formula, primary |-> primary, adf |-> adf]

\* Every part of the first three with the kernel off, on at the root, and on everywhere;
\* every part of Wide with the kernel off.
MCInstances ==
    {Solve(f, m # "native", m = "adf") :
        f \in Formulas(Dense) \cup Formulas(Chained) \cup Formulas(Rooted),
        m \in {"native", "root", "adf"}}
    \cup {Solve(f, FALSE, FALSE) : f \in Formulas(Wide)}

\* Two unit clauses, which falsify the first two literals of a clause of four.
WideAtRoot ==
    {Solve(<< <<-1>>, <<-2>>, <<1, 2, 3, 4>>, <<-3, 5>>, <<-3, -5>>, <<-4, 5>>,
              <<-4, -5>> >>, TRUE, TRUE)}
=============================================================================
