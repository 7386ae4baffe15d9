---------------------------- MODULE MCSolverHost ----------------------------
EXTENDS SolverHost

CONSTANTS c1, c2, c3

MCClauses == {c1, c2, c3}

\* Two orders of one formula, a formula in the same bucket and two in others.
MCFormulas == {<<c1, c2>>, <<c2, c1>>, <<c1, c3>>, <<c2, c3>>, <<c3>>}

MCHash == [k \in {FormulaKey(f) : f \in MCFormulas} |->
             CASE k = FormulaKey(<<c2, c3>>) -> 2
               [] k = FormulaKey(<<c3>>) -> 3
               [] OTHER -> 1]

=============================================================================
