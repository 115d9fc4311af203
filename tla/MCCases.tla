------------------------------ MODULE MCCases ------------------------------
(* Cases on small sets.                                                      *)
EXTENDS Cases, TLC

\* The Free plan, and a plan of one case with one more for a yearly cycle.
TwoPlans == {[readOnly |-> TRUE, max |-> 2, bonus |-> 0],
             [readOnly |-> FALSE, max |-> 1, bonus |-> 1]}

Interchangeable == Permutations(Ids) \cup Permutations(Handlers)

=============================================================================
