---------------------------- MODULE MCReviewIntake ----------------------------
(* Small instances of ReviewIntake.                                        *)
EXTENDS ReviewIntake, TLC

CONSTANTS v1, v2, p1

\* Both visitors sit behind one address.
SharedIp == [v \in Visitors |-> p1]
VisitorsAlike == Permutations(Visitors)
================================================================================
