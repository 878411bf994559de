------------------------------- MODULE Faults -------------------------------
(***************************************************************************)
(* What the factory's workflows have in common: people act on issues and   *)
(* pull requests between any two steps, API calls fail or lose their       *)
(* answers, jobs die and are run again.  One bound covers all of it.       *)
(***************************************************************************)
EXTENDS Integers, Absent

CONSTANT MaxTrouble  \* bound on how much of this happens in one behaviour

ASSUME FaultsAssumption == MaxTrouble \in Nat

VARIABLE trouble  \* how much has happened

Trouble == trouble < MaxTrouble /\ trouble' = trouble + 1

\* A call whose failure counts; best-effort calls fail freely.
MayFail(ok) == IF ok THEN UNCHANGED trouble ELSE Trouble
=============================================================================
