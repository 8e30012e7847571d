------------------------- MODULE MCFindingLifecycle -------------------------
(***************************************************************************)
(* A machine that nothing is attached to, one tag value, two workers.      *)
(***************************************************************************)
EXTENDS FindingLifecycle, TLC

CONSTANTS machine, worker1, worker2

MCOwners == [r \in Resources |-> {}]

\* A rule only a tagged resource meets, and one only an untagged resource meets.
MCDrafts == {[required |-> TRUE, allowed |-> Values], [required |-> FALSE, allowed |-> {}]}
=============================================================================
