------------------------------ MODULE MCAgents ------------------------------
(***************************************************************************)
(* Agents on small sets.                                                   *)
(***************************************************************************)
EXTENDS Agents

CONSTANTS p1, p2, a1, a2

MCRank == <<1, 1>>
MCOwn == <<{"r1"}, {"r2"}>>
MCSymmetry == Permutations({p1, p2})

=============================================================================
