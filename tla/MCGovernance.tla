---------------------------- MODULE MCGovernance ----------------------------
(***************************************************************************)
(* Governance on small sets.                                               *)
(***************************************************************************)
EXTENDS Governance, TLC

CONSTANTS m1, m2,                  \* projects, and what else comes in twos
          x1, x2, user, key, role, inA, inB

Team == [k \in {"team"} |-> "a"]
Env == [k \in {"env"} |-> "x"]
Both == [k \in {"team", "env"} |-> IF k = "team" THEN "a" ELSE "x"]
MCMappings == {<<>>, Team, Env, Both}
MCTagSets == {<<>>, Both}

\* Two resources of one name in two regions.
MCName == [r \in {x1, x2} |-> "n"]
MCPlace == [r \in {x1, x2} |-> IF r = x1 THEN 1 ELSE 2]

MCAccountOf == [p \in {user, key, role} |-> IF p = role THEN inB ELSE inA]
MCUserOf == [k \in {key} |-> user]

\* Two regions of one account.
MCZone == [s \in {x1, x2} |-> IF s = x1 THEN 1 ELSE 2]
MCAccountOfZone == <<inA, inA>>

MCSymmetry == Permutations({m1, m2})

=============================================================================
