-------------------------- MODULE MCAccountStatus --------------------------
(***************************************************************************)
(* An account of two regions scanned at a time, two admin requests and two *)
(* registrations; AssumeRole is refused in two ways.                       *)
(***************************************************************************)
EXTENDS AccountStatus, TLC

CONSTANTS unit1, unit2, admin1, admin2, request1, request2

Interchangeable ==
    Permutations({unit1, unit2}) \cup Permutations({admin1, admin2})
       \cup Permutations({request1, request2})
=============================================================================
