-------------------------- MODULE MCScanLifecycle --------------------------
(***************************************************************************)
(* Small accounts for TLC: a machine that one region lists, and a gateway  *)
(* that both regions list (a global resource, or an identifier two regions *)
(* share).                                                                 *)
(***************************************************************************)
EXTENDS ScanLifecycle

CONSTANTS east, west, vm, gateway

MCVisibleFrom == [r \in Resources |-> IF r = vm THEN {east} ELSE {east, west}]
=============================================================================
