----------------------- MODULE MCNotificationCadence -----------------------
(***************************************************************************)
(* Two invocations of the notification worker that may overlap.            *)
(***************************************************************************)
EXTENDS NotificationCadence, TLC

CONSTANTS worker1, worker2

Interchangeable == Permutations({worker1, worker2})
=============================================================================
