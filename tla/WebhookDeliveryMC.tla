------------------------- MODULE WebhookDeliveryMC -------------------------
(* Schedules and symmetry for TLC.                                         *)
EXTENDS WebhookDelivery, TLC

OneRetry == <<2>>        \* two attempts, two ticks apart

ProcessSymmetry == Permutations(Procs)
=============================================================================
