----------------------------- MODULE LiveSyncMC -----------------------------
(* TLC's instance of LiveSync.                                             *)
EXTENDS LiveSync
=============================================================================
