------------------------------ MODULE MCSyncLog -----------------------------
(* Instances of the sync log for TLC. *)
EXTENDS SyncLog
=============================================================================
