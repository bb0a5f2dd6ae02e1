------------------------- MODULE MCWatchScheduler ---------------------------
(* Instances of the watch scheduler for TLC. *)
EXTENDS WatchScheduler
=============================================================================
