--------------------------- MODULE MCDurableChat ----------------------------
(* The durable chat workers for TLC.  Workers and slots are model values;  *)
(* there is no symmetry set, because the runs check liveness.              *)
EXTENDS DurableChat
=============================================================================
