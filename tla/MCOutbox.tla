-------------------------------- MODULE MCOutbox --------------------------------
(* Outbox on a small instance; no symmetry, for liveness is checked.          *)
EXTENDS Outbox
CONSTANTS n1, n2, t1, t2, q1
================================================================================
