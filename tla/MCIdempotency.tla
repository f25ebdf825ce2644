--------------------------- MODULE MCIdempotency ---------------------------
(* The claim protocol on small instances.  Liveness is checked in the same *)
(* run, so keys, payloads and executions are not declared symmetric.       *)
EXTENDS Idempotency, TLC
=============================================================================
