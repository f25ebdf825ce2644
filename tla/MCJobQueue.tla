----------------------------- MODULE MCJobQueue -----------------------------
(* The job queue on small instances.  Liveness is checked in the same run, so *)
(* workers are not declared symmetric.                                        *)
EXTENDS JobQueue, TLC
=============================================================================
