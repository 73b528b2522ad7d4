----------------------------- MODULE MCCnCycle ------------------------------
(* CnCycle as it is; the .cfg files choose thresholds, multiplexing and how *)
(* far the kernel thread may lag behind.                                    *)
EXTENDS CnCycle
=============================================================================
