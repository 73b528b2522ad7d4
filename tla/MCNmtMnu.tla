------------------------------ MODULE MCNmtMnu ------------------------------
(* NmtMnu as it is; the .cfg files choose the nodes, the faults and the     *)
(* bounds.                                                                  *)
EXTENDS NmtMnu
=============================================================================
