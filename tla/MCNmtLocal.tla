----------------------------- MODULE MCNmtLocal -----------------------------
(* NmtLocal as it is; the .cfg files choose the role of the node, the       *)
(* events of the environment and the bounds.                                *)
EXTENDS NmtLocal
=============================================================================
