--------------------------- MODULE MCTripleBuffer ---------------------------
(* TripleBuffer with the channels and the bound given by the .cfg.          *)
EXTENDS TripleBuffer
=============================================================================
