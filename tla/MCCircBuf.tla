----------------------------- MODULE MCCircBuf ------------------------------
(* CircBuf with a ring of six words and blocks of one, four, five and nine  *)
(* bytes: the ring ends between two blocks, right after a size, or inside   *)
(* either part of a block.                                                  *)
EXTENDS CircBuf

MCBlocks == {<<1>>, <<2, 3, 4, 5>>, <<6, 7, 8, 9, 10>>,
             <<11, 12, 13, 14, 15, 16, 17, 18, 19>>}
=============================================================================
