------------------------------ MODULE MCCacApp ------------------------------
(* CacApp with two valves, the first and the last of a board.  State 1 opens *)
(* them together; state 2 closes the first and then, after a delay, the      *)
(* other; state 3 has no file; in state 4 the second waits for the first and *)
(* for a valve of another board.                                             *)
EXTENDS CacApp, TLC

Each(x, y) == 1 :> x @@ 12 :> y
MCInitial  == Each(0, 1)
MCTables ==
  1 :> [target |-> Each(1, 1), deps |-> Each(<< >>, << >>), delay |-> Each(0, 0)] @@
  2 :> [target |-> Each(0, 0), deps |-> Each(<< >>, <<1>>), delay |-> Each(0, 1)] @@
  4 :> [target |-> Each(1, 0), deps |-> Each(<< >>, <<1, 14>>), delay |-> Each(0, 0)]
MCEGs == <<2, 4, 3, 1>>
=============================================================================
