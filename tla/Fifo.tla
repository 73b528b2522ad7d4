-------------------------------- MODULE Fifo --------------------------------
(***************************************************************************)
(* What a circular buffer (circbuffer.c) promises to the event queues, the *)
(* asynchronous transmit queues and the request queues built on it: blocks *)
(* come out whole, in the order they were put in, and a block is refused   *)
(* only for want of room.                                                  *)
(***************************************************************************)
EXTENDS Naturals, Sequences

CONSTANTS Blocks,        \* the blocks of data
          Need(_),       \* the room a block takes
          Fits(_, _),    \* Fits(b, n): a destination of n bytes holds block b
          Room,          \* the room of the buffer
          Sizes          \* the destination sizes the readers offer

VARIABLES queue,  \* the blocks inside, oldest first
          room,   \* what is left of Room
          out     \* what the last call returned

Answer(r) == [result |-> r, block |-> << >>]

Put(b) ==
  IF Need(b) <= room
  THEN queue' = Append(queue, b) /\ room' = room - Need(b) /\ out' = Answer("Ok")
  ELSE out' = Answer("BufferFull") /\ UNCHANGED <<queue, room>>

Get(n) ==
  IF queue = << >>
  THEN out' = Answer("NoReadableData") /\ UNCHANGED <<queue, room>>
  ELSE IF ~Fits(Head(queue), n)
  THEN out' = Answer("ReadsizeTooSmall") /\ UNCHANGED <<queue, room>>
  ELSE /\ queue' = Tail(queue) /\ room' = room + Need(Head(queue))
       /\ out' = [result |-> "Ok", block |-> Head(queue)]

Empty == queue' = << >> /\ room' = Room /\ out' = Answer("Ok")

Init == queue = << >> /\ room = Room /\ out = Answer("Ok")
Next == (\E b \in Blocks : Put(b)) \/ (\E n \in Sizes : Get(n)) \/ Empty
Spec == Init /\ [][Next]_<<queue, room, out>>
=============================================================================
