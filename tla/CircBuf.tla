------------------------------ MODULE CircBuf -------------------------------
(***************************************************************************)
(* The circular buffer library (circbuffer.c): a ring of bytes in shared   *)
(* memory in which every block is preceded by its size and padded to the   *)
(* alignment.  A block that reaches the end of the ring goes on at its     *)
(* start.  Every operation runs under the lock of the buffer, so each is   *)
(* one step, whichever process or thread calls it.                         *)
(***************************************************************************)
EXTENDS Naturals, Sequences

CONSTANTS Blocks,  \* the blocks written: sequences of bytes
          Size,    \* size_p of circbuf_alloc
          Sizes,   \* sizes of the destinations the readers offer
          Align    \* CIRCBUF_BLOCK_ALIGNMENT, and sizeof(UINT32)

ASSUME CircAssumption == /\ Blocks \subseteq Seq(0..255) \ {<< >>}
                         /\ Size \in Nat \ {0} /\ Sizes \subseteq Nat \ {0}
                         /\ Align = 4

VARIABLES mem,          \* the ring, byte by byte
          readOffset, writeOffset, freeSize, dataCount,  \* tCircBufHeader
          out           \* what the last call returned
header == <<readOffset, writeOffset, freeSize, dataCount>>
vars   == <<mem, header, out>>

Aligned(n) == Align * ((n + Align - 1) \div Align)
BufferSize == Aligned(Size)
FullBlockSize(n) == Aligned(n) + Align

\* The sizes are of type UINT32, and neither the ring's nor a block's overflows.
ASSUME WidthAssumption == /\ BufferSize \div Align < 1073741824
                          /\ \A b \in Blocks : FullBlockSize(Len(b)) \div Align < 1073741824

\* A UINT32 in memory, little-endian.
UInt32At(o) == mem[o] + 256 * (mem[o + 1] + 256 * (mem[o + 2] + 256 * mem[o + 3]))
PutUInt32(m, o, n) == [m EXCEPT ![o] = n % 256, ![o + 1] = (n \div 256) % 256,
                                ![o + 2] = (n \div 65536) % 256, ![o + 3] = n \div 16777216]
\* OPLK_MEMCPY of n bytes of data, from its byte k on, to offset o.
Copy(m, o, data, k, n) ==
  [i \in DOMAIN m |-> IF i \in o..(o + n - 1) THEN data[k + i - o + 1] ELSE m[i]]

Return(r) == [result |-> r, block |-> << >>]

Full(n) == FullBlockSize(n) > freeSize
Refuse  == out' = Return("BufferFull") /\ UNCHANGED <<mem, header>>

\* Where the next block begins; Chunk is what fits before the end of the ring.
Wraps(o, n) == o + FullBlockSize(n) > BufferSize
Chunk(o) == BufferSize - o - Align
\* (a slip: a block that ends with the ring is followed by one behind it)
AdvanceBeyond(o, n) ==
  IF Wraps(o, n) THEN Aligned(n) - Chunk(o) ELSE o + FullBlockSize(n)
Advance(o, n) ==
  IF Wraps(o, n) THEN Aligned(n) - Chunk(o)
  ELSE IF o + FullBlockSize(n) = BufferSize THEN 0 ELSE o + FullBlockSize(n)

\* (a slip: only the data are counted)
EnteredUnpadded(n) ==
  /\ writeOffset' = Advance(writeOffset, n)
  /\ freeSize' = freeSize - n - Align /\ dataCount' = dataCount + 1
  /\ out' = Return("Ok") /\ UNCHANGED readOffset
Entered(n) ==
  /\ writeOffset' = Advance(writeOffset, n)
  /\ freeSize' = freeSize - FullBlockSize(n) /\ dataCount' = dataCount + 1
  /\ out' = Return("Ok") /\ UNCHANGED readOffset

circbuf_writeData(data) ==
  LET n == Len(data)
      o == writeOffset + Align
      m == PutUInt32(mem, writeOffset, n)
  IN  \/ Full(n) /\ Refuse
      \/ /\ ~Full(n) /\ Entered(n)
         /\ mem' = IF ~Wraps(writeOffset, n) THEN Copy(m, o, data, 0, n)
                   ELSE Copy(Copy(m, o, data, 0, Chunk(writeOffset)),
                             0, data, Chunk(writeOffset), n - Chunk(writeOffset))

\* The two parts of a block one after the other; the end of the ring may fall
\* into the second part or into the first one.
CopyParts(m, first, second) ==
  LET n1 == Len(first)
      n2 == Len(second)
      o == writeOffset + Align
      c == Chunk(writeOffset)
  IN  IF ~Wraps(writeOffset, n1 + n2)
      THEN Copy(Copy(m, o, first, 0, n1), o + n1, second, 0, n2)
      ELSE IF n1 <= c
      THEN Copy(Copy(Copy(m, o, first, 0, n1), o + n1, second, 0, c - n1),
                0, second, c - n1, n2 - (c - n1))
      ELSE Copy(Copy(Copy(m, o, first, 0, c), 0, first, c, n1 - c),
                n1 - c, second, 0, n2)

circbuf_writeMultipleData(first, second) ==
  LET n == Len(first) + Len(second)
  IN  \/ Full(n) /\ Refuse
      \/ /\ ~Full(n) /\ Entered(n)
         /\ mem' = CopyParts(PutUInt32(mem, writeOffset, n), first, second)

\* (a slip: the rest of the block is taken from the second byte of the ring)
FetchedOneLate(o, n) ==
  [i \in 1..n |-> IF Wraps(o, n) /\ i > Chunk(o) THEN mem[i - Chunk(o)]
                  ELSE mem[o + Align + i - 1]]
\* The n bytes of the block at o, in one piece or in two.
Fetched(o, n) ==
  [i \in 1..n |-> IF Wraps(o, n) /\ i > Chunk(o) THEN mem[i - Chunk(o) - 1]
                  ELSE mem[o + Align + i - 1]]

circbuf_readData(size) ==
  LET n == UInt32At(readOffset)
  IN  \/ /\ freeSize = BufferSize
         /\ out' = Return("NoReadableData") /\ UNCHANGED <<mem, header>>
      \/ /\ freeSize # BufferSize /\ n > size
         /\ out' = Return("ReadsizeTooSmall") /\ UNCHANGED <<mem, header>>
      \/ /\ freeSize # BufferSize /\ n <= size
         /\ out' = [result |-> "Ok", block |-> Fetched(readOffset, n)]
         /\ readOffset' = Advance(readOffset, n)
         /\ freeSize' = freeSize + FullBlockSize(n) /\ dataCount' = dataCount - 1
         /\ UNCHANGED <<mem, writeOffset>>

circbuf_reset ==
  /\ readOffset' = 0 /\ writeOffset' = 0
  /\ freeSize' = BufferSize /\ dataCount' = 0
  /\ out' = Return("Ok") /\ UNCHANGED mem

\* circbuf_alloc; what the memory holds at first does not matter.
Init ==
  /\ mem = [i \in 0..(BufferSize - 1) |-> 0]
  /\ readOffset = 0 /\ writeOffset = 0 /\ freeSize = BufferSize /\ dataCount = 0
  /\ out = Return("Ok")

Next ==
  \/ \E b \in Blocks : circbuf_writeData(b)
  \/ \E b \in Blocks : \E k \in 1..(Len(b) - 1) :
        circbuf_writeMultipleData(SubSeq(b, 1, k), SubSeq(b, k + 1, Len(b)))
  \/ \E n \in Sizes : circbuf_readData(n)
  \/ circbuf_reset

Spec == Init /\ [][Next]_vars

-----------------------------------------------------------------------------
Offsets == {o \in 0..(BufferSize - 1) : o % Align = 0}
TypeOK ==
  /\ mem \in [0..(BufferSize - 1) -> 0..255]
  /\ readOffset \in Offsets /\ writeOffset \in Offsets
  /\ freeSize \in 0..BufferSize /\ dataCount \in Nat
  /\ out.result \in {"Ok", "NoReadableData", "ReadsizeTooSmall", "BufferFull"}

(* circbuf_readData looks for data by the free size, the threads that poll *)
(* a queue (eventucal_getEventCount, dllkcal_getAsyncTxFrame) by the count *)
(* of blocks: both agree, or a thread would spin on an empty buffer or     *)
(* leave blocks in it.                                                     *)
CountAgrees == (dataCount = 0) <=> (freeSize = BufferSize)

(* The blocks found in the ring by their sizes alone, and the promise of   *)
(* Fifo: whole blocks, in order, refused only for want of room.            *)
BlockStart[k \in 0..dataCount] ==
  IF k = 0 THEN readOffset
  ELSE (BlockStart[k - 1] + FullBlockSize(UInt32At(BlockStart[k - 1]))) % BufferSize
BlockAt(o) == [i \in 1..UInt32At(o) |-> mem[(o + Align + i - 1) % BufferSize]]
Contents == [k \in 1..dataCount |-> BlockAt(BlockStart[k - 1])]

NeedOf(b) == FullBlockSize(Len(b))
FitsIn(b, n) == Len(b) <= n
Abstract == INSTANCE Fifo WITH queue <- Contents, room <- freeSize, Room <- BufferSize,
                               Need <- NeedOf, Fits <- FitsIn

(* The ring implements Fifo.                                               *)
ImplementsFifo == Abstract!Spec
=============================================================================
