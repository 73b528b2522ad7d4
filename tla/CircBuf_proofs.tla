--------------------------- MODULE CircBuf_proofs ---------------------------
(***************************************************************************)
(* For every ring and every set of blocks: the types of CircBuf, the       *)
(* agreement of its two counters, and that it implements Fifo.             *)
(*                                                                         *)
(* What is in the ring is told by the sizes in front of the blocks, one    *)
(* leading to the next.  The invariant says that there is such a chain of  *)
(* positions from readOffset to writeOffset, one block after another and   *)
(* counted without going round, so that it is ordered; a position and the  *)
(* offset in the ring differ by BufferSize or not at all (Around).         *)
(***************************************************************************)
EXTENDS CircBuf, FiniteSetTheorems, SequenceTheorems, TLAPS

(* Induction on the natural numbers, for a set: were x the least number    *)
(* that S lacks, counting up would map the members of S below x one to one *)
(* into all but one of them.                                               *)
LEMMA Induction ==
  ASSUME NEW S, 0 \in S, \A n \in Nat : n \in S => n + 1 \in S
  PROVE  Nat \subseteq S
<1>. SUFFICES ASSUME NEW x \in Nat, x \notin S PROVE FALSE
  OBVIOUS
<1>. DEFINE A == {n \in 0 .. x : n \in S}
            f == [n \in A |-> n + 1]
<1>1. IsFiniteSet(A)
  BY FS_Interval, FS_Subset, 0 \in Int, x \in Int
<1>2. 0 \in A
  OBVIOUS
<1>3. f \in Injection(A, A \ {0})
  <2>1. f \in [A -> A \ {0}] /\ \A a, b \in A : f[a] = f[b] => a = b
    OBVIOUS
  <2>. QED
    BY <2>1 DEF Injection, IsInjective
<1>4. Cardinality(A \ {0}) = Cardinality(A) - 1 /\ IsFiniteSet(A \ {0})
  BY <1>1, <1>2, FS_RemoveElement
<1>5. Cardinality(A) <= Cardinality(A \ {0})
  <2>. HIDE DEF A, f
  <2>. QED
    BY <1>3, <1>4, FS_Injection
<1>. QED
  BY <1>1, <1>4, <1>5, FS_CardinalityType

-----------------------------------------------------------------------------
(* Sizes and offsets.                                                      *)
LEMMA Sizing ==
  /\ BufferSize \in Nat /\ BufferSize >= 4 /\ BufferSize % 4 = 0
  /\ Align = 4
BY CircAssumption, SMT DEF BufferSize, Aligned

LEMMA Padding ==
  ASSUME NEW n \in Nat \ {0}
  PROVE  /\ Aligned(n) \in Nat /\ Aligned(n) % 4 = 0 /\ n <= Aligned(n) /\ Aligned(n) <= n + 3
         /\ FullBlockSize(n) = Aligned(n) + 4
BY CircAssumption DEF Aligned, FullBlockSize

(* A position less than two rounds away from the start of the ring.        *)
Positions == 0 .. (2 * BufferSize - 1)
Around(p) == IF p < BufferSize THEN p ELSE p - BufferSize

LEMMA Multiple ==
  ASSUME NEW N \in Nat \ {0}, NEW x \in 0 .. N - 1, NEW y \in 0 .. N - 1, NEW q \in Int,
         x = y + q * N
  PROVE  x = y
OBVIOUS

LEMMA AroundIsMod ==
  ASSUME NEW p \in Positions
  PROVE  p % BufferSize = Around(p)
<1>. DEFINE N == BufferSize
            x == p % N
            d == p \div N
            y == Around(p)
<1>0. N \in Nat \ {0} /\ p \in Int
  BY Sizing DEF Positions
<1>1. x \in 0 .. N - 1 /\ d \in Int /\ p = d * N + x
  <2>. HIDE DEF N
  <2>. QED
    BY <1>0
<1>2. \E e \in {0, 1} : y \in 0 .. N - 1 /\ p = y + e * N
  BY Sizing DEF Positions, Around
<1>3. PICK e \in {0, 1} : y \in 0 .. N - 1 /\ p = y + e * N
  BY <1>2
<1>. HIDE DEF N, x, d, y
<1>4. (e - d) * N = e * N - d * N /\ d * N \in Int /\ e * N \in Int /\ e - d \in Int
  BY <1>0, <1>1, <1>3
<1>5. x = y + (e - d) * N
  BY <1>0, <1>1, <1>3, <1>4
<1>6. x = y
  BY <1>0, <1>1, <1>3, <1>4, <1>5, Multiple
<1>. QED
  BY <1>6 DEF x, y, N

LEMMA Offset ==
  ASSUME NEW p \in Positions, p % 4 = 0
  PROVE  Around(p) \in Offsets
BY Sizing DEF Positions, Around, Offsets

(* The writers and the reader agree on where the next block begins.        *)
LEMMA AdvanceGoesAround ==
  ASSUME NEW p \in Positions, p % 4 = 0, NEW n \in Nat \ {0}, p + FullBlockSize(n) \in Positions,
         FullBlockSize(n) <= BufferSize
  PROVE  Advance(Around(p), n) = Around(p + FullBlockSize(n))
<1>. DEFINE B == BufferSize
            a == Aligned(n)
            f == FullBlockSize(n)
            o == Around(p)
<1>1. /\ B \in Nat /\ a \in Nat /\ f = a + 4 /\ f \in Nat /\ p \in Nat /\ p + f < 2 * B
      /\ o = IF p < B THEN p ELSE p - B
  BY Sizing, Padding DEF Positions, Around
<1>2. Advance(o, n) = IF o + f > B THEN a - (B - o - 4) ELSE IF o + f = B THEN 0 ELSE o + f
  BY Sizing DEF Advance, Wraps, Chunk
<1>3. Around(p + f) = IF p + f < B THEN p + f ELSE p + f - B
  BY <1>1 DEF Around
<1>. HIDE DEF B, a, f, o
<1>4. Advance(o, n) = Around(p + f)
  BY <1>1, <1>2, <1>3
<1>. QED
  BY <1>4 DEF f, o

-----------------------------------------------------------------------------
(* The chain of the blocks in the ring, and the blocks it leads to.        *)
SizeAt(p) == UInt32At(Around(p))
FoundAt(p) == [i \in 1..SizeAt(p) |-> mem[Around(p + Align + i - 1)]]
Found(pos) == [k \in 1..dataCount |-> FoundAt(pos[k - 1])]
Chain(pos) ==
  /\ pos \in [0..dataCount -> Nat]
  /\ pos[0] = readOffset /\ pos[dataCount] = readOffset + BufferSize - freeSize
  /\ writeOffset = Around(pos[dataCount])
  /\ \A k \in 0..dataCount : pos[k] % 4 = 0
  /\ \A k \in 1..dataCount : /\ SizeAt(pos[k - 1]) \in Nat \ {0}
                             /\ pos[k] = pos[k - 1] + FullBlockSize(SizeAt(pos[k - 1]))
  /\ \A j, k \in 0..dataCount : j < k => pos[j] + 8 <= pos[k]
IInv == TypeOK /\ \E pos : Chain(pos)

LEMMA ChainBounds ==
  \A pos : TypeOK /\ Chain(pos) =>
    \A k \in 0..dataCount : /\ pos[k] \in Positions
                            /\ readOffset <= pos[k] /\ pos[k] <= readOffset + BufferSize - freeSize
                            /\ k < dataCount => pos[k] + 8 <= readOffset + BufferSize - freeSize
<1>. SUFFICES ASSUME NEW pos, TypeOK, Chain(pos), NEW k \in 0..dataCount
              PROVE  /\ pos[k] \in Positions
                     /\ readOffset <= pos[k] /\ pos[k] <= readOffset + BufferSize - freeSize
                     /\ k < dataCount => pos[k] + 8 <= readOffset + BufferSize - freeSize
  OBVIOUS
<1>1. /\ readOffset \in 0..BufferSize - 1 /\ freeSize \in 0..BufferSize /\ dataCount \in Nat
      /\ BufferSize \in Nat
  BY Sizing DEF TypeOK, Offsets
<1>2. pos[k] \in Nat /\ pos[0] = readOffset /\ pos[dataCount] = readOffset + BufferSize - freeSize
  BY <1>1 DEF Chain
<1>3. /\ k = 0 \/ pos[0] + 8 <= pos[k]
      /\ k = dataCount \/ pos[k] + 8 <= pos[dataCount]
  BY <1>1 DEF Chain
<1>. QED
  BY <1>1, <1>2, <1>3 DEF Positions

(* The counters agree: every block takes room.                             *)
LEMMA ChainCounts ==
  \A pos : TypeOK /\ Chain(pos) => CountAgrees
<1>. SUFFICES ASSUME NEW pos, TypeOK, Chain(pos) PROVE CountAgrees
  OBVIOUS
<1>1. /\ readOffset \in Nat /\ freeSize \in 0..BufferSize /\ dataCount \in Nat
      /\ BufferSize \in Nat
  BY Sizing DEF TypeOK, Offsets
<1>2. pos[0] = readOffset /\ pos[dataCount] = readOffset + BufferSize - freeSize
  BY <1>1 DEF Chain
<1>3. dataCount # 0 => pos[0] + 8 <= pos[dataCount]
  BY <1>1 DEF Chain
<1>. QED
  BY <1>1, <1>2, <1>3 DEF CountAgrees

(* The recursion from block to block follows the chain.                    *)
LEMMA StartsFollow ==
  \A pos : TypeOK /\ Chain(pos) =>
    \A k \in 0..dataCount : BlockStart[k] = Around(pos[k])
<1>. SUFFICES ASSUME NEW pos, TypeOK, Chain(pos)
              PROVE  \A k \in 0..dataCount : BlockStart[k] = Around(pos[k])
  OBVIOUS
<1>. DEFINE F(g) == [k \in 0..dataCount |->
                       IF k = 0 THEN readOffset
                       ELSE (g[k - 1] + FullBlockSize(UInt32At(g[k - 1]))) % BufferSize]
            a == [k \in 0..dataCount |-> Around(pos[k])]
<1>0. dataCount \in Nat /\ readOffset \in 0..BufferSize - 1 /\ BufferSize \in Nat
  BY Sizing DEF TypeOK, Offsets
<1>1. ASSUME NEW k \in 1..dataCount
      PROVE  (a[k - 1] + FullBlockSize(UInt32At(a[k - 1]))) % BufferSize = a[k]
  <2>. DEFINE p == pos[k - 1]
              f == FullBlockSize(SizeAt(p))
  <2>1. k - 1 \in 0..dataCount /\ k \in 0..dataCount /\ a[k - 1] = Around(p)
    BY <1>0
  <2>2. p \in Positions /\ pos[k] \in Positions
    BY <2>1, ChainBounds
  <2>3. pos[k] = p + f /\ f \in Nat
    <3>1. SizeAt(p) \in Nat \ {0} /\ pos[k] = p + f
      BY DEF Chain
    <3>2. Aligned(SizeAt(p)) \in Nat /\ f = Aligned(SizeAt(p)) + 4
      BY <3>1, Padding
    <3>. QED
      BY <3>1, <3>2
  <2>4. Around(p) + f \in Positions /\ Around(Around(p) + f) = Around(p + f)
    <3>. HIDE DEF p, f
    <3>. QED
      BY <2>2, <2>3, Sizing DEF Positions, Around
  <2>5. (Around(p) + f) % BufferSize = Around(p + f)
    BY <2>4, AroundIsMod
  <2>. QED
    BY <2>1, <2>3, <2>5 DEF SizeAt
<1>2. a[0] = readOffset
  BY <1>0 DEF Chain, Around
<1>3. a = F(a)
  <2>1. ASSUME NEW k \in 0..dataCount PROVE a[k] = F(a)[k]
    <3>. HIDE DEF a
    <3>1. k = 0 \/ k \in 1..dataCount
      BY <1>0
    <3>. QED
      BY <3>1, <1>1, <1>2
  <2>. QED
    BY <2>1
<1>4. BlockStart = F(BlockStart)
  <2>. HIDE DEF a
  <2>. QED
    BY <1>3 DEF BlockStart
<1>5. BlockStart[0] = readOffset
  BY <1>0, <1>4
<1>6. \A k \in 1..dataCount :
        BlockStart[k] = (BlockStart[k - 1] + FullBlockSize(UInt32At(BlockStart[k - 1]))) % BufferSize
  BY <1>0, <1>4
<1>. DEFINE S == {k \in Nat : k \in 0..dataCount => BlockStart[k] = a[k]}
<1>7. 0 \in S
  BY <1>0, <1>2, <1>5
<1>8. ASSUME NEW k \in Nat, k \in S PROVE k + 1 \in S
  <2>1. CASE k + 1 \in 1..dataCount
    <3>. HIDE DEF a
    <3>1. BlockStart[k] = a[k] /\ k + 1 - 1 = k
      BY <2>1, <1>8, <1>0
    <3>2. BlockStart[k + 1] = a[k + 1]
      BY <2>1, <3>1, <1>1, <1>6
    <3>. QED
      BY <3>2
  <2>2. CASE k + 1 \notin 1..dataCount
    BY <2>2
  <2>. QED
    BY <2>1, <2>2
<1>9. Nat \subseteq S
  <2>. HIDE DEF S
  <2>. QED
    BY <1>7, <1>8, Induction
<1>10. \A k \in 0..dataCount : BlockStart[k] = a[k]
  <2>. HIDE DEF a
  <2>. QED
    BY <1>0, <1>9
<1>. QED
  BY <1>10

LEMMA ContentsFound ==
  \A pos : TypeOK /\ Chain(pos) => Contents = Found(pos)
<1>. SUFFICES ASSUME NEW pos, TypeOK, Chain(pos) PROVE Contents = Found(pos)
  OBVIOUS
<1>0. dataCount \in Nat
  BY DEF TypeOK
<1>1. ASSUME NEW k \in 1..dataCount
      PROVE  BlockAt(BlockStart[k - 1]) = FoundAt(pos[k - 1])
  <2>. DEFINE p == pos[k - 1]
              n == SizeAt(p)
  <2>1. k - 1 \in 0..dataCount /\ k \in 0..dataCount
    BY <1>0
  <2>2. BlockStart[k - 1] = Around(p) /\ p \in Positions /\ pos[k] \in Positions
    BY <2>1, StartsFollow, ChainBounds
  <2>3. n \in Nat \ {0} /\ pos[k] = p + FullBlockSize(n)
    BY DEF Chain
  <2>. HIDE DEF p, n
  <2>4. n + 4 <= FullBlockSize(n) /\ FullBlockSize(n) \in Nat
    <3>1. n \in Nat /\ Aligned(n) \in Nat /\ n <= Aligned(n) /\ FullBlockSize(n) = Aligned(n) + 4
      BY <2>3, Padding
    <3>. QED
      BY <3>1
  <2>5. ASSUME NEW i \in 1..n
        PROVE  (Around(p) + Align + i - 1) % BufferSize = Around(p + Align + i - 1)
    <3>1. p \in Nat /\ p + 4 + i - 1 \in Positions /\ i \in Nat \ {0} /\ BufferSize \in Nat
      BY <2>2, <2>3, <2>4, Sizing DEF Positions
    <3>2. /\ Around(p) + 4 + i - 1 \in Positions
          /\ Around(Around(p) + 4 + i - 1) = Around(p + 4 + i - 1)
      BY <3>1 DEF Positions, Around
    <3>3. Align = 4
      BY Sizing
    <3>. QED
      BY <3>2, <3>3, AroundIsMod
  <2>6. BlockAt(Around(p)) = [i \in 1..n |-> mem[(Around(p) + Align + i - 1) % BufferSize]]
    BY DEF BlockAt, SizeAt, n
  <2>7. FoundAt(p) = [i \in 1..n |-> mem[Around(p + Align + i - 1)]]
    BY DEF FoundAt, n
  <2>8. BlockAt(Around(p)) = FoundAt(p)
    BY <2>5, <2>6, <2>7
  <2>. QED
    BY <2>2, <2>8 DEF p
<1>. QED
  BY <1>1 DEF Contents, Found

-----------------------------------------------------------------------------
(* What the writers leave in the ring.                                     *)
Memories == [0..(BufferSize - 1) -> 0..255]
Bytes == Seq(0..255)
Value(m, o) == m[o] + 256 * (m[o + 1] + 256 * (m[o + 2] + 256 * m[o + 3]))

LEMMA PutFacts ==
  ASSUME NEW m \in Memories, NEW w \in Offsets, NEW n \in Nat, n < BufferSize
  PROVE  /\ PutUInt32(m, w, n) \in Memories /\ Value(PutUInt32(m, w, n), w) = n
         /\ \A x \in 0..BufferSize - 1 : x \notin w..w + 3 => PutUInt32(m, w, n)[x] = m[x]
<1>. DEFINE a == n % 256
            b == (n \div 256) % 256
            c == (n \div 65536) % 256
            d == n \div 16777216
            p == PutUInt32(m, w, n)
<1>1. BufferSize \in Nat /\ BufferSize % 4 = 0 /\ BufferSize \div 4 < 1073741824
  BY Sizing, WidthAssumption, SMT
<1>2. w \in Nat /\ w % 4 = 0 /\ w < BufferSize
  BY <1>1, Sizing, SMT DEF Offsets
<1>3. w + 3 < BufferSize
  BY <1>1, <1>2, SMT
<1>4. /\ a \in 0..255 /\ b \in 0..255 /\ c \in 0..255 /\ d \in 0..255
      /\ n = a + 256 * (b + 256 * (c + 256 * d))
  <2>1. n \div 4 < 1073741824
    BY <1>1, SMT
  <2>2. d < 256 /\ d \in Nat
    BY <2>1, SMT
  <2>3. /\ a \in 0..255 /\ n \div 256 \in Nat /\ n = a + 256 * (n \div 256)
        /\ b \in 0..255 /\ n \div 65536 \in Nat /\ n \div 256 = b + 256 * (n \div 65536)
        /\ c \in 0..255 /\ n \div 65536 = c + 256 * d
    BY SMT
  <2>. QED
    BY <2>2, <2>3, SMT
<1>5. p = [m EXCEPT ![w] = a, ![w + 1] = b, ![w + 2] = c, ![w + 3] = d]
  BY SMT DEF PutUInt32
<1>. HIDE DEF a, b, c, d, p
<1>6. p \in Memories
  <2>1. DOMAIN p = 0..BufferSize - 1 /\ DOMAIN m = 0..BufferSize - 1
    BY <1>5 DEF Memories
  <2>2. \A x \in 0..BufferSize - 1 : p[x] \in 0..255
    BY <1>2, <1>3, <1>4, <1>5 DEF Memories
  <2>. QED
    BY <1>5, <2>1, <2>2 DEF Memories
<1>7. p[w] = a /\ p[w + 1] = b /\ p[w + 2] = c /\ p[w + 3] = d
  BY Sizing, <1>2, <1>3, <1>5, SMT DEF Memories
<1>8. \A x \in 0..BufferSize - 1 : x \notin w..w + 3 => p[x] = m[x]
  BY Sizing, <1>2, <1>3, <1>5, SMT DEF Memories
<1>9. Value(p, w) = n
  BY <1>4, <1>7 DEF Value
<1>. QED
  BY <1>6, <1>8, <1>9 DEF p

LEMMA Element ==
  ASSUME NEW S, NEW s \in Seq(S), NEW i \in 1..Len(s)
  PROVE  s[i] \in S
OBVIOUS

LEMMA CopyFacts ==
  ASSUME NEW m \in Memories, NEW o \in Nat, NEW data \in Bytes, NEW k \in Nat, NEW n \in Nat,
         k + n <= Len(data)
  PROVE  /\ Copy(m, o, data, k, n) \in Memories
         /\ \A x \in 0..BufferSize - 1 :
              Copy(m, o, data, k, n)[x] =
                IF x \in o..(o + n - 1) THEN data[k + x - o + 1] ELSE m[x]
<1>. DEFINE D == 0..BufferSize - 1
<1>1. DOMAIN m = D /\ BufferSize \in Nat /\ Len(data) \in Nat
  BY Sizing DEF Memories, Bytes
<1>2. \A x \in D : x \in o..(o + n - 1) => data[k + x - o + 1] \in 0..255
  <2>. SUFFICES ASSUME NEW x \in D, x \in o..(o + n - 1) PROVE data[k + x - o + 1] \in 0..255
    OBVIOUS
  <2>0. x \in Nat /\ o <= x /\ x <= o + n - 1 /\ Len(data) \in Nat
    BY <1>1
  <2>1. k + x - o + 1 \in 1..Len(data)
    <3>. HIDE DEF D
    <3>. QED
      BY <2>0
  <2>. QED
    BY <2>1, Element DEF Bytes
<1>3. \A x \in D : m[x] \in 0..255
  BY DEF Memories
<1>. QED
  BY <1>1, <1>2, <1>3 DEF Copy, Memories

(* The bytes of block b from offset w + 4 on, around the end of the ring,  *)
(* over memory p.                                                          *)
Laid(mm, p, w, b) ==
  /\ mm \in Memories
  /\ \A x \in 0..BufferSize - 1 :
       mm[x] = IF x \in (w + 4)..(w + 3 + Len(b)) THEN b[x - w - 3]
               ELSE IF x + BufferSize <= w + 3 + Len(b) THEN b[x + BufferSize - w - 3]
               ELSE p[x]

LEMMA Wrapping ==
  ASSUME NEW w \in Offsets, NEW n \in Nat \ {0}, FullBlockSize(n) <= BufferSize
  PROVE  /\ w \in Nat /\ w + 4 <= BufferSize
         /\ n + 4 <= BufferSize
         /\ Chunk(w) = BufferSize - w - 4 /\ Chunk(w) \in Nat
         /\ ~Wraps(w, n) => w + 4 + n <= BufferSize
         /\ Wraps(w, n) => Chunk(w) < n
<1>. DEFINE B == BufferSize
            a == Aligned(n)
<1>1. B \in Nat /\ B % 4 = 0 /\ Align = 4 /\ w \in Nat /\ w % 4 = 0 /\ w < B
  BY Sizing DEF Offsets
<1>2. a \in Nat /\ a % 4 = 0 /\ n <= a /\ a <= n + 3 /\ FullBlockSize(n) = a + 4
  BY Padding
<1>3. Wraps(w, n) <=> w + (a + 4) > B
  BY <1>2 DEF Wraps
<1>4. Chunk(w) = B - w - 4
  BY <1>1 DEF Chunk
<1>. HIDE DEF B, a
<1>5. w + 4 <= B
  BY <1>1
<1>6. w + (a + 4) > B => a >= B - w - 4 + 4
  BY <1>1, <1>2
<1>7. a + 4 <= B
  BY <1>2 DEF B
<1>. QED
  BY <1>1, <1>2, <1>3, <1>4, <1>5, <1>6, <1>7 DEF B

LEMMA OnePart ==
  ASSUME NEW p \in Memories, NEW w \in Offsets, NEW b \in Bytes, b # << >>,
         FullBlockSize(Len(b)) <= BufferSize
  PROVE  LET n == Len(b)
             o == w + Align
         IN  Laid(IF ~Wraps(w, n) THEN Copy(p, o, b, 0, n)
                  ELSE Copy(Copy(p, o, b, 0, Chunk(w)), 0, b, Chunk(w), n - Chunk(w)),
                  p, w, b)
<1>. DEFINE n == Len(b)
            o == w + Align
            c == Chunk(w)
            B == BufferSize
<1>1. n \in Nat \ {0} /\ o = w + 4 /\ B \in Nat
  BY Sizing DEF Bytes
<1>2. /\ w \in Nat /\ w + 4 <= B /\ n + 4 <= B /\ c = B - w - 4 /\ c \in Nat
      /\ ~Wraps(w, n) => w + 4 + n <= B
      /\ Wraps(w, n) => c < n
  BY <1>1, Wrapping
<1>. HIDE DEF n, o, c, B
<1>3. CASE ~Wraps(w, n)
  <2>. DEFINE z == 0
              q == Copy(p, o, b, z, n)
  <2>0. z \in Nat /\ z + n <= Len(b) /\ o \in Nat /\ n \in Nat
    BY <1>1, <1>2 DEF n
  <2>. HIDE DEF z
  <2>1. /\ q \in Memories
        /\ \A x \in 0..BufferSize - 1 :
             q[x] = IF x \in o..(o + n - 1) THEN b[z + x - o + 1] ELSE p[x]
    BY <2>0, CopyFacts
  <2>. HIDE DEF q
  <2>2. Laid(q, p, w, b)
    BY <2>1, <1>1, <1>2, <1>3 DEF Laid, n, B, z
  <2>. QED
    BY <1>3, <2>2 DEF q, z, n, o
<1>4. CASE Wraps(w, n)
  <2>. DEFINE z == 0
              q == Copy(p, o, b, z, c)
              e == n - c
              r == Copy(q, z, b, c, e)
  <2>0. /\ z \in Nat /\ z + c <= Len(b) /\ o \in Nat /\ c + e <= Len(b) /\ e \in Nat
        /\ c \in Nat
    BY <1>1, <1>2, <1>4 DEF n
  <2>. HIDE DEF z, e
  <2>1. /\ q \in Memories
        /\ \A x \in 0..BufferSize - 1 :
             q[x] = IF x \in o..(o + c - 1) THEN b[z + x - o + 1] ELSE p[x]
    BY <2>0, CopyFacts
  <2>. HIDE DEF q
  <2>2. /\ r \in Memories
        /\ \A x \in 0..BufferSize - 1 :
             r[x] = IF x \in z..(z + e - 1) THEN b[c + x - z + 1] ELSE q[x]
    BY <2>0, <2>1, CopyFacts
  <2>. HIDE DEF r
  <2>3. ASSUME NEW x \in 0..BufferSize - 1
        PROVE  r[x] = IF x \in (w + 4)..(w + 3 + n) THEN b[x - w - 3]
                      ELSE IF x + B <= w + 3 + n THEN b[x + B - w - 3]
                      ELSE p[x]
    <3>1. /\ x \in 0..B - 1 /\ z = 0 /\ e = n - c
          /\ q[x] = IF x \in o..(o + c - 1) THEN b[z + x - o + 1] ELSE p[x]
          /\ r[x] = IF x \in z..(z + e - 1) THEN b[c + x - z + 1] ELSE q[x]
      BY <2>1, <2>2 DEF B, z, e
    <3>2. CASE x < e
      <4>1. r[x] = b[c + x + 1] /\ c + x + 1 = x + B - w - 3
        BY <1>1, <1>2, <2>0, <3>1, <3>2
      <4>. QED
        BY <1>1, <1>2, <1>4, <2>0, <3>1, <3>2, <4>1
    <3>3. CASE x >= e /\ x >= w + 4
      <4>1. x \notin z..(z + e - 1) /\ x \in o..(o + c - 1) /\ z + x - o + 1 = x - w - 3
        BY <1>1, <1>2, <2>0, <3>1, <3>3
      <4>. QED
        BY <1>1, <1>2, <1>4, <2>0, <3>1, <3>3, <4>1
    <3>4. CASE x >= e /\ x < w + 4
      BY <1>1, <1>2, <1>4, <2>0, <3>1, <3>4
    <3>. QED
      BY <1>1, <1>2, <2>0, <3>1, <3>2, <3>3, <3>4
  <2>4. Laid(r, p, w, b)
    BY <2>2, <2>3 DEF Laid, n, B
  <2>. QED
    BY <1>4, <2>4 DEF r, q, z, e, n, o, c
<1>. QED
  BY <1>3, <1>4 DEF n, o, c

(* The same for a block that is handed over in two parts.                  *)
Joined(first, second, b) ==
  /\ Len(b) = Len(first) + Len(second)
  /\ \A i \in 1..Len(b) : b[i] = IF i <= Len(first) THEN first[i] ELSE second[i - Len(first)]
LEMMA TwoParts ==
  ASSUME NEW p \in Memories, writeOffset \in Offsets,
         NEW first \in Bytes, NEW second \in Bytes, NEW b \in Bytes, b # << >>,
         Joined(first, second, b), FullBlockSize(Len(b)) <= BufferSize
  PROVE  Laid(CopyParts(p, first, second), p, writeOffset, b)
<1>. DEFINE w == writeOffset
            n1 == Len(first)
            n2 == Len(second)
            n == n1 + n2
            o == w + Align
            c == Chunk(w)
            B == BufferSize
            z == 0
<1>1. /\ n1 \in Nat /\ n2 \in Nat /\ n \in Nat \ {0} /\ n = Len(b) /\ o = w + 4 /\ B \in Nat
      /\ n = n1 + n2
  BY Sizing DEF Bytes, Joined
<1>2. /\ w \in Nat /\ w + 4 <= B /\ n + 4 <= B /\ c = B - w - 4 /\ c \in Nat /\ o \in Nat
      /\ ~Wraps(w, n) => w + 4 + n <= B
      /\ Wraps(w, n) => c < n
  BY <1>1, Wrapping
<1>3. \A i \in 1..n : b[i] = IF i <= n1 THEN first[i] ELSE second[i - n1]
  BY <1>1 DEF Joined
<1>. DEFINE laid(mm, x) == mm[x] = IF x \in (w + 4)..(w + 3 + n) THEN b[x - w - 3]
                                   ELSE IF x + B <= w + 3 + n THEN b[x + B - w - 3]
                                   ELSE p[x]
<1>4. ASSUME NEW mm \in Memories, \A x \in 0..BufferSize - 1 : laid(mm, x)
      PROVE  Laid(mm, p, w, b)
  BY <1>1, <1>4 DEF Laid
<1>. HIDE DEF w, n1, n2, n, o, c, B, z
<1>5. CASE ~Wraps(w, n)
  <2>. DEFINE q == Copy(p, o, first, z, n1)
              u == o + n1
              r == Copy(q, u, second, z, n2)
  <2>0. /\ z \in Nat /\ z + n1 <= Len(first) /\ z + n2 <= Len(second) /\ u \in Nat
        /\ o \in Nat /\ n1 \in Nat /\ n2 \in Nat
    BY <1>1, <1>2 DEF n1, n2, z
  <2>1. /\ q \in Memories
        /\ \A x \in 0..BufferSize - 1 :
             q[x] = IF x \in o..(o + n1 - 1) THEN first[z + x - o + 1] ELSE p[x]
    BY <2>0, CopyFacts
  <2>6. q \in Memories
    BY <2>1
  <2>. HIDE DEF q, u
  <2>2. /\ r \in Memories
        /\ \A x \in 0..BufferSize - 1 :
             r[x] = IF x \in u..(u + n2 - 1) THEN second[z + x - u + 1] ELSE q[x]
    BY <2>0, <2>6, CopyFacts
  <2>. HIDE DEF r
  <2>3. ASSUME NEW x \in 0..BufferSize - 1 PROVE laid(r, x)
    <3>1. /\ x \in 0..B - 1 /\ z = 0 /\ u = o + n1
          /\ q[x] = IF x \in o..(o + n1 - 1) THEN first[z + x - o + 1] ELSE p[x]
          /\ r[x] = IF x \in u..(u + n2 - 1) THEN second[z + x - u + 1] ELSE q[x]
      BY <2>1, <2>2 DEF B, z, u
    <3>2. CASE x \in u..(u + n2 - 1)
      <4>. DEFINE i == x - w - 3
      <4>1. i \in 1..n /\ ~(i <= n1) /\ z + x - u + 1 = i - n1 /\ x \in (w + 4)..(w + 3 + n)
        BY <1>1, <1>2, <3>1, <3>2
      <4>. QED
        BY <1>3, <3>1, <3>2, <4>1
    <3>3. CASE x \notin u..(u + n2 - 1) /\ x \in o..(o + n1 - 1)
      <4>. DEFINE i == x - w - 3
      <4>1. i \in 1..n /\ i <= n1 /\ z + x - o + 1 = i /\ x \in (w + 4)..(w + 3 + n)
        BY <1>1, <1>2, <3>1, <3>3
      <4>. QED
        BY <1>3, <3>1, <3>3, <4>1
    <3>4. CASE x \notin u..(u + n2 - 1) /\ x \notin o..(o + n1 - 1)
      <4>1. x \notin (w + 4)..(w + 3 + n) /\ ~(x + B <= w + 3 + n)
        BY <1>1, <1>2, <1>5, <3>1, <3>4
      <4>. QED
        BY <3>1, <3>4, <4>1
    <3>. QED
      BY <3>2, <3>3, <3>4
  <2>4. Laid(r, p, w, b)
    BY <1>4, <2>2, <2>3
  <2>. QED
    BY <1>5, <2>4 DEF CopyParts, r, q, u, z, n, n1, n2, o, w
<1>6. CASE Wraps(w, n) /\ n1 <= c
  <2>. DEFINE q == Copy(p, o, first, z, n1)
              u == o + n1
              d == c - n1
              s == Copy(q, u, second, z, d)
              e == n2 - d
              r == Copy(s, z, second, d, e)
  <2>0. /\ z \in Nat /\ z + n1 <= Len(first) /\ d \in Nat /\ z + d <= Len(second)
        /\ e \in Nat /\ d + e <= Len(second) /\ u \in Nat /\ o \in Nat /\ n1 \in Nat
    BY <1>1, <1>2, <1>6 DEF n1, n2, z
  <2>. HIDE DEF e, d, u
  <2>1. /\ q \in Memories
        /\ \A x \in 0..BufferSize - 1 :
             q[x] = IF x \in o..(o + n1 - 1) THEN first[z + x - o + 1] ELSE p[x]
    BY <2>0, CopyFacts
  <2>6. q \in Memories
    BY <2>1
  <2>. HIDE DEF q
  <2>2. /\ s \in Memories
        /\ \A x \in 0..BufferSize - 1 :
             s[x] = IF x \in u..(u + d - 1) THEN second[z + x - u + 1] ELSE q[x]
    BY <2>0, <2>6, CopyFacts
  <2>7. s \in Memories
    BY <2>2
  <2>. HIDE DEF s
  <2>3. /\ r \in Memories
        /\ \A x \in 0..BufferSize - 1 :
             r[x] = IF x \in z..(z + e - 1) THEN second[d + x - z + 1] ELSE s[x]
    BY <2>0, <2>7, CopyFacts
  <2>. HIDE DEF r
  <2>4. ASSUME NEW x \in 0..BufferSize - 1 PROVE laid(r, x)
    <3>1. /\ x \in 0..B - 1 /\ z = 0 /\ u = o + n1 /\ d = c - n1 /\ e = n2 - d
          /\ q[x] = IF x \in o..(o + n1 - 1) THEN first[z + x - o + 1] ELSE p[x]
          /\ s[x] = IF x \in u..(u + d - 1) THEN second[z + x - u + 1] ELSE q[x]
          /\ r[x] = IF x \in z..(z + e - 1) THEN second[d + x - z + 1] ELSE s[x]
      BY <2>1, <2>2, <2>3 DEF B, z, u, d, e
    <3>2. CASE x \in z..(z + e - 1)
      <4>. DEFINE i == x + B - w - 3
      <4>1. /\ i \in 1..n /\ ~(i <= n1) /\ d + x - z + 1 = i - n1
            /\ x \notin (w + 4)..(w + 3 + n) /\ x + B <= w + 3 + n
        BY <1>1, <1>2, <1>6, <3>1, <3>2
      <4>. QED
        BY <1>3, <3>1, <3>2, <4>1
    <3>3. CASE x \notin z..(z + e - 1) /\ x \in u..(u + d - 1)
      <4>. DEFINE i == x - w - 3
      <4>1. i \in 1..n /\ ~(i <= n1) /\ z + x - u + 1 = i - n1 /\ x \in (w + 4)..(w + 3 + n)
        BY <1>1, <1>2, <1>6, <3>1, <3>3
      <4>. QED
        BY <1>3, <3>1, <3>3, <4>1
    <3>4. CASE x \notin z..(z + e - 1) /\ x \notin u..(u + d - 1) /\ x \in o..(o + n1 - 1)
      <4>. DEFINE i == x - w - 3
      <4>1. i \in 1..n /\ i <= n1 /\ z + x - o + 1 = i /\ x \in (w + 4)..(w + 3 + n)
        BY <1>1, <1>2, <1>6, <3>1, <3>4
      <4>. QED
        BY <1>3, <3>1, <3>4, <4>1
    <3>5. CASE x \notin z..(z + e - 1) /\ x \notin u..(u + d - 1) /\ x \notin o..(o + n1 - 1)
      <4>1. x \notin (w + 4)..(w + 3 + n) /\ ~(x + B <= w + 3 + n)
        BY <1>1, <1>2, <1>6, <3>1, <3>5
      <4>. QED
        BY <3>1, <3>5, <4>1
    <3>. QED
      BY <3>2, <3>3, <3>4, <3>5
  <2>5. Laid(r, p, w, b)
    BY <1>4, <2>3, <2>4
  <2>. QED
    BY <1>6, <2>5 DEF CopyParts, r, s, q, u, d, e, z, n, n1, n2, o, c, w
<1>7. CASE Wraps(w, n) /\ ~(n1 <= c)
  <2>. DEFINE q == Copy(p, o, first, z, c)
              d == n1 - c
              s == Copy(q, z, first, c, d)
              r == Copy(s, d, second, z, n2)
  <2>0. /\ z \in Nat /\ z + c <= Len(first) /\ d \in Nat /\ c + d <= Len(first)
        /\ z + n2 <= Len(second) /\ o \in Nat /\ c \in Nat /\ n2 \in Nat
    BY <1>1, <1>2, <1>7 DEF n1, n2, z
  <2>. HIDE DEF d
  <2>1. /\ q \in Memories
        /\ \A x \in 0..BufferSize - 1 :
             q[x] = IF x \in o..(o + c - 1) THEN first[z + x - o + 1] ELSE p[x]
    BY <2>0, CopyFacts
  <2>6. q \in Memories
    BY <2>1
  <2>. HIDE DEF q
  <2>2. /\ s \in Memories
        /\ \A x \in 0..BufferSize - 1 :
             s[x] = IF x \in z..(z + d - 1) THEN first[c + x - z + 1] ELSE q[x]
    BY <2>0, <2>6, CopyFacts
  <2>7. s \in Memories
    BY <2>2
  <2>. HIDE DEF s
  <2>3. /\ r \in Memories
        /\ \A x \in 0..BufferSize - 1 :
             r[x] = IF x \in d..(d + n2 - 1) THEN second[z + x - d + 1] ELSE s[x]
    BY <2>0, <2>7, CopyFacts
  <2>. HIDE DEF r
  <2>4. ASSUME NEW x \in 0..BufferSize - 1 PROVE laid(r, x)
    <3>1. /\ x \in 0..B - 1 /\ z = 0 /\ d = n1 - c
          /\ q[x] = IF x \in o..(o + c - 1) THEN first[z + x - o + 1] ELSE p[x]
          /\ s[x] = IF x \in z..(z + d - 1) THEN first[c + x - z + 1] ELSE q[x]
          /\ r[x] = IF x \in d..(d + n2 - 1) THEN second[z + x - d + 1] ELSE s[x]
      BY <2>1, <2>2, <2>3 DEF B, z, d
    <3>2. CASE x \in d..(d + n2 - 1)
      <4>. DEFINE i == x + B - w - 3
      <4>1. /\ i \in 1..n /\ ~(i <= n1) /\ z + x - d + 1 = i - n1
            /\ x \notin (w + 4)..(w + 3 + n) /\ x + B <= w + 3 + n
        BY <1>1, <1>2, <1>7, <3>1, <3>2
      <4>. QED
        BY <1>3, <3>1, <3>2, <4>1
    <3>3. CASE x \notin d..(d + n2 - 1) /\ x \in z..(z + d - 1)
      <4>. DEFINE i == x + B - w - 3
      <4>1. /\ i \in 1..n /\ i <= n1 /\ c + x - z + 1 = i
            /\ x \notin (w + 4)..(w + 3 + n) /\ x + B <= w + 3 + n
        BY <1>1, <1>2, <1>7, <3>1, <3>3
      <4>. QED
        BY <1>3, <3>1, <3>3, <4>1
    <3>4. CASE x \notin d..(d + n2 - 1) /\ x \notin z..(z + d - 1) /\ x \in o..(o + c - 1)
      <4>. DEFINE i == x - w - 3
      <4>1. i \in 1..n /\ i <= n1 /\ z + x - o + 1 = i /\ x \in (w + 4)..(w + 3 + n)
        BY <1>1, <1>2, <1>7, <3>1, <3>4
      <4>. QED
        BY <1>3, <3>1, <3>4, <4>1
    <3>5. CASE x \notin d..(d + n2 - 1) /\ x \notin z..(z + d - 1) /\ x \notin o..(o + c - 1)
      <4>1. x \notin (w + 4)..(w + 3 + n) /\ ~(x + B <= w + 3 + n)
        BY <1>1, <1>2, <1>7, <3>1, <3>5
      <4>. QED
        BY <3>1, <3>5, <4>1
    <3>. QED
      BY <3>2, <3>3, <3>4, <3>5
  <2>5. Laid(r, p, w, b)
    BY <1>4, <2>3, <2>4
  <2>. QED
    BY <1>7, <2>5 DEF CopyParts, r, s, q, d, z, n, n1, n2, o, c, w
<1>. QED
  BY <1>5, <1>6, <1>7 DEF w

LEMMA LaidStores ==
  ASSUME NEW m \in Memories, NEW w \in Offsets, NEW b \in Bytes, b # << >>,
         FullBlockSize(Len(b)) <= BufferSize,
         NEW mm, Laid(mm, PutUInt32(m, w, Len(b)), w, b)
  PROVE  /\ mm \in Memories /\ Value(mm, w) = Len(b)
         /\ \A i \in 1..Len(b) : mm[Around(w + 4 + i - 1)] = b[i]
         /\ \A j \in FullBlockSize(Len(b))..BufferSize - 1 : mm[Around(w + j)] = m[Around(w + j)]
<1>. DEFINE n == Len(b)
            p == PutUInt32(m, w, n)
            B == BufferSize
            f == FullBlockSize(n)
<1>1. n \in Nat \ {0} /\ B \in Nat
  BY Sizing DEF Bytes
<1>2. w \in Nat /\ w + 4 <= B /\ n + 4 <= B
  BY <1>1, Wrapping
<1>3. f \in Nat /\ n + 4 <= f /\ f <= B
  <2>. HIDE DEF n
  <2>1. Aligned(n) \in Nat /\ n <= Aligned(n) /\ FullBlockSize(n) = Aligned(n) + 4
    BY <1>1, Padding
  <2>2. FullBlockSize(n) <= B
    BY DEF n
  <2>. QED
    BY <1>1, <2>1, <2>2
<1>4. /\ Value(p, w) = n
      /\ \A x \in 0..BufferSize - 1 : x \notin w..w + 3 => p[x] = m[x]
  <2>. HIDE DEF n
  <2>. QED
    BY <1>1, <1>2, PutFacts
<1>5. /\ mm \in Memories
      /\ \A x \in 0..B - 1 :
           mm[x] = IF x \in (w + 4)..(w + 3 + n) THEN b[x - w - 3]
                   ELSE IF x + B <= w + 3 + n THEN b[x + B - w - 3]
                   ELSE p[x]
  BY DEF Laid
<1>. HIDE DEF n, p, B, f
<1>6. mm[w] = p[w] /\ mm[w + 1] = p[w + 1] /\ mm[w + 2] = p[w + 2] /\ mm[w + 3] = p[w + 3]
  <2>1. ASSUME NEW x \in 0..B - 1, w <= x, x <= w + 3 PROVE mm[x] = p[x]
    <3>1. x \notin (w + 4)..(w + 3 + n) /\ ~(x + B <= w + 3 + n)
      BY <1>1, <1>2, <2>1
    <3>. QED
      BY <1>5, <3>1
  <2>2. w \in 0..B - 1 /\ w + 1 \in 0..B - 1 /\ w + 2 \in 0..B - 1 /\ w + 3 \in 0..B - 1
    BY <1>1, <1>2
  <2>. QED
    BY <1>2, <2>1, <2>2
<1>7. Value(mm, w) = n
  BY <1>4, <1>6 DEF Value
<1>8. ASSUME NEW i \in 1..n PROVE mm[Around(w + 4 + i - 1)] = b[i]
  <2>. DEFINE x == Around(w + 4 + i - 1)
  <2>1. \/ x = w + 4 + i - 1 /\ x \in 0..B - 1
        \/ x = w + 4 + i - 1 - B /\ x \in 0..B - 1
    BY <1>1, <1>2 DEF Around, B
  <2>. HIDE DEF x
  <2>2. CASE x = w + 4 + i - 1 /\ x \in 0..B - 1
    <3>1. x \in (w + 4)..(w + 3 + n) /\ x - w - 3 = i
      BY <1>1, <1>2, <2>2
    <3>. QED
      BY <1>5, <2>2, <3>1 DEF x
  <2>3. CASE x = w + 4 + i - 1 - B /\ x \in 0..B - 1
    <3>1. x \notin (w + 4)..(w + 3 + n) /\ x + B <= w + 3 + n /\ x + B - w - 3 = i
      BY <1>1, <1>2, <2>3
    <3>. QED
      BY <1>5, <2>3, <3>1 DEF x
  <2>. QED
    BY <2>1, <2>2, <2>3
<1>9. ASSUME NEW j \in f..B - 1 PROVE mm[Around(w + j)] = m[Around(w + j)]
  <2>. DEFINE x == Around(w + j)
  <2>1. \/ x = w + j /\ x \in 0..B - 1
        \/ x = w + j - B /\ x \in 0..B - 1
    BY <1>1, <1>2, <1>3 DEF Around, B
  <2>. HIDE DEF x
  <2>2. x \notin (w + 4)..(w + 3 + n) /\ ~(x + B <= w + 3 + n) /\ x \notin w..w + 3
    BY <1>1, <1>2, <1>3, <2>1
  <2>3. mm[x] = p[x]
    BY <1>5, <2>1, <2>2
  <2>4. p[x] = m[x]
    BY <1>4, <2>1, <2>2 DEF B
  <2>. QED
    BY <2>3, <2>4 DEF x
<1>. QED
  BY <1>5, <1>7, <1>8, <1>9 DEF n, f, B

(* A writer lets the blocks that are there alone.                          *)
LEMMA OldBytesStay ==
  ASSUME TypeOK, NEW pos, Chain(pos), NEW f \in Nat, f <= freeSize,
         \A j \in f..BufferSize - 1 : mem'[Around(writeOffset + j)] = mem[Around(writeOffset + j)],
         NEW p \in Nat, readOffset <= p, p < pos[dataCount]
  PROVE  mem'[Around(p)] = mem[Around(p)]
<1>. DEFINE B == BufferSize
            e == pos[dataCount]
            j == p + B - e
<1>1. /\ B \in Nat /\ dataCount \in 0..dataCount /\ freeSize \in 0..B /\ readOffset \in 0..B - 1
  BY Sizing DEF TypeOK, Offsets
<1>2. e = readOffset + B - freeSize /\ writeOffset = Around(e)
  BY <1>1 DEF Chain
<1>3. writeOffset = IF e < B THEN e ELSE e - B
  BY <1>2 DEF Around
<1>4. Around(p) = IF p < B THEN p ELSE p - B
  BY DEF Around
<1>6. p < e
  OBVIOUS
<1>. HIDE DEF B, e, j
<1>7. j = p + B - e /\ e \in Int /\ j \in Int /\ writeOffset \in Int
  BY <1>1, <1>2, <1>3 DEF j
<1>5. Around(writeOffset + j) = IF writeOffset + j < B THEN writeOffset + j ELSE writeOffset + j - B
  BY <1>1, <1>7 DEF Around, B
<1>8. j \in f..B - 1
  BY <1>1, <1>2, <1>6, <1>7
<1>9. Around(writeOffset + j) = Around(p)
  BY <1>1, <1>2, <1>3, <1>4, <1>5, <1>6, <1>7
<1>. QED
  BY <1>8, <1>9 DEF B

LEMMA OldBlocksStay ==
  ASSUME TypeOK, NEW pos, Chain(pos), NEW f \in Nat, f <= freeSize,
         \A j \in f..BufferSize - 1 : mem'[Around(writeOffset + j)] = mem[Around(writeOffset + j)],
         NEW k \in 1..dataCount
  PROVE  SizeAt(pos[k - 1])' = SizeAt(pos[k - 1]) /\ FoundAt(pos[k - 1])' = FoundAt(pos[k - 1])
<1>. DEFINE B == BufferSize
            p == pos[k - 1]
            n == SizeAt(p)
<1>0. dataCount \in Nat /\ B \in Nat /\ B % 4 = 0 /\ Align = 4 /\ readOffset \in Nat
  BY Sizing DEF TypeOK, Offsets
<1>1. k - 1 \in 0..dataCount /\ k \in 0..dataCount /\ dataCount \in 0..dataCount
  BY <1>0
<1>2. /\ p \in Positions /\ readOffset <= p /\ pos[k] \in Positions /\ pos[dataCount] \in Positions
  BY <1>1, ChainBounds
<1>3. n \in Nat \ {0} /\ pos[k] = p + FullBlockSize(n) /\ p % 4 = 0
  BY <1>1 DEF Chain
<1>4. pos[k] <= pos[dataCount]
  <2>1. pos[k] + 8 <= pos[dataCount] \/ k = dataCount
    BY <1>0, <1>1 DEF Chain
  <2>. QED
    BY <1>2, <2>1 DEF Positions
<1>5. p + n + 4 <= pos[dataCount] /\ p \in Nat /\ p < 2 * B
  <2>. HIDE DEF n, p
  <2>1. Aligned(n) \in Nat /\ n <= Aligned(n) /\ FullBlockSize(n) = Aligned(n) + 4
    BY <1>3, Padding
  <2>. QED
    BY <1>0, <1>2, <1>3, <1>4, <2>1 DEF Positions
<1>6. ASSUME NEW i \in 0..n + 3 PROVE mem'[Around(p + i)] = mem[Around(p + i)]
  <2>. DEFINE q == p + i
  <2>. HIDE DEF n, p
  <2>1. q \in Nat /\ readOffset <= q /\ q < pos[dataCount]
    BY <1>0, <1>2, <1>3, <1>5 DEF Positions
  <2>. HIDE DEF q
  <2>2. mem'[Around(q)] = mem[Around(q)]
    BY <2>1, OldBytesStay
  <2>. QED
    BY <2>2 DEF q
<1>7. /\ Around(p + 0) = Around(p) /\ Around(p + 1) = Around(p) + 1
      /\ Around(p + 2) = Around(p) + 2 /\ Around(p + 3) = Around(p) + 3
  <2>1. p + 3 < B \/ p >= B
    <3>. HIDE DEF B, p
    <3>. QED
      BY <1>0, <1>3, <1>5
  <2>. QED
    BY <1>0, <1>5, <2>1 DEF Around
<1>. HIDE DEF n, p
<1>8. 0 \in 0..n + 3 /\ 1 \in 0..n + 3 /\ 2 \in 0..n + 3 /\ 3 \in 0..n + 3
  BY <1>3
<1>9. /\ mem'[Around(p)] = mem[Around(p)] /\ mem'[Around(p) + 1] = mem[Around(p) + 1]
      /\ mem'[Around(p) + 2] = mem[Around(p) + 2] /\ mem'[Around(p) + 3] = mem[Around(p) + 3]
  BY <1>6, <1>7, <1>8
<1>10. UInt32At(Around(p))' = UInt32At(Around(p))
  BY <1>9 DEF UInt32At
<1>11. SizeAt(p)' = n
  BY <1>10 DEF SizeAt, n
<1>12. ASSUME NEW i \in 1..n PROVE mem'[Around(p + Align + i - 1)] = mem[Around(p + Align + i - 1)]
  <2>. DEFINE h == i + 3
  <2>1. h \in 0..n + 3 /\ p + Align + i - 1 = p + h
    BY <1>0, <1>3, <1>5
  <2>. QED
    BY <1>6, <2>1
<1>13. FoundAt(p)' = FoundAt(p)
  BY <1>11, <1>12 DEF FoundAt, n
<1>. QED
  BY <1>11, <1>13 DEF p, n

-----------------------------------------------------------------------------
(* Sequences given by their elements.                                      *)
LEMMA SequenceIs ==
  ASSUME NEW N \in Nat, NEW s, s = [k \in 1..N |-> s[k]]
  PROVE  \E T : s \in Seq(T) /\ Len(s) = N
<1>. DEFINE T == {s[k] : k \in 1..N}
<1>1. s \in [1..N -> T]
  OBVIOUS
<1>. HIDE DEF T
<1>. QED
  BY <1>1

LEMMA AppendIs ==
  ASSUME NEW N \in Nat, NEW s, s = [k \in 1..N |-> s[k]], NEW b
  PROVE  Append(s, b) = [k \in 1..N + 1 |-> IF k <= N THEN s[k] ELSE b]
<1>1. PICK T : s \in Seq(T) /\ Len(s) = N
  BY SequenceIs
<1>. DEFINE U == T \cup {b}
<1>2. s \in Seq(U) /\ b \in U
  BY <1>1, SeqMonotonic
<1>. HIDE DEF U
<1>3. /\ Append(s, b) \in Seq(U) /\ Len(Append(s, b)) = N + 1
      /\ \A k \in 1..N : Append(s, b)[k] = s[k]
      /\ Append(s, b)[N + 1] = b
  BY <1>1, <1>2, AppendProperties
<1>4. Append(s, b) = [k \in 1..N + 1 |-> Append(s, b)[k]]
  BY <1>3
<1>. QED
  BY <1>3, <1>4

LEMMA TailIs ==
  ASSUME NEW N \in Nat \ {0}, NEW s, s = [k \in 1..N |-> s[k]]
  PROVE  /\ s # << >> /\ Head(s) = s[1]
         /\ Tail(s) = [k \in 1..N - 1 |-> s[k + 1]]
<1>1. PICK T : s \in Seq(T) /\ Len(s) = N
  BY SequenceIs
<1>2. s # << >>
  BY <1>1, EmptySeq
<1>3. /\ Tail(s) \in Seq(T) /\ Len(Tail(s)) = N - 1
      /\ \A k \in 1..N - 1 : Tail(s)[k] = s[k + 1]
  BY <1>1, <1>2, HeadTailProperties
<1>4. Tail(s) = [k \in 1..N - 1 |-> Tail(s)[k]]
  BY <1>3
<1>5. Head(s) = s[1]
  BY <1>1, <1>2
<1>. QED
  BY <1>2, <1>3, <1>4, <1>5

LEMMA EmptyIs ==
  ASSUME NEW s, s = [k \in 1..0 |-> s[k]]
  PROVE  s = << >>
<1>1. PICK T : s \in Seq(T) /\ Len(s) = 0
  BY SequenceIs
<1>. QED
  BY <1>1, EmptySeq

-----------------------------------------------------------------------------
(* A block that is written lengthens the chain by one and is found at its  *)
(* end.                                                                    *)
LEMMA WriteKeeps ==
  ASSUME TypeOK, NEW pos, Chain(pos), NEW b \in Bytes, b # << >>,
         ~Full(Len(b)), Entered(Len(b)),
         Laid(mem', PutUInt32(mem, writeOffset, Len(b)), writeOffset, b)
  PROVE  TypeOK' /\ \E q : Chain(q)' /\ Found(q)' = Append(Found(pos), b)
<1>. PICK N : N = dataCount
  OBVIOUS
<1>. DEFINE B == BufferSize
            n == Len(b)
            f == FullBlockSize(n)
            e == pos[N]
            q == [k \in 0..N + 1 |-> IF k <= N THEN pos[k] ELSE e + f]
<1>0. /\ B \in Nat /\ B % 4 = 0 /\ B >= 4 /\ Align = 4 /\ N \in Nat /\ N \in 0..N
      /\ freeSize \in 0..B /\ readOffset \in 0..B - 1 /\ readOffset \in Nat
      /\ mem \in Memories /\ writeOffset \in Offsets
  BY Sizing DEF TypeOK, Offsets, Memories
<1>1. n \in Nat \ {0} /\ f \in Nat /\ f <= freeSize /\ f % 4 = 0 /\ f >= 8 /\ f <= B
  <2>1. n \in Nat \ {0}
    BY DEF Bytes
  <2>. HIDE DEF n
  <2>2. Aligned(n) \in Nat /\ n <= Aligned(n) /\ Aligned(n) % 4 = 0 /\ f = Aligned(n) + 4
    BY <2>1, Padding
  <2>3. ~(f > freeSize)
    BY DEF Full, n
  <2>. HIDE DEF f
  <2>. QED
    BY <1>0, <2>1, <2>2, <2>3
<1>2. /\ pos \in [0..N -> Nat] /\ pos[0] = readOffset /\ e = readOffset + B - freeSize
      /\ writeOffset = Around(e)
      /\ \A k \in 0..N : pos[k] % 4 = 0
      /\ \A k \in 1..N : SizeAt(pos[k - 1]) \in Nat \ {0}
                         /\ pos[k] = pos[k - 1] + FullBlockSize(SizeAt(pos[k - 1]))
      /\ \A j, k \in 0..N : j < k => pos[j] + 8 <= pos[k]
  BY DEF Chain
<1>3. /\ writeOffset' = Advance(writeOffset, n) /\ freeSize' = freeSize - f /\ dataCount' = N + 1
      /\ readOffset' = readOffset /\ out' = Return("Ok")
  BY DEF Entered
<1>4. /\ mem' \in Memories /\ Value(mem', writeOffset) = n
      /\ \A i \in 1..n : mem'[Around(writeOffset + 4 + i - 1)] = b[i]
      /\ \A j \in f..B - 1 : mem'[Around(writeOffset + j)] = mem[Around(writeOffset + j)]
  BY <1>0, <1>1, LaidStores
<1>5. e \in Positions /\ e + f \in Positions /\ e % 4 = 0 /\ (e + f) % 4 = 0 /\ e \in Nat
  <2>. HIDE DEF B, f
  <2>1. e \in Nat /\ e % 4 = 0 /\ e = readOffset + B - freeSize
    BY <1>0, <1>2
  <2>. HIDE DEF e
  <2>2. (e + f) % 4 = 0
    BY <1>1, <2>1
  <2>. QED
    BY <1>0, <1>1, <2>1, <2>2 DEF Positions, B
<1>6. writeOffset' = Around(e + f) /\ writeOffset' \in Offsets
  <2>. HIDE DEF n, e
  <2>1. Advance(Around(e), n) = Around(e + f)
    BY <1>1, <1>5, AdvanceGoesAround
  <2>. HIDE DEF f
  <2>. QED
    BY <1>2, <1>3, <1>5, <2>1, Offset
<1>7. TypeOK'
  <2>1. readOffset' \in Offsets
    BY <1>3 DEF TypeOK
  <2>2. freeSize' \in 0..BufferSize /\ dataCount' \in Nat
    <3>. HIDE DEF f
    <3>. QED
      BY <1>0, <1>1, <1>3
  <2>3. out'.result = "Ok"
    BY <1>3 DEF Return
  <2>. QED
    BY <1>4, <1>6, <2>1, <2>2, <2>3 DEF TypeOK, Memories
<1>8. ASSUME NEW k \in 1..N
      PROVE  /\ SizeAt(pos[k - 1])' = SizeAt(pos[k - 1])
             /\ FoundAt(pos[k - 1])' = FoundAt(pos[k - 1])
  <2>. HIDE DEF f
  <2>. QED
    BY <1>1, <1>4, OldBlocksStay
<1>9. SizeAt(e)' = n /\ FoundAt(e)' = b
  <2>1. SizeAt(e)' = n
    BY <1>2, <1>4 DEF SizeAt, UInt32At, Value
  <2>2. ASSUME NEW i \in 1..n PROVE Around(e + Align + i - 1) = Around(writeOffset + 4 + i - 1)
    <3>1. e \in Nat /\ e < 2 * B /\ e + n + 4 < 2 * B /\ writeOffset = IF e < B THEN e ELSE e - B
      <4>1. n + 4 <= f
        <5>. HIDE DEF n
        <5>1. Aligned(n) \in Nat /\ n <= Aligned(n) /\ f = Aligned(n) + 4
          BY <1>1, Padding
        <5>. QED
          BY <1>1, <5>1
      <4>. HIDE DEF n, f, e
      <4>. QED
        BY <1>0, <1>1, <1>2, <1>5, <4>1 DEF Positions, Around
    <3>2. writeOffset + 4 + i - 1 < B \/ e < B
      <4>. HIDE DEF n, e, B
      <4>. QED
        BY <1>0, <1>1, <3>1
    <3>. HIDE DEF n, e
    <3>. QED
      BY <1>0, <1>1, <3>1, <3>2 DEF Around
  <2>3. FoundAt(e)' = [i \in 1..n |-> b[i]]
    BY <2>1, <2>2, <1>4 DEF FoundAt
  <2>4. b = [i \in 1..n |-> b[i]]
    BY DEF Bytes
  <2>. QED
    BY <2>1, <2>3, <2>4
<1>10. /\ q \in [0..N + 1 -> Nat] /\ q[0] = readOffset /\ q[N + 1] = e + f
       /\ \A k \in 0..N : q[k] = pos[k]
  <2>. HIDE DEF f, e
  <2>. QED
    BY <1>0, <1>1, <1>2, <1>5
<1>11. Chain(q)'
  <2>. HIDE DEF q, f, e, n
  <2>1. q[N + 1] = readOffset + B - freeSize'
    BY <1>0, <1>1, <1>2, <1>3, <1>10
  <2>2. \A k \in 0..N + 1 : q[k] % 4 = 0
    BY <1>0, <1>2, <1>5, <1>10
  <2>3. ASSUME NEW k \in 1..N + 1
        PROVE  /\ SizeAt(q[k - 1])' \in Nat \ {0}
               /\ q[k] = q[k - 1] + FullBlockSize(SizeAt(q[k - 1])')
    <3>1. CASE k \in 1..N
      <4>1. k \in 0..N /\ k - 1 \in 0..N
        BY <1>0, <3>1
      <4>. QED
        BY <1>2, <1>8, <1>10, <3>1, <4>1
    <3>2. CASE k = N + 1
      <4>1. k - 1 = N
        BY <1>0, <3>2
      <4>2. q[k - 1] = e /\ q[k] = e + f
        BY <1>0, <1>10, <3>2, <4>1 DEF e
      <4>. QED
        BY <1>1, <1>9, <4>2 DEF f
    <3>. QED
      BY <1>0, <3>1, <3>2
  <2>4. ASSUME NEW j \in 0..N + 1, NEW k \in 0..N + 1, j < k PROVE q[j] + 8 <= q[k]
    <3>1. j \in 0..N
      BY <1>0, <2>4
    <3>2. CASE k \in 0..N
      BY <1>2, <1>10, <2>4, <3>1, <3>2
    <3>3. CASE k = N + 1
      <4>1. pos[j] \in Nat /\ pos[j] <= e /\ q[j] = pos[j] /\ q[k] = e + f
        <5>1. j = N \/ pos[j] + 8 <= pos[N]
          BY <1>0, <1>2, <3>1
        <5>2. pos[j] \in Nat /\ pos[N] \in Nat
          BY <1>0, <1>2, <3>1
        <5>. QED
          BY <1>10, <3>1, <3>3, <5>1, <5>2 DEF e
      <4>. QED
        BY <1>1, <1>5, <4>1
    <3>. QED
      BY <1>0, <3>2, <3>3
  <2>. QED
    BY <1>3, <1>6, <1>10, <2>1, <2>2, <2>3, <2>4 DEF Chain
<1>12. Found(q)' = Append(Found(pos), b)
  <2>. HIDE DEF q, f, e, n
  <2>1. Found(q)' = [k \in 1..N + 1 |-> FoundAt(q[k - 1])']
    BY <1>3 DEF Found
  <2>2. ASSUME NEW k \in 1..N PROVE FoundAt(q[k - 1])' = FoundAt(pos[k - 1])
    <3>1. k - 1 \in 0..N
      BY <1>0
    <3>. QED
      BY <1>8, <1>10, <3>1
  <2>3. FoundAt(q[N + 1 - 1])' = b
    <3>1. N + 1 - 1 = N /\ q[N] = e
      BY <1>0, <1>10 DEF e
    <3>. QED
      BY <1>9, <3>1
  <2>4. Found(pos) = [k \in 1..N |-> FoundAt(pos[k - 1])]
    BY DEF Found
  <2>. DEFINE s == Found(pos)
              t == Found(q)'
  <2>5. s = [k \in 1..N |-> s[k]]
    BY <2>4
  <2>6. t = [k \in 1..N + 1 |-> IF k <= N THEN s[k] ELSE b]
    BY <1>0, <2>1, <2>2, <2>3, <2>4
  <2>7. Append(s, b) = [k \in 1..N + 1 |-> IF k <= N THEN s[k] ELSE b]
    <3>. HIDE DEF s
    <3>. QED
      BY <1>0, <2>5, AppendIs
  <2>. QED
    BY <2>6, <2>7
<1>. QED
  BY <1>7, <1>11, <1>12

(* A block that is read is the first of the chain, whose rest is counted   *)
(* from where the next block begins.                                       *)
LEMMA FetchedIsFound ==
  ASSUME TypeOK, NEW pos, Chain(pos), dataCount # 0
  PROVE  /\ SizeAt(pos[0]) = UInt32At(readOffset)
         /\ FoundAt(pos[0]) = Fetched(readOffset, UInt32At(readOffset))
<1>. DEFINE B == BufferSize
            o == readOffset
            n == UInt32At(o)
<1>0. /\ B \in Nat /\ Align = 4 /\ dataCount \in Nat /\ 1 \in 1..dataCount
      /\ o \in 0..B - 1 /\ o \in Offsets /\ freeSize \in 0..B
  BY Sizing DEF TypeOK, Offsets
<1>1. pos[0] = o /\ Around(o) = o
  BY <1>0 DEF Chain, Around
<1>2. SizeAt(pos[0]) = n
  BY <1>1 DEF SizeAt
<1>3. n \in Nat \ {0} /\ pos[1] = o + FullBlockSize(n)
  BY <1>0, <1>1, <1>2 DEF Chain
<1>4. pos[1] <= o + B - freeSize
  BY <1>0, ChainBounds
<1>. HIDE DEF n
<1>5. FullBlockSize(n) \in Nat /\ n + 4 <= FullBlockSize(n)
  <2>1. Aligned(n) \in Nat /\ n <= Aligned(n) /\ FullBlockSize(n) = Aligned(n) + 4
    BY <1>3, Padding
  <2>. QED
    BY <1>3, <2>1
<1>6. FullBlockSize(n) <= B
  BY <1>0, <1>3, <1>4, <1>5
<1>7. Chunk(o) = B - o - 4 /\ (Wraps(o, n) <=> o + FullBlockSize(n) > B)
  BY <1>0 DEF Chunk, Wraps
<1>. DEFINE c == Chunk(o)
            wr == Wraps(o, n)
<1>8. ASSUME NEW i \in 1..n
      PROVE  mem[Around(o + Align + i - 1)]
               = IF wr /\ i > c THEN mem[i - c - 1] ELSE mem[o + Align + i - 1]
  <2>1. c = B - o - 4 /\ c \in Int /\ i \in Nat \ {0} /\ i <= n /\ (wr <=> o + FullBlockSize(n) > B)
    BY <1>0, <1>3, <1>7
  <2>. HIDE DEF c, wr
  <2>2. CASE i > c
    <3>1. wr /\ Around(o + Align + i - 1) = i - c - 1
      BY <1>0, <1>3, <1>5, <2>1, <2>2 DEF Around
    <3>. QED
      BY <2>2, <3>1
  <2>3. CASE ~(i > c)
    <3>1. Around(o + Align + i - 1) = o + Align + i - 1
      BY <1>0, <1>3, <1>5, <2>1, <2>3 DEF Around
    <3>. QED
      BY <2>3, <3>1
  <2>. QED
    BY <2>2, <2>3
<1>9. FoundAt(pos[0]) = [i \in 1..n |-> mem[Around(o + Align + i - 1)]]
  BY <1>1, <1>2 DEF FoundAt
<1>10. Fetched(o, n) = [i \in 1..n |-> IF wr /\ i > c THEN mem[i - c - 1] ELSE mem[o + Align + i - 1]]
  BY DEF Fetched
<1>11. FoundAt(pos[0]) = Fetched(o, n)
  <2>. HIDE DEF c, wr
  <2>. QED
    BY <1>8, <1>9, <1>10
<1>. QED
  BY <1>2, <1>11 DEF n

LEMMA ReadKeeps ==
  ASSUME TypeOK, NEW pos, Chain(pos), freeSize # BufferSize,
         readOffset' = Advance(readOffset, UInt32At(readOffset)),
         freeSize' = freeSize + FullBlockSize(UInt32At(readOffset)), dataCount' = dataCount - 1,
         UNCHANGED <<mem, writeOffset>>, out'.result = "Ok"
  PROVE  TypeOK' /\ \E q : Chain(q)' /\ Found(q)' = Tail(Found(pos))
<1>. PICK N, o, n, F : N = dataCount /\ o = readOffset /\ n = UInt32At(readOffset) /\ F = freeSize
  OBVIOUS
<1>. DEFINE B == BufferSize
            f == FullBlockSize(n)
            s == IF pos[1] >= B THEN B ELSE 0
            q == [k \in 0..N - 1 |-> pos[k + 1] - s]
<1>0. /\ B \in Nat /\ B % 4 = 0 /\ Align = 4 /\ N \in Nat \ {0} /\ 1 \in 1..N /\ 0 \in 0..N /\ 1 \in 0..N
      /\ N \in 0..N /\ N - 1 \in 0..N - 1 /\ F \in 0..B /\ o \in 0..B - 1 /\ o \in Nat /\ F \in Nat
  <2>1. dataCount # 0
    BY ChainCounts DEF CountAgrees
  <2>. QED
    BY <2>1, Sizing DEF TypeOK, Offsets
<1>1. n \in Nat \ {0} /\ pos[1] = o + f /\ SizeAt(pos[0]) = n /\ pos[0] = o
  <2>1. SizeAt(pos[0]) = n /\ pos[0] = o
    BY <1>0, FetchedIsFound DEF Chain
  <2>. QED
    BY <1>0, <2>1 DEF Chain
<1>2. \A k \in 0..N : /\ pos[k] \in Nat /\ pos[k] < 2 * B /\ pos[k] % 4 = 0
                      /\ o <= pos[k] /\ pos[k] <= o + B - F
                      /\ k >= 1 => pos[1] <= pos[k]
  <2>. SUFFICES ASSUME NEW k \in 0..N
                PROVE  /\ pos[k] \in Nat /\ pos[k] < 2 * B /\ pos[k] % 4 = 0
                       /\ o <= pos[k] /\ pos[k] <= o + B - F
                       /\ k >= 1 => pos[1] <= pos[k]
    OBVIOUS
  <2>1. pos[k] \in Positions /\ o <= pos[k] /\ pos[k] <= o + B - F
    BY ChainBounds
  <2>2. pos[k] % 4 = 0 /\ (1 < k => pos[1] + 8 <= pos[k]) /\ pos[1] \in Nat
    BY <1>0 DEF Chain
  <2>. QED
    BY <1>0, <2>1, <2>2 DEF Positions
<1>3. f \in Nat /\ n + 4 <= f /\ f % 4 = 0 /\ f <= B - F
  <2>. HIDE DEF f
  <2>1. Aligned(n) \in Nat /\ n <= Aligned(n) /\ Aligned(n) % 4 = 0 /\ f = Aligned(n) + 4
    BY <1>1, Padding DEF f
  <2>2. o + f <= o + B - F
    BY <1>0, <1>1, <1>2
  <2>. QED
    BY <1>0, <1>1, <2>1, <2>2
<1>4. /\ readOffset' = Around(pos[1]) /\ readOffset' \in Offsets
  <2>1. o \in Positions /\ o % 4 = 0 /\ Around(o) = o
    BY <1>0 DEF Positions, Around, TypeOK, Offsets
  <2>2. pos[1] \in Positions /\ pos[1] % 4 = 0
    BY <1>0, <1>2 DEF Positions
  <2>3. f <= B
    <3>. HIDE DEF f
    <3>. QED
      BY <1>0, <1>3
  <2>. HIDE DEF f
  <2>4. Advance(o, n) = Around(pos[1])
    BY <1>1, <2>1, <2>2, <2>3, AdvanceGoesAround DEF f
  <2>. QED
    BY <2>2, <2>4, Offset
<1>5. dataCount' = N - 1 /\ freeSize' = F + f /\ mem' = mem /\ writeOffset' = writeOffset
  OBVIOUS
<1>6. TypeOK'
  <2>. HIDE DEF f
  <2>1. freeSize' \in 0..BufferSize /\ dataCount' \in Nat
    BY <1>0, <1>3, <1>5
  <2>. QED
    BY <1>4, <1>5, <2>1 DEF TypeOK
<1>7. s \in {0, B} /\ (s = B => pos[1] >= B) /\ (s = 0 => pos[1] < B) /\ s \in Nat
      /\ (pos[1] >= B => s = B) /\ (pos[1] < B => s = 0)
  BY <1>0, <1>2
<1>8. q \in [0..N - 1 -> Nat] /\ \A k \in 0..N - 1 : q[k] = pos[k + 1] - s
  <2>. HIDE DEF s
  <2>1. ASSUME NEW k \in 0..N - 1 PROVE pos[k + 1] - s \in Nat
    <3>1. k + 1 \in 0..N /\ k + 1 >= 1
      BY <1>0
    <3>2. pos[k + 1] \in Nat /\ pos[1] <= pos[k + 1]
      BY <1>2, <3>1
    <3>. QED
      BY <1>0, <1>2, <1>7, <3>2
  <2>. QED
    BY <2>1
<1>. HIDE DEF q, s, f
<1>9. ASSUME NEW p \in Nat, p < 2 * B, pos[1] <= p PROVE Around(p - s) = Around(p) /\ p - s \in Nat
  BY <1>0, <1>2, <1>7, <1>9 DEF Around
<1>10. ASSUME NEW k \in 1..N - 1
       PROVE  /\ SizeAt(q[k - 1])' = SizeAt(pos[k]) /\ FoundAt(q[k - 1])' = FoundAt(pos[k])
              /\ SizeAt(pos[k]) \in Nat \ {0} /\ q[k] = q[k - 1] + FullBlockSize(SizeAt(pos[k]))
  <2>. DEFINE p == pos[k]
              z == SizeAt(p)
              g == FullBlockSize(z)
  <2>1. k - 1 \in 0..N - 1 /\ k \in 0..N - 1 /\ k \in 0..N /\ k + 1 \in 1..N /\ k + 1 \in 0..N
        /\ k - 1 + 1 = k /\ k + 1 - 1 = k /\ k >= 1
    BY <1>0
  <2>2. q[k - 1] = p - s /\ q[k] = pos[k + 1] - s
    BY <1>8, <2>1
  <2>3. p \in Nat /\ p < 2 * B /\ pos[1] <= p /\ pos[k + 1] \in Nat /\ pos[k + 1] < 2 * B
    BY <1>2, <2>1
  <2>4. z \in Nat \ {0} /\ pos[k + 1] = p + g
    BY <2>1 DEF Chain
  <2>. HIDE DEF p, z
  <2>5. g \in Nat /\ z + 4 <= g
    <3>1. Aligned(z) \in Nat /\ z <= Aligned(z) /\ g = Aligned(z) + 4
      BY <2>4, Padding
    <3>. QED
      BY <2>4, <3>1
  <2>. HIDE DEF g
  <2>6. SizeAt(q[k - 1])' = z
    <3>1. Around(p - s) = Around(p)
      BY <1>9, <2>3
    <3>2. UInt32At(Around(p - s))' = UInt32At(Around(p))
      BY <1>5, <3>1 DEF UInt32At
    <3>. QED
      BY <2>2, <3>2 DEF SizeAt, z
  <2>7. ASSUME NEW i \in 1..z
        PROVE  mem'[Around(p - s + Align + i - 1)] = mem[Around(p + Align + i - 1)]
    <3>. DEFINE h == p + Align + i - 1
    <3>1. h \in Nat /\ h < 2 * B /\ pos[1] <= h /\ p - s + Align + i - 1 = h - s
      BY <1>0, <1>2, <1>7, <2>3, <2>4, <2>5
    <3>. HIDE DEF h
    <3>2. Around(h - s) = Around(h)
      BY <1>9, <3>1
    <3>. QED
      BY <1>5, <3>1, <3>2 DEF h
  <2>8. FoundAt(q[k - 1])' = FoundAt(p)
    BY <2>2, <2>6, <2>7 DEF FoundAt, z
  <2>9. q[k] = q[k - 1] + g
    BY <1>7, <1>0, <2>2, <2>3, <2>4, <2>5
  <2>. QED
    BY <2>4, <2>6, <2>8, <2>9 DEF p, z, g
<1>11. Chain(q)'
  <2>1. q[0] = readOffset'
    <3>1. q[0] = pos[1] - s
      <4>. 0 \in 0..N - 1 /\ 0 + 1 = 1
        BY <1>0
      <4>. QED
        BY <1>8
    <3>2. Around(pos[1]) = pos[1] - s
      BY <1>0, <1>2, <1>7 DEF Around
    <3>. QED
      BY <1>4, <3>1, <3>2
  <2>2. q[N - 1] = pos[N] - s
    BY <1>0, <1>8
  <2>3. q[N - 1] = readOffset' + B - freeSize'
    <3>1. q[0] = pos[1] - s
      <4>. 0 \in 0..N - 1 /\ 0 + 1 = 1
        BY <1>0
      <4>. QED
        BY <1>8
    <3>2. pos[N] = o + B - F
      BY DEF Chain
    <3>. QED
      BY <1>0, <1>1, <1>3, <1>5, <1>7, <2>1, <2>2, <3>1, <3>2
  <2>4. writeOffset' = Around(q[N - 1])
    <3>1. writeOffset = Around(pos[N])
      BY DEF Chain
    <3>2. pos[N] \in Nat /\ pos[N] < 2 * B /\ pos[1] <= pos[N]
      BY <1>0, <1>2
    <3>. QED
      BY <1>5, <1>9, <2>2, <3>1, <3>2
  <2>5. \A k \in 0..N - 1 : q[k] % 4 = 0
    <3>. SUFFICES ASSUME NEW k \in 0..N - 1 PROVE q[k] % 4 = 0
      OBVIOUS
    <3>1. k + 1 \in 0..N
      BY <1>0
    <3>2. q[k] = pos[k + 1] - s /\ pos[k + 1] \in Nat /\ pos[k + 1] % 4 = 0 /\ q[k] \in Nat
      BY <1>2, <1>8, <3>1
    <3>. QED
      BY <1>0, <1>7, <3>2
  <2>6. \A j, k \in 0..N - 1 : j < k => q[j] + 8 <= q[k]
    <3>. SUFFICES ASSUME NEW j \in 0..N - 1, NEW k \in 0..N - 1, j < k PROVE q[j] + 8 <= q[k]
      OBVIOUS
    <3>1. j + 1 \in 0..N /\ k + 1 \in 0..N /\ j + 1 < k + 1
      BY <1>0
    <3>2. pos[j + 1] + 8 <= pos[k + 1]
      BY <3>1 DEF Chain
    <3>3. pos[j + 1] \in Nat /\ pos[k + 1] \in Nat
      BY <1>2, <3>1
    <3>. QED
      BY <1>7, <1>8, <3>2, <3>3
  <2>7. \A k \in 1..N - 1 : /\ SizeAt(q[k - 1])' \in Nat \ {0}
                            /\ q[k] = q[k - 1] + FullBlockSize(SizeAt(q[k - 1])')
    BY <1>10
  <2>. QED
    BY <1>5, <1>8, <2>1, <2>3, <2>4, <2>5, <2>6, <2>7 DEF Chain
<1>12. Found(q)' = Tail(Found(pos))
  <2>. DEFINE u == Found(pos)
  <2>1. u = [k \in 1..N |-> u[k]] /\ \A k \in 1..N : u[k] = FoundAt(pos[k - 1])
    BY DEF Found
  <2>. HIDE DEF u
  <2>2. Tail(u) = [k \in 1..N - 1 |-> u[k + 1]]
    BY <1>0, <2>1, TailIs
  <2>3. ASSUME NEW k \in 1..N - 1 PROVE FoundAt(q[k - 1])' = u[k + 1]
    <3>1. k + 1 \in 1..N /\ k + 1 - 1 = k
      BY <1>0
    <3>. QED
      BY <1>10, <2>1, <3>1
  <2>4. Found(q)' = [k \in 1..N - 1 |-> FoundAt(q[k - 1])']
    BY <1>5 DEF Found
  <2>. QED
    BY <2>2, <2>3, <2>4 DEF u
<1>. QED
  BY <1>6, <1>11, <1>12

-----------------------------------------------------------------------------
(* Every step keeps the invariant, and does to the blocks found in the     *)
(* ring what the queue does.                                               *)
Same == /\ UNCHANGED <<mem, header>> /\ out' \in {Return("BufferFull"), Return("NoReadableData"),
                                                 Return("ReadsizeTooSmall")}
Becomes(s) == IInv' /\ Contents' = s

LEMMA PrimedContents ==
  (\A pos : TypeOK /\ Chain(pos) => Contents = Found(pos))'
BY ContentsFound, PTL

LEMMA RingKept ==
  ASSUME IInv, UNCHANGED <<mem, header>>, TypeOK'
  PROVE  Becomes(Contents)
<1>1. PICK pos : Chain(pos)
  BY DEF IInv
<1>2. Chain(pos)'
  BY <1>1 DEF Chain, SizeAt, UInt32At, header
<1>3. Found(pos)' = Found(pos)
  BY DEF Found, FoundAt, SizeAt, UInt32At, header
<1>4. Contents = Found(pos) /\ Contents' = Found(pos)'
  BY <1>1, <1>2, ContentsFound, PrimedContents DEF IInv
<1>. QED
  BY <1>2, <1>3, <1>4 DEF IInv, Becomes

LEMMA SameKeeps ==
  ASSUME IInv, Same
  PROVE  Becomes(Contents)
<1>1. TypeOK'
  BY DEF IInv, TypeOK, Same, header, Return
<1>. QED
  BY <1>1, RingKept DEF Same

LEMMA BlockFacts ==
  ASSUME NEW b \in Blocks
  PROVE  b \in Bytes /\ b # << >> /\ Len(b) \in Nat \ {0}
BY CircAssumption DEF Bytes

LEMMA PutKeeps ==
  ASSUME IInv, NEW b \in Blocks, ~Full(Len(b)), Entered(Len(b)),
         Laid(mem', PutUInt32(mem, writeOffset, Len(b)), writeOffset, b)
  PROVE  Becomes(Append(Contents, b))
<1>1. PICK pos : Chain(pos)
  BY DEF IInv
<1>2. b \in Bytes /\ b # << >> /\ TypeOK
  BY BlockFacts DEF IInv
<1>3. TypeOK' /\ \E q : Chain(q)' /\ Found(q)' = Append(Found(pos), b)
  BY <1>1, <1>2, WriteKeeps
<1>4. PICK q : Chain(q)' /\ Found(q)' = Append(Found(pos), b)
  BY <1>3
<1>5. Contents = Found(pos)
  BY <1>1, <1>2, ContentsFound
<1>6. Contents' = Found(q)'
  BY <1>3, <1>4, PrimedContents
<1>. QED
  BY <1>3, <1>4, <1>5, <1>6 DEF IInv, Becomes

LEMMA RoomForBlock ==
  ASSUME IInv, NEW n \in Nat \ {0}, ~Full(n)
  PROVE  /\ FullBlockSize(n) <= BufferSize /\ n < BufferSize
         /\ writeOffset \in Offsets /\ mem \in Memories
<1>1. freeSize \in 0..BufferSize /\ BufferSize \in Nat /\ writeOffset \in Offsets /\ mem \in Memories
  BY Sizing DEF IInv, TypeOK, Memories
<1>2. Aligned(n) \in Nat /\ n <= Aligned(n) /\ FullBlockSize(n) = Aligned(n) + 4
  BY Padding
<1>3. ~(FullBlockSize(n) > freeSize)
  BY DEF Full
<1>. QED
  BY <1>1, <1>2, <1>3

LEMMA WriteStep ==
  ASSUME IInv, NEW b \in Blocks, circbuf_writeData(b)
  PROVE  \/ Full(Len(b)) /\ Refuse
         \/ ~Full(Len(b)) /\ Entered(Len(b)) /\ Becomes(Append(Contents, b))
<1>. SUFFICES ASSUME ~(Full(Len(b)) /\ Refuse)
              PROVE  ~Full(Len(b)) /\ Entered(Len(b)) /\ Becomes(Append(Contents, b))
  OBVIOUS
<1>. DEFINE n == Len(b)
            w == writeOffset
            p == PutUInt32(mem, w, n)
            o == w + Align
<1>1. /\ ~Full(n) /\ Entered(n)
      /\ mem' = IF ~Wraps(w, n) THEN Copy(p, o, b, 0, n)
                ELSE Copy(Copy(p, o, b, 0, Chunk(w)), 0, b, Chunk(w), n - Chunk(w))
  BY DEF circbuf_writeData
<1>2. b \in Bytes /\ b # << >> /\ n \in Nat \ {0}
  BY BlockFacts
<1>3. FullBlockSize(n) <= BufferSize /\ n < BufferSize /\ w \in Offsets /\ mem \in Memories
  <2>. HIDE DEF n
  <2>. QED
    BY <1>1, <1>2, RoomForBlock
<1>4. p \in Memories
  <2>. HIDE DEF n
  <2>. QED
    BY <1>2, <1>3, PutFacts
<1>5. Laid(mem', p, w, b)
  <2>. HIDE DEF p
  <2>. QED
    BY <1>1, <1>2, <1>3, <1>4, OnePart
<1>. QED
  BY <1>1, <1>5, PutKeeps

LEMMA PartOf ==
  ASSUME NEW S, NEW b \in Seq(S), NEW k \in Nat, 1 <= k, k < Len(b)
  PROVE  /\ /\ SubSeq(b, 1, k) \in Seq(S) /\ Len(SubSeq(b, 1, k)) = k
            /\ \A i \in 1..k : SubSeq(b, 1, k)[i] = b[i]
         /\ /\ SubSeq(b, k + 1, Len(b)) \in Seq(S) /\ Len(SubSeq(b, k + 1, Len(b))) = Len(b) - k
            /\ \A i \in 1..Len(b) - k : SubSeq(b, k + 1, Len(b))[i] = b[k + i]
<1>. DEFINE n == Len(b)
<1>1. n \in Nat /\ \A i \in 1..n : b[i] \in S
  OBVIOUS
<1>. DEFINE first == SubSeq(b, 1, k)
            second == SubSeq(b, k + 1, n)
<1>2. /\ first \in Seq(S) /\ Len(first) = IF 1 <= k THEN k - 1 + 1 ELSE 0
      /\ \A i \in 1..k - 1 + 1 : first[i] = b[1 + i - 1]
  <2>1. \A i \in 1..k : b[i] \in S
    BY <1>1
  <2>. QED
    BY <2>1, SubSeqProperties
<1>3. /\ second \in Seq(S) /\ Len(second) = IF k + 1 <= n THEN n - (k + 1) + 1 ELSE 0
      /\ \A i \in 1..n - (k + 1) + 1 : second[i] = b[k + 1 + i - 1]
  <2>1. \A i \in k + 1..n : b[i] \in S
    BY <1>1
  <2>. HIDE DEF n
  <2>2. k + 1 \in Int /\ n \in Int
    BY <1>1
  <2>. QED
    BY <2>1, <2>2, SubSeqProperties
<1>. HIDE DEF first, second
<1>4. Len(first) = k /\ \A i \in 1..k : first[i] = b[i]
  BY <1>2
<1>5. Len(second) = n - k /\ \A i \in 1..n - k : second[i] = b[k + i]
  BY <1>1, <1>3
<1>. QED
  BY <1>2, <1>3, <1>4, <1>5 DEF first, second

LEMMA WritePartsStep ==
  ASSUME IInv, NEW b \in Blocks, NEW k \in 1..(Len(b) - 1),
         circbuf_writeMultipleData(SubSeq(b, 1, k), SubSeq(b, k + 1, Len(b)))
  PROVE  \/ Full(Len(b)) /\ Refuse
         \/ ~Full(Len(b)) /\ Entered(Len(b)) /\ Becomes(Append(Contents, b))
<1>. DEFINE n == Len(b)
            w == writeOffset
            p == PutUInt32(mem, w, n)
            first == SubSeq(b, 1, k)
            second == SubSeq(b, k + 1, Len(b))
<1>1. b \in Bytes /\ b # << >> /\ n \in Nat \ {0}
  BY BlockFacts
<1>2. /\ first \in Bytes /\ second \in Bytes /\ Joined(first, second, b)
      /\ Len(first) + Len(second) = n
  <2>0. k \in Nat /\ n \in Nat /\ 1 <= k /\ k < n
    BY <1>1
  <2>1. /\ first \in Bytes /\ Len(first) = k
        /\ \A i \in 1..k : first[i] = b[i]
    BY <1>1, <2>0, PartOf DEF Bytes
  <2>2. /\ second \in Bytes /\ Len(second) = n - k
        /\ \A i \in 1..n - k : second[i] = b[k + i]
    BY <1>1, <2>0, PartOf DEF Bytes
  <2>. HIDE DEF first, second
  <2>3. ASSUME NEW i \in 1..n PROVE b[i] = IF i <= k THEN first[i] ELSE second[i - k]
    <3>1. CASE i <= k
      BY <1>1, <2>1, <3>1
    <3>2. CASE ~(i <= k)
      <4>1. i - k \in 1..n - k /\ k + (i - k) = i
        BY <1>1, <3>2
      <4>. QED
        BY <2>2, <3>2, <4>1
    <3>. QED
      BY <3>1, <3>2
  <2>. QED
    BY <1>1, <2>1, <2>2, <2>3 DEF Joined
<1>. HIDE DEF first, second
<1>3. \/ Full(n) /\ Refuse
      \/ ~Full(n) /\ Entered(n) /\ mem' = CopyParts(p, first, second)
  BY <1>2 DEF circbuf_writeMultipleData, first, second
<1>4. CASE ~Full(n) /\ Entered(n) /\ mem' = CopyParts(p, first, second)
  <2>1. FullBlockSize(n) <= BufferSize /\ n < BufferSize /\ w \in Offsets /\ mem \in Memories
    <3>. HIDE DEF n
    <3>. QED
      BY <1>1, <1>4, RoomForBlock
  <2>2. p \in Memories
    <3>. HIDE DEF n
    <3>. QED
      BY <1>1, <2>1, PutFacts
  <2>3. Laid(mem', p, w, b)
    <3>. HIDE DEF p
    <3>. QED
      BY <1>1, <1>2, <1>4, <2>1, <2>2, TwoParts
  <2>. QED
    BY <1>4, <2>3, PutKeeps
<1>. QED
  BY <1>3, <1>4

LEMMA ReadStep ==
  ASSUME IInv, NEW size \in Sizes, circbuf_readData(size)
  PROVE  \/ freeSize = BufferSize /\ Same /\ Contents = << >> /\ out' = Return("NoReadableData")
         \/ /\ freeSize # BufferSize /\ Contents # << >>
            /\ Len(Head(Contents)) = UInt32At(readOffset)
            /\ \/ UInt32At(readOffset) > size /\ Same /\ out' = Return("ReadsizeTooSmall")
               \/ /\ UInt32At(readOffset) <= size /\ out' = [result |-> "Ok", block |-> Head(Contents)]
                  /\ freeSize' = freeSize + FullBlockSize(UInt32At(readOffset))
                  /\ Becomes(Tail(Contents))
<1>1. PICK pos : Chain(pos)
  BY DEF IInv
<1>2. TypeOK /\ CountAgrees /\ dataCount \in Nat /\ Contents = Found(pos)
  BY <1>1, ChainCounts, ContentsFound DEF IInv, TypeOK
<1>. DEFINE u == Found(pos)
<1>3. u = [k \in 1..dataCount |-> u[k]] /\ \A k \in 1..dataCount : u[k] = FoundAt(pos[k - 1])
  BY DEF Found
<1>. HIDE DEF u
<1>4. CASE freeSize = BufferSize
  <2>1. u = << >>
    BY <1>2, <1>3, <1>4, EmptyIs DEF CountAgrees
  <2>2. out' = Return("NoReadableData") /\ UNCHANGED <<mem, header>>
    BY <1>4 DEF circbuf_readData
  <2>. QED
    BY <1>2, <1>4, <2>1, <2>2 DEF Same, u
<1>5. CASE freeSize # BufferSize
  <2>. DEFINE n == UInt32At(readOffset)
  <2>1. dataCount \in Nat \ {0}
    BY <1>2, <1>5 DEF CountAgrees
  <2>2. u # << >> /\ Head(u) = u[1]
    BY <1>3, <2>1, TailIs
  <2>3. SizeAt(pos[0]) = n /\ FoundAt(pos[0]) = Fetched(readOffset, n)
    BY <1>1, <1>2, <2>1, FetchedIsFound
  <2>4. u[1] = FoundAt(pos[0])
    BY <1>3, <2>1
  <2>5. n \in Nat \ {0} /\ size \in Nat
    <3>1. 1 \in 1..dataCount /\ 1 - 1 = 0
      BY <2>1
    <3>2. \A k \in 1..dataCount : SizeAt(pos[k - 1]) \in Nat \ {0}
      BY <1>1 DEF Chain
    <3>3. SizeAt(pos[0]) \in Nat \ {0}
      BY <3>1, <3>2
    <3>. QED
      BY <2>3, <3>3, CircAssumption
  <2>6. Len(Head(u)) = n
    <3>. HIDE DEF n
    <3>1. FoundAt(pos[0]) = [i \in 1..n |-> FoundAt(pos[0])[i]]
      BY <2>3 DEF FoundAt
    <3>. QED
      BY <2>2, <2>4, <2>5, <3>1, SequenceIs
  <2>7. CASE n > size
    <3>1. out' = Return("ReadsizeTooSmall") /\ UNCHANGED <<mem, header>>
      <4>1. ~(n <= size)
        <5>. HIDE DEF n
        <5>. QED
          BY <2>5, <2>7
      <4>. QED
        BY <1>5, <4>1 DEF circbuf_readData
    <3>. QED
      BY <1>2, <1>5, <2>2, <2>6, <2>7, <3>1 DEF Same, u
  <2>8. CASE ~(n > size)
    <3>1. /\ n <= size
          /\ out' = [result |-> "Ok", block |-> Fetched(readOffset, n)]
          /\ readOffset' = Advance(readOffset, n)
          /\ freeSize' = freeSize + FullBlockSize(n) /\ dataCount' = dataCount - 1
          /\ UNCHANGED <<mem, writeOffset>>
      BY <1>5, <2>8 DEF circbuf_readData
    <3>2. TypeOK' /\ \E q : Chain(q)' /\ Found(q)' = Tail(Found(pos))
      BY <1>1, <1>2, <1>5, <3>1, ReadKeeps
    <3>3. PICK q : Chain(q)' /\ Found(q)' = Tail(Found(pos))
      BY <3>2
    <3>4. Contents' = Found(q)'
      BY <3>2, <3>3, PrimedContents
    <3>5. Becomes(Tail(Contents))
      BY <1>2, <3>2, <3>3, <3>4 DEF IInv, Becomes
    <3>. QED
      BY <1>2, <1>5, <2>2, <2>3, <2>4, <2>6, <3>1, <3>5 DEF u
  <2>. QED
    BY <2>7, <2>8
<1>. QED
  BY <1>4, <1>5

LEMMA HeadSize ==
  ASSUME IInv, freeSize # BufferSize
  PROVE  UInt32At(readOffset) \in Nat
<1>1. PICK pos : Chain(pos)
  BY DEF IInv
<1>2. dataCount \in Nat \ {0}
  BY <1>1, ChainCounts DEF IInv, TypeOK, CountAgrees
<1>3. 1 \in 1..dataCount /\ 1 - 1 = 0
  BY <1>2
<1>4. \A k \in 1..dataCount : SizeAt(pos[k - 1]) \in Nat \ {0}
  BY <1>1 DEF Chain
<1>5. SizeAt(pos[0]) \in Nat
  BY <1>3, <1>4
<1>. QED
  BY <1>1, <1>2, <1>5, FetchedIsFound DEF IInv

LEMMA EmptyRing ==
  (TypeOK /\ readOffset = 0 /\ writeOffset = 0 /\ freeSize = BufferSize /\ dataCount = 0)
    => IInv /\ Contents = << >>
<1>. SUFFICES ASSUME TypeOK, readOffset = 0, writeOffset = 0, freeSize = BufferSize, dataCount = 0
              PROVE  IInv /\ Contents = << >>
  OBVIOUS
<1>. DEFINE pos == [k \in 0..0 |-> 0]
<1>1. pos[0] = 0 /\ pos \in [0..0 -> Nat] /\ \A k \in 0..0 : k = 0
  OBVIOUS
<1>2. BufferSize \in Nat /\ BufferSize >= 4 /\ 0 % 4 = 0
  BY Sizing
<1>. HIDE DEF pos
<1>3. Chain(pos)
  BY <1>1, <1>2 DEF Chain, Around
<1>4. Contents = Found(pos)
  BY <1>3, ContentsFound
<1>5. Found(pos) = [k \in 1..0 |-> Found(pos)[k]]
  BY DEF Found
<1>6. Found(pos) = << >>
  BY <1>5, EmptyIs
<1>. QED
  BY <1>3, <1>4, <1>6 DEF IInv

LEMMA PrimedEmptyRing ==
  ((TypeOK /\ readOffset = 0 /\ writeOffset = 0 /\ freeSize = BufferSize /\ dataCount = 0)
     => IInv /\ Contents = << >>)'
BY EmptyRing, PTL

LEMMA ResetStep ==
  ASSUME IInv, circbuf_reset
  PROVE  Becomes(<< >>)
<1>1. /\ readOffset' = 0 /\ writeOffset' = 0 /\ freeSize' = BufferSize /\ dataCount' = 0
      /\ mem' = mem /\ out' = Return("Ok")
  BY DEF circbuf_reset
<1>2. BufferSize \in Nat /\ BufferSize >= 4 /\ 0 % 4 = 0 /\ Align = 4
  BY Sizing, CircAssumption
<1>3. 0 \in Offsets /\ BufferSize \in 0..BufferSize
  BY <1>2 DEF Offsets
<1>4. TypeOK'
  BY <1>1, <1>3 DEF IInv, TypeOK, Return, Offsets
<1>. QED
  BY <1>1, <1>4, PrimedEmptyRing DEF Becomes

LEMMA InitEmpty ==
  ASSUME Init
  PROVE  IInv /\ Contents = << >>
<1>1. BufferSize \in Nat /\ BufferSize >= 4 /\ 0 % 4 = 0 /\ Align = 4
  BY Sizing, CircAssumption
<1>2. 0 \in Offsets /\ BufferSize \in 0..BufferSize /\ 0 \in 0..255 /\ 0 \in Nat
  BY <1>1 DEF Offsets
<1>3. TypeOK
  BY <1>2 DEF Init, TypeOK, Return
<1>. QED
  BY <1>3, EmptyRing DEF Init

(* The steps of the queue, as the ring takes them.                         *)
LEMMA PutSimulated ==
  ASSUME NEW b \in Blocks,
         \/ Full(Len(b)) /\ Refuse
         \/ ~Full(Len(b)) /\ Entered(Len(b)) /\ Becomes(Append(Contents, b)),
         IInv
  PROVE  IInv' /\ [Abstract!Next]_<<Contents, freeSize, out>>
<1>1. freeSize \in Nat /\ FullBlockSize(Len(b)) \in Nat
  <2>. DEFINE n == Len(b)
  <2>1. n \in Nat \ {0} /\ BufferSize \in Nat
    BY BlockFacts, Sizing
  <2>. HIDE DEF n
  <2>2. Aligned(n) \in Nat /\ FullBlockSize(n) = Aligned(n) + 4
    BY <2>1, Padding
  <2>3. freeSize \in Nat /\ FullBlockSize(n) \in Nat
    BY <2>1, <2>2 DEF IInv, TypeOK
  <2>. QED
    BY <2>3 DEF n
<1>2. CASE Full(Len(b)) /\ Refuse
  <2>1. Becomes(Contents)
    BY <1>2, SameKeeps DEF Refuse, Same
  <2>2. ~(NeedOf(b) <= freeSize)
    BY <1>1, <1>2 DEF Full, NeedOf
  <2>3. Abstract!Put(b)
    BY <1>2, <2>1, <2>2 DEF Abstract!Put, Abstract!Answer, Refuse, Return, Becomes, header
  <2>. QED
    BY <2>1, <2>3 DEF Becomes, Abstract!Next
<1>3. CASE ~Full(Len(b)) /\ Entered(Len(b)) /\ Becomes(Append(Contents, b))
  <2>1. NeedOf(b) <= freeSize
    BY <1>1, <1>3 DEF Full, NeedOf
  <2>2. Abstract!Put(b)
    BY <1>3, <2>1 DEF Abstract!Put, Abstract!Answer, Entered, Return, Becomes, NeedOf
  <2>. QED
    BY <1>3, <2>2 DEF Becomes, Abstract!Next
<1>. QED
  BY <1>2, <1>3

LEMMA GetSimulated ==
  ASSUME IInv, NEW size \in Sizes, circbuf_readData(size)
  PROVE  IInv' /\ [Abstract!Next]_<<Contents, freeSize, out>>
<1>. DEFINE n == UInt32At(readOffset)
<1>1. CASE freeSize = BufferSize /\ Same /\ Contents = << >> /\ out' = Return("NoReadableData")
  <2>1. Becomes(Contents)
    BY <1>1, SameKeeps
  <2>2. Abstract!Get(size)
    BY <1>1, <2>1 DEF Abstract!Get, Abstract!Answer, Return, Becomes, Same, header
  <2>. QED
    BY <2>1, <2>2 DEF Becomes, Abstract!Next
<1>2. CASE /\ freeSize # BufferSize /\ Contents # << >> /\ Len(Head(Contents)) = n
           /\ n > size /\ Same /\ out' = Return("ReadsizeTooSmall")
  <2>1. Becomes(Contents)
    BY <1>2, SameKeeps
  <2>2. ~FitsIn(Head(Contents), size)
    <3>1. n \in Nat /\ size \in Nat
      BY <1>2, HeadSize, CircAssumption
    <3>. HIDE DEF n
    <3>. QED
      BY <1>2, <3>1 DEF FitsIn
  <2>3. Abstract!Get(size)
    BY <1>2, <2>1, <2>2 DEF Abstract!Get, Abstract!Answer, Return, Becomes, Same, header
  <2>. QED
    BY <2>1, <2>3 DEF Becomes, Abstract!Next
<1>3. CASE /\ freeSize # BufferSize /\ Contents # << >> /\ Len(Head(Contents)) = n
           /\ n <= size /\ out' = [result |-> "Ok", block |-> Head(Contents)]
           /\ freeSize' = freeSize + FullBlockSize(n)
           /\ Becomes(Tail(Contents))
  <2>1. FitsIn(Head(Contents), size) /\ NeedOf(Head(Contents)) = FullBlockSize(n)
    BY <1>3 DEF FitsIn, NeedOf
  <2>2. Abstract!Get(size)
    <3>. HIDE DEF n
    <3>. QED
      BY <1>3, <2>1 DEF Abstract!Get, Becomes
  <2>. QED
    BY <1>3, <2>2 DEF Becomes, Abstract!Next
<1>. QED
  BY <1>1, <1>2, <1>3, ReadStep

LEMMA EmptySimulated ==
  ASSUME IInv, circbuf_reset
  PROVE  IInv' /\ [Abstract!Next]_<<Contents, freeSize, out>>
<1>1. Becomes(<< >>)
  BY ResetStep
<1>2. Abstract!Empty
  BY <1>1 DEF Abstract!Empty, Abstract!Answer, Becomes, circbuf_reset, Return
<1>. QED
  BY <1>1, <1>2 DEF Becomes, Abstract!Next

LEMMA StepSimulated ==
  ASSUME IInv, [Next]_vars
  PROVE  IInv' /\ [Abstract!Next]_<<Contents, freeSize, out>>
<1>1. CASE UNCHANGED vars
  <2>1. TypeOK'
    BY <1>1 DEF vars, header, IInv, TypeOK
  <2>2. Becomes(Contents)
    BY <1>1, <2>1, RingKept DEF vars
  <2>. QED
    BY <1>1, <2>2 DEF vars, header, Becomes
<1>2. ASSUME NEW b \in Blocks, circbuf_writeData(b)
      PROVE  IInv' /\ [Abstract!Next]_<<Contents, freeSize, out>>
  BY <1>2, WriteStep, PutSimulated
<1>3. ASSUME NEW b \in Blocks, NEW k \in 1..(Len(b) - 1),
             circbuf_writeMultipleData(SubSeq(b, 1, k), SubSeq(b, k + 1, Len(b)))
      PROVE  IInv' /\ [Abstract!Next]_<<Contents, freeSize, out>>
  BY <1>3, WritePartsStep, PutSimulated
<1>4. ASSUME NEW n \in Sizes, circbuf_readData(n)
      PROVE  IInv' /\ [Abstract!Next]_<<Contents, freeSize, out>>
  BY <1>4, GetSimulated
<1>5. CASE circbuf_reset
  BY <1>5, EmptySimulated
<1>. QED
  BY <1>1, <1>2, <1>3, <1>4, <1>5 DEF Next

-----------------------------------------------------------------------------
(* The offsets stay inside the ring and on the alignment, and the free     *)
(* size never exceeds the ring, for every alignment-padded size and every  *)
(* set of blocks.                                                          *)
THEOREM TypesHold == Spec => []TypeOK
<1>1. Init => IInv
  BY InitEmpty
<1>2. IInv /\ [Next]_vars => IInv'
  BY StepSimulated
<1>3. IInv => TypeOK
  BY DEF IInv
<1>. QED
  BY <1>1, <1>2, <1>3, PTL DEF Spec

(* The threads that poll by the count of blocks and circbuf_readData,      *)
(* which goes by the free size, always agree on whether there is a block.  *)
THEOREM CountersAgree == Spec => []CountAgrees
<1>1. Init => IInv
  BY InitEmpty
<1>2. IInv /\ [Next]_vars => IInv'
  BY StepSimulated
<1>3. IInv => CountAgrees
  BY ChainCounts DEF IInv
<1>. QED
  BY <1>1, <1>2, <1>3, PTL DEF Spec

(* The ring of bytes, with its padding and its blocks broken by the end of *)
(* the ring, is the queue of whole blocks that Fifo promises.              *)
THEOREM RingIsFifo == Spec => ImplementsFifo
<1>1. Init => IInv /\ Abstract!Init
  BY InitEmpty DEF Init, Abstract!Init, Abstract!Answer, Return
<1>2. IInv /\ [Next]_vars => IInv' /\ [Abstract!Next]_<<Contents, freeSize, out>>
  BY StepSimulated
<1>. QED
  BY <1>1, <1>2, PTL DEF Spec, ImplementsFifo, Abstract!Spec
=============================================================================
