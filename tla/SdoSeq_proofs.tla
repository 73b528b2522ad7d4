--------------------------- MODULE SdoSeq_proofs ----------------------------
(***************************************************************************)
(* What holds of SdoSeq for every choice of the constants.                 *)
(*                                                                         *)
(* The types, HistoryConsecutive and, for a history of three and more,     *)
(* ConnectedHasRoom hold together or not at all: an acknowledged number    *)
(* releases the right frames because the history is consecutive, it stays  *)
(* consecutive because sendFrame finds room, and there is room because an  *)
(* acknowledgement has released a frame before the state is Connected.     *)
(*                                                                         *)
(* NeverWithoutTimer has an invariant of its own: a connection that is not *)
(* Idle has its timer running, whatever frames arrive, are refused by a    *)
(* full Tx buffer or get lost, and whatever the command layer answers.     *)
(*                                                                         *)
(* InOrder needs what the protocol does not send. Every frame under way is *)
(* given a tag, the count that its sequence number is the remainder of: of *)
(* a data frame its datum, of an empty frame the last datum submitted      *)
(* before it. Along a link the tags grow, but for frames sent again, which *)
(* go back by less than the history is long; so a number tells the         *)
(* receiver which datum the frame holds.                                   *)
(***************************************************************************)
EXTENDS SdoSeq, TLAPS

-----------------------------------------------------------------------------
(* Arithmetic of numbers and slots, which count modulo N.                  *)
LEMMA Div ==
  ASSUME NEW N \in Nat \ {0}, NEW a \in Int
  PROVE  /\ a % N \in 0 .. N - 1 /\ a \div N \in Int
         /\ a = (a \div N) * N + (a % N)
OBVIOUS

LEMMA Multiple ==
  ASSUME NEW N \in Nat \ {0}, NEW x \in 0 .. N - 1, NEW y \in 0 .. N - 1, NEW q \in Int,
         x = y + q * N
  PROVE  x = y
OBVIOUS

LEMMA ModUnique ==
  ASSUME NEW N \in Nat \ {0}, NEW a \in Int, NEW r \in 0 .. N - 1, NEW q \in Int, a = q * N + r
  PROVE  a % N = r
<1>. DEFINE s == a % N
            p == a \div N
<1>1. s \in 0..N-1 /\ p \in Int /\ a = p * N + s
  BY Div
<1>. HIDE DEF s, p
<1>2. p * N \in Int /\ q * N \in Int /\ (q - p) * N = q * N - p * N
  BY <1>1
<1>3. s = r + (q - p) * N
  BY <1>1, <1>2
<1>4. s = r
  BY <1>1, <1>3, Multiple
<1>. QED
  BY <1>4 DEF s

(* From here on the remainder is an operator of its own to the provers.    *)
Rem(a, N) == a % N

LEMMA RemPeriod ==
  ASSUME NEW N \in Nat \ {0}, NEW a \in Int, NEW b \in Int, NEW k \in Int, b = a + k * N
  PROVE  Rem(b, N) = Rem(a, N)
<1>. DEFINE s == a % N
            p == a \div N
<1>1. s \in 0..N-1 /\ p \in Int /\ a = p * N + s
  BY Div
<1>. HIDE DEF s, p
<1>2. (p + k) * N = p * N + k * N /\ p * N \in Int /\ k * N \in Int /\ (p + k) \in Int
  BY <1>1
<1>3. b = (p + k) * N + s
  BY <1>1, <1>2
<1>4. b % N = s
  BY <1>1, <1>2, <1>3, ModUnique
<1>. QED
  BY <1>4 DEF s, Rem

LEMMA RemFacts ==
  ASSUME NEW N \in Nat \ {0}, NEW a \in Int
  PROVE  /\ Rem(a, N) \in 0 .. N - 1
         /\ a \in 0 .. N - 1 => Rem(a, N) = a
BY DEF Rem

(* To take a remainder earlier makes no difference.                        *)
LEMMA RemShift ==
  ASSUME NEW N \in Nat \ {0}, NEW a \in Int, NEW t \in Int, NEW u \in Int,
         t - u = Rem(a, N) - a
  PROVE  Rem(t, N) = Rem(u, N)
<1>. DEFINE s == a % N
            p == a \div N
<1>1. s \in 0..N-1 /\ p \in Int /\ a = p * N + s /\ t - u = s - a
  BY Div DEF Rem
<1>. HIDE DEF s, p
<1>2. (-p) * N = -(p * N) /\ p * N \in Int /\ -p \in Int
  BY <1>1
<1>3. t = u + (-p) * N
  BY <1>1, <1>2
<1>. QED
  BY <1>2, <1>3, RemPeriod

(* A whole turn makes no difference.                                       *)
LEMMA RemTurn ==
  ASSUME NEW N \in Nat \ {0}, NEW a \in Int, NEW b \in Int, b = a + N
  PROVE  Rem(b, N) = Rem(a, N)
<1>1. b = a + 1 * N
  OBVIOUS
<1>. QED
  BY <1>1, RemPeriod

(* Numbers that are less than a whole turn apart are different.            *)
LEMMA RemDiffers ==
  ASSUME NEW N \in Nat \ {0}, NEW a \in Int, NEW b \in Int, b - a \in 1 .. N - 1
  PROVE  Rem(a, N) # Rem(b, N)
<1>. DEFINE x == a % N
            y == b % N
            p == a \div N
            q == b \div N
<1>1. /\ x \in 0 .. N-1 /\ p \in Int /\ a = p * N + x
      /\ y \in 0 .. N-1 /\ q \in Int /\ b = q * N + y
  BY Div
<1>2. SUFFICES ASSUME x = y PROVE FALSE
  BY DEF Rem
<1>. HIDE DEF x, y, p, q
<1>3. (q - p) * N = q * N - p * N /\ q * N \in Int /\ p * N \in Int
  BY <1>1
<1>4. b - a = (q - p) * N /\ q - p \in Int
  BY <1>1, <1>2, <1>3
<1>5. b - a \in 0 .. N - 1 /\ 0 \in 0 .. N - 1 /\ b - a = 0 + (q - p) * N
  BY <1>4
<1>6. b - a = 0
  BY <1>4, <1>5, Multiple
<1>. QED
  BY <1>6

-----------------------------------------------------------------------------
(* The ring.                                                               *)
Ring(c) == /\ c.writeIndex = Rem(c.ackIndex + Used(c), HistorySize)
           /\ \A i \in 1..Used(c) :
                c.frames[Slot(c, i - 1)].scon.num = Rem(c.recvSeqNum.num - Used(c) + i, NumMod)

LEMMA Sizes == /\ HistorySize \in Nat \ {0} /\ NumMod \in Nat \ {0} /\ Threshold \in Nat
               /\ 2 <= HistorySize /\ HistorySize <= Threshold /\ 2 * Threshold <= NumMod
               /\ Slots = 0 .. HistorySize - 1 /\ Numbers = 0 .. NumMod - 1 /\ 0 \in Slots
BY SizesAssumption DEF Slots, Numbers

(* What the ring is made of, by types.                                     *)
LEMMA Parts ==
  ASSUME NEW c \in Connections
  PROVE  /\ c.ackIndex \in 0 .. HistorySize - 1 /\ c.writeIndex \in 0 .. HistorySize - 1
         /\ c.free \in 0 .. HistorySize /\ Used(c) \in 0 .. HistorySize
         /\ Used(c) = HistorySize - c.free
         /\ c.recvSeqNum \in Bytes /\ c.recvSeqNum.num \in 0 .. NumMod - 1
         /\ c.sendSeqNum \in Bytes /\ c.frames \in [Slots -> Frames]
BY Sizes DEF Connections, Used, Bytes

LEMMA SlotFacts ==
  ASSUME NEW c \in Connections, NEW i \in Int
  PROVE  /\ Slot(c, i) \in Slots /\ c.frames[Slot(c, i)] \in Frames
         /\ c.frames[Slot(c, i)].scon.num \in Int
<1>. DEFINE a == c.ackIndex + i
<1>1. a \in Int
  BY Parts, Sizes
<1>. HIDE DEF a
<1>2. Rem(a, HistorySize) \in 0 .. HistorySize - 1
  BY <1>1, Sizes, RemFacts
<1>3. Slot(c, i) \in Slots
  BY <1>2, Sizes DEF Slot, a, Rem
<1>4. c.frames[Slot(c, i)] \in Frames
  BY <1>3, Parts
<1>5. \A f \in Frames : f.scon.num \in Int
  BY Sizes DEF Frames, Bytes
<1>. QED
  BY <1>3, <1>4, <1>5

(* The numbers in the ring, counted from the oldest frame: how far n and   *)
(* n - 1 are ahead of each, by e, the distance of n from the oldest.       *)
LEMMA Ahead ==
  ASSUME NEW c \in Connections, Ring(c), NEW n \in Numbers, NEW e,
         e = Rem(n - (c.recvSeqNum.num - Used(c) + 1), NumMod)
  PROVE  /\ e \in 0 .. NumMod - 1
         /\ \A j \in 0 .. Used(c) - 1 :
              /\ Rem(n - c.frames[Slot(c, j)].scon.num, NumMod) = Rem(e - j, NumMod)
              /\ Rem(n - 1 - c.frames[Slot(c, j)].scon.num, NumMod) = Rem(e - 1 - j, NumMod)
<1>. DEFINE x == c.recvSeqNum.num - Used(c) + 1
            d == n - x
<1>0. c.recvSeqNum.num \in Int /\ Used(c) \in Int /\ n \in Int
  BY Parts, Sizes
<1>1. x \in Int /\ n \in Int /\ d \in Int /\ e = Rem(d, NumMod)
  BY <1>0
<1>2. e \in 0 .. NumMod - 1
  <2>. HIDE DEF d
  <2>. QED
    BY <1>1, Sizes, RemFacts
<1>3. ASSUME NEW j \in 0 .. Used(c) - 1, NEW k \in Int, NEW t \in Int, NEW u \in Int,
             t = n - k - c.frames[Slot(c, j)].scon.num, u = e - k - j
      PROVE  Rem(t, NumMod) = Rem(u, NumMod)
  <2>. DEFINE m == c.frames[Slot(c, j)].scon.num
              a == x + j
              z == n - k - x - j
  <2>1. m = Rem(a, NumMod)
    <3>. DEFINE i == j + 1
    <3>1. i \in 1 .. Used(c) /\ i - 1 = j /\ c.recvSeqNum.num - Used(c) + i = a
      BY <1>0
    <3>. HIDE DEF i, a
    <3>2. c.frames[Slot(c, i - 1)].scon.num = Rem(c.recvSeqNum.num - Used(c) + i, NumMod)
      BY <3>1 DEF Ring
    <3>. QED
      BY <3>1, <3>2
  <2>2. j \in Int /\ a \in Int
    BY <1>1
  <2>3. m \in Int
    <3>. HIDE DEF m, a
    <3>. QED
      BY <2>1, <2>2, Sizes, RemFacts
  <2>4. z \in Int /\ z - t = m - a /\ u - z = e - d
    BY <1>1, <1>2, <1>3, <2>2, <2>3
  <2>. HIDE DEF m, a, d, z
  <2>5. Rem(z, NumMod) = Rem(t, NumMod)
    BY <2>1, <2>2, <2>4, Sizes, RemShift
  <2>6. Rem(u, NumMod) = Rem(z, NumMod)
    BY <1>1, <2>4, Sizes, RemShift
  <2>. QED
    BY <2>5, <2>6
<1>4. ASSUME NEW j \in 0 .. Used(c) - 1, NEW k \in {0, 1}
      PROVE  Rem(n - k - c.frames[Slot(c, j)].scon.num, NumMod) = Rem(e - k - j, NumMod)
  <2>. DEFINE m == c.frames[Slot(c, j)].scon.num
              t == n - k - m
              u == e - k - j
  <2>1. m \in Int
    BY SlotFacts
  <2>2. t \in Int /\ u \in Int /\ k \in Int
    BY <1>1, <1>2, <2>1
  <2>. HIDE DEF t, u
  <2>3. Rem(t, NumMod) = Rem(u, NumMod)
    BY <1>3, <2>2 DEF t, u
  <2>. QED
    BY <2>3 DEF t, u
<1>5. ASSUME NEW j \in 0 .. Used(c) - 1
      PROVE  /\ Rem(n - c.frames[Slot(c, j)].scon.num, NumMod) = Rem(e - j, NumMod)
             /\ Rem(n - 1 - c.frames[Slot(c, j)].scon.num, NumMod) = Rem(e - 1 - j, NumMod)
  <2>. DEFINE m == c.frames[Slot(c, j)].scon.num
  <2>1. m \in Int
    BY SlotFacts
  <2>. HIDE DEF m
  <2>2. n - 0 - m = n - m /\ e - 0 - j = e - j
    BY <1>1, <1>2, <2>1
  <2>3. Rem(n - 0 - m, NumMod) = Rem(e - 0 - j, NumMod)
    <3>. DEFINE k == 0
    <3>1. k \in {0, 1}
      OBVIOUS
    <3>. HIDE DEF k
    <3>2. Rem(n - k - m, NumMod) = Rem(e - k - j, NumMod)
      BY <1>4, <3>1 DEF m
    <3>. QED
      BY <3>2 DEF k
  <2>4. Rem(n - 1 - m, NumMod) = Rem(e - 1 - j, NumMod)
    <3>. DEFINE k == 1
    <3>1. k \in {0, 1}
      OBVIOUS
    <3>. HIDE DEF k
    <3>2. Rem(n - k - m, NumMod) = Rem(e - k - j, NumMod)
      BY <1>4, <3>1 DEF m
    <3>. QED
      BY <3>2 DEF k
  <2>. QED
    BY <2>2, <2>3, <2>4 DEF m
<1>. QED
  BY <1>2, <1>5

(* Slots less than a whole turn apart are different.                       *)
LEMMA SlotsDiffer ==
  ASSUME NEW c \in Connections, NEW i \in Int, NEW j \in Int, j - i \in 1 .. HistorySize - 1
  PROVE  Slot(c, i) # Slot(c, j)
<1>. DEFINE a == c.ackIndex + i
            b == c.ackIndex + j
<1>1. a \in Int /\ b \in Int /\ b - a \in 1 .. HistorySize - 1
  BY Parts, Sizes
<1>. HIDE DEF a, b
<1>2. Rem(a, HistorySize) # Rem(b, HistorySize)
  BY <1>1, Sizes, RemDiffers
<1>. QED
  BY <1>2 DEF a, b, Slot, Rem

LEMMA SlotZero ==
  ASSUME NEW c \in Connections
  PROVE  Slot(c, 0) = c.ackIndex
<1>. DEFINE a == c.ackIndex
<1>1. a \in 0 .. HistorySize - 1
  BY Parts
<1>. HIDE DEF a
<1>2. a \in Int /\ a + 0 = a /\ Rem(a, HistorySize) = a
  BY <1>1, Sizes, RemFacts
<1>. QED
  BY <1>2 DEF a, Slot, Rem

LEMMA SlotOfWrite ==
  ASSUME NEW c \in Connections, Ring(c)
  PROVE  Slot(c, Used(c)) = c.writeIndex
BY DEF Ring, Slot, Rem

(* A number behind the window, or too far ahead of it, releases nothing.   *)
LEMMA NothingAcked ==
  ASSUME NEW c \in Connections, Ring(c), NEW n \in Numbers, Used(c) >= 1, NEW e,
         e = Rem(n - (c.recvSeqNum.num - Used(c) + 1), NumMod), e >= Threshold
  PROVE  ~HistoryAcked(c, n) /\ DeleteAcked(c, n) = c
<1>. DEFINE ends(j) == \/ j > 0 /\ LastAcked(c, n, j - 1)
                       \/ ~Acks(n, c.frames[Slot(c, j)])
<1>1. e \in 0 .. NumMod - 1 /\ 0 \in 0 .. Used(c) - 1
  <2>1. e \in 0 .. NumMod - 1
    BY Ahead
  <2>2. Used(c) \in 0 .. HistorySize
    BY Parts
  <2>. QED
    BY <2>1, <2>2, Sizes
<1>2. Rem(n - c.frames[Slot(c, 0)].scon.num, NumMod) = e
  <2>1. e - 0 = e
    BY <1>1
  <2>2. Rem(n - c.frames[Slot(c, 0)].scon.num, NumMod) = Rem(e - 0, NumMod)
    BY <1>1, Ahead
  <2>. QED
    BY <1>1, <2>1, <2>2, Sizes, RemFacts
<1>3. ~Acks(n, c.frames[Slot(c, 0)])
  BY <1>1, <1>2, Sizes DEF Acks, Rem
<1>4. Slot(c, 0) = c.ackIndex
  BY SlotZero
<1>5. ends(0) /\ 0 \in 0 .. HistorySize
  BY <1>3, Sizes
<1>6. AckedCount(c, n) = 0
  <2>1. AckedCount(c, n) = CHOOSE j \in 0 .. HistorySize :
                             ends(j) /\ \A i \in 0 .. (j - 1) : ~ends(i)
    BY DEF AckedCount
  <2>. HIDE DEF ends
  <2>2. \A j \in 0 .. HistorySize : (ends(j) /\ \A i \in 0 .. (j - 1) : ~ends(i)) <=> j = 0
    BY <1>5, Sizes
  <2>. QED
    BY <1>5, <2>1, <2>2
<1>7. [c EXCEPT !.free = @ + 0, !.ackIndex = @] = c
  <2>1. c.free + 0 = c.free
    BY Parts, Sizes
  <2>2. [c EXCEPT !.free = c.free, !.ackIndex = c.ackIndex] = c
    BY DEF Connections
  <2>. QED
    BY <2>1, <2>2
<1>. QED
  BY <1>3, <1>4, <1>6, <1>7 DEF HistoryAcked, DeleteAcked

(* A number of the window, or less than Threshold ahead of its oldest,     *)
(* releases the frames up to it.                                           *)
LEMMA SomeAcked ==
  ASSUME NEW c \in Connections, Ring(c), NEW n \in Numbers, Used(c) >= 1, NEW e,
         e = Rem(n - (c.recvSeqNum.num - Used(c) + 1), NumMod), e < Threshold,
         NEW k, k = IF e + 1 <= Used(c) THEN e + 1 ELSE Used(c)
  PROVE  /\ HistoryAcked(c, n) /\ k \in 1 .. Used(c)
         /\ DeleteAcked(c, n) = [c EXCEPT !.free = @ + k, !.ackIndex = Slot(c, k)]
<1>. DEFINE ends(j) == \/ j > 0 /\ LastAcked(c, n, j - 1)
                       \/ ~Acks(n, c.frames[Slot(c, j)])
            U == Used(c)
<1>1. /\ e \in 0 .. NumMod - 1 /\ U \in 1 .. HistorySize /\ k \in 1 .. U
      /\ k \in 0 .. HistorySize
  <2>1. e \in 0 .. NumMod - 1
    BY Ahead
  <2>2. U \in 0 .. HistorySize /\ U >= 1
    BY Parts
  <2>. HIDE DEF U
  <2>3. k = IF e + 1 <= U THEN e + 1 ELSE U
    BY DEF U
  <2>. QED
    BY <2>1, <2>2, <2>3, Sizes
<1>2. ASSUME NEW j \in 0 .. k - 1
      PROVE  Acks(n, c.frames[Slot(c, j)])
  <2>1. e - j \in 0 .. NumMod - 1 /\ j \in 0 .. U - 1 /\ e - j < Threshold
    BY SMTT(30), <1>1, Sizes
  <2>2. Rem(n - c.frames[Slot(c, j)].scon.num, NumMod) = Rem(e - j, NumMod)
    BY <2>1, Ahead
  <2>3. Rem(e - j, NumMod) = e - j
    BY <2>1, Sizes, RemFacts
  <2>. QED
    BY <2>1, <2>2, <2>3 DEF Acks, Rem
<1>3. ASSUME NEW j \in 1 .. k - 1
      PROVE  ~LastAcked(c, n, j - 1)
  <2>1. e - 1 - (j - 1) = e - j /\ j - 1 + 1 = j /\ j \in Int
        /\ e - j \in 0 .. NumMod - 1 /\ e - j < Threshold /\ j - 1 \in 0 .. U - 1
        /\ U - j \in 1 .. HistorySize - 1 /\ U \in Int
    <3>1. e <= NumMod - 1 /\ k <= U /\ k <= e + 1
      <4>. HIDE DEF U
      <4>1. k = IF e + 1 <= U THEN e + 1 ELSE U
        BY DEF U
      <4>. QED
        BY <1>1, <4>1, Sizes
    <3>2. /\ e \in Int /\ k \in Int /\ U \in Int /\ j \in Int /\ 1 <= j /\ j <= k - 1
          /\ U <= HistorySize /\ NumMod \in Int /\ HistorySize \in Int
          /\ Threshold \in Int /\ e < Threshold
      BY <1>1, Sizes
    <3>. HIDE DEF U
    <3>. QED
      BY <3>1, <3>2
  <2>2. Rem(n - 1 - c.frames[Slot(c, j - 1)].scon.num, NumMod) = Rem(e - 1 - (j - 1), NumMod)
    BY <2>1, Ahead
  <2>3. Rem(e - 1 - (j - 1), NumMod) = e - j
    BY <2>1, Sizes, RemFacts
  <2>4. Rem(n - 1 - c.frames[Slot(c, j - 1)].scon.num, NumMod) < Threshold
    BY <2>1, <2>2, <2>3
  <2>5. Slot(c, j) # Slot(c, U)
    BY <2>1, SlotsDiffer
  <2>6. ~((n - 1 - c.frames[Slot(c, j - 1)].scon.num) % NumMod >= Threshold)
    <3>1. Rem(n - 1 - c.frames[Slot(c, j - 1)].scon.num, NumMod) \in Int /\ Threshold \in Int
      BY <2>1, <2>2, <2>3, Sizes
    <3>. QED
      BY <2>4, <3>1 DEF Rem
  <2>. QED
    BY <2>1, <2>5, <2>6, SlotOfWrite DEF LastAcked
<1>4. LastAcked(c, n, k - 1)
  <2>1. CASE k = U
    <3>1. k - 1 + 1 = U
      BY <1>1, <2>1
    <3>. QED
      BY <3>1, SlotOfWrite DEF LastAcked
  <2>2. CASE k = e + 1
    <3>1. e - 1 - (k - 1) = -1 /\ k - 1 \in 0 .. U - 1 /\ NumMod - 1 = -1 + NumMod
          /\ NumMod - 1 \in 0 .. NumMod - 1 /\ NumMod - 1 >= Threshold /\ -1 \in Int
          /\ NumMod - 1 \in Int
      BY <1>1, <2>2, Sizes
    <3>2. Rem(n - 1 - c.frames[Slot(c, k - 1)].scon.num, NumMod) = Rem(e - 1 - (k - 1), NumMod)
      BY <3>1, Ahead
    <3>3. Rem(-1, NumMod) = NumMod - 1
      <4>. DEFINE a == -1
                  b == NumMod - 1
      <4>1. a \in Int /\ b \in 0 .. NumMod - 1 /\ b \in Int /\ b = a + NumMod
        BY <3>1, Sizes
      <4>. HIDE DEF a, b
      <4>2. Rem(b, NumMod) = Rem(a, NumMod) /\ Rem(b, NumMod) = b
        BY <4>1, Sizes, RemTurn, RemFacts
      <4>. QED
        BY <4>2 DEF a, b
    <3>. QED
      BY <3>1, <3>2, <3>3 DEF LastAcked, Rem
  <2>. QED
    BY <1>1, <2>1, <2>2
<1>5. ends(k) /\ \A i \in 0 .. k - 1 : ~ends(i)
  <2>1. \A i \in 0 .. k - 1 : i > 0 => i \in 1 .. k - 1
    BY <1>1
  <2>. QED
    BY <1>1, <1>2, <1>3, <1>4, <2>1
<1>6. AckedCount(c, n) = k
  <2>1. AckedCount(c, n) = CHOOSE j \in 0 .. HistorySize :
                             ends(j) /\ \A i \in 0 .. (j - 1) : ~ends(i)
    BY DEF AckedCount
  <2>. HIDE DEF ends
  <2>2. \A j \in 0 .. HistorySize : (ends(j) /\ \A i \in 0 .. (j - 1) : ~ends(i)) <=> j = k
    BY <1>1, <1>5, Sizes
  <2>. QED
    BY <1>1, <2>1, <2>2
<1>7. HistoryAcked(c, n)
  <2>2. Slot(c, 0) = c.ackIndex
    BY SlotZero
  <2>3. 0 \in 0 .. k - 1
    BY <1>1
  <2>. QED
    BY <1>2, <2>2, <2>3 DEF HistoryAcked
<1>8. c.free # HistorySize /\ k > 0
  BY <1>1, Parts, Sizes
<1>. QED
  BY <1>1, <1>4, <1>6, <1>7, <1>8 DEF DeleteAcked

(* Releasing the k oldest frames, and adding a frame with the next number, *)
(* keep the ring.                                                          *)
LEMMA Released ==
  ASSUME NEW c \in Connections, Ring(c), NEW k \in 0 .. Used(c), NEW d,
         d = [c EXCEPT !.free = @ + k, !.ackIndex = Slot(c, k)]
  PROVE  /\ d \in Connections /\ Ring(d) /\ d.free = c.free + k
         /\ d.state = c.state /\ d.recvSeqNum = c.recvSeqNum /\ d.flow = c.flow
<1>. DEFINE U == Used(c)
            a == c.ackIndex + k
            rs == c.recvSeqNum.num
<1>1. /\ U \in 0 .. HistorySize /\ U = HistorySize - c.free /\ c.free \in 0 .. HistorySize
      /\ k \in Int /\ c.ackIndex \in Int /\ a \in Int /\ rs \in Int /\ HistorySize \in Int
      /\ U \in Int /\ c.free \in Int
  BY Parts, Sizes
<1>2. c.free + k \in 0 .. HistorySize /\ Slot(c, k) \in Slots
  BY <1>1, SlotFacts
<1>3. /\ d \in Connections /\ d.free = c.free + k /\ d.ackIndex = Slot(c, k)
      /\ d.state = c.state /\ d.recvSeqNum = c.recvSeqNum /\ d.flow = c.flow
      /\ d.frames = c.frames /\ d.writeIndex = c.writeIndex
  BY <1>2 DEF Connections
<1>4. Used(d) = U - k
  BY <1>1, <1>3 DEF Used
<1>5. d.ackIndex = Rem(a, HistorySize) /\ d.ackIndex \in Int
  BY <1>2, <1>3, Sizes DEF Slot, Rem
<1>6. d.writeIndex = Rem(d.ackIndex + Used(d), HistorySize)
  <2>. DEFINE t == d.ackIndex + Used(d)
              u == c.ackIndex + U
  <2>1. t \in Int /\ u \in Int /\ t - u = Rem(a, HistorySize) - a
    BY <1>1, <1>4, <1>5
  <2>2. c.writeIndex = Rem(u, HistorySize)
    BY DEF Ring
  <2>. HIDE DEF t, u, a
  <2>3. Rem(t, HistorySize) = Rem(u, HistorySize)
    BY <1>1, <2>1, Sizes, RemShift
  <2>. QED
    BY <1>3, <2>2, <2>3 DEF t
<1>7. ASSUME NEW i \in 1 .. Used(d)
      PROVE  d.frames[Slot(d, i - 1)].scon.num = Rem(d.recvSeqNum.num - Used(d) + i, NumMod)
  <2>. DEFINE t == d.ackIndex + (i - 1)
              j == k + i
              u == c.ackIndex + (j - 1)
  <2>1. /\ t \in Int /\ u \in Int /\ t - u = Rem(a, HistorySize) - a
        /\ j \in 1 .. U /\ rs - Used(d) + i = rs - U + j
    BY <1>1, <1>4, <1>5
  <2>. HIDE DEF t, u, a
  <2>2. Rem(t, HistorySize) = Rem(u, HistorySize)
    BY <1>1, <2>1, Sizes, RemShift
  <2>3. Slot(d, i - 1) = Slot(c, j - 1)
    <3>. HIDE DEF j
    <3>. QED
      BY <2>2 DEF t, u, Slot, Rem
  <2>. HIDE DEF j
  <2>4. c.frames[Slot(c, j - 1)].scon.num = Rem(rs - U + j, NumMod)
    BY <2>1 DEF Ring
  <2>. QED
    BY <1>3, <2>1, <2>3, <2>4
<1>. QED
  BY <1>3, <1>6, <1>7 DEF Ring

LEMMA NextIs ==
  ASSUME NEW n \in Numbers
  PROVE  NextNum(n) = Rem(n + 1, NumMod) /\ NextNum(n) \in Numbers /\ n + 1 \in Int
<1>. DEFINE a == n + 1
<1>1. a \in Int
  BY Sizes
<1>. HIDE DEF a
<1>2. Rem(a, NumMod) \in 0 .. NumMod - 1
  BY <1>1, Sizes, RemFacts
<1>. QED
  BY <1>1, <1>2, Sizes DEF a, NextNum, Rem

LEMMA Appended ==
  ASSUME NEW c \in Connections, Ring(c), c.free >= 1,
         NEW c1 \in Connections, c1.recvSeqNum.num = NextNum(c.recvSeqNum.num),
         c1.frames = c.frames, c1.free = c.free, c1.writeIndex = c.writeIndex,
         c1.ackIndex = c.ackIndex, c1.state = c.state,
         NEW f \in Frames, f.scon.num = c1.recvSeqNum.num, NEW d, d = AddToHistory(c1, f)
  PROVE  /\ d \in Connections /\ Ring(d) /\ d.free = c.free - 1 /\ d.state = c.state
         /\ d.recvSeqNum.num = NextNum(c.recvSeqNum.num)
<1>. DEFINE U == Used(c)
            rs == c.recvSeqNum.num
            rn == NextNum(rs)
            wi == (c.writeIndex + 1) % HistorySize
<1>1. /\ U \in 0 .. HistorySize - 1 /\ U = HistorySize - c.free /\ c.free \in 1 .. HistorySize
      /\ c.ackIndex \in Int /\ rs \in Int /\ HistorySize \in Int /\ rs \in Numbers
      /\ U \in Int /\ c.free \in Int /\ c.writeIndex \in Int /\ c.writeIndex \in Slots
  <2>1. /\ U \in 0 .. HistorySize /\ U = HistorySize - c.free /\ c.free \in 0 .. HistorySize
        /\ c.ackIndex \in 0 .. HistorySize - 1 /\ rs \in 0 .. NumMod - 1
        /\ c.writeIndex \in 0 .. HistorySize - 1
    BY Parts
  <2>. HIDE DEF U, rs
  <2>. QED
    BY <2>1, Sizes
<1>2. rn = Rem(rs + 1, NumMod) /\ rn \in Numbers /\ rn \in Int /\ rs + 1 \in Int
  <2>. HIDE DEF rs
  <2>1. NextNum(rs) = Rem(rs + 1, NumMod) /\ NextNum(rs) \in Numbers /\ rs + 1 \in Int
    BY <1>1, NextIs
  <2>2. \A x \in Numbers : x \in Int
    BY Sizes
  <2>. QED
    BY <2>1, <2>2
<1>3. wi = Rem(c.writeIndex + 1, HistorySize) /\ wi \in Slots
  <2>. DEFINE a == c.writeIndex + 1
  <2>1. a \in Int
    BY <1>1
  <2>. HIDE DEF a
  <2>2. Rem(a, HistorySize) \in 0 .. HistorySize - 1
    BY <2>1, Sizes, RemFacts
  <2>. QED
    BY <2>2, Sizes DEF a, Rem
<1>4. c.free - 1 \in 0 .. HistorySize
  BY <1>1
<1>5. /\ c1 \in Connections /\ c1.recvSeqNum.num = rn /\ c1.frames = c.frames
      /\ c1.free = c.free /\ c1.writeIndex = c.writeIndex /\ c1.ackIndex = c.ackIndex
      /\ c1.state = c.state
  OBVIOUS
<1>6. /\ d \in Connections /\ d.recvSeqNum.num = rn /\ d.free = c.free - 1
      /\ d.writeIndex = wi /\ d.ackIndex = c.ackIndex /\ d.state = c.state
      /\ d.frames = [c.frames EXCEPT ![c.writeIndex] = f]
  <2>. HIDE DEF rn, wi
  <2>1. d = [c1 EXCEPT !.frames[c1.writeIndex] = f, !.free = c.free - 1, !.writeIndex = wi]
    BY <1>5 DEF AddToHistory, wi
  <2>2. d = [c1 EXCEPT !.frames = [c.frames EXCEPT ![c.writeIndex] = f],
                       !.free = c.free - 1, !.writeIndex = wi]
    BY <1>5, <2>1 DEF Connections
  <2>3. [c.frames EXCEPT ![c.writeIndex] = f] \in [Slots -> Frames]
    BY Parts
  <2>. QED
    BY <1>3, <1>4, <1>5, <2>2, <2>3 DEF Connections
<1>7. Used(d) = U + 1
  BY <1>1, <1>6 DEF Used
<1>. HIDE DEF wi, rn
<1>8. d.writeIndex = Rem(d.ackIndex + Used(d), HistorySize)
  <2>. DEFINE a == c.ackIndex + U
              t == c.writeIndex + 1
              u == c.ackIndex + (U + 1)
  <2>1. c.writeIndex = Rem(a, HistorySize)
    BY DEF Ring
  <2>2. a \in Int /\ t \in Int /\ u \in Int /\ t - u = Rem(a, HistorySize) - a
    BY <1>1, <2>1
  <2>. HIDE DEF a, t, u
  <2>3. Rem(t, HistorySize) = Rem(u, HistorySize)
    BY <2>2, Sizes, RemShift
  <2>. QED
    BY <1>3, <1>6, <1>7, <2>3 DEF t, u
<1>9. ASSUME NEW i \in Int
      PROVE  Slot(d, i) = Slot(c, i)
  BY <1>6 DEF Slot
<1>10. Slot(c, U) = c.writeIndex
  BY SlotOfWrite
<1>11. ASSUME NEW i \in 1 .. U
       PROVE  d.frames[Slot(d, i - 1)].scon.num = Rem(rn - (U + 1) + i, NumMod)
  <2>. DEFINE a == rs + 1
              t == rn - (U + 1) + i
              u == rs - U + i
  <2>1. /\ i - 1 \in Int /\ U - (i - 1) \in 1 .. HistorySize - 1 /\ i \in Int
        /\ a \in Int /\ t \in Int /\ u \in Int /\ t - u = rn - a
    BY <1>1, <1>2
  <2>2. Slot(c, i - 1) # Slot(c, U) /\ Slot(c, i - 1) \in Slots
    BY <1>1, <2>1, SlotsDiffer, SlotFacts
  <2>3. d.frames[Slot(d, i - 1)] = c.frames[Slot(c, i - 1)]
    BY <1>6, <1>9, <1>10, <2>1, <2>2, Parts
  <2>4. c.frames[Slot(c, i - 1)].scon.num = Rem(u, NumMod)
    BY DEF Ring
  <2>. HIDE DEF a, t, u
  <2>5. Rem(t, NumMod) = Rem(u, NumMod)
    <3>1. rn = Rem(a, NumMod)
      BY <1>2 DEF a
    <3>. QED
      BY <2>1, <3>1, Sizes, RemShift
  <2>. QED
    BY <2>3, <2>4, <2>5 DEF t
<1>12. d.frames[Slot(d, U)].scon.num = rn
  BY <1>1, <1>5, <1>6, <1>9, <1>10, Parts
<1>13. rn = Rem(rn - (U + 1) + (U + 1), NumMod)
  <2>1. rn - (U + 1) + (U + 1) = rn
    BY <1>1, <1>2
  <2>. QED
    BY <1>2, <2>1, Sizes, RemFacts
<1>14. ASSUME NEW i \in 1 .. Used(d)
       PROVE  d.frames[Slot(d, i - 1)].scon.num = Rem(d.recvSeqNum.num - Used(d) + i, NumMod)
  <2>1. CASE i \in 1 .. U
    BY <1>6, <1>7, <1>11, <2>1
  <2>2. CASE i = U + 1
    <3>1. i - 1 = U
      BY <1>1, <2>2
    <3>. QED
      BY <1>6, <1>7, <1>12, <1>13, <2>2, <3>1
  <2>. QED
    BY <1>1, <1>7, <2>1, <2>2
<1>. QED
  BY <1>6, <1>8, <1>14 DEF Ring, rn

-----------------------------------------------------------------------------
(* What every step keeps.  Room is what a connection needs to accept data: *)
(* with a history of two a frame fills it, with a longer one never.        *)
Room == IF HistorySize >= 3 THEN 2 ELSE 1
SoundCon(c) == /\ c \in Connections
               /\ Established(c) => Ring(c) /\ c.free >= Room - 1
               /\ c.state = "Connected" => c.free >= Room

(* c and d have the same history, but for the codes of the frames.         *)
Alike(c, d) == /\ d \in Connections
               /\ d.recvSeqNum.num = c.recvSeqNum.num
               /\ d.free = c.free /\ d.writeIndex = c.writeIndex /\ d.ackIndex = c.ackIndex
               /\ \A i \in Slots : d.frames[i].scon.num = c.frames[i].scon.num

LEMMA RoomFacts == Room \in Int /\ Room \in 1 .. 2 /\ Room <= HistorySize - 1
BY Sizes DEF Room

LEMMA AlikeRing ==
  ASSUME NEW c \in Connections, Ring(c), NEW d, Alike(c, d)
  PROVE  Ring(d)
<1>1. Used(d) = Used(c) /\ (\A i \in Int : Slot(d, i) = Slot(c, i))
  BY DEF Alike, Used, Slot
<1>2. ASSUME NEW i \in 1 .. Used(d)
      PROVE  d.frames[Slot(d, i - 1)].scon.num = Rem(d.recvSeqNum.num - Used(d) + i, NumMod)
  <2>0. Used(c) \in 0 .. HistorySize /\ HistorySize \in Int
    BY Parts, Sizes
  <2>1. i - 1 \in Int /\ Slot(c, i - 1) \in Slots
    <3>1. i - 1 \in Int
      BY <1>1, <2>0
    <3>. QED
      BY <3>1, SlotFacts
  <2>2. d.frames[Slot(d, i - 1)].scon.num = c.frames[Slot(c, i - 1)].scon.num
    BY <1>1, <2>1 DEF Alike
  <2>3. c.frames[Slot(c, i - 1)].scon.num = Rem(c.recvSeqNum.num - Used(c) + i, NumMod)
    BY <1>1 DEF Ring
  <2>. QED
    BY <1>1, <2>2, <2>3 DEF Alike
<1>. QED
  BY <1>1, <1>2 DEF Ring, Alike

LEMMA AlikeSound ==
  ASSUME NEW c, SoundCon(c), NEW d, Alike(c, d), d.state = c.state
  PROVE  SoundCon(d)
BY AlikeRing DEF SoundCon, Alike, Established

(* With room enough, the state may be any.                                 *)
LEMMA RoomySound ==
  ASSUME NEW c \in Connections, Ring(c), c.free >= Room, NEW d, Alike(c, d)
  PROVE  SoundCon(d)
<1>1. Ring(d) /\ d.free = c.free /\ d.free \in Int
  BY AlikeRing, Parts DEF Alike
<1>. QED
  BY <1>1, RoomFacts DEF SoundCon, Alike

(* An acknowledgement: the numbers that are acknowledged, what is released *)
(* and how much room there is then.                                        *)
LEMMA AckStep ==
  ASSUME NEW c, SoundCon(c), Established(c), NEW n \in Numbers, NEW d, d = DeleteAcked(c, n)
  PROVE  /\ d \in Connections /\ Ring(d) /\ d.state = c.state
         /\ d.recvSeqNum = c.recvSeqNum /\ d.free >= c.free
         /\ HistoryAcked(c, n) => d.free >= Room
         /\ HistoryAcked(c, n) /\ n \in {c.recvSeqNum.num, NextNum(c.recvSeqNum.num)}
              => d.free = HistorySize
         /\ n = c.recvSeqNum.num => HistoryAcked(c, n) \/ c.free = HistorySize
<1>. DEFINE U  == Used(c)
            rs == c.recvSeqNum.num
            a  == n - (rs - U + 1)
            e  == Rem(a, NumMod)
            k  == IF e + 1 <= U THEN e + 1 ELSE U
<1>1. /\ c \in Connections /\ Ring(c) /\ c.free >= Room - 1
      /\ U \in 0 .. HistorySize /\ U = HistorySize - c.free /\ c.free \in 0 .. HistorySize
      /\ rs \in Numbers /\ rs \in Int /\ n \in Int /\ a \in Int
      /\ U \in Int /\ c.free \in Int /\ HistorySize \in Int /\ Room \in Int
      /\ NumMod \in Int /\ Threshold \in Int /\ U <= HistorySize
      /\ 2 <= HistorySize /\ HistorySize <= Threshold /\ 2 * Threshold <= NumMod
  <2>1. c \in Connections /\ Ring(c) /\ c.free >= Room - 1
    BY DEF SoundCon
  <2>. QED
    BY <2>1, Parts, Sizes, RoomFacts
<1>0. e \in 0 .. NumMod - 1
  <2>. HIDE DEF a
  <2>. QED
    BY <1>1, Sizes, RemFacts
<1>2. CASE U = 0
  BY <1>1, <1>2, RoomFacts DEF DeleteAcked
<1>3. CASE U >= 1 /\ e >= Threshold
  <2>1. ~HistoryAcked(c, n) /\ DeleteAcked(c, n) = c
    BY <1>1, <1>3, NothingAcked
  <2>2. n # rs
    <3>1. SUFFICES ASSUME n = rs PROVE FALSE
      OBVIOUS
    <3>2. a = U - 1 /\ a \in 0 .. NumMod - 1 /\ a < Threshold
      <4>1. a = n - (rs - U + 1)
        OBVIOUS
      <4>. HIDE DEF a, U, rs
      <4>. QED
        BY <1>1, <1>3, <3>1, <4>1
    <3>. HIDE DEF a
    <3>3. Rem(a, NumMod) = a
      BY <1>1, <3>2, Sizes, RemFacts
    <3>. QED
      BY <1>1, <1>3, <3>2, <3>3
  <2>. QED
    BY <1>1, <2>1, <2>2
<1>4. CASE U >= 1 /\ e < Threshold
  <2>2. /\ HistoryAcked(c, n) /\ k \in 1 .. U
        /\ d = [c EXCEPT !.free = @ + k, !.ackIndex = Slot(c, k)]
    BY <1>1, <1>4, SomeAcked
  <2>3. k \in 0 .. U
    <3>. HIDE DEF k
    <3>. QED
      BY <1>1, <2>2
  <2>4. /\ d \in Connections /\ Ring(d) /\ d.free = c.free + k
        /\ d.state = c.state /\ d.recvSeqNum = c.recvSeqNum
    <3>. HIDE DEF k
    <3>. QED
      BY <1>1, <2>2, <2>3, Released
  <2>5. ASSUME n \in {rs, NextNum(rs)} PROVE k = U
    <3>1. CASE n = rs
      <4>1. a = U - 1 /\ a \in 0 .. NumMod - 1
        <5>1. a = n - (rs - U + 1)
          OBVIOUS
        <5>. HIDE DEF a, U, rs
        <5>. QED
          BY <1>1, <1>4, <3>1, <5>1
      <4>2. Rem(a, NumMod) = a
        <5>. HIDE DEF a
        <5>. QED
          BY <1>1, <4>1, Sizes, RemFacts
      <4>. QED
        BY <1>1, <4>1, <4>2
    <3>2. CASE n = NextNum(rs)
      <4>. DEFINE b == rs + 1
      <4>1. n = Rem(b, NumMod) /\ b \in Int
        BY <1>1, <3>2, NextIs
      <4>2. a - U = n - b /\ U \in 0 .. NumMod - 1
        <5>1. a = n - (rs - U + 1) /\ b = rs + 1
          OBVIOUS
        <5>. HIDE DEF a, b, U, rs
        <5>. QED
          BY <1>1, <4>1, <5>1
      <4>3. e = U
        <5>. HIDE DEF a, b, U
        <5>1. Rem(a, NumMod) = Rem(U, NumMod)
          BY <1>1, <4>1, <4>2, Sizes, RemShift
        <5>2. Rem(U, NumMod) = U
          BY <1>1, <4>2, Sizes, RemFacts
        <5>. QED
          BY <5>1, <5>2
      <4>. HIDE DEF e, U
      <4>. QED
        BY <1>1, <4>3
    <3>. QED
      BY <2>5, <3>1, <3>2
  <2>. HIDE DEF k
  <2>. QED
    BY <1>1, <2>2, <2>4, <2>5, RoomFacts
<1>5. U = 0 \/ (U >= 1 /\ e >= Threshold) \/ (U >= 1 /\ e < Threshold)
  <2>. HIDE DEF e, U
  <2>. QED
    BY <1>0, <1>1
<1>. QED
  BY <1>2, <1>3, <1>4, <1>5


-----------------------------------------------------------------------------
(* The work record of a handler, which may send room frames.  When a frame *)
(* is answered with the state Connected, the history is not yet            *)
(* initialised: then the record is Typed, but not yet Sound.               *)
WorkType == [c : Connections, out : Seq(Frames), room : Nat, got : Seq(Nat),
             last : Nat, limit : Nat]
Typed(w, room) == w \in WorkType /\ w.room = room /\ Len(w.out) <= room
Sound(w, room) == Typed(w, room) /\ SoundCon(w.c)
Up(w, room)    == Sound(w, room) /\ Established(w.c)

LEMMA WorkParts ==
  ASSUME NEW room, NEW w, Typed(w, room)
  PROVE  /\ w \in WorkType /\ w.c \in Connections /\ w.out \in Seq(Frames)
         /\ Len(w.out) \in Nat /\ w.room \in Nat /\ Len(w.out) <= w.room
         /\ w.got \in Seq(Nat) /\ w.last \in Nat /\ w.limit \in Nat
BY DEF Typed, WorkType

LEMMA PutCon ==
  ASSUME NEW room, NEW w, Typed(w, room), NEW d \in Connections, NEW v, v = [w EXCEPT !.c = d]
  PROVE  Typed(v, room) /\ v.c = d /\ (SoundCon(d) => Sound(v, room))
         /\ v.out = w.out /\ v.room = w.room /\ v.last = w.last /\ v.got = w.got
BY DEF Typed, WorkType, Sound

LEMMA PutOut ==
  ASSUME NEW room, NEW w, Typed(w, room), NEW o \in Seq(Frames), Len(o) <= w.room,
         NEW v, v = [w EXCEPT !.out = o]
  PROVE  Typed(v, room) /\ v.c = w.c
BY DEF Typed, WorkType

LEMMA PutGot ==
  ASSUME NEW room, NEW w, Typed(w, room), NEW g \in Seq(Nat), NEW v, v = [w EXCEPT !.got = g]
  PROVE  Typed(v, room) /\ v.c = w.c
BY DEF Typed, WorkType

LEMMA FrameType ==
  ASSUME NEW c \in Connections, NEW n \in Nat
  PROVE  Frame(c, n) \in Frames /\ Frame(c, n).scon = c.recvSeqNum
BY DEF Frame, Frames, Connections

LEMMA EmitTyped ==
  ASSUME NEW room, NEW w, Typed(w, room), NEW f \in Frames
  PROVE  Typed(Emit(w, f), room) /\ Emit(w, f).c = w.c
<1>1. CASE Full(w)
  BY <1>1 DEF Emit
<1>2. CASE ~Full(w)
  <2>. DEFINE o == Append(w.out, f)
  <2>1. o \in Seq(Frames) /\ Len(o) = Len(w.out) + 1
    BY WorkParts
  <2>2. Len(o) <= w.room
    BY <1>2, <2>1, WorkParts DEF Full
  <2>3. Emit(w, f) = [w EXCEPT !.out = o]
    BY <1>2 DEF Emit
  <2>. HIDE DEF o
  <2>. QED
    BY <2>1, <2>2, <2>3, PutOut
<1>. QED
  BY <1>1, <1>2

LEMMA SendTyped ==
  ASSUME NEW room, NEW w, Typed(w, room)
  PROVE  /\ Typed(SendEmpty(w), room) /\ SendEmpty(w).c = w.c
         /\ Typed(SendOldest(w), room) /\ SendOldest(w).c = w.c
         /\ Typed(SendWindow(w), room) /\ SendWindow(w).c = w.c
<1>0. w.c \in Connections
  BY WorkParts
<1>1. Typed(SendEmpty(w), room) /\ SendEmpty(w).c = w.c
  BY <1>0, FrameType, EmitTyped DEF SendEmpty
<1>2. Typed(SendOldest(w), room) /\ SendOldest(w).c = w.c
  <2>1. w.c.frames[w.c.ackIndex] \in Frames
    BY <1>0 DEF Connections
  <2>. QED
    BY <2>1, EmitTyped DEF SendOldest
<1>3. Typed(SendWindow(w), room) /\ SendWindow(w).c = w.c
  <2>. DEFINE h == Window(w.c)
              U == Used(w.c)
              n == IF U <= w.room - Len(w.out) THEN U ELSE w.room - Len(w.out)
              s == SubSeq(h, 1, n)
              o == w.out \o s
  <2>1. U \in Nat /\ n \in 0 .. U /\ Len(w.out) + n <= w.room
    <3>1. U \in Nat
      BY <1>0, Parts, Sizes
    <3>. HIDE DEF U
    <3>. QED
      BY <3>1, WorkParts
  <2>2. h \in Seq(Frames) /\ Len(h) = U
    <3>1. \A i \in 1 .. U : w.c.frames[Slot(w.c, i - 1)] \in Frames
      BY <1>0, <2>1, SlotFacts
    <3>. HIDE DEF U
    <3>2. h = [i \in 1 .. U |-> w.c.frames[Slot(w.c, i - 1)]]
      BY DEF Window, U
    <3>. HIDE DEF h
    <3>. QED
      BY <2>1, <3>1, <3>2
  <2>. HIDE DEF h, U, n
  <2>3. s \in Seq(Frames) /\ Len(s) = n
    BY <2>1, <2>2
  <2>4. o \in Seq(Frames) /\ Len(o) <= w.room
    <3>. HIDE DEF s
    <3>. QED
      BY <2>1, <2>3, WorkParts
  <2>5. SendWindow(w) = [w EXCEPT !.out = o]
    BY DEF SendWindow, h, U, n
  <2>. HIDE DEF o
  <2>. QED
    BY <2>4, <2>5, PutOut
<1>. QED
  BY <1>1, <1>2, <1>3

LEMMA FlowSound ==
  ASSUME NEW room, NEW w, Sound(w, room), NEW ret
  PROVE  /\ Sound(Flow(w, ret), room) /\ Alike(w.c, Flow(w, ret).c)
         /\ Flow(w, ret).c.state = w.c.state
<1>1. ASSUME NEW b \in BOOLEAN PROVE
        LET d == [w.c EXCEPT !.flow = b]
        IN  Alike(w.c, d) /\ d.state = w.c.state /\ [w EXCEPT !.c.flow = b] = [w EXCEPT !.c = d]
  BY DEF Sound, Typed, WorkType, Connections, Alike
<1>. DEFINE b == ret = "busy"
            d == [w.c EXCEPT !.flow = b]
<1>2. b \in BOOLEAN /\ Flow(w, ret) = [w EXCEPT !.c.flow = b]
  BY DEF Flow
<1>. HIDE DEF b
<1>3. Alike(w.c, d) /\ d.state = w.c.state /\ Flow(w, ret) = [w EXCEPT !.c = d]
  BY <1>1, <1>2
<1>. HIDE DEF d
<1>4. SoundCon(d) /\ d \in Connections
  BY <1>3, AlikeSound DEF Sound, Alike
<1>. QED
  BY <1>3, <1>4, PutCon DEF Sound

-----------------------------------------------------------------------------
(* Connecting.                                                             *)
LEMMA ClosedConType ==
  /\ ClosedCon \in Connections /\ ClosedCon.state = "Idle"
  /\ FreshCon \in Connections /\ FreshCon.state = "Idle"
  /\ [ClosedCon EXCEPT !.open = TRUE] \in Connections
  /\ [ClosedCon EXCEPT !.open = TRUE].state = "Idle"
<1>1. NoFrame \in Frames /\ Byte(0, 0) \in Bytes
  BY Sizes DEF NoFrame, Frames, Byte, Bytes
<1>2. 0 \in 0 .. RetryCount /\ 0 \in 0 .. InactiveThld
  BY BoundsAssumption
<1>3. HistorySize \in 0 .. HistorySize /\ 0 \in 0 .. HistorySize /\ 0 \in Slots
  BY Sizes
<1>4. ClosedCon \in Connections
  BY <1>1, <1>2, <1>3 DEF ClosedCon, Connections, States
<1>5. ClosedCon.state = "Idle"
  BY DEF ClosedCon
<1>6. FreshCon \in Connections /\ FreshCon.state = "Idle"
  <2>. DEFINE d == ClosedCon
  <2>1. FreshCon = [d EXCEPT !.free = 0]
    BY DEF FreshCon
  <2>. HIDE DEF d
  <2>2. d \in Connections /\ d.state = "Idle"
    BY <1>4, <1>5 DEF d
  <2>. QED
    BY <1>3, <2>1, <2>2 DEF Connections
<1>7. /\ [ClosedCon EXCEPT !.open = TRUE] \in Connections
      /\ [ClosedCon EXCEPT !.open = TRUE].state = "Idle"
  <2>. DEFINE d == ClosedCon
  <2>1. d \in Connections /\ d.state = "Idle"
    BY <1>4, <1>5
  <2>. HIDE DEF d
  <2>2. [d EXCEPT !.open = TRUE] \in Connections /\ [d EXCEPT !.open = TRUE].state = "Idle"
    BY <2>1 DEF Connections
  <2>. QED
    BY <2>2 DEF d
<1>. QED
  BY <1>4, <1>5, <1>6, <1>7

(* Without an established connection nothing is said of the history.       *)
LEMMA DownSound ==
  ASSUME NEW room, NEW w, Typed(w, room), ~Established(w.c)
  PROVE  Sound(w, room)
BY DEF Sound, Typed, WorkType, SoundCon, Established

LEMMA ClosedSound ==
  ASSUME NEW room, NEW w, Typed(w, room)
  PROVE  Sound(Closed(w), room)
<1>. DEFINE d == ClosedCon
<1>1. d \in Connections /\ d.state = "Idle" /\ Closed(w) = [w EXCEPT !.c = d]
  BY ClosedConType DEF Closed
<1>. HIDE DEF d
<1>2. Typed(Closed(w), room) /\ Closed(w).c = d
  BY <1>1, PutCon
<1>. QED
  BY <1>1, <1>2, DownSound DEF Established

(* Setting the sequence bytes.                                             *)
LEMMA PutBytes ==
  ASSUME NEW room, NEW w, Typed(w, room), NEW r \in Bytes, NEW s \in Bytes
  PROVE  LET v == [w EXCEPT !.c.recvSeqNum = r, !.c.sendSeqNum = s]
         IN  /\ Typed(v, room) /\ v.c.state = w.c.state
             /\ r.num = w.c.recvSeqNum.num => Alike(w.c, v.c)
<1>. DEFINE d == [w.c EXCEPT !.recvSeqNum = r, !.sendSeqNum = s]
            v == [w EXCEPT !.c.recvSeqNum = r, !.c.sendSeqNum = s]
<1>0. w.c \in Connections
  BY WorkParts
<1>1. d \in Connections /\ d.state = w.c.state
  BY <1>0 DEF Connections
<1>2. r.num = w.c.recvSeqNum.num => Alike(w.c, d)
  BY <1>0, <1>1 DEF Connections, Alike
<1>3. v = [w EXCEPT !.c = d]
  BY WorkParts DEF WorkType
<1>. HIDE DEF d, v
<1>4. Typed(v, room) /\ v.c = d
  BY <1>1, <1>3, PutCon
<1>. QED
  BY <1>1, <1>2, <1>4 DEF v

LEMMA SendCloseTyped ==
  ASSUME NEW room, NEW w, Typed(w, room)
  PROVE  Typed(SendClose(w), room)
<1>. DEFINE r == [w.c.recvSeqNum EXCEPT !.con = 0]
            s == [w.c.sendSeqNum EXCEPT !.con = 0]
            v == [w EXCEPT !.c.sendSeqNum.con = 0, !.c.recvSeqNum.con = 0]
            u == [w EXCEPT !.c.recvSeqNum = r, !.c.sendSeqNum = s]
<1>0. w \in WorkType /\ w.c \in Connections
  BY WorkParts
<1>1. r \in Bytes /\ s \in Bytes
  BY <1>0 DEF Connections, Bytes
<1>2. v = u
  BY <1>0 DEF WorkType, Connections, Bytes
<1>3. Typed(u, room)
  <2>. HIDE DEF r, s
  <2>. QED
    BY <1>1, PutBytes
<1>. HIDE DEF u
<1>4. Typed(v, room)
  BY <1>2, <1>3
<1>5. SendClose(w) = SendEmpty(v)
  BY DEF SendClose
<1>. HIDE DEF v
<1>. QED
  BY <1>4, <1>5, SendTyped

LEMMA AnswerTyped ==
  ASSUME NEW room, NEW w, Typed(w, room), NEW f \in Frames, f.rcon.con <= 2, NEW state \in States
  PROVE  /\ Typed(Answer(w, f, state), room)
         /\ Full(w) => Answer(w, f, state).c.state = w.c.state
         /\ ~Full(w) => Answer(w, f, state).c.state = state
<1>. DEFINE r == Byte(f.rcon.num, f.rcon.con + 1)
            s == f.scon
            w1 == [w EXCEPT !.c.recvSeqNum = r, !.c.sendSeqNum = s]
            v == SendEmpty(w1)
            d == [v.c EXCEPT !.state = state, !.timer = TRUE]
<1>1. r \in Bytes /\ s \in Bytes
  BY DEF Frames, Bytes, Byte
<1>2. Typed(w1, room) /\ w1.c.state = w.c.state
  <2>. HIDE DEF r, s
  <2>1. Typed(w1, room)
    BY <1>1, PutBytes
  <2>2. w1.c.state = w.c.state
    <3>1. w \in WorkType /\ w.c \in Connections
      BY WorkParts
    <3>2. w1.c = [w.c EXCEPT !.recvSeqNum = r, !.sendSeqNum = s]
      BY <3>1 DEF WorkType
    <3>. HIDE DEF w1
    <3>. QED
      BY <3>1, <3>2 DEF Connections
  <2>. QED
    BY <2>1, <2>2
<1>3. Answer(w, f, state) = IF Full(w) THEN w1
                            ELSE [v EXCEPT !.c.state = state, !.c.timer = TRUE]
  BY DEF Answer
<1>. HIDE DEF w1
<1>4. Typed(v, room)
  BY <1>2, SendTyped
<1>. HIDE DEF v
<1>5. d \in Connections /\ d.state = state
  BY <1>4, WorkParts DEF Connections
<1>6. [v EXCEPT !.c.state = state, !.c.timer = TRUE] = [v EXCEPT !.c = d]
  BY <1>4, WorkParts DEF WorkType
<1>. HIDE DEF d
<1>7. Typed([v EXCEPT !.c = d], room) /\ [v EXCEPT !.c = d].c = d
  BY <1>4, <1>5, PutCon
<1>. QED
  BY <1>2, <1>3, <1>5, <1>6, <1>7

LEMMA AnswerSound ==
  ASSUME NEW room, NEW w, Typed(w, room), ~Established(w.c), NEW f \in Frames, f.rcon.con <= 2
  PROVE  Sound(Answer(w, f, "Init2"), room) /\ Sound(Answer(w, f, "Init3"), room)
<1>1. "Init2" \in States /\ "Init3" \in States
  BY DEF States
<1>. QED
  BY <1>1, AnswerTyped, DownSound DEF Established

LEMMA ConnectSound ==
  ASSUME NEW room, NEW w, Typed(w, room)
  PROVE  Sound(Connect(w), room)
<1>. DEFINE d == [InitHistory(w.c) EXCEPT !.state = "Connected", !.timer = TRUE]
<1>1. 0 \in Slots /\ HistorySize \in 0 .. HistorySize /\ "Connected" \in States
  BY Sizes DEF States
<1>2. /\ d \in Connections /\ d.free = HistorySize /\ d.writeIndex = 0 /\ d.ackIndex = 0
      /\ d.state = "Connected"
  BY <1>1, WorkParts DEF InitHistory, Connections
<1>3. Connect(w) = [w EXCEPT !.c = d]
  BY DEF Connect
<1>. HIDE DEF d
<1>4. Ring(d)
  <2>1. Used(d) = 0
    BY <1>2, Sizes DEF Used
  <2>2. Rem(0, HistorySize) = 0
    BY <1>1, Sizes, RemFacts
  <2>. QED
    BY <1>2, <2>1, <2>2 DEF Ring
<1>5. SoundCon(d)
  BY <1>2, <1>4, Sizes, RoomFacts DEF SoundCon
<1>. QED
  BY <1>2, <1>3, <1>5, PutCon

LEMMA InitErrorSound ==
  ASSUME NEW room, NEW w, Typed(w, room), NEW f \in Frames
  PROVE  Sound(InitError(w, f), room)
<1>. DEFINE r == f.rcon
            s == f.scon
            v == [w EXCEPT !.c.recvSeqNum = r, !.c.sendSeqNum = s]
<1>1. r \in Bytes /\ s \in Bytes
  BY DEF Frames
<1>2. Typed(v, room)
  <2>. HIDE DEF r, s
  <2>. QED
    BY <1>1, PutBytes
<1>3. InitError(w, f) \in {Closed(w), Closed(SendClose(v))}
  BY DEF InitError
<1>. HIDE DEF v
<1>. QED
  BY <1>2, <1>3, SendCloseTyped, ClosedSound

LEMMA IdleRecSound ==
  ASSUME NEW room, NEW w, Typed(w, room), ~Established(w.c), NEW f \in Frames
  PROVE  Sound(IdleRec(w, f), room)
<1>1. Code(f) = <<0, 1>> => f.rcon.con = 0 /\ f.rcon.con <= 2
  BY DEF Code
<1>. QED
  BY <1>1, AnswerSound, ClosedSound DEF IdleRec

LEMMA ReinitSound ==
  ASSUME NEW room, NEW w, Typed(w, room), NEW f \in Frames, NEW deletes
  PROVE  Sound(Reinit(w, f, deletes), room)
<1>. DEFINE d == IF deletes THEN [ClosedCon EXCEPT !.open = TRUE]
                 ELSE [w.c EXCEPT !.state = "Idle", !.timer = FALSE]
            v == [w EXCEPT !.c = d]
<1>1. d \in Connections /\ d.state = "Idle"
  <2>1. /\ [w.c EXCEPT !.state = "Idle", !.timer = FALSE] \in Connections
        /\ [w.c EXCEPT !.state = "Idle", !.timer = FALSE].state = "Idle"
    BY WorkParts DEF Connections, States
  <2>. QED
    BY <2>1, ClosedConType
<1>2. Reinit(w, f, deletes) = IdleRec(v, f)
  BY DEF Reinit
<1>. HIDE DEF d
<1>3. Typed(v, room) /\ v.c = d
  BY <1>1, PutCon
<1>. HIDE DEF v
<1>. QED
  BY <1>1, <1>2, <1>3, IdleRecSound DEF Established

LEMMA InitRecSound ==
  ASSUME NEW room, NEW w, Typed(w, room), ~Established(w.c), NEW f \in Frames, NEW deletes
  PROVE  /\ Sound(Init1Rec(w, f), room)
         /\ Sound(Init2Rec(w, f, deletes), room)
         /\ Sound(Init3Rec(w, f, deletes), room)
<1>. DEFINE c == Code(f)
            r == f.rcon
            s == f.scon
            v == [w EXCEPT !.c.recvSeqNum = r, !.c.sendSeqNum = s]
            b == Answer(w, f, "Connected")
<1>1. c = <<f.rcon.con, f.scon.con>>
  BY DEF Code
<1>2. c \in {<<0, 1>>, <<1, 1>>, <<1, 2>>} => f.rcon.con <= 2
  BY <1>1
<1>. HIDE DEF c
<1>3. f.rcon.con <= 2 =>
        /\ Sound(Answer(w, f, "Init2"), room) /\ Sound(Answer(w, f, "Init3"), room)
        /\ Full(w) => Sound(b, room)
        /\ Sound(Connect(b), room)
  <2>. SUFFICES ASSUME f.rcon.con <= 2
                PROVE  /\ Sound(Answer(w, f, "Init2"), room) /\ Sound(Answer(w, f, "Init3"), room)
                       /\ Full(w) => Sound(b, room)
                       /\ Sound(Connect(b), room)
    OBVIOUS
  <2>1. "Connected" \in States
    BY DEF States
  <2>2. Typed(b, room) /\ (Full(w) => b.c.state = w.c.state)
    BY <2>1, AnswerTyped
  <2>. HIDE DEF b
  <2>3. Full(w) => Sound(b, room)
    BY <2>2, DownSound DEF Established
  <2>. QED
    BY <2>2, <2>3, AnswerSound, ConnectSound
<1>4. Sound(InitError(w, f), room) /\ Sound(Reinit(w, f, deletes), room) /\ Sound(w, room)
  BY InitErrorSound, ReinitSound, DownSound
<1>5. Sound(Connect(v), room)
  <2>1. r \in Bytes /\ s \in Bytes
    BY DEF Frames
  <2>. HIDE DEF r, s
  <2>2. Typed(v, room)
    BY <2>1, PutBytes
  <2>. HIDE DEF v
  <2>. QED
    BY <2>2, ConnectSound
<1>6. Sound(Init1Rec(w, f), room)
  BY <1>2, <1>3, <1>4 DEF Init1Rec, c
<1>7. Sound(Init2Rec(w, f, deletes), room)
  BY <1>2, <1>3, <1>4 DEF Init2Rec, c
<1>8. Sound(Init3Rec(w, f, deletes), room)
  BY <1>2, <1>3, <1>4, <1>5 DEF Init3Rec, c
<1>. QED
  BY <1>6, <1>7, <1>8

-----------------------------------------------------------------------------
(* Data: at most one frame is added to the history.                        *)
Sent(w, v, room) == /\ Up(v, room) /\ v.c.free >= w.c.free - 1
              /\ v.c.recvSeqNum.num \in {w.c.recvSeqNum.num, NextNum(w.c.recvSeqNum.num)}

(* A handler's part that only changes what Alike allows.                   *)
Kept(w, v, room) == Up(v, room) /\ Alike(w.c, v.c) /\ v.c.state = w.c.state

LEMMA PutAlike ==
  ASSUME NEW room, NEW w, Up(w, room), NEW d, Alike(w.c, d), d.state = w.c.state,
         NEW v, v = [w EXCEPT !.c = d]
  PROVE  Kept(w, v, room) /\ v.c = d
<1>1. SoundCon(d) /\ d \in Connections
  BY AlikeSound DEF Up, Sound, Alike
<1>2. Sound(v, room) /\ v.c = d
  BY <1>1, PutCon DEF Up, Sound
<1>. QED
  BY <1>2 DEF Kept, Up, Established

LEMMA SendKept ==
  ASSUME NEW room, NEW w, Up(w, room)
  PROVE  Kept(w, SendEmpty(w), room) /\ Kept(w, SendOldest(w), room) /\ Kept(w, SendWindow(w), room)
<1>1. Typed(w, room) /\ Alike(w.c, w.c)
  BY DEF Up, Sound, Typed, WorkType, Alike
<1>. QED
  BY <1>1, SendTyped DEF Kept, Up, Sound

LEMMA KeptSent ==
  ASSUME NEW room, NEW w, Up(w, room), NEW v, Kept(w, v, room) \/ v = w
  PROVE  Sent(w, v, room)
<1>1. w.c \in Connections /\ w.c.free \in Int
  BY Parts DEF Up, Sound, SoundCon
<1>. QED
  BY <1>1 DEF Sent, Kept, Alike

LEMMA KeptThenKept ==
  ASSUME NEW room, NEW w, NEW v, NEW u, Kept(w, v, room), Kept(v, u, room)
  PROVE  Kept(w, u, room)
BY DEF Kept, Alike

LEMMA KeptThenSent ==
  ASSUME NEW room, NEW w, NEW v, NEW u, Kept(w, v, room), Sent(v, u, room)
  PROVE  Sent(w, u, room)
BY DEF Kept, Sent, Alike

LEMMA SentThenKept ==
  ASSUME NEW room, NEW w, NEW v, NEW u, Sent(w, v, room), Kept(v, u, room)
  PROVE  Sent(w, u, room)
BY DEF Kept, Sent, Alike

LEMMA FlowKept ==
  ASSUME NEW room, NEW w, Up(w, room), NEW ret
  PROVE  Kept(w, Flow(w, ret), room)
BY FlowSound DEF Kept, Up, Established

LEMMA SendFrameSent ==
  ASSUME NEW room, NEW w, Up(w, room), w.c.state = "Connected", NEW ret
  PROVE  Sent(w, SendFrame(w, ret), room)
<1>. DEFINE c  == w.c
            c1 == [c EXCEPT !.recvSeqNum.num = NextNum(@)]
            f  == Frame(c1, w.last + 1)
            c2 == AddToHistory(c1, f)
            st == IF c2.free <= 1 THEN "WaitAck" ELSE c2.state
            c3 == [c2 EXCEPT !.state = st]
            w3 == [w EXCEPT !.c = c3, !.last = @ + 1]
            v  == SendWindow(w3)
<1>1. /\ Typed(w, room) /\ c \in Connections /\ Ring(c) /\ c.free >= Room /\ c.free >= 1
      /\ c.free \in Int /\ c.state = "Connected"
  <2>1. Typed(w, room) /\ c \in Connections /\ Ring(c) /\ c.free >= Room
    BY DEF Up, Sound, SoundCon
  <2>. QED
    BY <2>1, Parts, RoomFacts
<1>2. /\ c1 \in Connections /\ c1.recvSeqNum.num = NextNum(c.recvSeqNum.num)
      /\ c1.frames = c.frames /\ c1.free = c.free /\ c1.writeIndex = c.writeIndex
      /\ c1.ackIndex = c.ackIndex /\ c1.state = c.state
  <2>1. NextNum(c.recvSeqNum.num) \in Numbers
    BY <1>1, Parts, NextIs, Sizes
  <2>2. c1 = [c EXCEPT !.recvSeqNum.num = NextNum(c.recvSeqNum.num)]
    BY <1>1 DEF Connections, Bytes
  <2>. HIDE DEF c1
  <2>. QED
    BY <1>1, <2>1, <2>2 DEF Connections, Bytes
<1>3. w.last + 1 \in Nat
  BY <1>1, WorkParts
<1>4. f \in Frames /\ f.scon.num = c1.recvSeqNum.num
  <2>. HIDE DEF c1
  <2>. QED
    BY <1>2, <1>3, FrameType
<1>5. /\ c2 \in Connections /\ Ring(c2) /\ c2.free = c.free - 1 /\ c2.state = c.state
      /\ c2.recvSeqNum.num = NextNum(c.recvSeqNum.num)
  <2>. DEFINE k == c1
              g == f
  <2>1. /\ k \in Connections /\ k.recvSeqNum.num = NextNum(c.recvSeqNum.num)
        /\ k.frames = c.frames /\ k.free = c.free /\ k.writeIndex = c.writeIndex
        /\ k.ackIndex = c.ackIndex /\ k.state = c.state
        /\ g \in Frames /\ g.scon.num = k.recvSeqNum.num
    BY <1>2, <1>4
  <2>. HIDE DEF k, g, c
  <2>2. /\ AddToHistory(k, g) \in Connections /\ Ring(AddToHistory(k, g))
        /\ AddToHistory(k, g).free = c.free - 1 /\ AddToHistory(k, g).state = c.state
        /\ AddToHistory(k, g).recvSeqNum.num = NextNum(c.recvSeqNum.num)
    BY <1>1, <2>1, Appended
  <2>. QED
    BY <2>2 DEF k, g
<1>6. SendFrame(w, ret) = IF c1.free = 0 THEN [w EXCEPT !.c = c1] ELSE Flow(v, ret)
  BY DEF SendFrame
<1>. HIDE DEF c1, f, c2, c
<1>7. /\ c3 \in Connections /\ c3.free = c.free - 1 /\ Established(c3)
      /\ c3.recvSeqNum.num = NextNum(c.recvSeqNum.num) /\ Alike(c2, c3)
      /\ c3.state = "Connected" => c2.free > 1
  <2>1. st \in States /\ st \in {"WaitAck", "Connected"} /\ (st = "Connected" => ~(c2.free <= 1))
    BY <1>1, <1>5 DEF States
  <2>2. c2.free \in Int
    BY <1>1, <1>5
  <2>. HIDE DEF st
  <2>3. c3 \in Connections /\ c3.state = st /\ Alike(c2, c3)
    BY <1>5, <2>1 DEF Connections, Alike
  <2>. QED
    BY <1>1, <1>5, <2>1, <2>2, <2>3 DEF Established, Alike
<1>8. SoundCon(c3)
  <2>1. Ring(c3)
    BY <1>5, <1>7, AlikeRing
  <2>. QED
    BY <1>1, <1>5, <1>7, <2>1, RoomFacts DEF SoundCon
<1>. HIDE DEF c3
<1>9. Up(w3, room) /\ w3.c = c3
  BY <1>1, <1>3, <1>7, <1>8 DEF Typed, WorkType, Up, Sound
<1>10. Sent(w, w3, room)
  BY <1>7, <1>9, <1>1 DEF Sent, c
<1>. HIDE DEF w3
<1>11. Kept(w3, v, room)
  BY <1>9, SendKept
<1>. HIDE DEF v
<1>12. Kept(v, Flow(v, ret), room)
  BY <1>11, FlowKept DEF Kept
<1>13. Sent(w, Flow(v, ret), room)
  BY <1>10, <1>11, <1>12, SentThenKept
<1>. QED
  BY <1>1, <1>2, <1>6, <1>13

LEMMA SendDataSent ==
  ASSUME NEW room, NEW w, Up(w, room), NEW reply \in Replies, NEW ret
  PROVE  Sent(w, SendData(w, reply, ret), room)
<1>. DEFINE w1 == [w EXCEPT !.c.flow = FALSE, !.c.inactive = 0, !.c.timer = TRUE]
            d  == [w.c EXCEPT !.flow = FALSE, !.inactive = 0, !.timer = TRUE]
<1>0. w.c \in Connections /\ w \in WorkType
  BY WorkParts DEF Up, Sound
<1>1. Alike(w.c, d) /\ d.state = w.c.state
  <2>1. 0 \in 0 .. InactiveThld
    BY BoundsAssumption
  <2>2. ASSUME NEW x \in BOOLEAN, NEW y \in BOOLEAN, NEW z \in 0 .. InactiveThld
        PROVE  LET e == [w.c EXCEPT !.flow = x, !.inactive = z, !.timer = y]
               IN  Alike(w.c, e) /\ e.state = w.c.state
    BY <1>0 DEF Connections, Alike
  <2>. QED
    BY <2>1, <2>2
<1>2. w1 = [w EXCEPT !.c = d]
  BY <1>0 DEF WorkType
<1>. HIDE DEF d, w1
<1>3. Kept(w, w1, room)
  BY <1>1, <1>2, PutAlike
<1>4. Kept(w1, SendEmpty(w1), room)
  BY <1>3, SendKept DEF Kept
<1>5. w.c.state = "Connected" => Sent(w1, SendFrame(w1, ret), room)
  BY <1>3, SendFrameSent DEF Kept
<1>6. \/ SendData(w, reply, ret) = w
      \/ SendData(w, reply, ret) = SendEmpty(w1)
      \/ w.c.state = "Connected" /\ SendData(w, reply, ret) = SendFrame(w1, ret)
  BY DEF SendData, Replies, w1
<1>7. Sent(w, w, room)
  BY KeptSent
<1>8. Sent(w, SendEmpty(w1), room)
  BY <1>3, <1>4, KeptThenKept, KeptSent
<1>9. w.c.state = "Connected" => Sent(w, SendFrame(w1, ret), room)
  BY <1>3, <1>5, KeptThenSent
<1>. QED
  BY <1>6, <1>7, <1>8, <1>9

LEMMA DeliverSent ==
  ASSUME NEW room, NEW w, Up(w, room), NEW f \in Frames, NEW ret, NEW reply \in Replies
  PROVE  Sent(w, Deliver(w, f, ret, reply), room)
<1>. DEFINE w1 == [w EXCEPT !.c.inactive = 0]
            s  == Byte(f.scon.num, f.scon.con - (f.scon.con % 2))
            g  == Append(w1.got, f.data)
            w2 == [w1 EXCEPT !.c.sendSeqNum = s, !.got = g]
            d1 == [w.c EXCEPT !.inactive = 0]
<1>0. w.c \in Connections /\ w \in WorkType
  BY WorkParts DEF Up, Sound
<1>1. Alike(w.c, d1) /\ d1.state = w.c.state
  <2>1. 0 \in 0 .. InactiveThld
    BY BoundsAssumption
  <2>2. ASSUME NEW z \in 0 .. InactiveThld
        PROVE  LET e == [w.c EXCEPT !.inactive = z]
               IN  Alike(w.c, e) /\ e.state = w.c.state
    BY <1>0 DEF Connections, Alike
  <2>. QED
    BY <2>1, <2>2
<1>2. w1 = [w EXCEPT !.c = d1]
  BY <1>0 DEF WorkType
<1>3. Kept(w, w1, room)
  <2>. HIDE DEF d1, w1
  <2>. QED
    BY <1>1, <1>2, PutAlike
<1>4. Deliver(w, f, ret, reply) = IF w.c.flow THEN w1 ELSE Flow(SendData(w2, reply, ret), ret)
  BY DEF Deliver
<1>5. s \in Bytes /\ f.data \in Nat
  <2>1. f.scon.con \in 0 .. 3 /\ f.scon.num \in Numbers /\ f.data \in Nat
    BY DEF Frames, Bytes
  <2>2. f.scon.con - (f.scon.con % 2) \in 0 .. 3
    BY <2>1
  <2>. QED
    BY <2>1, <2>2 DEF Byte, Bytes
<1>. HIDE DEF s, w1
<1>6. w1.c \in Connections /\ w1 \in WorkType /\ Typed(w1, room) /\ Up(w1, room)
  BY <1>3, WorkParts DEF Kept, Up, Sound
<1>7. g \in Seq(Nat)
  BY <1>5, <1>6, WorkParts
<1>8. Kept(w1, w2, room)
  <2>. DEFINE d2 == [w1.c EXCEPT !.sendSeqNum = s]
              u  == [w1 EXCEPT !.c = d2]
  <2>1. Alike(w1.c, d2) /\ d2.state = w1.c.state
    BY <1>5, <1>6 DEF Connections, Alike
  <2>2. w2 = [u EXCEPT !.got = g]
    <3>. HIDE DEF g
    <3>. QED
      BY <1>6 DEF WorkType
  <2>. HIDE DEF d2, u, w2, g
  <2>3. Kept(w1, u, room)
    BY <1>6, <2>1, PutAlike DEF u
  <2>4. Typed(w2, room) /\ w2.c = u.c
    BY <1>7, <2>2, <2>3, PutGot DEF Kept, Up, Sound
  <2>. QED
    BY <2>3, <2>4 DEF Kept, Up, Sound
<1>. HIDE DEF w2, g
<1>9. Sent(w2, SendData(w2, reply, ret), room)
  BY <1>8, SendDataSent DEF Kept
<1>10. Kept(SendData(w2, reply, ret), Flow(SendData(w2, reply, ret), ret), room)
  BY <1>9, FlowKept DEF Sent
<1>11. Sent(w2, Flow(SendData(w2, reply, ret), ret), room)
  BY <1>9, <1>10, SentThenKept
<1>12. Sent(w, Flow(SendData(w2, reply, ret), ret), room)
  BY <1>3, <1>8, <1>11, KeptThenKept, KeptThenSent
<1>. QED
  BY <1>3, <1>4, <1>12, KeptSent

-----------------------------------------------------------------------------
(* The parts of a handler.                                                 *)
LEMMA AliveKept ==
  ASSUME NEW room, NEW w, Up(w, room)
  PROVE  Kept(w, Alive(w), room)
<1>. DEFINE d == [w.c EXCEPT !.timer = TRUE, !.retry = 0]
<1>0. w.c \in Connections /\ w \in WorkType
  BY WorkParts DEF Up, Sound
<1>1. Alike(w.c, d) /\ d.state = w.c.state
  <2>1. 0 \in 0 .. RetryCount
    BY BoundsAssumption
  <2>2. ASSUME NEW x \in BOOLEAN, NEW z \in 0 .. RetryCount
        PROVE  LET e == [w.c EXCEPT !.timer = x, !.retry = z]
               IN  Alike(w.c, e) /\ e.state = w.c.state
    BY <1>0 DEF Connections, Alike
  <2>. QED
    BY <2>1, <2>2
<1>2. Alive(w) = [w EXCEPT !.c = d]
  BY <1>0 DEF Alive, WorkType
<1>. HIDE DEF d
<1>. QED
  BY <1>1, <1>2, PutAlike

LEMMA PutSend ==
  ASSUME NEW room, NEW w, Up(w, room), NEW s \in Bytes
  PROVE  Kept(w, [w EXCEPT !.c.sendSeqNum = s], room)
<1>. DEFINE d == [w.c EXCEPT !.sendSeqNum = s]
<1>0. w.c \in Connections /\ w \in WorkType
  BY WorkParts DEF Up, Sound
<1>1. Alike(w.c, d) /\ d.state = w.c.state
  BY <1>0 DEF Connections, Alike
<1>2. [w EXCEPT !.c.sendSeqNum = s] = [w EXCEPT !.c = d]
  BY <1>0 DEF WorkType
<1>. HIDE DEF d
<1>. QED
  BY <1>1, <1>2, PutAlike

LEMMA PutRecv ==
  ASSUME NEW room, NEW w, Up(w, room), NEW r \in Bytes, r.num = w.c.recvSeqNum.num
  PROVE  Kept(w, [w EXCEPT !.c.recvSeqNum = r], room)
<1>. DEFINE d == [w.c EXCEPT !.recvSeqNum = r]
<1>0. w.c \in Connections /\ w \in WorkType
  BY WorkParts DEF Up, Sound
<1>1. Alike(w.c, d) /\ d.state = w.c.state
  BY <1>0 DEF Connections, Alike
<1>2. [w EXCEPT !.c.recvSeqNum = r] = [w EXCEPT !.c = d]
  BY <1>0 DEF WorkType
<1>. HIDE DEF d
<1>. QED
  BY <1>1, <1>2, PutAlike

LEMMA RequestAckKept ==
  ASSUME NEW room, NEW w, Up(w, room)
  PROVE  Kept(w, RequestAck(w), room)
<1>. DEFINE r == [w.c.recvSeqNum EXCEPT !.con = 3]
<1>0. w.c \in Connections /\ w \in WorkType
  BY WorkParts DEF Up, Sound
<1>1. r \in Bytes /\ r.num = w.c.recvSeqNum.num
  BY <1>0 DEF Connections, Bytes
<1>2. RequestAck(w) = [w EXCEPT !.c.recvSeqNum = r]
  BY <1>0 DEF RequestAck, WorkType, Connections
<1>. HIDE DEF r
<1>. QED
  BY <1>1, <1>2, PutRecv

LEMMA SendCode ==
  ASSUME NEW room, NEW w, Up(w, room), NEW x \in 0 .. 3
  PROVE  Kept(w, [w EXCEPT !.c.sendSeqNum.con = x], room)
<1>. DEFINE s == [w.c.sendSeqNum EXCEPT !.con = x]
<1>0. w.c \in Connections /\ w \in WorkType
  BY WorkParts DEF Up, Sound
<1>1. s \in Bytes
  BY <1>0 DEF Connections, Bytes
<1>2. [w EXCEPT !.c.sendSeqNum.con = x] = [w EXCEPT !.c.sendSeqNum = s]
  BY <1>0 DEF WorkType, Connections
<1>. HIDE DEF s
<1>. QED
  BY <1>1, <1>2, PutSend

LEMMA AckCodeType ==
  ASSUME NEW c \in Connections
  PROVE  AckCode(c) \in Bytes
BY DEF AckCode, Coded, Connections, Bytes

LEMMA AnswersKept ==
  ASSUME NEW room, NEW w, Up(w, room), NEW f
  PROVE  /\ Kept(w, w, room) /\ Kept(w, ResendOldest(w, f), room)
         /\ Kept(w, AnswerAckRequest(w, f), room) /\ Kept(w, SendRetransmissionRequest(w), room)
<1>0. w.c \in Connections
  BY WorkParts DEF Up, Sound
<1>1. Kept(w, w, room)
  BY <1>0 DEF Kept, Alike
<1>2. Kept(w, ResendOldest(w, f), room)
  BY <1>1, SendKept DEF ResendOldest
<1>3. Kept(w, AnswerAckRequest(w, f), room)
  <2>. DEFINE s == AckCode(w.c)
              v == [w EXCEPT !.c.sendSeqNum = s]
  <2>1. s \in Bytes
    BY <1>0, AckCodeType
  <2>2. AnswerAckRequest(w, f) \in {w, SendEmpty(v)}
    BY DEF AnswerAckRequest
  <2>. HIDE DEF s
  <2>3. Kept(w, v, room)
    BY <2>1, PutSend
  <2>. HIDE DEF v
  <2>4. Kept(w, SendEmpty(v), room)
    BY <2>3, SendKept, KeptThenKept DEF Kept
  <2>. QED
    BY <1>1, <2>2, <2>4
<1>4. Kept(w, SendRetransmissionRequest(w), room)
  <2>. DEFINE v == [w EXCEPT !.c.sendSeqNum.con = 3]
              u == SendEmpty(v)
  <2>1. SendRetransmissionRequest(w) = [u EXCEPT !.c.sendSeqNum.con = 2]
    BY DEF SendRetransmissionRequest
  <2>2. Kept(w, v, room)
    <3>. DEFINE x == 3
    <3>1. x \in 0 .. 3 /\ v = [w EXCEPT !.c.sendSeqNum.con = x]
      OBVIOUS
    <3>. HIDE DEF x, v
    <3>. QED
      BY <3>1, SendCode
  <2>. HIDE DEF v
  <2>3. Kept(w, u, room)
    BY <2>2, SendKept, KeptThenKept DEF Kept
  <2>. HIDE DEF u
  <2>4. Kept(u, [u EXCEPT !.c.sendSeqNum.con = 2], room)
    <3>. DEFINE x == 2
    <3>1. Up(u, room) /\ x \in 0 .. 3
      BY <2>3 DEF Kept
    <3>. HIDE DEF x
    <3>2. Kept(u, [u EXCEPT !.c.sendSeqNum.con = x], room)
      BY <3>1, SendCode
    <3>. QED
      BY <3>2 DEF x
  <2>. QED
    BY <2>1, <2>3, <2>4, KeptThenKept
<1>. QED
  BY <1>1, <1>2, <1>3, <1>4

LEMMA AckedUp ==
  ASSUME NEW room, NEW w, Up(w, room), NEW n \in Numbers,
         NEW v, v = [w EXCEPT !.c = DeleteAcked(w.c, n)]
  PROVE  Up(v, room) /\ v.c.state = w.c.state
<1>. DEFINE d == DeleteAcked(w.c, n)
<1>0. Typed(w, room) /\ SoundCon(w.c) /\ Established(w.c) /\ w.c.free >= Room - 1
      /\ (w.c.state = "Connected" => w.c.free >= Room)
  BY DEF Up, Sound, SoundCon
<1>1. d \in Connections /\ Ring(d) /\ d.state = w.c.state /\ d.free >= w.c.free
  BY <1>0, AckStep
<1>2. SoundCon(d) /\ Established(d)
  <2>1. d.free \in Int /\ w.c.free \in Int
    <3>. HIDE DEF d
    <3>. QED
      BY <1>0, <1>1, Parts DEF SoundCon
  <2>. HIDE DEF d
  <2>. QED
    BY <1>0, <1>1, <2>1, RoomFacts DEF SoundCon, Established
<1>. HIDE DEF d
<1>3. Typed(v, room) /\ v.c = d
  BY <1>0, <1>1, PutCon DEF d
<1>. QED
  BY <1>1, <1>2, <1>3 DEF Up, Sound

-----------------------------------------------------------------------------
(* The handlers of an established connection.                              *)
LEMMA FrameParts ==
  ASSUME NEW f \in Frames
  PROVE  f.rcon.num \in Numbers /\ f.rcon \in Bytes /\ f.scon \in Bytes
BY DEF Frames, Bytes

LEMMA ConnectedRecSound ==
  ASSUME NEW room, NEW w, Up(w, room), NEW f \in Frames, NEW deletes, NEW ret, NEW reply \in Replies
  PROVE  Sound(ConnectedRec(w, f, deletes, ret, reply), room)
<1>. DEFINE n  == f.rcon.num
            w1 == IF AckValid(w.c, n) \/ HistoryAcked(w.c, n) THEN Alive(w) ELSE w
            w2 == [w1 EXCEPT !.c = DeleteAcked(w1.c, n)]
            w3 == IF f.rcon.con = 3 THEN SendWindow(Alive(w2)) ELSE w2
            w4 == ResendOldest(w3, f)
<1>1. Up(w1, room)
  BY AliveKept DEF Kept
<1>2. Up(w2, room)
  <2>1. n \in Numbers
    BY FrameParts
  <2>. HIDE DEF w1, n
  <2>. QED
    BY <1>1, <2>1, AckedUp
<1>3. Up(w3, room)
  <2>. HIDE DEF w2
  <2>1. Up(Alive(w2), room)
    BY <1>2, AliveKept DEF Kept
  <2>. QED
    BY <1>2, <2>1, SendKept DEF Kept
<1>4. Up(w4, room)
  <2>. HIDE DEF w3
  <2>. QED
    BY <1>3, AnswersKept DEF Kept
<1>5. ConnectedRec(w, f, deletes, ret, reply) \in
        {Closed(w), Reinit(w, f, deletes), AnswerAckRequest(Deliver(w4, f, ret, reply), f),
         SendRetransmissionRequest(w4), AnswerAckRequest(w4, f)}
  BY DEF ConnectedRec
<1>. HIDE DEF w4
<1>6. Sound(Closed(w), room) /\ Sound(Reinit(w, f, deletes), room)
  BY ClosedSound, ReinitSound DEF Up, Sound
<1>7. Up(Deliver(w4, f, ret, reply), room)
  BY <1>4, DeliverSent DEF Sent
<1>8. /\ Sound(AnswerAckRequest(Deliver(w4, f, ret, reply), f), room)
      /\ Sound(SendRetransmissionRequest(w4), room) /\ Sound(AnswerAckRequest(w4, f), room)
  BY <1>4, <1>7, AnswersKept DEF Kept, Up
<1>. QED
  BY <1>5, <1>6, <1>8

(* Room for one frame is there when the history has been acknowledged; all *)
(* of it, but for the frame sent since, if by the last number.             *)
LEMMA AckReceivedUp ==
  ASSUME NEW room, NEW w, Up(w, room), NEW n \in Numbers, HistoryAcked(w.c, n),
         NEW ret, NEW onAck \in Replies, NEW v, v = AckReceived(w, n, ret, onAck)
  PROVE  /\ Up(v, room)
         /\ n = v.c.recvSeqNum.num => v.c.free >= Room
<1>. DEFINE d  == DeleteAcked(w.c, n)
            w1 == [w EXCEPT !.c = d]
            w2 == [w1 EXCEPT !.c.recvSeqNum.con = 2, !.c.state = "Connected"]
            e  == [d EXCEPT !.recvSeqNum.con = 2, !.state = "Connected"]
            u  == SendData(w2, onAck, ret)
<1>0. Typed(w, room) /\ SoundCon(w.c) /\ Established(w.c) /\ w \in WorkType
  BY WorkParts DEF Up, Sound
<1>1. /\ d \in Connections /\ Ring(d) /\ d.recvSeqNum = w.c.recvSeqNum /\ d.free >= Room
      /\ n \in {w.c.recvSeqNum.num, NextNum(w.c.recvSeqNum.num)} => d.free = HistorySize
  BY <1>0, AckStep
<1>2. v = Flow(u, ret)
  BY DEF AckReceived
<1>3. w2 = [w EXCEPT !.c = e]
  <2>. HIDE DEF d
  <2>. QED
    BY <1>0, <1>1 DEF WorkType
<1>. HIDE DEF w2, d
<1>4. Alike(d, e) /\ e.state = "Connected"
  <2>. DEFINE r == [d.recvSeqNum EXCEPT !.con = 2]
              st == "Connected"
  <2>1. r \in Bytes /\ r.num = d.recvSeqNum.num /\ st \in States
    BY <1>1 DEF Connections, Bytes, States
  <2>2. e = [d EXCEPT !.recvSeqNum = r, !.state = st]
    BY <1>1 DEF Connections
  <2>. HIDE DEF r, st, e
  <2>3. Alike(d, e) /\ e.state = st
    BY <1>1, <2>1, <2>2 DEF Connections, Alike
  <2>. QED
    BY <2>3 DEF st
<1>. HIDE DEF e
<1>5. SoundCon(e) /\ e \in Connections
  BY <1>1, <1>4, RoomySound DEF Alike
<1>6. Up(w2, room) /\ w2.c = e
  BY <1>0, <1>3, <1>4, <1>5, PutCon DEF Up, Established
<1>7. Sent(w2, u, room) /\ Kept(u, Flow(u, ret), room)
  BY <1>6, SendDataSent, FlowKept DEF Sent
<1>8. Sent(w2, v, room)
  BY <1>2, <1>7, SentThenKept
<1>9. ASSUME n = v.c.recvSeqNum.num PROVE v.c.free >= Room
  <2>1. n \in {w.c.recvSeqNum.num, NextNum(w.c.recvSeqNum.num)}
    BY <1>1, <1>4, <1>6, <1>8, <1>9 DEF Sent, Alike
  <2>2. e.free = HistorySize /\ v.c.free >= e.free - 1
    BY <1>1, <1>4, <1>6, <1>8, <2>1 DEF Sent, Alike
  <2>3. v.c.free \in Int
    <3>1. v.c \in Connections
      BY <1>8 DEF Sent, Up, Sound, SoundCon
    <3>. QED
      BY <3>1, Parts, Sizes
  <2>. QED
    BY <2>2, <2>3, RoomFacts, Sizes
<1>. QED
  BY <1>8, <1>9 DEF Sent

LEMMA WaitAckValidUp ==
  ASSUME NEW room, NEW w, Up(w, room), NEW f \in Frames,
         NEW ret, NEW reply \in Replies, NEW onAck \in Replies
  PROVE  Up(WaitAckValid(w, f, ret, reply, onAck), room)
<1>. DEFINE acked == HistoryAcked(w.c, f.rcon.num)
            w1 == IF acked THEN AckReceived(Alive(w), f.rcon.num, ret, onAck) ELSE w
            w2 == IF Expected(w1.c, f) THEN Deliver(w1, f, ret, reply) ELSE w1
<1>1. Up(w1, room)
  <2>. DEFINE v == Alive(w)
              n == f.rcon.num
  <2>1. Up(v, room) /\ n \in Numbers
    BY AliveKept, FrameParts DEF Kept
  <2>2. HistoryAcked(w.c, n) => HistoryAcked(v.c, n)
    BY DEF HistoryAcked, Alive, Up, Sound, Typed, WorkType, Connections
  <2>. HIDE DEF v, n
  <2>3. HistoryAcked(w.c, n) => Up(AckReceived(v, n, ret, onAck), room)
    BY <2>1, <2>2, AckReceivedUp
  <2>. QED
    BY <2>3 DEF v, n
<1>2. Up(w2, room)
  <2>. HIDE DEF w1
  <2>. QED
    BY <1>1, DeliverSent DEF Sent
<1>3. WaitAckValid(w, f, ret, reply, onAck) \in {w1, w2, ResendOldest(w2, f)}
  BY DEF WaitAckValid
<1>. HIDE DEF w1, w2
<1>4. Up(ResendOldest(w2, f), room)
  BY <1>2, AnswersKept DEF Kept
<1>. QED
  BY <1>1, <1>2, <1>3, <1>4

LEMMA WaitAckRequestUp ==
  ASSUME NEW room, NEW w, Up(w, room), NEW f \in Frames,
         NEW ret, NEW reply \in Replies, NEW onAck \in Replies
  PROVE  Up(WaitAckRequest(w, f, ret, reply, onAck), room)
<1>. DEFINE n  == f.rcon.num
            acked == HistoryAcked(w.c, n)
            w1 == IF acked THEN AckReceived(w, n, ret, onAck) ELSE w
            w2 == Alive(w1)
            d3 == [w2.c EXCEPT !.state = "Connected"]
            w3 == [w2 EXCEPT !.c.state = "Connected"]
            r  == Byte(n, 2)
            v  == [w3 EXCEPT !.c.recvSeqNum = r]
<1>0. n \in Numbers /\ Typed(w, room) /\ SoundCon(w.c) /\ Established(w.c)
  BY FrameParts DEF Up, Sound
<1>1. Up(w1, room) /\ (n = w1.c.recvSeqNum.num => w1.c.free >= Room)
  <2>. HIDE DEF n
  <2>1. CASE acked
    <3>. DEFINE x == AckReceived(w, n, ret, onAck)
    <3>1. Up(x, room) /\ (n = x.c.recvSeqNum.num => x.c.free >= Room)
      BY <1>0, <2>1, AckReceivedUp
    <3>. QED
      BY <2>1, <3>1
  <2>2. CASE ~acked
    <3>1. n = w.c.recvSeqNum.num => w.c.free = HistorySize
      BY <1>0, <2>2, AckStep
    <3>. QED
      BY <2>2, <3>1, RoomFacts, Sizes
  <2>. QED
    BY <2>1, <2>2
<1>2. WaitAckRequest(w, f, ret, reply, onAck) = w1
      \/ WaitAckRequest(w, f, ret, reply, onAck) = SendWindow(w2)
      \/ /\ n = w2.c.recvSeqNum.num
         /\ WaitAckRequest(w, f, ret, reply, onAck) \in
              {Deliver(w3, f, ret, reply), SendEmpty(v), w1}
  BY DEF WaitAckRequest
<1>. HIDE DEF w1, n
<1>3. Kept(w1, w2, room)
  BY <1>1, AliveKept
<1>. HIDE DEF w2
<1>4. Up(SendWindow(w2), room)
  BY <1>3, SendKept DEF Kept
<1>5. ASSUME n = w2.c.recvSeqNum.num
      PROVE  Up(Deliver(w3, f, ret, reply), room) /\ Up(SendEmpty(v), room)
  <2>1. /\ Typed(w2, room) /\ w2 \in WorkType /\ w2.c \in Connections /\ Ring(w2.c)
        /\ w2.c.free >= Room
    BY <1>1, <1>3, <1>5, WorkParts DEF Kept, Alike, Up, Sound, SoundCon
  <2>2. Alike(w2.c, d3) /\ d3.state = "Connected"
    BY <2>1 DEF Connections, States, Alike
  <2>3. w3 = [w2 EXCEPT !.c = d3]
    BY <2>1 DEF WorkType
  <2>. HIDE DEF d3, w3
  <2>4. SoundCon(d3) /\ d3 \in Connections
    BY <2>1, <2>2, RoomySound DEF Alike
  <2>5. Up(w3, room) /\ w3.c = d3
    BY <2>1, <2>2, <2>3, <2>4, PutCon DEF Up, Established
  <2>6. r \in Bytes /\ r.num = w3.c.recvSeqNum.num
    <3>1. r \in Bytes /\ r.num = n
      BY <1>0 DEF Byte, Bytes
    <3>. QED
      BY <1>5, <2>2, <2>5, <3>1 DEF Alike
  <2>. HIDE DEF r
  <2>7. Up(v, room)
    BY <2>5, <2>6, PutRecv DEF Kept
  <2>. HIDE DEF v
  <2>. QED
    BY <2>5, <2>7, DeliverSent, SendKept DEF Kept, Sent
<1>. QED
  BY <1>1, <1>2, <1>4, <1>5

LEMMA WaitAckRecSound ==
  ASSUME NEW room, NEW w, Up(w, room), NEW f \in Frames, NEW deletes, NEW ret,
         NEW reply \in Replies, NEW onAck \in Replies
  PROVE  Sound(WaitAckRec(w, f, deletes, ret, reply, onAck), room)
<1>1. Up(RequestAck(w), room)
  BY RequestAckKept DEF Kept
<1>2. Sound(Reinit(RequestAck(w), f, deletes), room) /\ Sound(Closed(w), room)
  BY <1>1, ReinitSound, ClosedSound DEF Up, Sound
<1>3. /\ Sound(WaitAckValid(RequestAck(w), f, ret, reply, onAck), room)
      /\ Sound(WaitAckRequest(RequestAck(w), f, ret, reply, onAck), room)
  BY <1>1, WaitAckValidUp, WaitAckRequestUp DEF Up
<1>4. WaitAckRec(w, f, deletes, ret, reply, onAck) \in
        {Reinit(RequestAck(w), f, deletes), Closed(w), RequestAck(w),
         WaitAckValid(RequestAck(w), f, ret, reply, onAck),
         WaitAckRequest(RequestAck(w), f, ret, reply, onAck)}
  BY DEF WaitAckRec
<1>. QED
  BY <1>1, <1>2, <1>3, <1>4 DEF Up

-----------------------------------------------------------------------------
(* Timeouts.                                                               *)
LEMMA FinalTimeoutSound ==
  ASSUME NEW room, NEW w, Typed(w, room)
  PROVE  Sound(FinalTimeout(w), room)
BY SendCloseTyped, ClosedSound DEF FinalTimeout

(* The codes of a frame in the history may be changed.                     *)
LEMMA FrameCodeKept ==
  ASSUME NEW room, NEW w, Up(w, room), NEW i \in Slots, NEW y \in 0 .. 3
  PROVE  /\ Kept(w, [w EXCEPT !.c.frames[i].scon.con = y], room)
         /\ Kept(w, [w EXCEPT !.c.frames[i].rcon.con = y], room)
<1>. DEFINE c  == w.c
            g  == c.frames[i]
<1>1. c \in Connections /\ w \in WorkType /\ g \in Frames /\ c.frames \in [Slots -> Frames]
  BY WorkParts, Parts DEF Up, Sound
<1>2. ASSUME NEW h \in Frames, h.scon.num = g.scon.num
      PROVE  Kept(w, [w EXCEPT !.c = [c EXCEPT !.frames = [c.frames EXCEPT ![i] = h]]], room)
  <2>. DEFINE fr == [c.frames EXCEPT ![i] = h]
              d  == [c EXCEPT !.frames = fr]
  <2>1. fr \in [Slots -> Frames] /\ \A j \in Slots : fr[j].scon.num = c.frames[j].scon.num
    BY <1>1, <1>2
  <2>. HIDE DEF fr
  <2>2. Alike(c, d) /\ d.state = c.state
    BY <1>1, <2>1 DEF Connections, Alike
  <2>. HIDE DEF d
  <2>3. Kept(w, [w EXCEPT !.c = d], room)
    BY <2>2, PutAlike
  <2>. QED
    BY <2>3 DEF d, fr
<1>3. Kept(w, [w EXCEPT !.c.frames[i].scon.con = y], room)
  <2>. DEFINE h == [g EXCEPT !.scon.con = y]
  <2>1. h \in Frames /\ h.scon.num = g.scon.num
    BY <1>1 DEF Frames, Bytes
  <2>2. [c.frames EXCEPT ![i].scon.con = y] = [c.frames EXCEPT ![i] = h]
    OBVIOUS
  <2>3. [c EXCEPT !.frames[i].scon.con = y] = [c EXCEPT !.frames = [c.frames EXCEPT ![i] = h]]
    BY <1>1, <2>2 DEF Connections
  <2>4. [w EXCEPT !.c.frames[i].scon.con = y]
          = [w EXCEPT !.c = [c EXCEPT !.frames[i].scon.con = y]]
    BY <1>1 DEF WorkType
  <2>. HIDE DEF h
  <2>. QED
    BY <1>2, <2>1, <2>3, <2>4
<1>4. Kept(w, [w EXCEPT !.c.frames[i].rcon.con = y], room)
  <2>. DEFINE h == [g EXCEPT !.rcon.con = y]
  <2>1. h \in Frames /\ h.scon.num = g.scon.num
    BY <1>1 DEF Frames, Bytes
  <2>2. [c.frames EXCEPT ![i].rcon.con = y] = [c.frames EXCEPT ![i] = h]
    OBVIOUS
  <2>3. [c EXCEPT !.frames[i].rcon.con = y] = [c EXCEPT !.frames = [c.frames EXCEPT ![i] = h]]
    BY <1>1, <2>2 DEF Connections
  <2>4. [w EXCEPT !.c.frames[i].rcon.con = y]
          = [w EXCEPT !.c = [c EXCEPT !.frames[i].rcon.con = y]]
    BY <1>1 DEF WorkType
  <2>. HIDE DEF h
  <2>. QED
    BY <1>2, <2>1, <2>3, <2>4
<1>. QED
  BY <1>3, <1>4

LEMMA SubTimeoutSound ==
  ASSUME NEW room, NEW w, Up(w, room), w.c.retry < RetryCount
  PROVE  Up(SubTimeout(w), room)
<1>. DEFINE s  == AckCode(w.c)
            t  == w.c.retry + 1
            d1 == [w.c EXCEPT !.sendSeqNum = s, !.retry = t, !.timer = TRUE]
            w1 == [w EXCEPT !.c.sendSeqNum = AckCode(w.c), !.c.retry = @ + 1, !.c.timer = TRUE]
            i  == w1.c.ackIndex
            x  == IF w.c.flow THEN 3 ELSE 2
            w2 == [w1 EXCEPT !.c.frames[i].scon.con = 3, !.c.frames[i].rcon.con = x]
            f  == [Frame(w1.c, 0) EXCEPT !.scon.con = 3]
<1>0. w.c \in Connections /\ w \in WorkType
  BY WorkParts DEF Up, Sound
<1>1. s \in Bytes /\ t \in 0 .. RetryCount
  BY <1>0, AckCodeType, BoundsAssumption DEF Connections
<1>2. Kept(w, w1, room)
  <2>1. w1 = [w EXCEPT !.c = d1]
    BY <1>0 DEF WorkType, Connections
  <2>. HIDE DEF s, t, w1
  <2>2. Alike(w.c, d1) /\ d1.state = w.c.state
    <3>1. ASSUME NEW b \in BOOLEAN
          PROVE  LET d == [w.c EXCEPT !.sendSeqNum = s, !.retry = t, !.timer = b]
                 IN  Alike(w.c, d) /\ d.state = w.c.state
      BY <1>0, <1>1 DEF Connections, Alike
    <3>. QED
      BY <3>1
  <2>. HIDE DEF d1
  <2>. QED
    BY <2>1, <2>2, PutAlike
<1>3. SubTimeout(w) \in {SendOldest(w2), Emit(w1, f)}
  BY DEF SubTimeout
<1>. HIDE DEF w1
<1>4. w1.c \in Connections /\ w1 \in WorkType /\ Typed(w1, room) /\ Up(w1, room)
  BY <1>2, WorkParts DEF Kept, Up, Sound
<1>5. Up(SendOldest(w2), room)
  <2>. DEFINE y == 3
              u == [w1 EXCEPT !.c.frames[i].scon.con = y]
  <2>1. i \in Slots /\ x \in 0 .. 3 /\ y \in 0 .. 3
    BY <1>4 DEF Connections
  <2>2. w2 = [u EXCEPT !.c.frames[i].rcon.con = x]
    <3>. HIDE DEF i, x
    <3>. QED
      OBVIOUS
  <2>. HIDE DEF w2, i, x, y
  <2>3. Kept(w1, u, room)
    BY <1>4, <2>1, FrameCodeKept
  <2>. HIDE DEF u
  <2>4. Up(u, room)
    BY <2>3 DEF Kept
  <2>5. Kept(u, w2, room)
    BY <2>1, <2>2, <2>4, FrameCodeKept
  <2>. QED
    BY <2>5, SendKept DEF Kept
<1>6. Up(Emit(w1, f), room)
  <2>. DEFINE g == Frame(w1.c, 0)
  <2>1. g \in Frames
    BY <1>4, FrameType
  <2>2. f \in Frames
    <3>1. ASSUME NEW y \in 0 .. 3
          PROVE  [g EXCEPT !.scon.con = y] \in Frames
      <4>. HIDE DEF g
      <4>. QED
        BY <2>1 DEF Frames, Bytes
    <3>. QED
      BY <3>1
  <2>. HIDE DEF f
  <2>. QED
    BY <1>4, <2>2, EmitTyped DEF Up, Sound
<1>. QED
  BY <1>3, <1>5, <1>6

LEMMA TimeoutEventSound ==
  ASSUME NEW room, NEW w, Up(w, room)
  PROVE  Sound(TimeoutEvent(w), room)
<1>. DEFINE t  == w.c.inactive + 1
            d  == [w.c EXCEPT !.inactive = t]
            v  == [w EXCEPT !.c.inactive = @ + 1]
            w1 == IF w.c.flow THEN w ELSE v
<1>0. w.c \in Connections /\ w \in WorkType /\ Typed(w, room)
  BY WorkParts DEF Up, Sound
<1>1. TimeoutEvent(w) = FinalTimeout(w)
      \/ /\ TimeoutEvent(w) = SubTimeout(w1)
         /\ w.c.retry < RetryCount /\ (w.c.flow \/ w.c.inactive < InactiveThld)
  BY DEF TimeoutEvent
<1>2. ASSUME w.c.inactive < InactiveThld
      PROVE  Up(v, room) /\ v.c.retry = w.c.retry
  <2>1. t \in 0 .. InactiveThld
    BY <1>0, <1>2, BoundsAssumption DEF Connections
  <2>2. v = [w EXCEPT !.c = d]
    BY <1>0 DEF WorkType, Connections
  <2>. HIDE DEF t, v
  <2>3. Alike(w.c, d) /\ d.state = w.c.state /\ d.retry = w.c.retry
    BY <1>0, <2>1 DEF Connections, Alike
  <2>. HIDE DEF d
  <2>4. Kept(w, v, room) /\ v.c = d
    BY <2>2, <2>3, PutAlike
  <2>. QED
    BY <2>3, <2>4 DEF Kept
<1>. HIDE DEF v
<1>3. ASSUME w.c.retry < RetryCount, w.c.flow \/ w.c.inactive < InactiveThld
      PROVE  Sound(SubTimeout(w1), room)
  <2>1. Up(w1, room) /\ w1.c.retry < RetryCount
    BY <1>2, <1>3
  <2>. HIDE DEF w1
  <2>. QED
    BY <2>1, SubTimeoutSound DEF Up
<1>4. Sound(FinalTimeout(w), room)
  BY <1>0, FinalTimeoutSound
<1>. QED
  BY <1>1, <1>3, <1>4

-----------------------------------------------------------------------------
(* The steps.                                                              *)
(* The inductive invariant, and the room the Tx buffer leaves node p.      *)
IInv == TypeOK /\ \A p \in Peers : SoundCon(con[p])
Left(p) == TxRoom - Len(net[p])

(* A handler's result is stored; net[p] and, after a reception, the queue  *)
(* of the partner change with it.                                          *)
Stored(p, w) ==
  /\ Finish(p, w)
  /\ \/ net' = net
     \/ net' = [net EXCEPT ![p] = @ \o w.out]
     \/ /\ net[Other(p)] # << >>
        /\ net' = [net EXCEPT ![Other(p)] = Tail(@), ![p] = @ \o w.out]
  /\ lost' \in 0 .. MaxLoss /\ opened' \in 0 .. MaxOpen

LEMMA OtherPeer ==
  ASSUME NEW p \in Peers
  PROVE  Other(p) \in Peers /\ Other(p) # p
BY PeersAssumption DEF Other

LEMMA StoredKeeps ==
  ASSUME IInv, NEW p \in Peers, NEW w, Sound(w, Left(p)), Stored(p, w)
  PROVE  IInv'
<1>1. /\ w.c \in Connections /\ SoundCon(w.c) /\ w.out \in Seq(Frames) /\ w.got \in Seq(Nat)
      /\ w.last \in Nat /\ Len(w.out) <= TxRoom - Len(net[p])
  BY DEF Sound, Typed, WorkType, Left
<1>2. /\ con' \in [Peers -> Connections] /\ \A q \in Peers : SoundCon(con'[q])
      /\ submitted' \in [Peers -> Nat] /\ delivered' \in [Peers -> Seq(Nat)]
  <2>1. /\ con' = [con EXCEPT ![p] = w.c] /\ submitted' = [submitted EXCEPT ![p] = w.last]
        /\ delivered' = [delivered EXCEPT ![p] = @ \o w.got]
        /\ con \in [Peers -> Connections] /\ submitted \in [Peers -> Nat]
        /\ delivered \in [Peers -> Seq(Nat)] /\ \A q \in Peers : SoundCon(con[q])
    BY DEF Stored, Finish, IInv, TypeOK
  <2>2. delivered[p] \o w.got \in Seq(Nat)
    BY <1>1, <2>1
  <2>. QED
    BY <1>1, <2>1, <2>2
<1>3. net' \in [Peers -> Seq(Frames)] /\ \A q \in Peers : Len(net'[q]) <= TxRoom
  <2>. DEFINE o == net[p] \o w.out
              r == Tail(net[Other(p)])
  <2>1. net \in [Peers -> Seq(Frames)] /\ \A q \in Peers : Len(net[q]) <= TxRoom
    BY DEF IInv, TypeOK
  <2>2. TxRoom \in Nat
    BY SizesAssumption
  <2>3. o \in Seq(Frames) /\ Len(o) <= TxRoom
    <3>. DEFINE a == net[p]
                b == w.out
    <3>1. a \in Seq(Frames) /\ b \in Seq(Frames) /\ Len(b) <= TxRoom - Len(a)
      BY <1>1, <2>1
    <3>. HIDE DEF a, b
    <3>2. a \o b \in Seq(Frames) /\ Len(a \o b) = Len(a) + Len(b)
      BY <3>1
    <3>3. Len(a) \in Nat /\ Len(b) \in Nat
      BY <3>1
    <3>4. Len(a) + Len(b) <= TxRoom
      BY <2>2, <3>1, <3>3
    <3>. QED
      BY <3>2, <3>4 DEF a, b
  <2>4. net[Other(p)] # << >> => r \in Seq(Frames) /\ Len(r) <= TxRoom
    <3>1. net[Other(p)] \in Seq(Frames) /\ Len(net[Other(p)]) <= TxRoom
      BY <2>1, OtherPeer
    <3>. QED
      BY <2>2, <3>1
  <2>5. \/ net' = net
        \/ net' = [net EXCEPT ![p] = o]
        \/ net[Other(p)] # << >> /\ net' = [net EXCEPT ![Other(p)] = r, ![p] = o]
    <3>1. [net EXCEPT ![Other(p)] = Tail(@), ![p] = @ \o w.out]
            = [net EXCEPT ![Other(p)] = r, ![p] = o]
      BY <2>1, OtherPeer
    <3>2. [net EXCEPT ![p] = @ \o w.out] = [net EXCEPT ![p] = o]
      OBVIOUS
    <3>. QED
      BY <3>1, <3>2 DEF Stored
  <2>. HIDE DEF o, r
  <2>6. CASE net' = [net EXCEPT ![p] = o]
    BY <2>1, <2>3, <2>6
  <2>7. CASE net[Other(p)] # << >> /\ net' = [net EXCEPT ![Other(p)] = r, ![p] = o]
    BY <2>1, <2>3, <2>4, <2>7, OtherPeer
  <2>. QED
    BY <2>1, <2>5, <2>6, <2>7
<1>4. lost' \in 0 .. MaxLoss /\ opened' \in 0 .. MaxOpen
  BY DEF Stored
<1>. QED
  BY <1>2, <1>3, <1>4 DEF IInv, TypeOK

LEMMA WorkSound ==
  ASSUME IInv, NEW p \in Peers
  PROVE  /\ Sound(Work(p), Left(p)) /\ Work(p).c = con[p]
         /\ Sound(Opened(p), Left(p)) /\ Opened(p).c.state = con[p].state
<1>1. /\ con[p] \in Connections /\ SoundCon(con[p]) /\ net[p] \in Seq(Frames)
      /\ Len(net[p]) <= TxRoom /\ submitted[p] \in Nat
  BY DEF IInv, TypeOK
<1>2. Left(p) \in Nat /\ MaxData[p] \in Nat
  BY <1>1, SizesAssumption, BoundsAssumption DEF Left
<1>3. << >> \in Seq(Frames) /\ << >> \in Seq(Nat) /\ Len(<< >>) = 0
  OBVIOUS
<1>4. Sound(Work(p), Left(p)) /\ Work(p).c = con[p]
  BY <1>1, <1>2, <1>3 DEF Work, Sound, Typed, WorkType, Left
<1>5. Sound(Opened(p), Left(p)) /\ Opened(p).c.state = con[p].state
  <2>. DEFINE w == Work(p)
              d == [w.c EXCEPT !.open = TRUE]
  <2>. HIDE DEF w
  <2>0. w.c \in Connections /\ w \in WorkType /\ Typed(w, Left(p)) /\ SoundCon(w.c)
    BY <1>4, WorkParts DEF w, Sound
  <2>1. Alike(w.c, d) /\ d.state = w.c.state
    <3>1. ASSUME NEW b \in BOOLEAN
          PROVE  LET e == [w.c EXCEPT !.open = b] IN Alike(w.c, e) /\ e.state = w.c.state
      BY <2>0 DEF Connections, Alike
    <3>. QED
      BY <3>1
  <2>2. Opened(p) = [w EXCEPT !.c = d]
    BY <2>0 DEF Opened, w, WorkType
  <2>. HIDE DEF d
  <2>3. SoundCon(d) /\ d \in Connections
    BY <2>0, <2>1, AlikeSound DEF Alike
  <2>4. Sound(Opened(p), Left(p)) /\ Opened(p).c = d
    BY <2>0, <2>2, <2>3, PutCon
  <2>. QED
    BY <1>4, <2>1, <2>4 DEF w
<1>. QED
  BY <1>4, <1>5

LEMMA CommandStep ==
  ASSUME IInv, NEW p \in Peers,
         \/ InitCon(p) \/ DeleteCon(p) \/ Restart(p) \/ \E ret \in Returns : Submit(p, ret)
  PROVE  IInv'
<1>1. SUFFICES \E w : Sound(w, Left(p)) /\ Stored(p, w)
  BY StoredKeeps
<1>. DEFINE v == Work(p)
<1>2. /\ Sound(v, Left(p)) /\ v.c = con[p] /\ Typed(v, Left(p))
      /\ v.c \in Connections /\ v \in WorkType
  BY WorkSound, WorkParts DEF Sound
<1>3. lost \in 0 .. MaxLoss /\ opened \in 0 .. MaxOpen
  BY DEF IInv, TypeOK
<1>. HIDE DEF v
<1>4. CASE InitCon(p)
  <2>. DEFINE r  == Byte(0, 1)
              s  == Byte(0, 0)
              d1 == [v.c EXCEPT !.open = TRUE, !.recvSeqNum = r, !.sendSeqNum = s]
              w1 == [v EXCEPT !.c.open = TRUE, !.c.recvSeqNum = Byte(0, 1),
                              !.c.sendSeqNum = Byte(0, 0)]
              u  == SendEmpty(w1)
              d2 == [u.c EXCEPT !.flow = FALSE, !.state = "Init1", !.timer = TRUE]
              w2 == IF Full(w1) THEN w1
                    ELSE [u EXCEPT !.c.flow = FALSE, !.c.state = "Init1", !.c.timer = TRUE]
  <2>1. r \in Bytes /\ s \in Bytes
    BY Sizes DEF Byte, Bytes
  <2>2. w1 = [v EXCEPT !.c = d1]
    BY <1>2 DEF WorkType
  <2>. HIDE DEF r, s
  <2>3. d1 \in Connections /\ d1.state = "Idle"
    BY <1>2, <1>4, <2>1 DEF Connections, InitCon
  <2>. HIDE DEF d1, w1
  <2>4. Typed(w1, Left(p)) /\ w1.c = d1
    BY <1>2, <2>2, <2>3, PutCon
  <2>5. Typed(u, Left(p))
    BY <2>4, SendTyped
  <2>. HIDE DEF u
  <2>6. [u EXCEPT !.c.flow = FALSE, !.c.state = "Init1", !.c.timer = TRUE] = [u EXCEPT !.c = d2]
    BY <2>5, WorkParts DEF WorkType
  <2>7. d2 \in Connections /\ d2.state = "Init1"
    BY <2>5, WorkParts DEF Connections, States
  <2>. HIDE DEF d2
  <2>8. Typed([u EXCEPT !.c = d2], Left(p)) /\ [u EXCEPT !.c = d2].c = d2
    BY <2>5, <2>7, PutCon
  <2>9. Sound(w1, Left(p)) /\ Sound([u EXCEPT !.c = d2], Left(p))
    BY <2>3, <2>4, <2>7, <2>8, DownSound DEF Established
  <2>10. Sound(w2, Left(p))
    BY <2>6, <2>9
  <2>11. Stored(p, w2)
    <3>1. Finish(p, w2) /\ net' = [net EXCEPT ![p] = @ \o w2.out]
      BY <1>4 DEF InitCon, v, u, w1
    <3>2. lost' = lost /\ opened' = opened + 1 /\ opened < MaxOpen
      BY <1>4 DEF InitCon
    <3>. HIDE DEF w2
    <3>3. opened' \in 0 .. MaxOpen
      BY <1>3, <3>2, BoundsAssumption
    <3>. QED
      BY <1>3, <3>1, <3>2, <3>3 DEF Stored
  <2>. HIDE DEF w2
  <2>. QED
    BY <2>10, <2>11
<1>5. CASE DeleteCon(p)
  <2>. DEFINE w == IF con[p].state = "Connected" THEN SendClose(v) ELSE v
  <2>1. Typed(w, Left(p)) /\ w \in WorkType
    BY <1>2, SendCloseTyped DEF Typed
  <2>2. /\ Finish(p, Closed(w)) /\ net' = [net EXCEPT ![p] = @ \o w.out]
        /\ lost' = lost /\ opened' = opened
    BY <1>5 DEF DeleteCon, v
  <2>. HIDE DEF w
  <2>3. Sound(Closed(w), Left(p))
    BY <2>1, ClosedSound
  <2>4. Closed(w).out = w.out
    BY <2>1 DEF Closed, WorkType
  <2>. QED
    BY <1>3, <2>2, <2>3, <2>4 DEF Stored
<1>6. CASE Restart(p)
  <2>. DEFINE d == FreshCon
              w == [v EXCEPT !.c = d]
  <2>1. d \in Connections /\ d.state = "Idle"
    BY ClosedConType
  <2>2. Finish(p, w) /\ net' = net /\ lost' = lost /\ opened' = opened
    BY <1>6 DEF Restart, v
  <2>. HIDE DEF d
  <2>3. Typed(w, Left(p)) /\ w.c = d
    BY <1>2, <2>1, PutCon
  <2>. HIDE DEF w
  <2>4. Sound(w, Left(p))
    BY <2>1, <2>3, DownSound DEF Established
  <2>. QED
    BY <1>3, <2>2, <2>4 DEF Stored
<1>7. CASE \E ret \in Returns : Submit(p, ret)
  <2>1. PICK ret \in Returns : Submit(p, ret)
    BY <1>7
  <2>. DEFINE w == SendData(v, "data", ret)
  <2>2. Up(v, Left(p))
    BY <1>2, <2>1 DEF Submit, Up, Established
  <2>3. Sound(w, Left(p))
    BY <2>2, SendDataSent DEF Sent, Up, Replies
  <2>4. /\ Finish(p, w) /\ net' = [net EXCEPT ![p] = @ \o w.out]
        /\ lost' = lost /\ opened' = opened
    BY <2>1 DEF Submit, v
  <2>. HIDE DEF w
  <2>. QED
    BY <1>3, <2>3, <2>4 DEF Stored
<1>. QED
  BY <1>4, <1>5, <1>6, <1>7

LEMMA ReceiveStep ==
  ASSUME IInv, NEW p \in Peers, ReceiveAny(p)
  PROVE  IInv'
<1>1. SUFFICES \E w : Sound(w, Left(p)) /\ Stored(p, w)
  BY StoredKeeps
<1>. DEFINE v == Opened(p)
            f == Incoming(p)
            room == Left(p)
<1>2. Sound(v, room) /\ v.c.state = con[p].state /\ Typed(v, room)
  BY WorkSound DEF Sound
<1>3. net[Other(p)] # << >> => f \in Frames
  <2>1. net[Other(p)] \in Seq(Frames)
    BY OtherPeer DEF IInv, TypeOK
  <2>. QED
    BY <2>1 DEF Incoming
<1>. HIDE DEF v, f, room
<1>4. ASSUME NEW w, Sound(w, room), Receive(p, w), net[Other(p)] # << >>
      PROVE  \E u : Sound(u, Left(p)) /\ Stored(p, u)
  BY <1>4 DEF Receive, Stored, IInv, TypeOK, room
<1>5. CASE ReceiveIdle(p)
  <2>1. Sound(IdleRec(v, f), room) /\ Receive(p, IdleRec(v, f)) /\ net[Other(p)] # << >>
    BY <1>2, <1>3, <1>5, IdleRecSound DEF ReceiveIdle, Expecting, Established, v, f
  <2>. QED
    BY <1>4, <2>1
<1>6. CASE ReceiveInit1(p)
  <2>1. Sound(Init1Rec(v, f), room) /\ Receive(p, Init1Rec(v, f)) /\ net[Other(p)] # << >>
    BY <1>2, <1>3, <1>6, InitRecSound DEF ReceiveInit1, Expecting, Established, v, f
  <2>. QED
    BY <1>4, <2>1
<1>7. ASSUME NEW deletes \in BOOLEAN, ReceiveInit2(p, deletes) \/ ReceiveInit3(p, deletes)
      PROVE  \E w : Sound(w, Left(p)) /\ Stored(p, w)
  <2>1. CASE ReceiveInit2(p, deletes)
    <3>. DEFINE w == Init2Rec(v, f, deletes)
    <3>1. Sound(w, room) /\ Receive(p, w) /\ net[Other(p)] # << >>
      BY <1>2, <1>3, <2>1, InitRecSound DEF ReceiveInit2, Expecting, Established, v, f
    <3>. QED
      BY <1>4, <3>1
  <2>2. CASE ReceiveInit3(p, deletes)
    <3>. DEFINE w == Init3Rec(v, f, deletes)
    <3>1. Sound(w, room) /\ Receive(p, w) /\ net[Other(p)] # << >>
      BY <1>2, <1>3, <2>2, InitRecSound DEF ReceiveInit3, Expecting, Established, v, f
    <3>. QED
      BY <1>4, <3>1
  <2>. QED
    BY <1>7, <2>1, <2>2
<1>8. ASSUME NEW deletes \in BOOLEAN, NEW ret \in Returns, NEW reply \in Replies,
             ReceiveConnected(p, deletes, ret, reply)
      PROVE  \E w : Sound(w, Left(p)) /\ Stored(p, w)
  <2>. DEFINE w == ConnectedRec(v, f, deletes, ret, reply)
  <2>1. con[p].state = "Connected" /\ net[Other(p)] # << >> /\ Receive(p, w)
    BY <1>8 DEF ReceiveConnected, Expecting, v, f
  <2>2. Up(v, room)
    BY <1>2, <2>1 DEF Up, Established
  <2>3. Sound(w, room)
    BY <1>3, <2>1, <2>2, ConnectedRecSound
  <2>. QED
    BY <1>4, <2>1, <2>3
<1>9. ASSUME NEW deletes \in BOOLEAN, NEW ret \in Returns, NEW reply \in Replies,
             NEW onAck \in {"none", "data"}, ReceiveWaitAck(p, deletes, ret, reply, onAck)
      PROVE  \E w : Sound(w, Left(p)) /\ Stored(p, w)
  <2>. DEFINE w == WaitAckRec(v, f, deletes, ret, reply, onAck)
  <2>1. con[p].state = "WaitAck" /\ net[Other(p)] # << >> /\ Receive(p, w)
    BY <1>9 DEF ReceiveWaitAck, Expecting, v, f
  <2>2. Up(v, room) /\ onAck \in Replies
    BY <1>2, <1>9, <2>1 DEF Up, Established, Replies
  <2>3. Sound(w, room)
    BY <1>3, <2>1, <2>2, WaitAckRecSound
  <2>. QED
    BY <1>4, <2>1, <2>3
<1>. QED
  BY <1>5, <1>6, <1>7, <1>8, <1>9 DEF ReceiveAny

LEMMA TimeoutStep ==
  ASSUME IInv, NEW p \in Peers, Timeout(p)
  PROVE  IInv'
<1>1. SUFFICES \E w : Sound(w, Left(p)) /\ Stored(p, w)
  BY StoredKeeps
<1>. DEFINE v == Work(p)
            d == [v.c EXCEPT !.timer = FALSE]
            w == [v EXCEPT !.c.timer = FALSE]
            r == CASE con[p].state = "Idle"       -> w
                   [] con[p].state \in InitStates -> FinalTimeout(w)
                   [] con[p].state = "Connected"  -> TimeoutEvent(w)
                   [] con[p].state = "WaitAck"    -> TimeoutEvent(RequestAck(w))
            room == Left(p)
<1>2. Sound(v, room) /\ v.c = con[p] /\ Typed(v, room) /\ v.c \in Connections /\ v \in WorkType
  BY WorkSound, WorkParts DEF Sound
<1>3. Stored(p, r)
  BY DEF Timeout, Stored, IInv, TypeOK, v
<1>. HIDE DEF v, room
<1>4. Sound(w, room) /\ w.c.state = con[p].state
  <2>1. ASSUME NEW b \in BOOLEAN
        PROVE  LET e == [v.c EXCEPT !.timer = b] IN Alike(v.c, e) /\ e.state = v.c.state
    BY <1>2 DEF Connections, Alike
  <2>2. Alike(v.c, d) /\ d.state = v.c.state
    BY <2>1
  <2>3. w = [v EXCEPT !.c = d]
    BY <1>2 DEF WorkType
  <2>. HIDE DEF d, w
  <2>4. SoundCon(d) /\ d \in Connections
    BY <1>2, <2>2, AlikeSound DEF Sound, Alike
  <2>5. Sound(w, room) /\ w.c = d
    BY <1>2, <2>3, <2>4, PutCon
  <2>. QED
    BY <1>2, <2>2, <2>5
<1>. HIDE DEF w
<1>5. Sound(FinalTimeout(w), room)
  BY <1>4, FinalTimeoutSound DEF Sound
<1>6. con[p].state \in {"Connected", "WaitAck"} =>
        Sound(TimeoutEvent(w), room) /\ Sound(TimeoutEvent(RequestAck(w)), room)
  <2>1. con[p].state \in {"Connected", "WaitAck"} => Up(w, room)
    BY <1>4 DEF Up, Established
  <2>2. Up(w, room) => Up(RequestAck(w), room)
    BY RequestAckKept DEF Kept
  <2>. QED
    BY <2>1, <2>2, TimeoutEventSound
<1>7. con[p].state \in States
  BY <1>2 DEF Connections
<1>8. Sound(r, room)
  BY <1>4, <1>5, <1>6, <1>7 DEF States, InitStates
<1>. HIDE DEF r
<1>. QED
  BY <1>3, <1>8 DEF room

LEMMA LoseStep ==
  ASSUME IInv, NEW p \in Peers, Lose(p)
  PROVE  IInv'
<1>1. /\ net[p] \in Seq(Frames) /\ net[p] # << >> /\ Len(net[p]) <= TxRoom
      /\ net' = [net EXCEPT ![p] = Tail(@)] /\ net \in [Peers -> Seq(Frames)]
      /\ \A q \in Peers : Len(net[q]) <= TxRoom
  BY DEF IInv, TypeOK, Lose
<1>2. Tail(net[p]) \in Seq(Frames) /\ Len(Tail(net[p])) <= TxRoom
  BY <1>1, SizesAssumption
<1>3. net' \in [Peers -> Seq(Frames)] /\ \A q \in Peers : Len(net'[q]) <= TxRoom
  BY <1>1, <1>2
<1>4. lost' \in 0 .. MaxLoss
  BY BoundsAssumption DEF IInv, TypeOK, Lose
<1>. QED
  BY <1>3, <1>4 DEF IInv, TypeOK, Lose

LEMMA IInvHolds == Spec => []IInv
<1>1. Init => IInv
  <2>. SUFFICES ASSUME Init PROVE IInv
    OBVIOUS
  <2>. DEFINE d == FreshCon
  <2>1. d \in Connections /\ d.state = "Idle" /\ con = [p \in Peers |-> d]
    BY ClosedConType DEF Init
  <2>. HIDE DEF d
  <2>2. con \in [Peers -> Connections] /\ \A p \in Peers : SoundCon(con[p])
    BY <2>1 DEF SoundCon, Established
  <2>3. net \in [Peers -> Seq(Frames)] /\ \A p \in Peers : Len(net[p]) <= TxRoom
    BY SizesAssumption DEF Init
  <2>4. /\ submitted \in [Peers -> Nat] /\ delivered \in [Peers -> Seq(Nat)]
        /\ lost \in 0 .. MaxLoss /\ opened \in 0 .. MaxOpen
    BY BoundsAssumption DEF Init
  <2>. QED
    BY <2>2, <2>3, <2>4 DEF IInv, TypeOK
<1>2. IInv /\ [Next]_vars => IInv'
  <2>. SUFFICES ASSUME IInv, [Next]_vars PROVE IInv'
    OBVIOUS
  <2>1. CASE UNCHANGED vars
    BY <2>1 DEF vars, IInv, TypeOK
  <2>. QED
    BY <2>1, CommandStep, ReceiveStep, TimeoutStep, LoseStep DEF Next
<1>. QED
  BY <1>1, <1>2, PTL DEF Spec

(* The connection records and the frames have their types; the retry and   *)
(* inactivity counters stop at their limits, and what is sent fits the Tx  *)
(* buffer of the data link layer.                                          *)
THEOREM SpecTypeOK == Spec => []TypeOK
<1>1. IInv => TypeOK
  BY DEF IInv
<1>. QED
  BY <1>1, IInvHolds, PTL

(* The frames of the history carry consecutive numbers up to the current   *)
(* one, whatever is acknowledged, sent again, lost or timed out: a number  *)
(* that wraps around never releases or resends a wrong frame.              *)
THEOREM SpecHistoryConsecutive == Spec => []HistoryConsecutive
<1>1. IInv => HistoryConsecutive
  <2>. SUFFICES ASSUME IInv, NEW p \in Peers, Established(con[p])
                PROVE  /\ con[p].writeIndex = (con[p].ackIndex + Used(con[p])) % HistorySize
                       /\ \A i \in 1 .. Used(con[p]) : Window(con[p])[i].scon.num
                            = (con[p].recvSeqNum.num - Used(con[p]) + i) % NumMod
    BY DEF HistoryConsecutive
  <2>1. Ring(con[p])
    BY DEF IInv, SoundCon
  <2>. QED
    BY <2>1 DEF Ring, Rem, Window
<1>. QED
  BY <1>1, IInvHolds, PTL

(* With a history of three frames and more, a Connected connection always  *)
(* has two free places: sendFrame never finds its history full.            *)
THEOREM SpecConnectedHasRoom ==
  ASSUME HistorySize >= 3
  PROVE  Spec => []ConnectedHasRoom
<1>1. IInv => ConnectedHasRoom
  BY DEF IInv, SoundCon, ConnectedHasRoom, Room
<1>. QED
  BY <1>1, IInvHolds, PTL

-----------------------------------------------------------------------------
(* A handler passes a work record through several operators; a lemma says  *)
(* of each what it does to state and timer of the record's connection.     *)
Active == States \ {"Idle"}
Rec(w) == "c" \in DOMAIN w /\ {"state", "timer"} \subseteq DOMAIN w.c
Running(w) == Rec(w) /\ w.c.timer = TRUE /\ w.c.state \in Active
Stopped(w) == Rec(w) /\ w.c.timer = FALSE /\ w.c.state = "Idle"
Good(w) == Running(w) \/ Stopped(w)
Same(w, v) == Rec(v) /\ v.c.timer = w.c.timer /\ v.c.state = w.c.state

LEMMA ActiveFacts ==
  /\ {"Init1", "Init2", "Init3", "Connected", "WaitAck"} = Active
  /\ "Idle" \notin Active
BY DEF Active, States

-----------------------------------------------------------------------------
(* Sending a frame does not touch the connection.                          *)
LEMMA EmitKeeps ==
  ASSUME NEW w, Rec(w), NEW f
  PROVE  Rec(Emit(w, f)) /\ Emit(w, f).c = w.c
BY DEF Emit, Rec

LEMMA SendKeeps ==
  ASSUME NEW w, Rec(w)
  PROVE  /\ Rec(SendEmpty(w)) /\ SendEmpty(w).c = w.c
         /\ Rec(SendWindow(w)) /\ SendWindow(w).c = w.c
         /\ Rec(SendOldest(w)) /\ SendOldest(w).c = w.c
<1>1. Rec(SendEmpty(w)) /\ SendEmpty(w).c = w.c
  BY EmitKeeps DEF SendEmpty
<1>2. Rec(SendOldest(w)) /\ SendOldest(w).c = w.c
  BY EmitKeeps DEF SendOldest
<1>3. Rec(SendWindow(w)) /\ SendWindow(w).c = w.c
  BY DEF SendWindow, Rec
<1>. QED
  BY <1>1, <1>2, <1>3

LEMMA FlowKeeps ==
  ASSUME NEW w, Rec(w), NEW ret
  PROVE  Same(w, Flow(w, ret))
BY DEF Flow, Rec, Same

LEMMA ClosedStops ==
  ASSUME NEW w, Rec(w)
  PROVE  Stopped(Closed(w))
BY DEF Closed, ClosedCon, Rec, Stopped

LEMMA SendCloseKeeps ==
  ASSUME NEW w, Rec(w)
  PROVE  Rec(SendClose(w))
<1>1. Rec([w EXCEPT !.c.sendSeqNum.con = 0, !.c.recvSeqNum.con = 0])
  BY DEF Rec
<1>. QED
  BY <1>1, SendKeeps DEF SendClose

-----------------------------------------------------------------------------
(* Connecting.                                                             *)
LEMMA AnswerGood ==
  ASSUME NEW w, Good(w), NEW f, NEW state \in Active
  PROVE  Good(Answer(w, f, state)) /\ (~Full(w) => Running(Answer(w, f, state)))
<1>. DEFINE w1 == [w EXCEPT !.c.recvSeqNum = Byte(f.rcon.num, f.rcon.con + 1),
                            !.c.sendSeqNum = f.scon]
<1>1. Same(w, w1)
  BY DEF Same, Good, Running, Stopped, Rec
<1>. HIDE DEF w1
<1>2. Rec(SendEmpty(w1))
  BY <1>1, SendKeeps DEF Same
<1>3. Running([SendEmpty(w1) EXCEPT !.c.state = state, !.c.timer = TRUE])
  BY <1>2 DEF Running, Rec
<1>4. Answer(w, f, state) = IF Full(w) THEN w1
                            ELSE [SendEmpty(w1) EXCEPT !.c.state = state, !.c.timer = TRUE]
  BY DEF Answer, w1
<1>5. Good(w1)
  BY <1>1 DEF Same, Good, Running, Stopped
<1>. QED
  BY <1>3, <1>4, <1>5 DEF Good

LEMMA ConnectRuns ==
  ASSUME NEW w, Rec(w)
  PROVE  Running(Connect(w))
<1>. DEFINE d == [InitHistory(w.c) EXCEPT !.state = "Connected", !.timer = TRUE]
<1>1. {"state", "timer"} \subseteq DOMAIN InitHistory(w.c)
  BY DEF Rec, InitHistory
<1>2. {"state", "timer"} \subseteq DOMAIN d /\ d.timer = TRUE /\ d.state = "Connected"
  BY <1>1
<1>3. Connect(w) = [w EXCEPT !.c = d]
  BY DEF Connect
<1>. HIDE DEF d
<1>. QED
  BY <1>2, <1>3, ActiveFacts DEF Running, Rec

LEMMA InitErrorStops ==
  ASSUME NEW w, Rec(w), NEW f
  PROVE  Stopped(InitError(w, f))
<1>1. Rec([w EXCEPT !.c.recvSeqNum = f.rcon, !.c.sendSeqNum = f.scon])
  BY DEF Rec
<1>. QED
  BY <1>1, SendCloseKeeps, ClosedStops DEF InitError

LEMMA IdleRecGood ==
  ASSUME NEW w, Good(w), NEW f
  PROVE  Good(IdleRec(w, f))
<1>0. Rec(w)
  BY DEF Good, Running, Stopped
<1>1. Good(Answer(w, f, "Init2"))
  BY ActiveFacts, AnswerGood
<1>2. Good(Closed(w))
  BY <1>0, ClosedStops DEF Good
<1>. QED
  BY <1>1, <1>2 DEF IdleRec

LEMMA ReinitGood ==
  ASSUME NEW w, Rec(w), NEW f, NEW deletes
  PROVE  Good(Reinit(w, f, deletes))
<1>. DEFINE c == IF deletes THEN [ClosedCon EXCEPT !.open = TRUE]
                 ELSE [w.c EXCEPT !.state = "Idle", !.timer = FALSE]
<1>1. Stopped([w EXCEPT !.c = c])
  <2>1. {"state", "timer"} \subseteq DOMAIN c /\ c.timer = FALSE /\ c.state = "Idle"
    BY DEF ClosedCon, Rec
  <2>. HIDE DEF c
  <2>. QED
    BY <2>1 DEF Stopped, Rec
<1>2. Reinit(w, f, deletes) = IdleRec([w EXCEPT !.c = c], f)
  BY DEF Reinit
<1>. HIDE DEF c
<1>. QED
  BY <1>1, <1>2, IdleRecGood DEF Good

LEMMA InitRecGood ==
  ASSUME NEW w, Good(w), NEW f, NEW deletes
  PROVE  /\ Good(Init1Rec(w, f))
         /\ Good(Init2Rec(w, f, deletes))
         /\ Good(Init3Rec(w, f, deletes))
<1>0. Rec(w)
  BY DEF Good, Running, Stopped
<1>1. Good(Answer(w, f, "Init2")) /\ Good(Answer(w, f, "Init3")) /\ Good(Answer(w, f, "Connected"))
  BY ActiveFacts, AnswerGood
<1>2. Good(InitError(w, f)) /\ Good(Reinit(w, f, deletes))
  BY <1>0, InitErrorStops, ReinitGood DEF Good
<1>3. Good(Connect(Answer(w, f, "Connected")))
  BY <1>1, ConnectRuns DEF Good, Running, Stopped
<1>4. Good(Connect([w EXCEPT !.c.recvSeqNum = f.rcon, !.c.sendSeqNum = f.scon]))
  <2>1. Rec([w EXCEPT !.c.recvSeqNum = f.rcon, !.c.sendSeqNum = f.scon])
    BY <1>0 DEF Rec
  <2>. QED
    BY <2>1, ConnectRuns DEF Good
<1>5. Good(Init1Rec(w, f))
  BY <1>1, <1>2 DEF Init1Rec
<1>6. Good(Init2Rec(w, f, deletes))
  BY <1>1, <1>2, <1>3 DEF Init2Rec
<1>7. Good(Init3Rec(w, f, deletes))
  BY <1>1, <1>2, <1>3, <1>4 DEF Init3Rec
<1>. QED
  BY <1>5, <1>6, <1>7

-----------------------------------------------------------------------------
(* Data.                                                                   *)
LEMMA SendFrameRuns ==
  ASSUME NEW w, Running(w), NEW ret
  PROVE  Running(SendFrame(w, ret))
<1>. DEFINE c1 == [w.c EXCEPT !.recvSeqNum.num = NextNum(@)]
            c2 == AddToHistory(c1, Frame(c1, w.last + 1))
            c3 == [c2 EXCEPT !.state = IF c2.free <= 1 THEN "WaitAck" ELSE @]
            w3 == [w EXCEPT !.c = c3, !.last = @ + 1]
<1>1. {"state", "timer"} \subseteq DOMAIN c1 /\ c1.timer = TRUE /\ c1.state \in Active
  BY DEF Running, Rec
<1>2. {"state", "timer"} \subseteq DOMAIN c2 /\ c2.timer = TRUE /\ c2.state \in Active
  <2>. HIDE DEF c1
  <2>. QED
    BY <1>1 DEF AddToHistory
<1>3. {"state", "timer"} \subseteq DOMAIN c3 /\ c3.timer = TRUE /\ c3.state \in Active
  <2>. HIDE DEF c2
  <2>. QED
    BY <1>2, ActiveFacts
<1>4. SendFrame(w, ret) = IF c1.free = 0 THEN [w EXCEPT !.c = c1] ELSE Flow(SendWindow(w3), ret)
  BY DEF SendFrame
<1>. HIDE DEF c1, c3
<1>5. Running([w EXCEPT !.c = c1]) /\ Running(w3)
  BY <1>1, <1>3 DEF Running, Rec
<1>6. Running(SendWindow(w3))
  BY <1>5, SendKeeps DEF Running
<1>7. Running(Flow(SendWindow(w3), ret))
  BY <1>6, FlowKeeps DEF Running, Same
<1>. QED
  BY <1>4, <1>5, <1>7

LEMMA SendDataRuns ==
  ASSUME NEW w, Running(w), NEW reply \in Replies, NEW ret
  PROVE  Running(SendData(w, reply, ret))
<1>. DEFINE w1 == [w EXCEPT !.c.flow = FALSE, !.c.inactive = 0, !.c.timer = TRUE]
<1>1. Running(w1)
  BY DEF Running, Rec
<1>2. SendData(w, reply, ret) \in {w, SendEmpty(w1), SendFrame(w1, ret)}
  BY DEF SendData, Replies
<1>. HIDE DEF w1
<1>3. Running(SendEmpty(w1)) /\ Running(SendFrame(w1, ret))
  BY <1>1, SendKeeps, SendFrameRuns DEF Running
<1>. QED
  BY <1>2, <1>3

LEMMA DeliverRuns ==
  ASSUME NEW w, Running(w), NEW f, NEW ret, NEW reply \in Replies
  PROVE  Running(Deliver(w, f, ret, reply))
<1>. DEFINE w1 == [w EXCEPT !.c.inactive = 0]
            w2 == [w1 EXCEPT !.c.sendSeqNum = Byte(f.scon.num, f.scon.con - (f.scon.con % 2)),
                             !.got = Append(@, f.data)]
<1>1. Running(w1)
  BY DEF Running, Rec
<1>2. Running(w2)
  <2>. HIDE DEF w1
  <2>. QED
    BY <1>1 DEF Running, Rec
<1>3. Deliver(w, f, ret, reply) = IF w.c.flow THEN w1 ELSE Flow(SendData(w2, reply, ret), ret)
  BY DEF Deliver
<1>. HIDE DEF w1, w2
<1>4. Running(SendData(w2, reply, ret))
  BY <1>2, SendDataRuns
<1>5. Running(Flow(SendData(w2, reply, ret), ret))
  BY <1>4, FlowKeeps DEF Running, Same
<1>. QED
  BY <1>1, <1>3, <1>5

(* The parts of a handler that keep a running connection running.          *)
LEMMA PartsRun ==
  ASSUME NEW w, Running(w), NEW f, NEW n
  PROVE  /\ Running(Alive(w)) /\ Running(RequestAck(w))
         /\ Running([w EXCEPT !.c = DeleteAcked(w.c, n)])
         /\ Running(ResendOldest(w, f)) /\ Running(AnswerAckRequest(w, f))
         /\ Running(SendRetransmissionRequest(w))
<1>1. Running(Alive(w)) /\ Running(RequestAck(w))
  BY DEF Alive, RequestAck, Running, Rec
<1>2. Running([w EXCEPT !.c = DeleteAcked(w.c, n)])
  <2>. DEFINE d == DeleteAcked(w.c, n)
  <2>1. {"state", "timer"} \subseteq DOMAIN d /\ d.timer = TRUE /\ d.state \in Active
    BY DEF DeleteAcked, Running, Rec
  <2>. HIDE DEF d
  <2>2. Running([w EXCEPT !.c = d])
    BY <2>1 DEF Running, Rec
  <2>. QED
    BY <2>2 DEF d
<1>3. Running(ResendOldest(w, f))
  BY SendKeeps DEF ResendOldest, Running
<1>4. Running(AnswerAckRequest(w, f))
  <2>1. Running([w EXCEPT !.c.sendSeqNum = AckCode(w.c)])
    BY DEF Running, Rec
  <2>. QED
    BY <2>1, SendKeeps DEF AnswerAckRequest, Running
<1>5. Running(SendRetransmissionRequest(w))
  <2>. DEFINE v == [w EXCEPT !.c.sendSeqNum.con = 3]
  <2>1. Running(v)
    BY DEF Running, Rec
  <2>2. SendRetransmissionRequest(w) = [SendEmpty(v) EXCEPT !.c.sendSeqNum.con = 2]
    BY DEF SendRetransmissionRequest
  <2>. HIDE DEF v
  <2>3. Running(SendEmpty(v))
    BY <2>1, SendKeeps DEF Running
  <2>4. Running([SendEmpty(v) EXCEPT !.c.sendSeqNum.con = 2])
    BY <2>3 DEF Running, Rec
  <2>. QED
    BY <2>2, <2>4
<1>. QED
  BY <1>1, <1>2, <1>3, <1>4, <1>5

-----------------------------------------------------------------------------
(* The handlers of an established connection.                              *)
LEMMA ConnectedRecGood ==
  ASSUME NEW w, Running(w), NEW f, NEW deletes, NEW ret, NEW reply \in Replies
  PROVE  Good(ConnectedRec(w, f, deletes, ret, reply))
<1>. DEFINE n  == f.rcon.num
            w1 == IF AckValid(w.c, n) \/ HistoryAcked(w.c, n) THEN Alive(w) ELSE w
            w2 == [w1 EXCEPT !.c = DeleteAcked(w1.c, n)]
            w3 == IF f.rcon.con = 3 THEN SendWindow(Alive(w2)) ELSE w2
            w4 == ResendOldest(w3, f)
<1>1. Running(w1)
  BY PartsRun
<1>2. Running(w2)
  <2>. HIDE DEF w1
  <2>. QED
    BY <1>1, PartsRun
<1>3. Running(w3)
  <2>. HIDE DEF w2
  <2>. QED
    BY <1>2, PartsRun, SendKeeps DEF Running
<1>4. Running(w4)
  <2>. HIDE DEF w3
  <2>. QED
    BY <1>3, PartsRun
<1>5. ConnectedRec(w, f, deletes, ret, reply) \in
        {Closed(w), Reinit(w, f, deletes), AnswerAckRequest(Deliver(w4, f, ret, reply), f),
         SendRetransmissionRequest(w4), AnswerAckRequest(w4, f)}
  BY DEF ConnectedRec
<1>. HIDE DEF w4
<1>6. Good(Closed(w)) /\ Good(Reinit(w, f, deletes))
  BY ClosedStops, ReinitGood DEF Good, Running
<1>7. Running(Deliver(w4, f, ret, reply))
  BY <1>4, DeliverRuns
<1>8. /\ Good(AnswerAckRequest(Deliver(w4, f, ret, reply), f))
      /\ Good(SendRetransmissionRequest(w4)) /\ Good(AnswerAckRequest(w4, f))
  BY <1>4, <1>7, PartsRun DEF Good
<1>. QED
  BY <1>5, <1>6, <1>8

LEMMA AckReceivedRuns ==
  ASSUME NEW w, Running(w), NEW n, NEW ret, NEW onAck \in Replies
  PROVE  Running(AckReceived(w, n, ret, onAck))
<1>. DEFINE w1 == [w EXCEPT !.c = DeleteAcked(w.c, n)]
            w2 == [w1 EXCEPT !.c.recvSeqNum.con = 2, !.c.state = "Connected"]
<1>1. Running(w1)
  BY PartsRun
<1>2. Running(w2)
  <2>. HIDE DEF w1
  <2>. QED
    BY <1>1, ActiveFacts DEF Running, Rec
<1>3. AckReceived(w, n, ret, onAck) = Flow(SendData(w2, onAck, ret), ret)
  BY DEF AckReceived
<1>. HIDE DEF w2
<1>4. Running(SendData(w2, onAck, ret))
  BY <1>2, SendDataRuns
<1>. QED
  BY <1>3, <1>4, FlowKeeps DEF Running, Same

LEMMA WaitAckValidRuns ==
  ASSUME NEW w, Running(w), NEW f, NEW ret, NEW reply \in Replies, NEW onAck \in Replies
  PROVE  Running(WaitAckValid(w, f, ret, reply, onAck))
<1>. DEFINE acked == HistoryAcked(w.c, f.rcon.num)
            w1 == IF acked THEN AckReceived(Alive(w), f.rcon.num, ret, onAck) ELSE w
            w2 == IF Expected(w1.c, f) THEN Deliver(w1, f, ret, reply) ELSE w1
<1>1. Running(Alive(w))
  BY PartsRun
<1>2. Running(w1)
  BY <1>1, AckReceivedRuns
<1>3. Running(w2)
  <2>. HIDE DEF w1
  <2>. QED
    BY <1>2, DeliverRuns
<1>4. WaitAckValid(w, f, ret, reply, onAck) \in {w1, w2, ResendOldest(w2, f)}
  BY DEF WaitAckValid
<1>. HIDE DEF w1, w2
<1>5. Running(ResendOldest(w2, f))
  BY <1>3, PartsRun
<1>. QED
  BY <1>2, <1>3, <1>4, <1>5

LEMMA WaitAckRequestRuns ==
  ASSUME NEW w, Running(w), NEW f, NEW ret, NEW reply \in Replies, NEW onAck \in Replies
  PROVE  Running(WaitAckRequest(w, f, ret, reply, onAck))
<1>. DEFINE acked == HistoryAcked(w.c, f.rcon.num)
            w1 == IF acked THEN AckReceived(w, f.rcon.num, ret, onAck) ELSE w
            w2 == Alive(w1)
            w3 == [w2 EXCEPT !.c.state = "Connected"]
            v  == [w3 EXCEPT !.c.recvSeqNum = Byte(f.rcon.num, 2)]
<1>1. Running(w1)
  BY AckReceivedRuns
<1>2. Running(w2)
  <2>. HIDE DEF w1
  <2>. QED
    BY <1>1, PartsRun
<1>3. Running(w3)
  <2>. HIDE DEF w2
  <2>. QED
    BY <1>2, ActiveFacts DEF Running, Rec
<1>4. Running(v)
  <2>. HIDE DEF w3
  <2>. QED
    BY <1>3 DEF Running, Rec
<1>5. WaitAckRequest(w, f, ret, reply, onAck) \in
        {w1, SendWindow(w2), Deliver(w3, f, ret, reply), SendEmpty(v)}
  BY DEF WaitAckRequest
<1>. HIDE DEF w1, w2, w3, v
<1>6. Running(SendWindow(w2)) /\ Running(SendEmpty(v))
  BY <1>2, <1>4, SendKeeps DEF Running
<1>7. Running(Deliver(w3, f, ret, reply))
  BY <1>3, DeliverRuns
<1>. QED
  BY <1>1, <1>5, <1>6, <1>7

LEMMA WaitAckRecGood ==
  ASSUME NEW w, Running(w), NEW f, NEW deletes, NEW ret,
         NEW reply \in Replies, NEW onAck \in Replies
  PROVE  Good(WaitAckRec(w, f, deletes, ret, reply, onAck))
<1>1. Running(RequestAck(w))
  BY PartsRun
<1>2. Good(Reinit(RequestAck(w), f, deletes)) /\ Good(Closed(w))
  BY <1>1, ReinitGood, ClosedStops DEF Good, Running
<1>3. /\ Good(WaitAckValid(RequestAck(w), f, ret, reply, onAck))
      /\ Good(WaitAckRequest(RequestAck(w), f, ret, reply, onAck))
  BY <1>1, WaitAckValidRuns, WaitAckRequestRuns DEF Good
<1>4. WaitAckRec(w, f, deletes, ret, reply, onAck) \in
        {Reinit(RequestAck(w), f, deletes), Closed(w), RequestAck(w),
         WaitAckValid(RequestAck(w), f, ret, reply, onAck),
         WaitAckRequest(RequestAck(w), f, ret, reply, onAck)}
  BY DEF WaitAckRec
<1>. QED
  BY <1>1, <1>2, <1>3, <1>4 DEF Good

-----------------------------------------------------------------------------
(* A timeout starts the timer again or closes the connection.              *)
LEMMA FinalTimeoutStops ==
  ASSUME NEW w, Rec(w)
  PROVE  Stopped(FinalTimeout(w))
BY SendCloseKeeps, ClosedStops DEF FinalTimeout

LEMMA SubTimeoutRuns ==
  ASSUME NEW w, Rec(w), w.c.state \in Active
  PROVE  Running(SubTimeout(w))
<1>. DEFINE w1 == [w EXCEPT !.c.sendSeqNum = AckCode(w.c), !.c.retry = @ + 1, !.c.timer = TRUE]
            i  == w1.c.ackIndex
            w2 == [w1 EXCEPT !.c.frames[i].scon.con = 3,
                             !.c.frames[i].rcon.con = IF w.c.flow THEN 3 ELSE 2]
            f  == [Frame(w1.c, 0) EXCEPT !.scon.con = 3]
<1>1. Running(w1)
  BY DEF Running, Rec
<1>2. Running(w2)
  <2>. HIDE DEF w1
  <2>. QED
    BY <1>1 DEF Running, Rec
<1>3. SubTimeout(w) \in {SendOldest(w2), Emit(w1, f)}
  BY DEF SubTimeout
<1>. HIDE DEF w1, w2, f
<1>4. Running(SendOldest(w2))
  BY <1>2, SendKeeps DEF Running
<1>5. Running(Emit(w1, f))
  BY <1>1, EmitKeeps DEF Running
<1>. QED
  BY <1>3, <1>4, <1>5

LEMMA TimeoutEventGood ==
  ASSUME NEW w, Rec(w), w.c.state \in Active
  PROVE  Good(TimeoutEvent(w))
<1>. DEFINE w1 == IF w.c.flow THEN w ELSE [w EXCEPT !.c.inactive = @ + 1]
<1>1. Rec(w1) /\ w1.c.state \in Active
  BY DEF Rec
<1>2. TimeoutEvent(w) \in {SubTimeout(w1), FinalTimeout(w)}
  BY DEF TimeoutEvent
<1>. HIDE DEF w1
<1>. QED
  BY <1>1, <1>2, SubTimeoutRuns, FinalTimeoutStops DEF Good

-----------------------------------------------------------------------------
(* The steps.                                                              *)
Timed(c) == /\ {"state", "timer"} \subseteq DOMAIN c
            /\ \/ c.timer = TRUE /\ c.state \in Active
               \/ c.timer = FALSE /\ c.state = "Idle"
TimerInv == DOMAIN con = Peers /\ \A p \in Peers : Timed(con[p])

LEMMA FinishKeeps ==
  ASSUME TimerInv, NEW p \in Peers, NEW w, Good(w), Finish(p, w)
  PROVE  DOMAIN con' = Peers /\ \A q \in Peers : Timed(con'[q])
<1>1. Timed(w.c)
  BY DEF Good, Running, Stopped, Rec, Timed
<1>2. con' = [con EXCEPT ![p] = w.c]
  BY DEF Finish
<1>. QED
  BY <1>1, <1>2 DEF TimerInv

LEMMA WorkGood ==
  ASSUME TimerInv, NEW p \in Peers
  PROVE  /\ Good(Work(p)) /\ Good(Opened(p)) /\ Work(p).c = con[p]
         /\ Opened(p).c.state = con[p].state
         /\ con[p].state \in Active => Running(Work(p)) /\ Running(Opened(p))
<1>1. Work(p).c = con[p] /\ "c" \in DOMAIN Work(p) /\ Timed(con[p])
  BY DEF Work, TimerInv
<1>2. Good(Work(p))
  BY <1>1 DEF Good, Running, Stopped, Rec, Timed
<1>3. Same(Work(p), Opened(p))
  <2>. DEFINE w == Work(p)
  <2>. HIDE DEF w
  <2>1. Same(w, [w EXCEPT !.c.open = TRUE])
    BY <1>2 DEF w, Same, Good, Running, Stopped, Rec
  <2>. QED
    BY <2>1 DEF w, Opened
<1>. QED
  BY <1>1, <1>2, <1>3, ActiveFacts DEF Same, Good, Running, Stopped

LEMMA CommandTimed ==
  ASSUME TimerInv, NEW p \in Peers,
         \/ InitCon(p) \/ DeleteCon(p) \/ Restart(p) \/ \E ret \in Returns : Submit(p, ret)
  PROVE  TimerInv'
<1>1. SUFFICES \E w : Good(w) /\ Finish(p, w)
  BY FinishKeeps DEF TimerInv
<1>. DEFINE v == Work(p)
<1>2. Good(v) /\ Rec(v)
  BY WorkGood DEF Good, Running, Stopped
<1>. HIDE DEF v
<1>3. CASE InitCon(p)
  <2>. DEFINE w1 == [v EXCEPT !.c.open = TRUE, !.c.recvSeqNum = Byte(0, 1),
                              !.c.sendSeqNum = Byte(0, 0)]
              s1 == SendEmpty(w1)
              w2 == IF Full(w1) THEN w1
                    ELSE [s1 EXCEPT !.c.flow = FALSE, !.c.state = "Init1", !.c.timer = TRUE]
  <2>1. Good(w1) /\ Rec(w1)
    BY <1>2 DEF Good, Running, Stopped, Rec
  <2>2. Rec(s1)
    <3>. HIDE DEF w1
    <3>. QED
      BY <2>1, SendKeeps
  <2>3. Good(w2)
    <3>. HIDE DEF w1, s1
    <3>. QED
      BY <2>1, <2>2, ActiveFacts DEF Good, Running, Rec
  <2>4. Finish(p, w2)
    BY <1>3 DEF InitCon, v
  <2>. HIDE DEF w2
  <2>. QED
    BY <2>3, <2>4
<1>4. CASE DeleteCon(p)
  <2>. DEFINE w == IF con[p].state = "Connected" THEN SendClose(v) ELSE v
  <2>1. Good(Closed(w))
    BY <1>2, SendCloseKeeps, ClosedStops DEF Good
  <2>2. Finish(p, Closed(w))
    BY <1>4 DEF DeleteCon, v
  <2>. QED
    BY <2>1, <2>2
<1>5. CASE Restart(p)
  <2>. DEFINE w == [v EXCEPT !.c = FreshCon]
  <2>1. {"state", "timer"} \subseteq DOMAIN FreshCon /\ FreshCon.timer = FALSE
        /\ FreshCon.state = "Idle"
    BY DEF FreshCon, ClosedCon
  <2>2. Good(w)
    BY <1>2, <2>1 DEF Good, Stopped, Rec
  <2>3. Finish(p, w)
    BY <1>5 DEF Restart, v
  <2>. QED
    BY <2>2, <2>3
<1>6. CASE \E ret \in Returns : Submit(p, ret)
  <2>1. PICK ret \in Returns : Submit(p, ret)
    BY <1>6
  <2>2. Running(v)
    BY <2>1, WorkGood, ActiveFacts DEF Submit, v
  <2>3. Good(SendData(v, "data", ret))
    BY <2>2, SendDataRuns DEF Good, Replies
  <2>4. Finish(p, SendData(v, "data", ret))
    BY <2>1 DEF Submit, v
  <2>. QED
    BY <2>3, <2>4
<1>. QED
  BY <1>3, <1>4, <1>5, <1>6

LEMMA ReceiveTimed ==
  ASSUME TimerInv, NEW p \in Peers, ReceiveAny(p)
  PROVE  TimerInv'
<1>1. SUFFICES \E w : Good(w) /\ Finish(p, w)
  BY FinishKeeps DEF TimerInv
<1>. DEFINE v == Opened(p)
            f == Incoming(p)
<1>2. Good(v) /\ (con[p].state \in Active => Running(v))
  BY WorkGood
<1>. HIDE DEF v, f
<1>3. CASE ReceiveIdle(p)
  BY <1>2, <1>3, IdleRecGood DEF ReceiveIdle, Receive, v, f
<1>4. CASE ReceiveInit1(p)
  BY <1>2, <1>4, InitRecGood DEF ReceiveInit1, Receive, v, f
<1>5. ASSUME NEW deletes \in BOOLEAN, ReceiveInit2(p, deletes) \/ ReceiveInit3(p, deletes)
      PROVE  \E w : Good(w) /\ Finish(p, w)
  BY <1>2, <1>5, InitRecGood DEF ReceiveInit2, ReceiveInit3, Receive, v, f
<1>6. ASSUME NEW deletes \in BOOLEAN, NEW ret \in Returns, NEW reply \in Replies,
             ReceiveConnected(p, deletes, ret, reply)
      PROVE  \E w : Good(w) /\ Finish(p, w)
  <2>1. con[p].state = "Connected" /\ Finish(p, ConnectedRec(v, f, deletes, ret, reply))
    BY <1>6 DEF ReceiveConnected, Expecting, Receive, v, f
  <2>. QED
    BY <1>2, <2>1, ActiveFacts, ConnectedRecGood
<1>7. ASSUME NEW deletes \in BOOLEAN, NEW ret \in Returns, NEW reply \in Replies,
             NEW onAck \in {"none", "data"}, ReceiveWaitAck(p, deletes, ret, reply, onAck)
      PROVE  \E w : Good(w) /\ Finish(p, w)
  <2>1. con[p].state = "WaitAck" /\ Finish(p, WaitAckRec(v, f, deletes, ret, reply, onAck))
    BY <1>7 DEF ReceiveWaitAck, Expecting, Receive, v, f
  <2>2. onAck \in Replies
    BY <1>7 DEF Replies
  <2>. QED
    BY <1>2, <2>1, <2>2, ActiveFacts, WaitAckRecGood
<1>. QED
  BY <1>3, <1>4, <1>5, <1>6, <1>7 DEF ReceiveAny

LEMMA TimeoutTimed ==
  ASSUME TimerInv, NEW p \in Peers, Timeout(p)
  PROVE  TimerInv'
<1>1. SUFFICES \E w : Good(w) /\ Finish(p, w)
  BY FinishKeeps DEF TimerInv
<1>. DEFINE v == Work(p)
            w == [v EXCEPT !.c.timer = FALSE]
            r == CASE con[p].state = "Idle"       -> w
                   [] con[p].state \in InitStates -> FinalTimeout(w)
                   [] con[p].state = "Connected"  -> TimeoutEvent(w)
                   [] con[p].state = "WaitAck"    -> TimeoutEvent(RequestAck(w))
<1>2. con[p].state \in Active
  BY DEF Timeout, TimerInv, Timed
<1>3. Running(v) /\ v.c = con[p]
  BY <1>2, WorkGood
<1>. HIDE DEF v
<1>4. Rec(w) /\ w.c.state = con[p].state
  BY <1>3 DEF Running, Rec
<1>5. Finish(p, r)
  BY DEF Timeout, v
<1>. HIDE DEF w
<1>6. Rec(RequestAck(w)) /\ RequestAck(w).c.state = con[p].state
  BY <1>4 DEF RequestAck, Rec
<1>7. Good(FinalTimeout(w)) /\ Good(TimeoutEvent(w)) /\ Good(TimeoutEvent(RequestAck(w)))
  BY <1>2, <1>4, <1>6, FinalTimeoutStops, TimeoutEventGood DEF Good
<1>8. Good(r)
  BY <1>2, <1>7, ActiveFacts DEF InitStates
<1>. HIDE DEF r
<1>. QED
  BY <1>5, <1>8

(* The timer of every connection runs exactly while the connection is not  *)
(* Idle: every early return of the handlers of sdoseq.c, also those taken  *)
(* when the Tx buffer is full, leaves a running timer behind, so that no   *)
(* connection can hang.                                                    *)
THEOREM SpecNeverWithoutTimer == Spec => []NeverWithoutTimer
<1>1. Init => TimerInv
  BY DEF Init, TimerInv, Timed, FreshCon, ClosedCon
<1>2. TimerInv /\ [Next]_vars => TimerInv'
  <2>. SUFFICES ASSUME TimerInv, [Next]_vars PROVE TimerInv'
    OBVIOUS
  <2>1. CASE UNCHANGED vars
    BY <2>1 DEF vars, TimerInv, Timed
  <2>2. ASSUME NEW p \in Peers, Lose(p) PROVE TimerInv'
    BY <2>2 DEF Lose, TimerInv, Timed
  <2>. QED
    BY <2>1, <2>2, CommandTimed, ReceiveTimed, TimeoutTimed DEF Next
<1>3. TimerInv => NeverWithoutTimer
  BY ActiveFacts DEF TimerInv, Timed, NeverWithoutTimer
<1>. QED
  BY <1>1, <1>2, <1>3, PTL DEF Spec

-----------------------------------------------------------------------------
(* Order.  Every frame on its way gets a tag, which no frame of the program *)
(* has: of a data frame its payload, of an empty frame the last payload     *)
(* that was submitted when it was sent.  A number and a tag agree on where  *)
(* payload 0 would have been numbered; the tag says how often the number    *)
(* has wrapped around, and whether the frame is of this connection.         *)
Origin(n, t) == Rem(n - t, NumMod)

(* The partner, as a frame in front of those on their way to it: the number *)
(* that it has taken over last, once it is connected.                       *)
Heard(c) == [scon |-> Byte(c.sendSeqNum.num,
                           IF c.state \in {"Init2", "Init3"} THEN 1
                           ELSE IF Established(c) THEN 2 ELSE 0),
             rcon |-> Byte(0, 0), data |-> 0]

Valid == {2, 3}   \* the connection codes of an established connection

Sane(f, t) == /\ f.data # 0 => f.data = t /\ f.scon.con \in Valid
              /\ f.scon.con = 0 => f.rcon.con = 0

(* Frame g with tag u comes after frame f with tag t.                       *)
Follows(f, t, g, u) ==
  /\ g.data = 0 => t <= u
  /\ g.data # 0 => /\ t < u + HistorySize
                   /\ f.scon.con = 1 => t < u
                   /\ f.scon.con \in Valid /\ u <= t =>
                        Origin(g.scon.num, u) = Origin(f.scon.num, t)

(* Frame f with tag t was sent before the connection became c, with S       *)
(* payloads submitted.                                                      *)
Behind(f, t, c, S) ==
  /\ t <= S
  /\ Established(c) =>
       /\ f.scon.con = 1 => t <= S - Used(c)
       /\ f.scon.con \in Valid /\ S - Used(c) < t =>
            Origin(c.recvSeqNum.num, S) = Origin(f.scon.num, t)

Tagged(s, t, c, S) ==
  /\ Len(t) = Len(s)
  /\ \A i \in 1..Len(s) : Sane(s[i], t[i]) /\ Behind(s[i], t[i], c, S)
  /\ \A i, j \in 1..Len(s) : i < j => Follows(s[i], t[i], s[j], t[j])

Trail(s, c, S, r) == \E t \in Seq(Nat) : Tagged(s, t, c, S) /\ t[1] = r

(* The frames of the history are the last payloads submitted.               *)
Own(c, S) ==
  Established(c) =>
    /\ Used(c) <= S /\ c.recvSeqNum.con \in Valid
    /\ \A i \in 1..Used(c) : /\ c.frames[Slot(c, i - 1)].data = S - Used(c) + i
                             /\ c.frames[Slot(c, i - 1)].scon.con \in Valid

LEMMA FrameFields ==
  ASSUME NEW f \in Frames
  PROVE  /\ f.data \in Nat /\ f.scon.num \in Numbers /\ f.scon.num \in Int
         /\ f.scon.con \in 0 .. 3 /\ f.rcon.con \in 0 .. 3 /\ f.rcon.num \in Numbers
BY Sizes DEF Frames, Bytes

LEMMA HeardFrame ==
  ASSUME NEW c \in Connections
  PROVE  /\ Heard(c) \in Frames /\ Heard(c).data = 0 /\ Heard(c).rcon.con = 0
         /\ Heard(c).scon.num = c.sendSeqNum.num
         /\ Established(c) <=> Heard(c).scon.con = 2
         /\ Heard(c).scon.con = 1 <=> c.state \in {"Init2", "Init3"}
<1>1. c.sendSeqNum.num \in Numbers /\ 0 \in Numbers
  BY Sizes DEF Connections, Bytes
<1>. QED
  BY <1>1 DEF Heard, Frames, Bytes, Byte, Established

(* What was sent stays behind when the connection moves on.                 *)
LEMMA TrailMoves ==
  ASSUME NEW s \in Seq(Frames), NEW c, NEW S \in Nat, NEW r, Trail(s, c, S, r),
         NEW d, NEW T \in Nat,
         \A f \in Frames, t \in Nat : Behind(f, t, c, S) => Behind(f, t, d, T)
  PROVE  Trail(s, d, T, r)
<1>1. PICK t \in Seq(Nat) : Tagged(s, t, c, S) /\ t[1] = r
  BY DEF Trail
<1>2. \A i \in 1 .. Len(s) : s[i] \in Frames /\ t[i] \in Nat
  BY <1>1 DEF Tagged
<1>3. Tagged(s, t, d, T)
  BY <1>1, <1>2 DEF Tagged
<1>. QED
  BY <1>1, <1>3 DEF Trail

LEMMA TrailDown ==
  ASSUME NEW s \in Seq(Frames), NEW c, NEW S \in Nat, NEW r, Trail(s, c, S, r),
         NEW d, ~Established(d)
  PROVE  Trail(s, d, S, r)
BY TrailMoves DEF Behind

LEMMA TrailAlike ==
  ASSUME NEW s \in Seq(Frames), NEW c, NEW S \in Nat, NEW r, Trail(s, c, S, r),
         NEW d, Alike(c, d), Established(d) => Established(c)
  PROVE  Trail(s, d, S, r)
BY TrailMoves DEF Behind, Alike, Used

(* What may be sent now: it comes after everything that was sent before.    *)
Joins(f, u, c, S) ==
  /\ Sane(f, u) /\ Behind(f, u, c, S)
  /\ \A g \in Frames, t \in Nat : Behind(g, t, c, S) => Follows(g, t, f, u)

LEMMA Joined ==
  ASSUME NEW D, NEW s \in Seq(D), NEW z \in Seq(D)
  PROVE  /\ s \o z \in Seq(D) /\ Len(s \o z) = Len(s) + Len(z)
         /\ Len(s) \in Nat /\ Len(z) \in Nat
         /\ \A i \in 1 .. Len(s) : (s \o z)[i] = s[i] /\ s[i] \in D
         /\ \A i \in Len(s) + 1 .. Len(s) + Len(z) :
              /\ (s \o z)[i] = z[i - Len(s)] /\ z[i - Len(s)] \in D
              /\ i - Len(s) \in 1 .. Len(z)
OBVIOUS

LEMMA Extended ==
  ASSUME NEW s \in Seq(Frames), s # << >>, NEW c, NEW S \in Nat, NEW r, Trail(s, c, S, r),
         NEW z \in Seq(Frames), NEW y \in Seq(Nat), Len(y) = Len(z),
         \A i \in 1 .. Len(z) : Joins(z[i], y[i], c, S)
  PROVE  Trail(s \o z, c, S, r)
<1>1. PICK t \in Seq(Nat) : Tagged(s, t, c, S) /\ t[1] = r
  BY DEF Trail
<1>. DEFINE a == s \o z
            b == t \o y
            n == Len(s)
            m == Len(z)
<1>2. /\ Len(t) = n /\ n \in Nat /\ n >= 1 /\ m \in Nat
      /\ a \in Seq(Frames) /\ b \in Seq(Nat) /\ Len(a) = n + m /\ Len(b) = n + m
  <2>1. Len(t) = n
    BY <1>1 DEF Tagged
  <2>2. n >= 1
    OBVIOUS
  <2>3. a \in Seq(Frames) /\ Len(a) = n + m /\ n \in Nat /\ m \in Nat
    BY Joined
  <2>4. b \in Seq(Nat) /\ Len(b) = Len(t) + Len(y)
    BY Joined
  <2>. HIDE DEF a, b, n
  <2>. QED
    BY <2>1, <2>2, <2>3, <2>4
<1>3. ASSUME NEW i \in 1 .. n
      PROVE  a[i] = s[i] /\ b[i] = t[i] /\ s[i] \in Frames /\ t[i] \in Nat
  BY <1>1, <1>2, Joined
<1>4. ASSUME NEW i \in n + 1 .. n + m
      PROVE  /\ a[i] = z[i - n] /\ b[i] = y[i - n] /\ i - n \in 1 .. m
             /\ z[i - n] \in Frames /\ y[i - n] \in Nat
  BY SMTT(30), <1>1, <1>2, Joined
<1>. HIDE DEF a, b, n, m
<1>5. ASSUME NEW i \in 1 .. n + m
      PROVE  Sane(a[i], b[i]) /\ Behind(a[i], b[i], c, S) /\ a[i] \in Frames /\ b[i] \in Nat
  <2>1. CASE i \in 1 .. n
    BY <1>1, <1>3, <2>1 DEF Tagged, n
  <2>2. CASE i \in n + 1 .. n + m
    <3>1. Joins(z[i - n], y[i - n], c, S)
      BY <1>4, <2>2 DEF m
    <3>. QED
      BY <1>4, <2>2, <3>1 DEF Joins
  <2>. QED
    BY <1>2, <2>1, <2>2
<1>6. ASSUME NEW i \in 1 .. n + m, NEW j \in 1 .. n + m, i < j
      PROVE  Follows(a[i], b[i], a[j], b[j])
  <2>1. CASE j \in 1 .. n
    <3>1. i \in 1 .. n
      BY <1>2, <1>6, <2>1
    <3>. QED
      BY <1>1, <1>3, <1>6, <2>1, <3>1 DEF Tagged, n
  <2>2. CASE j \in n + 1 .. n + m
    <3>1. Joins(z[j - n], y[j - n], c, S)
      BY <1>4, <2>2 DEF m
    <3>. QED
      BY <1>4, <1>5, <2>2, <3>1 DEF Joins
  <2>. QED
    BY <1>2, <2>1, <2>2
<1>7. Tagged(a, b, c, S)
  BY <1>2, <1>5, <1>6 DEF Tagged
<1>8. b[1] = r
  <2>1. 1 \in 1 .. n
    BY <1>2
  <2>. QED
    BY <1>1, <1>3, <2>1
<1>. QED
  BY <1>2, <1>7, <1>8 DEF Trail, a

(* An empty frame.                                                          *)
LEMMA EmptyJoins ==
  ASSUME NEW c \in Connections, NEW S \in Nat, NEW f \in Frames, f.data = 0,
         f.scon.con = 0 => f.rcon.con = 0,
         Established(c) => \/ f.scon.con = 0
                           \/ f.scon.con \in Valid /\ f.scon.num = c.recvSeqNum.num
  PROVE  Joins(f, S, c, S)
<1>1. Sane(f, S)
  BY DEF Sane
<1>2. Behind(f, S, c, S)
  BY DEF Behind, Valid
<1>3. \A g \in Frames, t \in Nat : Behind(g, t, c, S) => Follows(g, t, f, S)
  BY DEF Behind, Follows
<1>. QED
  BY <1>1, <1>2, <1>3 DEF Joins

(* A frame of the history, whenever it is sent.                             *)
LEMMA HistoryJoins ==
  ASSUME NEW c \in Connections, Ring(c), Established(c), NEW S \in Nat, Own(c, S),
         NEW i \in 1 .. Used(c), NEW f, f = c.frames[Slot(c, i - 1)],
         NEW u, u = S - Used(c) + i
  PROVE  Joins(f, u, c, S) /\ u \in Nat /\ f \in Frames
<1>. DEFINE U == Used(c)
            a == c.recvSeqNum.num - U + i
            x == Rem(a, NumMod) - u
            y == c.recvSeqNum.num - S
<1>1. /\ U \in 0 .. HistorySize /\ U <= S /\ i \in 1 .. U /\ i \in Int /\ U \in Int
      /\ c.recvSeqNum.num \in Int /\ HistorySize \in Int /\ U <= HistorySize
  BY Parts, Sizes DEF Own
<1>2. f \in Frames /\ f.data = u /\ f.scon.con \in Valid /\ f.scon.num = Rem(a, NumMod)
  BY <1>1, SlotFacts DEF Own, Ring
<1>. HIDE DEF U
<1>3. u \in Nat /\ u # 0 /\ u > S - U /\ u <= S /\ u = S - U + i
  BY <1>1 DEF U
<1>4. Origin(f.scon.num, u) = Origin(c.recvSeqNum.num, S)
  <2>1. a \in Int /\ NumMod \in Nat \ {0}
    BY <1>1, Sizes
  <2>2. Rem(a, NumMod) \in Int
    <3>. HIDE DEF a
    <3>. QED
      BY <2>1, RemFacts
  <2>3. x \in Int /\ y \in Int /\ x - y = Rem(a, NumMod) - a
    BY <1>1, <1>3, <2>1, <2>2
  <2>4. Rem(x, NumMod) = Rem(y, NumMod)
    <3>. HIDE DEF a, x, y
    <3>. QED
      BY <2>1, <2>3, RemShift
  <2>. QED
    BY <1>2, <2>4 DEF Origin
<1>5. Sane(f, u)
  BY <1>2, <1>3 DEF Sane, Valid
<1>6. Behind(f, u, c, S)
  BY <1>2, <1>3, <1>4 DEF Behind, Valid
<1>7. ASSUME NEW g \in Frames, NEW t \in Nat, Behind(g, t, c, S)
      PROVE  Follows(g, t, f, u)
  <2>1. f.data # 0 /\ t <= S
    BY <1>2, <1>3, <1>7 DEF Behind
  <2>2. t < u + HistorySize
    BY <1>1, <1>3, <2>1
  <2>3. g.scon.con = 1 => t < u
    BY <1>1, <1>3, <1>7 DEF Behind, U
  <2>4. g.scon.con \in Valid /\ u <= t => Origin(f.scon.num, u) = Origin(g.scon.num, t)
    BY <1>1, <1>3, <1>4, <1>7 DEF Behind, U
  <2>. QED
    BY <2>1, <2>2, <2>3, <2>4 DEF Follows
<1>. QED
  BY <1>2, <1>3, <1>5, <1>6, <1>7 DEF Joins

(* A new connection has sent nothing that waits for its acknowledgement.    *)
LEMMA TrailConnects ==
  ASSUME NEW s \in Seq(Frames), NEW c, NEW S \in Nat, NEW r, Trail(s, c, S, r),
         NEW d, Used(d) = 0
  PROVE  Trail(s, d, S, r)
<1>1. \A f \in Frames, t \in Nat : Behind(f, t, c, S) => Behind(f, t, d, S)
  BY DEF Behind
<1>. QED
  BY <1>1, TrailMoves

(* Own, of connections with the same history.                               *)
LEMMA OwnAlike ==
  ASSUME NEW c \in Connections, NEW S, Own(c, S), NEW d, Alike(c, d),
         Established(d) => Established(c) /\ d.recvSeqNum.con \in Valid,
         \A i \in Slots : /\ d.frames[i].data = c.frames[i].data
                          /\ d.frames[i].scon.con \in Valid \cup {c.frames[i].scon.con}
  PROVE  Own(d, S)
<1>1. Used(d) = Used(c) /\ \A i \in Int : Slot(d, i) = Slot(c, i)
  BY DEF Alike, Used, Slot
<1>2. SUFFICES ASSUME Established(d), NEW i \in 1 .. Used(d)
               PROVE  /\ d.frames[Slot(d, i - 1)].data = S - Used(d) + i
                      /\ d.frames[Slot(d, i - 1)].scon.con \in Valid
  BY <1>1 DEF Own
<1>3. i - 1 \in Int /\ i \in 1 .. Used(c)
  BY <1>1, Parts, Sizes
<1>4. Slot(c, i - 1) \in Slots /\ Slot(d, i - 1) = Slot(c, i - 1)
  BY <1>1, <1>3, SlotFacts
<1>. QED
  BY <1>1, <1>2, <1>3, <1>4 DEF Own

(* An acknowledgement changes nothing, or releases the k oldest frames.     *)
LEMMA AckedForm ==
  ASSUME NEW c \in Connections, Ring(c), NEW n \in Numbers
  PROVE  \/ DeleteAcked(c, n) = c
         \/ \E k \in 1 .. Used(c) :
              DeleteAcked(c, n) = [c EXCEPT !.free = @ + k, !.ackIndex = Slot(c, k)]
<1>. DEFINE U == Used(c)
            a == n - (c.recvSeqNum.num - U + 1)
            e == Rem(a, NumMod)
            k == IF e + 1 <= U THEN e + 1 ELSE U
<1>1. /\ U \in 0 .. HistorySize /\ U = HistorySize - c.free /\ c.free \in 0 .. HistorySize
      /\ a \in Int /\ HistorySize \in Int /\ Threshold \in Int
  BY Parts, Sizes
<1>2. e \in Int
  <2>. HIDE DEF a
  <2>. QED
    BY <1>1, Sizes, RemFacts
<1>3. CASE U = 0
  <2>1. c.free = HistorySize
    BY <1>1, <1>3
  <2>. QED
    BY <2>1 DEF DeleteAcked
<1>4. CASE U >= 1 /\ e >= Threshold
  BY <1>4, NothingAcked
<1>5. CASE U >= 1 /\ e < Threshold
  <2>1. /\ k \in 1 .. U
        /\ DeleteAcked(c, n) = [c EXCEPT !.free = @ + k, !.ackIndex = Slot(c, k)]
    BY <1>5, SomeAcked
  <2>. HIDE DEF k
  <2>. QED
    BY <2>1
<1>. HIDE DEF U, a, e, k
<1>6. U = 0 \/ (U >= 1 /\ e >= Threshold) \/ (U >= 1 /\ e < Threshold)
  BY <1>1, <1>2
<1>. QED
  BY <1>3, <1>4, <1>5, <1>6

LEMMA Acknowledged ==
  ASSUME NEW c \in Connections, Ring(c), Established(c), NEW n \in Numbers,
         NEW S \in Nat, Own(c, S), NEW d, d = DeleteAcked(c, n)
  PROVE  /\ Own(d, S) /\ d.sendSeqNum = c.sendSeqNum
         /\ \A f \in Frames, t \in Nat : Behind(f, t, c, S) => Behind(f, t, d, S)
<1>1. CASE d = c
  BY <1>1
<1>2. ASSUME NEW k \in 1 .. Used(c),
             d = [c EXCEPT !.free = @ + k, !.ackIndex = Slot(c, k)]
      PROVE  /\ Own(d, S) /\ d.sendSeqNum = c.sendSeqNum
             /\ \A f \in Frames, t \in Nat : Behind(f, t, c, S) => Behind(f, t, d, S)
  <2>. DEFINE U == Used(c)
              a == c.ackIndex + k
  <2>1. /\ U \in 0 .. HistorySize /\ U = HistorySize - c.free /\ c.free \in 0 .. HistorySize
        /\ HistorySize \in Int /\ c.free \in Int /\ k \in Int /\ U \in Int /\ k \in 0 .. U
        /\ c.ackIndex \in Int /\ a \in Int /\ U <= S
    BY Parts, Sizes DEF Own
  <2>2. /\ d \in Connections /\ d.free = c.free + k /\ d.ackIndex = Slot(c, k)
        /\ d.state = c.state /\ d.recvSeqNum = c.recvSeqNum /\ d.frames = c.frames
        /\ d.sendSeqNum = c.sendSeqNum
    <3>1. Slot(c, k) \in Slots /\ c.free + k \in 0 .. HistorySize
      BY <2>1, SlotFacts
    <3>. QED
      BY <1>2, <3>1 DEF Connections
  <2>3. Used(d) = U - k
    BY <2>1, <2>2 DEF Used
  <2>4. d.ackIndex = Rem(a, HistorySize)
    BY <2>2 DEF Slot, Rem
  <2>5. ASSUME NEW i \in 1 .. Used(d)
        PROVE  /\ d.frames[Slot(d, i - 1)].data = S - Used(d) + i
               /\ d.frames[Slot(d, i - 1)].scon.con \in Valid
    <3>. DEFINE j == k + i
                t == d.ackIndex + (i - 1)
                u == c.ackIndex + (j - 1)
    <3>1. i \in Int /\ j \in 1 .. U /\ S - Used(d) + i = S - U + j /\ d.ackIndex \in Int
      <4>1. d.ackIndex \in Int
        BY <2>2, Parts, Sizes
      <4>. HIDE DEF U
      <4>. QED
        BY <2>1, <2>3, <4>1
    <3>2. t \in Int /\ u \in Int /\ t - u = Rem(a, HistorySize) - a
      BY <2>1, <2>4, <3>1
    <3>. HIDE DEF t, u, a
    <3>3. Rem(t, HistorySize) = Rem(u, HistorySize)
      BY <2>1, <3>2, Sizes, RemShift
    <3>4. Slot(d, i - 1) = Slot(c, j - 1)
      <4>. HIDE DEF j
      <4>. QED
        BY <3>3 DEF t, u, Slot, Rem
    <3>. HIDE DEF j
    <3>. QED
      BY <2>2, <3>1, <3>4 DEF Own
  <2>6. Own(d, S)
    BY <2>1, <2>2, <2>3, <2>5 DEF Own, Established
  <2>7. ASSUME NEW f \in Frames, NEW t \in Nat, Behind(f, t, c, S)
        PROVE  Behind(f, t, d, S)
    <3>1. Established(d) /\ S - U < S - Used(d)
      BY <2>1, <2>2, <2>3 DEF Established
    <3>2. S - U \in Int /\ S - Used(d) \in Int /\ t \in Int
      BY <2>1, <2>3
    <3>. QED
      BY <1>2, <2>2, <2>7, <3>1, <3>2 DEF Behind
  <2>. QED
    BY <2>2, <2>6, <2>7
<1>. QED
  BY <1>1, <1>2, AckedForm

(* A frame is added to the history with the next number and payload.        *)
LEMMA AppendedOwn ==
  ASSUME NEW c \in Connections, Ring(c), Established(c), c.free >= 1,
         NEW S \in Nat, Own(c, S),
         NEW c1 \in Connections, c1.recvSeqNum.num = NextNum(c.recvSeqNum.num),
         c1.recvSeqNum.con \in Valid,
         c1.frames = c.frames, c1.free = c.free, c1.writeIndex = c.writeIndex,
         c1.ackIndex = c.ackIndex, c1.state = c.state, c1.sendSeqNum = c.sendSeqNum,
         NEW f \in Frames, f.data = S + 1, f.scon = c1.recvSeqNum,
         NEW d, d = AddToHistory(c1, f)
  PROVE  /\ Own(d, S + 1) /\ d.sendSeqNum = c.sendSeqNum /\ d.recvSeqNum = c1.recvSeqNum
         /\ \A g \in Frames, t \in Nat : Behind(g, t, c, S) => Behind(g, t, d, S + 1)
<1>. DEFINE U == Used(c)
            rs == c.recvSeqNum.num
            a == rs + 1
            x == Rem(a, NumMod) - (S + 1)
            y == rs - S
<1>1. /\ U \in 0 .. HistorySize - 1 /\ U = HistorySize - c.free /\ c.free \in 1 .. HistorySize
      /\ HistorySize \in Int /\ U \in Int /\ rs \in Int /\ rs \in Numbers /\ U <= S
      /\ c.writeIndex \in Slots
  <2>1. /\ U \in 0 .. HistorySize /\ U = HistorySize - c.free /\ c.free \in 0 .. HistorySize
        /\ rs \in 0 .. NumMod - 1 /\ c.writeIndex \in 0 .. HistorySize - 1
    BY Parts
  <2>2. U <= S
    BY DEF Own
  <2>. HIDE DEF U, rs
  <2>. QED
    BY <2>1, <2>2, Sizes
<1>2. /\ d.free = c.free - 1 /\ d.ackIndex = c.ackIndex /\ d.state = c.state
      /\ d.frames = [c.frames EXCEPT ![c.writeIndex] = f]
      /\ d.sendSeqNum = c.sendSeqNum /\ d.recvSeqNum = c1.recvSeqNum
  BY DEF AddToHistory, Connections
<1>3. Used(d) = U + 1 /\ \A i \in Int : Slot(d, i) = Slot(c, i)
  BY <1>1, <1>2 DEF Used, Slot
<1>4. Slot(c, U) = c.writeIndex
  BY SlotOfWrite
<1>5. ASSUME NEW i \in 1 .. U
      PROVE  /\ d.frames[Slot(d, i - 1)].data = S - U + i
             /\ d.frames[Slot(d, i - 1)].scon.con \in Valid
  <2>1. i \in Int /\ i - 1 \in Int /\ U - (i - 1) \in 1 .. HistorySize - 1
    BY <1>1
  <2>2. Slot(c, i - 1) # Slot(c, U) /\ Slot(c, i - 1) \in Slots
    BY <1>1, <2>1, SlotsDiffer, SlotFacts
  <2>3. d.frames[Slot(d, i - 1)] = c.frames[Slot(c, i - 1)]
    BY <1>2, <1>3, <1>4, <2>1, <2>2, Parts
  <2>. QED
    BY <2>3 DEF Own
<1>6. d.frames[Slot(d, U)] = f
  BY <1>1, <1>2, <1>3, <1>4, Parts
<1>. DEFINE T == S + 1
<1>7. Own(d, T)
  <2>1. ASSUME NEW i \in 1 .. Used(d)
        PROVE  /\ d.frames[Slot(d, i - 1)].data = T - Used(d) + i
               /\ d.frames[Slot(d, i - 1)].scon.con \in Valid
    <3>0. f.data = T /\ f.scon.con \in Valid /\ T \in Nat
      OBVIOUS
    <3>. HIDE DEF U
    <3>1. T - Used(d) + i = S - U + i /\ (i \in 1 .. U \/ i = U + 1)
      BY <1>1, <1>3
    <3>2. CASE i \in 1 .. U
      <4>. HIDE DEF T
      <4>. QED
        BY <1>5, <3>1, <3>2
    <3>3. CASE i = U + 1
      <4>1. i - 1 = U /\ S - U + i = T
        BY <1>1, <3>3
      <4>. HIDE DEF T
      <4>. QED
        BY <1>6, <3>0, <3>1, <4>1
    <3>. QED
      BY <3>1, <3>2, <3>3
  <2>. HIDE DEF U
  <2>2. Used(d) <= T
    BY <1>1, <1>3
  <2>. HIDE DEF T
  <2>. QED
    BY <1>2, <2>1, <2>2 DEF Own
<1>8. Origin(d.recvSeqNum.num, T) = Origin(rs, S)
  <2>. HIDE DEF rs
  <2>0. NextNum(rs) = Rem(a, NumMod) /\ a \in Int /\ NumMod \in Nat \ {0}
    BY <1>1, NextIs, Sizes
  <2>1. d.recvSeqNum.num = Rem(a, NumMod)
    BY <1>2, <2>0 DEF rs
  <2>2. Rem(a, NumMod) \in Int
    <3>. HIDE DEF a
    <3>. QED
      BY <2>0, RemFacts
  <2>3. x \in Int /\ y \in Int /\ x - y = Rem(a, NumMod) - a
    BY <1>1, <2>0, <2>2
  <2>4. Rem(x, NumMod) = Rem(y, NumMod)
    <3>. HIDE DEF a, x, y
    <3>. QED
      BY <2>0, <2>3, RemShift
  <2>. QED
    BY <2>1, <2>4 DEF Origin
<1>9. ASSUME NEW g \in Frames, NEW t \in Nat, Behind(g, t, c, S)
      PROVE  Behind(g, t, d, T)
  <2>. HIDE DEF U
  <2>1. T - Used(d) = S - U /\ t <= T
    BY <1>1, <1>3, <1>9 DEF Behind
  <2>. HIDE DEF T
  <2>. QED
    BY <1>8, <1>9, <2>1 DEF Behind, U
<1>. QED
  BY <1>2, <1>7, <1>9

-----------------------------------------------------------------------------
(* The work record of a handler.  k.base is what was on its way before, in  *)
(* front of it the partner, with tag k.tag; n is the number taken over last *)
(* and g what the command layer has been handed.                            *)
Told(w, k) == /\ k.base \in Seq(Frames) /\ k.base # << >>
              /\ Trail(k.base \o w.out, w.c, w.last, k.tag)
On(w, k, n, g) == /\ Up(w, k.room) /\ Told(w, k) /\ Own(w.c, w.last)
                  /\ w.c.sendSeqNum.num = n /\ w.got = g
Off(w, k, g) == /\ Typed(w, k.room) /\ Told(w, k) /\ ~Established(w.c) /\ w.got = g

LEMMA Regroup ==
  ASSUME NEW D, NEW s \in Seq(D), NEW z \in Seq(D), NEW y \in Seq(D)
  PROVE  s \o (z \o y) = (s \o z) \o y
OBVIOUS

LEMMA AppendIs ==
  ASSUME NEW D, NEW s \in Seq(D), NEW f \in D
  PROVE  Append(s, f) = s \o << f >> /\ << f >> \in Seq(D) /\ Len(<< f >>) = 1 /\ << f >>[1] = f
OBVIOUS

LEMMA MoreTold ==
  ASSUME NEW room, NEW w, Typed(w, room), NEW k, Told(w, k),
         NEW z \in Seq(Frames), NEW y \in Seq(Nat), Len(y) = Len(z),
         \A i \in 1 .. Len(z) : Joins(z[i], y[i], w.c, w.last),
         NEW v, v = [w EXCEPT !.out = @ \o z]
  PROVE  Told(v, k) /\ v.c = w.c /\ v.last = w.last /\ v.got = w.got /\ v.room = w.room
<1>. DEFINE s == k.base \o w.out
<1>1. /\ w \in WorkType /\ w.out \in Seq(Frames) /\ w.last \in Nat
      /\ k.base \in Seq(Frames) /\ k.base # << >>
      /\ Trail(s, w.c, w.last, k.tag)
  BY WorkParts DEF Told
<1>2. s \in Seq(Frames) /\ s # << >>
  BY <1>1
<1>3. /\ v.c = w.c /\ v.last = w.last /\ v.got = w.got /\ v.room = w.room
      /\ v.out = w.out \o z
  BY <1>1 DEF WorkType
<1>4. k.base \o v.out = s \o z
  <2>. DEFINE a == k.base
              b == w.out
  <2>0. a \in Seq(Frames) /\ b \in Seq(Frames)
    BY <1>1
  <2>. HIDE DEF a, b
  <2>1. a \o (b \o z) = (a \o b) \o z
    BY SMTT(30), <2>0, Regroup
  <2>. QED
    BY <1>3, <2>1 DEF a, b
<1>. HIDE DEF s
<1>5. Trail(s \o z, w.c, w.last, k.tag)
  BY <1>1, <1>2, Extended
<1>. QED
  BY <1>1, <1>3, <1>4, <1>5 DEF Told

LEMMA EmitTold ==
  ASSUME NEW room, NEW w, Typed(w, room), NEW k, Told(w, k),
         NEW f \in Frames, NEW u \in Nat, Joins(f, u, w.c, w.last),
         NEW v, v = Emit(w, f)
  PROVE  Told(v, k) /\ v.c = w.c /\ v.last = w.last /\ v.got = w.got /\ v.room = w.room
<1>1. CASE Full(w)
  BY <1>1 DEF Emit
<1>2. CASE ~Full(w)
  <2>. DEFINE z == << f >>
              y == << u >>
  <2>1. /\ z \in Seq(Frames) /\ y \in Seq(Nat) /\ Len(y) = Len(z) /\ Len(z) = 1
        /\ z[1] = f /\ y[1] = u
    OBVIOUS
  <2>2. w.out \in Seq(Frames) /\ Append(w.out, f) = w.out \o z
    <3>1. w.out \in Seq(Frames)
      BY WorkParts
    <3>. QED
      BY <3>1, AppendIs
  <2>3. v = [w EXCEPT !.out = @ \o z]
    BY <1>2, <2>2 DEF Emit
  <2>. HIDE DEF z, y
  <2>4. \A i \in 1 .. Len(z) : Joins(z[i], y[i], w.c, w.last)
    BY <2>1
  <2>5. Told(v, k)
    BY <2>1, <2>3, <2>4, MoreTold
  <2>6. v.c = w.c /\ v.last = w.last /\ v.got = w.got /\ v.room = w.room
    BY <2>3, WorkParts DEF WorkType
  <2>. QED
    BY <2>5, <2>6
<1>. QED
  BY <1>1, <1>2

LEMMA SendOn ==
  ASSUME NEW w, NEW k, NEW n, NEW g, On(w, k, n, g)
  PROVE  /\ On(SendEmpty(w), k, n, g) /\ On(SendOldest(w), k, n, g)
         /\ On(SendWindow(w), k, n, g)
<1>. DEFINE c == w.c
            S == w.last
            U == Used(c)
<1>1. /\ Up(w, k.room) /\ Typed(w, k.room) /\ Told(w, k) /\ Own(c, S) /\ c.sendSeqNum.num = n
      /\ c \in Connections /\ Ring(c) /\ Established(c) /\ S \in Nat /\ w.got = g
  BY WorkParts DEF On, Up, Sound, SoundCon
<1>2. Up(SendEmpty(w), k.room) /\ Up(SendOldest(w), k.room) /\ Up(SendWindow(w), k.room)
  BY <1>1, SendKept DEF Kept
<1>3. U \in Nat
  BY <1>1, Parts, Sizes
<1>4. ASSUME NEW i \in 1 .. U
      PROVE  /\ c.frames[Slot(c, i - 1)] \in Frames /\ S - U + i \in Nat
             /\ Joins(c.frames[Slot(c, i - 1)], S - U + i, c, S)
  BY <1>1, HistoryJoins
<1>5. ASSUME NEW v, Told(v, k), v.c = c, v.last = S, v.got = g, Up(v, k.room)
      PROVE  On(v, k, n, g)
  BY <1>1, <1>5 DEF On
<1>6. On(SendEmpty(w), k, n, g)
  <2>. DEFINE f == Frame(c, 0)
  <2>1. f \in Frames /\ f.data = 0 /\ f.scon = c.recvSeqNum
    BY <1>1, FrameType DEF Frame
  <2>2. f.scon.con \in Valid /\ f.scon.con # 0
    BY <1>1, <2>1 DEF Own, Valid
  <2>3. SendEmpty(w) = Emit(w, f)
    BY DEF SendEmpty
  <2>. HIDE DEF f, c
  <2>4. Joins(f, S, c, S)
    BY <1>1, <2>1, <2>2, EmptyJoins
  <2>. QED
    BY <1>1, <1>2, <1>5, <2>1, <2>3, <2>4, EmitTold DEF c
<1>7. On(SendOldest(w), k, n, g)
  <2>1. CASE U = 0
    BY <1>1, <1>2, <1>5, <2>1 DEF SendOldest
  <2>2. CASE U # 0
    <3>. DEFINE f == c.frames[c.ackIndex]
                u == S - U + 1
    <3>1. 1 \in 1 .. U /\ 1 - 1 = 0
      BY <1>3, <2>2
    <3>2. Slot(c, 1 - 1) = c.ackIndex
      BY <1>1, <3>1, SlotZero
    <3>3. f \in Frames /\ u \in Nat /\ Joins(f, u, c, S)
      BY <1>4, <3>1, <3>2
    <3>4. SendOldest(w) = Emit(w, f)
      BY <2>2 DEF SendOldest
    <3>. HIDE DEF f, u, c
    <3>. QED
      BY <1>1, <1>2, <1>5, <3>3, <3>4, EmitTold DEF c
  <2>. QED
    BY <2>1, <2>2
<1>8. On(SendWindow(w), k, n, g)
  <2>. DEFINE h == Window(c)
              m == IF U <= w.room - Len(w.out) THEN U ELSE w.room - Len(w.out)
              z == SubSeq(h, 1, m)
              y == [i \in 1 .. m |-> S - U + i]
  <2>1. m \in 0 .. U
    <3>. HIDE DEF U
    <3>. QED
      BY <1>1, <1>3, WorkParts
  <2>2. h \in Seq(Frames) /\ Len(h) = U /\ \A i \in 1 .. U : h[i] = c.frames[Slot(c, i - 1)]
    <3>1. \A i \in 1 .. U : c.frames[Slot(c, i - 1)] \in Frames
      BY <1>4
    <3>. HIDE DEF U
    <3>2. h = [i \in 1 .. U |-> c.frames[Slot(c, i - 1)]]
      BY DEF Window, U
    <3>. HIDE DEF h
    <3>. QED
      BY <1>3, <3>1, <3>2
  <2>3. SendWindow(w) = [w EXCEPT !.out = @ \o z]
    BY DEF SendWindow
  <2>. HIDE DEF h, m
  <2>4. z \in Seq(Frames) /\ Len(z) = m /\ \A i \in 1 .. m : z[i] = h[i]
    <3>. HIDE DEF U
    <3>. QED
      BY <1>3, <2>1, <2>2
  <2>5. y \in Seq(Nat) /\ Len(y) = m /\ \A i \in 1 .. m : y[i] = S - U + i
    <3>1. m \in Nat /\ \A i \in 1 .. m : S - U + i \in Nat
      BY <1>3, <1>4, <2>1
    <3>. QED
      BY <3>1
  <2>. HIDE DEF z, y
  <2>6. ASSUME NEW i \in 1 .. Len(z) PROVE Joins(z[i], y[i], c, S)
    <3>1. i \in 1 .. U /\ i \in 1 .. m
      BY <1>3, <2>1, <2>4
    <3>. QED
      BY <1>4, <2>2, <2>4, <2>5, <3>1
  <2>6a. Len(y) = Len(z) /\ \A i \in 1 .. Len(z) : Joins(z[i], y[i], w.c, w.last)
    BY <1>1, <2>4, <2>5, <2>6
  <2>7. Told(SendWindow(w), k)
    <3>. DEFINE v == [w EXCEPT !.out = @ \o z]
    <3>1. Told(v, k)
      BY <1>1, <2>4, <2>5, <2>6a, MoreTold
    <3>. HIDE DEF v
    <3>. QED
      BY <2>3, <3>1 DEF v
  <2>8. SendWindow(w).c = c /\ SendWindow(w).last = S /\ SendWindow(w).got = g
    BY <1>1, <2>3, WorkParts DEF WorkType
  <2>. QED
    BY <1>2, <1>5, <2>7, <2>8
<1>. QED
  BY <1>6, <1>7, <1>8

(* The connection changes, and its history at most in the frames' codes.    *)
LEMMA PutOn ==
  ASSUME NEW w, NEW k, NEW n, NEW g, On(w, k, n, g),
         NEW d, Alike(w.c, d), d.state = w.c.state, d.recvSeqNum.con \in Valid,
         \A i \in Slots : /\ d.frames[i].data = w.c.frames[i].data
                          /\ d.frames[i].scon.con \in Valid \cup {w.c.frames[i].scon.con},
         NEW v, v = [w EXCEPT !.c = d]
  PROVE  On(v, k, d.sendSeqNum.num, g) /\ v.c = d
<1>1. /\ Up(w, k.room) /\ Typed(w, k.room) /\ Told(w, k) /\ Own(w.c, w.last)
      /\ w.c \in Connections /\ w.last \in Nat /\ w.got = g /\ d \in Connections
      /\ w.out \in Seq(Frames) /\ k.base \in Seq(Frames) /\ Established(w.c)
  BY WorkParts DEF On, Up, Sound, Told, Alike
<1>2. Up(v, k.room) /\ v.c = d
  BY <1>1, PutAlike DEF Kept
<1>3. v.out = w.out /\ v.last = w.last /\ v.got = w.got
  BY <1>1, PutCon
<1>4. Own(d, w.last)
  BY <1>1, OwnAlike
<1>5. Trail(k.base \o w.out, d, w.last, k.tag)
  <2>1. k.base \o w.out \in Seq(Frames)
    BY <1>1
  <2>. QED
    BY <1>1, <2>1, TrailAlike DEF Told
<1>6. Told(v, k)
  BY <1>1, <1>2, <1>3, <1>5 DEF Told
<1>. QED
  BY <1>1, <1>2, <1>3, <1>4, <1>6 DEF On

(* d is c with other timers, counters and flags, and other codes.           *)
Plain(c, d) == /\ Alike(c, d) /\ d.state = c.state /\ d.frames = c.frames
               /\ d.recvSeqNum.con \in Valid

LEMMA PutPlain ==
  ASSUME NEW w, NEW k, NEW n, NEW g, On(w, k, n, g), NEW d, Plain(w.c, d),
         NEW v, v = [w EXCEPT !.c = d]
  PROVE  On(v, k, d.sendSeqNum.num, g) /\ v.c = d
BY PutOn DEF Plain

LEMMA OnParts ==
  ASSUME NEW w, NEW k, NEW n, NEW g, On(w, k, n, g)
  PROVE  /\ w.c \in Connections /\ w \in WorkType /\ Typed(w, k.room) /\ Up(w, k.room)
         /\ w.c.recvSeqNum.con \in Valid /\ w.c.sendSeqNum.num = n /\ w.got = g
         /\ Ring(w.c) /\ Established(w.c) /\ w.last \in Nat /\ Told(w, k) /\ Own(w.c, w.last)
BY WorkParts DEF On, Up, Sound, SoundCon, Own

LEMMA AliveOn ==
  ASSUME NEW w, NEW k, NEW n, NEW g, On(w, k, n, g)
  PROVE  On(Alive(w), k, n, g)
<1>. DEFINE d == [w.c EXCEPT !.timer = TRUE, !.retry = 0]
<1>0. /\ w.c \in Connections /\ w \in WorkType /\ w.c.recvSeqNum.con \in Valid
      /\ w.c.sendSeqNum.num = n /\ 0 \in 0 .. RetryCount
  BY OnParts, BoundsAssumption
<1>1. Plain(w.c, d) /\ d.sendSeqNum.num = n
  <2>1. ASSUME NEW x \in BOOLEAN, NEW z \in 0 .. RetryCount
        PROVE  LET e == [w.c EXCEPT !.timer = x, !.retry = z]
               IN  Plain(w.c, e) /\ e.sendSeqNum = w.c.sendSeqNum
    BY <1>0 DEF Connections, Alike, Plain
  <2>. QED
    BY <1>0, <2>1
<1>2. Alive(w) = [w EXCEPT !.c = d]
  BY <1>0 DEF Alive, WorkType
<1>. HIDE DEF d
<1>. QED
  BY <1>1, <1>2, PutPlain

LEMMA FlagsOn ==
  ASSUME NEW w, NEW k, NEW n, NEW g, On(w, k, n, g), NEW ret
  PROVE  /\ On(Flow(w, ret), k, n, g) /\ Flow(w, ret).c.state = w.c.state
         /\ On([w EXCEPT !.c.inactive = 0], k, n, g)
         /\ On([w EXCEPT !.c.flow = FALSE, !.c.inactive = 0, !.c.timer = TRUE], k, n, g)
<1>0. /\ w.c \in Connections /\ w \in WorkType /\ w.c.recvSeqNum.con \in Valid
      /\ w.c.sendSeqNum.num = n /\ 0 \in 0 .. InactiveThld
  BY OnParts, BoundsAssumption
<1>1. ASSUME NEW x \in BOOLEAN, NEW y \in BOOLEAN, NEW z \in 0 .. InactiveThld
      PROVE  LET d == [w.c EXCEPT !.flow = x, !.inactive = z, !.timer = y]
             IN  Plain(w.c, d) /\ d.sendSeqNum = w.c.sendSeqNum /\ d.state = w.c.state
  BY <1>0 DEF Connections, Alike, Plain
<1>2. On([w EXCEPT !.c.flow = FALSE, !.c.inactive = 0, !.c.timer = TRUE], k, n, g)
  <2>. DEFINE d == [w.c EXCEPT !.flow = FALSE, !.inactive = 0, !.timer = TRUE]
  <2>1. Plain(w.c, d) /\ d.sendSeqNum.num = n
    BY <1>0, <1>1
  <2>2. [w EXCEPT !.c.flow = FALSE, !.c.inactive = 0, !.c.timer = TRUE] = [w EXCEPT !.c = d]
    BY <1>0 DEF WorkType
  <2>. HIDE DEF d
  <2>. QED
    BY <2>1, <2>2, PutPlain
<1>3. On([w EXCEPT !.c.inactive = 0], k, n, g)
  <2>. DEFINE d == [w.c EXCEPT !.inactive = 0]
  <2>1. ASSUME NEW z \in 0 .. InactiveThld
        PROVE  LET e == [w.c EXCEPT !.inactive = z]
               IN  Plain(w.c, e) /\ e.sendSeqNum = w.c.sendSeqNum
    BY <1>0 DEF Connections, Alike, Plain
  <2>2. Plain(w.c, d) /\ d.sendSeqNum.num = n
    BY <1>0, <2>1
  <2>3. [w EXCEPT !.c.inactive = 0] = [w EXCEPT !.c = d]
    BY <1>0 DEF WorkType
  <2>. HIDE DEF d
  <2>. QED
    BY <2>2, <2>3, PutPlain
<1>4. On(Flow(w, ret), k, n, g) /\ Flow(w, ret).c.state = w.c.state
  <2>. DEFINE b == ret = "busy"
              d == [w.c EXCEPT !.flow = b]
  <2>1. ASSUME NEW x \in BOOLEAN
        PROVE  LET e == [w.c EXCEPT !.flow = x]
               IN  /\ Plain(w.c, e) /\ e.sendSeqNum = w.c.sendSeqNum /\ e.state = w.c.state
                   /\ [w EXCEPT !.c.flow = x] = [w EXCEPT !.c = e]
    BY <1>0 DEF Connections, Alike, Plain, WorkType
  <2>2. b \in BOOLEAN /\ Flow(w, ret) = [w EXCEPT !.c.flow = b]
    BY DEF Flow
  <2>. HIDE DEF b
  <2>3. /\ Plain(w.c, d) /\ d.sendSeqNum.num = n /\ Flow(w, ret) = [w EXCEPT !.c = d]
        /\ d.state = w.c.state
    BY <1>0, <2>1, <2>2
  <2>. HIDE DEF d
  <2>4. On(Flow(w, ret), k, n, g) /\ Flow(w, ret).c = d
    BY <2>3, PutPlain
  <2>. QED
    BY <2>3, <2>4
<1>. QED
  BY <1>2, <1>3, <1>4

(* The sequence bytes, to codes of an established connection.               *)
LEMMA BytesOn ==
  ASSUME NEW w, NEW k, NEW n, NEW g, On(w, k, n, g)
  PROVE  /\ \A s \in Bytes : On([w EXCEPT !.c.sendSeqNum = s], k, s.num, g)
         /\ \A r \in Bytes : r.num = w.c.recvSeqNum.num /\ r.con \in Valid =>
              On([w EXCEPT !.c.recvSeqNum = r], k, n, g)
<1>0. /\ w.c \in Connections /\ w \in WorkType /\ w.c.recvSeqNum.con \in Valid
      /\ w.c.sendSeqNum.num = n
  BY OnParts
<1>1. ASSUME NEW s \in Bytes PROVE On([w EXCEPT !.c.sendSeqNum = s], k, s.num, g)
  <2>. DEFINE d == [w.c EXCEPT !.sendSeqNum = s]
  <2>1. Plain(w.c, d) /\ d.sendSeqNum = s
    BY <1>0 DEF Connections, Alike, Plain
  <2>2. [w EXCEPT !.c.sendSeqNum = s] = [w EXCEPT !.c = d]
    BY <1>0 DEF WorkType
  <2>. HIDE DEF d
  <2>. QED
    BY <2>1, <2>2, PutPlain
<1>2. ASSUME NEW r \in Bytes, r.num = w.c.recvSeqNum.num, r.con \in Valid
      PROVE  On([w EXCEPT !.c.recvSeqNum = r], k, n, g)
  <2>. DEFINE d == [w.c EXCEPT !.recvSeqNum = r]
  <2>1. Plain(w.c, d) /\ d.sendSeqNum = w.c.sendSeqNum
    BY <1>0, <1>2 DEF Connections, Alike, Plain
  <2>2. [w EXCEPT !.c.recvSeqNum = r] = [w EXCEPT !.c = d]
    BY <1>0 DEF WorkType
  <2>. HIDE DEF d
  <2>. QED
    BY <1>0, <2>1, <2>2, PutPlain
<1>. QED
  BY <1>1, <1>2

LEMMA CodesOn ==
  ASSUME NEW w, NEW k, NEW n, NEW g, On(w, k, n, g)
  PROVE  /\ On(RequestAck(w), k, n, g) /\ RequestAck(w).c.state = w.c.state
         /\ On([w EXCEPT !.c.sendSeqNum = AckCode(w.c)], k, n, g)
         /\ \A x \in 0 .. 3 : On([w EXCEPT !.c.sendSeqNum.con = x], k, n, g)
<1>0. /\ w.c \in Connections /\ w \in WorkType /\ w.c.sendSeqNum.num = n
  BY OnParts
<1>1. On(RequestAck(w), k, n, g) /\ RequestAck(w).c.state = w.c.state
  <2>. DEFINE r == [w.c.recvSeqNum EXCEPT !.con = 3]
  <2>1. r \in Bytes /\ r.num = w.c.recvSeqNum.num /\ r.con \in Valid
    BY <1>0 DEF Connections, Bytes, Valid
  <2>2. RequestAck(w) = [w EXCEPT !.c.recvSeqNum = r] /\ RequestAck(w).c.state = w.c.state
    BY <1>0 DEF RequestAck, WorkType, Connections
  <2>. HIDE DEF r
  <2>. QED
    BY <2>1, <2>2, BytesOn
<1>2. On([w EXCEPT !.c.sendSeqNum = AckCode(w.c)], k, n, g)
  <2>1. AckCode(w.c) \in Bytes /\ AckCode(w.c).num = n
    BY <1>0 DEF AckCode, Coded, Connections, Bytes
  <2>. QED
    BY <2>1, BytesOn
<1>3. ASSUME NEW x \in 0 .. 3 PROVE On([w EXCEPT !.c.sendSeqNum.con = x], k, n, g)
  <2>. DEFINE s == [w.c.sendSeqNum EXCEPT !.con = x]
  <2>1. s \in Bytes /\ s.num = n
    BY <1>0 DEF Connections, Bytes
  <2>2. [w EXCEPT !.c.sendSeqNum.con = x] = [w EXCEPT !.c.sendSeqNum = s]
    BY <1>0 DEF WorkType, Connections
  <2>. HIDE DEF s
  <2>. QED
    BY <2>1, <2>2, BytesOn
<1>. QED
  BY <1>1, <1>2, <1>3

LEMMA AnswersOn ==
  ASSUME NEW w, NEW k, NEW n, NEW g, On(w, k, n, g), NEW f
  PROVE  /\ On(ResendOldest(w, f), k, n, g) /\ On(AnswerAckRequest(w, f), k, n, g)
         /\ On(SendRetransmissionRequest(w), k, n, g)
<1>1. On(ResendOldest(w, f), k, n, g)
  BY SendOn DEF ResendOldest
<1>2. On(AnswerAckRequest(w, f), k, n, g)
  <2>. DEFINE v == [w EXCEPT !.c.sendSeqNum = AckCode(w.c)]
  <2>1. On(v, k, n, g)
    BY CodesOn
  <2>2. AnswerAckRequest(w, f) \in {w, SendEmpty(v)}
    BY DEF AnswerAckRequest
  <2>. HIDE DEF v
  <2>. QED
    BY <2>1, <2>2, SendOn
<1>3. On(SendRetransmissionRequest(w), k, n, g)
  <2>. DEFINE v == [w EXCEPT !.c.sendSeqNum.con = 3]
              u == SendEmpty(v)
  <2>0. 3 \in 0 .. 3 /\ 2 \in 0 .. 3
    OBVIOUS
  <2>1. On(v, k, n, g)
    BY <2>0, CodesOn
  <2>2. SendRetransmissionRequest(w) = [u EXCEPT !.c.sendSeqNum.con = 2]
    BY DEF SendRetransmissionRequest
  <2>. HIDE DEF v
  <2>3. On(u, k, n, g)
    BY <2>1, SendOn
  <2>. HIDE DEF u
  <2>4. \A x \in 0 .. 3 : On([u EXCEPT !.c.sendSeqNum.con = x], k, n, g)
    BY <2>3, CodesOn
  <2>. QED
    BY <2>0, <2>2, <2>4
<1>. QED
  BY <1>1, <1>2, <1>3

(* Data.                                                                    *)
LEMMA SendFrameOn ==
  ASSUME NEW w, NEW k, NEW n, NEW g, On(w, k, n, g), w.c.state = "Connected", NEW ret
  PROVE  On(SendFrame(w, ret), k, n, g)
<1>. DEFINE c  == w.c
            S  == w.last
            c1 == [c EXCEPT !.recvSeqNum.num = NextNum(@)]
            f  == Frame(c1, S + 1)
            c2 == AddToHistory(c1, f)
            st == IF c2.free <= 1 THEN "WaitAck" ELSE c2.state
            c3 == [c2 EXCEPT !.state = st]
            w3 == [w EXCEPT !.c = c3, !.last = @ + 1]
            v  == SendWindow(w3)
            T  == S + 1
<1>1. /\ Typed(w, k.room) /\ c \in Connections /\ Ring(c) /\ c.free >= Room /\ c.free >= 1
      /\ c.free \in Int /\ c.state = "Connected" /\ S \in Nat /\ Own(c, S) /\ Told(w, k)
      /\ Established(c) /\ c.sendSeqNum.num = n /\ w.got = g /\ w \in WorkType
      /\ c.recvSeqNum.con \in Valid
  <2>1. /\ Typed(w, k.room) /\ c \in Connections /\ Ring(c) /\ c.free >= Room /\ S \in Nat
        /\ Own(c, S) /\ Told(w, k) /\ Established(c) /\ c.sendSeqNum.num = n /\ w.got = g
        /\ w \in WorkType /\ c.recvSeqNum.con \in Valid
    BY OnParts DEF Up, Sound, SoundCon
  <2>. QED
    BY <2>1, Parts, RoomFacts
<1>2. /\ c1 \in Connections /\ c1.recvSeqNum.num = NextNum(c.recvSeqNum.num)
      /\ c1.recvSeqNum.con \in Valid /\ c1.sendSeqNum = c.sendSeqNum
      /\ c1.frames = c.frames /\ c1.free = c.free /\ c1.writeIndex = c.writeIndex
      /\ c1.ackIndex = c.ackIndex /\ c1.state = c.state
  <2>1. NextNum(c.recvSeqNum.num) \in Numbers
    BY <1>1, Parts, NextIs, Sizes
  <2>2. c1 = [c EXCEPT !.recvSeqNum.num = NextNum(c.recvSeqNum.num)]
    BY <1>1 DEF Connections, Bytes
  <2>. HIDE DEF c1
  <2>. QED
    BY <1>1, <2>1, <2>2 DEF Connections, Bytes
<1>3. T \in Nat /\ T = S + 1
  BY <1>1
<1>4. f \in Frames /\ f.data = T /\ f.scon = c1.recvSeqNum
  <2>. HIDE DEF c1
  <2>. QED
    BY <1>2, <1>3, FrameType DEF Frame
<1>6. SendFrame(w, ret) = IF c1.free = 0 THEN [w EXCEPT !.c = c1] ELSE Flow(v, ret)
  BY DEF SendFrame
<1>. HIDE DEF c1, f, c, S
<1>5. /\ c2 \in Connections /\ Ring(c2) /\ c2.free = c.free - 1 /\ c2.state = c.state
      /\ Own(c2, T) /\ c2.sendSeqNum = c.sendSeqNum /\ c2.recvSeqNum = c1.recvSeqNum
      /\ \A h \in Frames, t \in Nat : Behind(h, t, c, S) => Behind(h, t, c2, T)
  <2>1. f.scon.num = c1.recvSeqNum.num
    BY <1>4
  <2>2. c2 \in Connections /\ Ring(c2) /\ c2.free = c.free - 1 /\ c2.state = c.state
    BY <1>1, <1>2, <1>4, <2>1, Appended
  <2>3. /\ Own(c2, T) /\ c2.sendSeqNum = c.sendSeqNum /\ c2.recvSeqNum = c1.recvSeqNum
        /\ \A h \in Frames, t \in Nat : Behind(h, t, c, S) => Behind(h, t, c2, T)
    BY <1>1, <1>2, <1>4, AppendedOwn
  <2>. QED
    BY <2>2, <2>3
<1>. HIDE DEF c2, T
<1>7. /\ c3 \in Connections /\ c3.free = c.free - 1 /\ Established(c3)
      /\ Alike(c2, c3) /\ c3.frames = c2.frames /\ c3.sendSeqNum = c2.sendSeqNum
      /\ c3.recvSeqNum = c2.recvSeqNum /\ (c3.state = "Connected" => c2.free > 1)
  <2>1. st \in States /\ st \in {"WaitAck", "Connected"} /\ (st = "Connected" => ~(c2.free <= 1))
    BY <1>1, <1>5 DEF States
  <2>2. c2.free \in Int
    BY <1>1, <1>5
  <2>. HIDE DEF st
  <2>3. /\ c3 \in Connections /\ c3.state = st /\ Alike(c2, c3) /\ c3.frames = c2.frames
        /\ c3.sendSeqNum = c2.sendSeqNum /\ c3.recvSeqNum = c2.recvSeqNum
    BY <1>5, <2>1 DEF Connections, Alike
  <2>. QED
    BY <1>1, <1>5, <2>1, <2>2, <2>3 DEF Established, Alike
<1>. HIDE DEF c3
<1>8. SoundCon(c3)
  <2>1. Ring(c3)
    BY <1>5, <1>7, AlikeRing
  <2>. QED
    BY <1>1, <1>5, <1>7, <2>1, RoomFacts DEF SoundCon
<1>9. /\ w3.c = c3 /\ w3.last = T /\ w3.out = w.out /\ w3.got = g /\ w3.room = w.room
      /\ Typed(w3, k.room)
  BY <1>1, <1>3, <1>7 DEF Typed, WorkType, c, S
<1>10. Up(w3, k.room)
  BY <1>7, <1>8, <1>9 DEF Up, Sound
<1>11. Own(c3, T)
  BY <1>1, <1>2, <1>5, <1>7, OwnAlike DEF Established
<1>12. Told(w3, k)
  <2>1. k.base \in Seq(Frames) /\ k.base # << >> /\ Trail(k.base \o w.out, c, S, k.tag)
    BY <1>1 DEF Told, c, S
  <2>2. w.out \in Seq(Frames)
    BY <1>1 DEF WorkType
  <2>3. k.base \o w.out \in Seq(Frames)
    BY <2>1, <2>2
  <2>4. Trail(k.base \o w.out, c2, T, k.tag)
    <3>. DEFINE s == k.base \o w.out
    <3>. HIDE DEF s
    <3>. QED
      BY <1>1, <1>3, <1>5, <2>1, <2>3, TrailMoves DEF s
  <2>5. Trail(k.base \o w.out, c3, T, k.tag)
    <3>. DEFINE s == k.base \o w.out
    <3>1. Established(c2)
      BY <1>1, <1>5 DEF Established
    <3>. HIDE DEF s
    <3>. QED
      BY <1>3, <1>7, <2>3, <2>4, <3>1, TrailAlike DEF s
  <2>. QED
    BY <1>9, <2>1, <2>5 DEF Told
<1>13. On(w3, k, n, g)
  BY <1>1, <1>5, <1>7, <1>9, <1>10, <1>11, <1>12 DEF On
<1>. HIDE DEF w3
<1>14. On(Flow(v, ret), k, n, g)
  BY <1>13, SendOn, FlagsOn
<1>. QED
  BY <1>1, <1>2, <1>6, <1>14

LEMMA SendDataOn ==
  ASSUME NEW w, NEW k, NEW n, NEW g, On(w, k, n, g), NEW reply \in Replies, NEW ret
  PROVE  On(SendData(w, reply, ret), k, n, g)
<1>. DEFINE w1 == [w EXCEPT !.c.flow = FALSE, !.c.inactive = 0, !.c.timer = TRUE]
<1>1. On(w1, k, n, g)
  BY FlagsOn
<1>2. w1.c.state = w.c.state
  <2>. DEFINE d == [w.c EXCEPT !.flow = FALSE, !.inactive = 0, !.timer = TRUE]
  <2>1. w.c \in Connections /\ w \in WorkType
    BY OnParts
  <2>2. d.state = w.c.state
    BY <2>1 DEF Connections
  <2>3. w1.c = d
    BY <2>1 DEF WorkType
  <2>. QED
    BY <2>2, <2>3
<1>3. \/ SendData(w, reply, ret) = w
      \/ SendData(w, reply, ret) = SendEmpty(w1)
      \/ w.c.state = "Connected" /\ SendData(w, reply, ret) = SendFrame(w1, ret)
  BY DEF SendData, Replies
<1>. HIDE DEF w1
<1>. QED
  BY <1>1, <1>2, <1>3, SendOn, SendFrameOn

(* A frame is passed on and its number taken over, or, under flow control,  *)
(* neither.                                                                 *)
LEMMA DeliverOn ==
  ASSUME NEW w, NEW k, NEW n, NEW g, On(w, k, n, g), NEW f \in Frames, NEW ret,
         NEW reply \in Replies
  PROVE  LET v == Deliver(w, f, ret, reply)
         IN  On(v, k, n, g) \/ On(v, k, f.scon.num, Append(g, f.data))
<1>. DEFINE w1 == [w EXCEPT !.c.inactive = 0]
            s  == Byte(f.scon.num, f.scon.con - (f.scon.con % 2))
            h  == Append(g, f.data)
            w2 == [w1 EXCEPT !.c.sendSeqNum = s, !.got = Append(@, f.data)]
            u  == [w1 EXCEPT !.c.sendSeqNum = s]
            m  == f.scon.num
<1>1. On(w1, k, n, g)
  BY FlagsOn
<1>2. s \in Bytes /\ s.num = m /\ f.data \in Nat
  <2>1. f.scon.con \in 0 .. 3 /\ f.scon.num \in Numbers /\ f.data \in Nat
    BY DEF Frames, Bytes
  <2>2. f.scon.con - (f.scon.con % 2) \in 0 .. 3
    BY <2>1
  <2>. QED
    BY <2>1, <2>2 DEF Byte, Bytes
<1>3. Deliver(w, f, ret, reply) = IF w.c.flow THEN w1 ELSE Flow(SendData(w2, reply, ret), ret)
  BY DEF Deliver
<1>. HIDE DEF w1, s, m
<1>4. On(u, k, m, g)
  BY <1>1, <1>2, BytesOn
<1>5. w1 \in WorkType /\ w1.got = g /\ g \in Seq(Nat)
  BY <1>1, OnParts DEF WorkType
<1>6. w2 = [u EXCEPT !.got = h]
  BY <1>5 DEF WorkType
<1>7. h \in Seq(Nat)
  BY <1>2, <1>5
<1>. HIDE DEF w2, u, h
<1>8. On(w2, k, m, h)
  <2>1. /\ Typed(u, k.room) /\ u \in WorkType /\ Up(u, k.room) /\ Told(u, k)
        /\ Own(u.c, u.last) /\ u.c.sendSeqNum.num = m
    BY <1>4, OnParts
  <2>2. Typed(w2, k.room) /\ w2.c = u.c
    BY <1>6, <1>7, <2>1, PutGot
  <2>3. w2.out = u.out /\ w2.last = u.last /\ w2.got = h
    BY <1>6, <2>1 DEF WorkType
  <2>. QED
    BY <2>1, <2>2, <2>3 DEF On, Up, Sound, Told
<1>9. On(Flow(SendData(w2, reply, ret), ret), k, m, h)
  BY <1>8, SendDataOn, FlagsOn
<1>. QED
  BY <1>1, <1>3, <1>9 DEF m, h

(* Acknowledgements.                                                        *)
LEMMA AckedOn ==
  ASSUME NEW w, NEW k, NEW n, NEW g, On(w, k, n, g), NEW m \in Numbers,
         NEW v, v = [w EXCEPT !.c = DeleteAcked(w.c, m)]
  PROVE  On(v, k, n, g)
<1>. DEFINE d == DeleteAcked(w.c, m)
            s == k.base \o w.out
<1>1. /\ w.c \in Connections /\ w \in WorkType /\ Typed(w, k.room) /\ Up(w, k.room)
      /\ w.c.sendSeqNum.num = n /\ w.got = g /\ Ring(w.c) /\ Established(w.c)
      /\ w.last \in Nat /\ Told(w, k) /\ Own(w.c, w.last)
  BY OnParts
<1>2. Up(v, k.room)
  BY <1>1, AckedUp
<1>3. v.c = d /\ v.out = w.out /\ v.last = w.last /\ v.got = g
  BY <1>1 DEF WorkType
<1>4. /\ Own(d, w.last) /\ d.sendSeqNum = w.c.sendSeqNum
      /\ \A f \in Frames, t \in Nat : Behind(f, t, w.c, w.last) => Behind(f, t, d, w.last)
  BY <1>1, Acknowledged
<1>5. s \in Seq(Frames) /\ Trail(s, w.c, w.last, k.tag)
  BY <1>1 DEF Told, WorkType
<1>. HIDE DEF d, s
<1>6. Trail(s, d, w.last, k.tag)
  BY <1>1, <1>4, <1>5, TrailMoves
<1>7. Told(v, k)
  BY <1>1, <1>3, <1>6 DEF Told, s
<1>. QED
  BY <1>1, <1>2, <1>3, <1>4, <1>7 DEF On

LEMMA AgainConnected ==
  ASSUME NEW w, NEW k, NEW n, NEW g, On(w, k, n, g), w.c.free >= Room,
         NEW v, v = [w EXCEPT !.c.state = "Connected"]
  PROVE  On(v, k, n, g) /\ v.c.recvSeqNum = w.c.recvSeqNum
<1>. DEFINE c == w.c
            d == [c EXCEPT !.state = "Connected"]
            s == k.base \o w.out
<1>1. /\ c \in Connections /\ w \in WorkType /\ Typed(w, k.room) /\ Up(w, k.room)
      /\ c.sendSeqNum.num = n /\ w.got = g /\ Ring(c) /\ Established(c)
      /\ w.last \in Nat /\ Told(w, k) /\ Own(c, w.last) /\ c.recvSeqNum.con \in Valid
  BY OnParts
<1>2. /\ Alike(c, d) /\ d.state = "Connected" /\ d.frames = c.frames
      /\ d.sendSeqNum = c.sendSeqNum /\ d.recvSeqNum = c.recvSeqNum
  <2>. HIDE DEF c
  <2>1. "Connected" \in States
    BY DEF States
  <2>. QED
    BY <1>1, <2>1 DEF Connections, Alike
<1>3. v = [w EXCEPT !.c = d]
  BY <1>1 DEF WorkType
<1>4. c.free >= Room
  OBVIOUS
<1>. HIDE DEF c, d
<1>5. SoundCon(d) /\ d \in Connections /\ Established(d)
  <2>1. SoundCon(d)
    BY <1>1, <1>2, <1>4, RoomySound
  <2>. QED
    BY <1>2, <2>1 DEF Alike, Established
<1>6. Up(v, k.room) /\ v.c = d /\ v.out = w.out /\ v.last = w.last /\ v.got = g
  <2>1. v.c = d /\ v.out = w.out /\ v.last = w.last /\ v.got = w.got
    BY <1>1, <1>3 DEF WorkType
  <2>2. Sound(v, k.room)
    BY <1>1, <1>3, <1>5, PutCon
  <2>. QED
    BY <1>1, <1>5, <2>1, <2>2 DEF Up
<1>7. Own(d, w.last)
  BY <1>1, <1>2, OwnAlike
<1>8. s \in Seq(Frames) /\ Trail(s, c, w.last, k.tag)
  BY <1>1 DEF Told, WorkType, c
<1>. HIDE DEF s
<1>9. Trail(s, d, w.last, k.tag)
  BY <1>1, <1>2, <1>8, TrailAlike
<1>10. Told(v, k)
  BY <1>1, <1>6, <1>9 DEF Told, s
<1>. QED
  BY <1>1, <1>2, <1>6, <1>7, <1>10 DEF On, c

LEMMA AckReceivedOn ==
  ASSUME NEW w, NEW k, NEW n, NEW g, On(w, k, n, g), NEW m \in Numbers, HistoryAcked(w.c, m),
         NEW ret, NEW onAck \in Replies
  PROVE  On(AckReceived(w, m, ret, onAck), k, n, g)
<1>. DEFINE w1 == [w EXCEPT !.c = DeleteAcked(w.c, m)]
            r  == [w1.c.recvSeqNum EXCEPT !.con = 2]
            u  == [w1 EXCEPT !.c.recvSeqNum = r]
            w2 == [w1 EXCEPT !.c.recvSeqNum.con = 2, !.c.state = "Connected"]
<1>1. On(w1, k, n, g)
  BY AckedOn
<1>2. w1.c.free >= Room
  <2>1. w1.c = DeleteAcked(w.c, m)
    BY OnParts DEF WorkType
  <2>2. DeleteAcked(w.c, m).free >= Room
    BY OnParts, AckStep DEF Up, Sound
  <2>. QED
    BY <2>1, <2>2
<1>3. AckReceived(w, m, ret, onAck) = Flow(SendData(w2, onAck, ret), ret)
  BY DEF AckReceived
<1>. HIDE DEF w1
<1>4. w1 \in WorkType /\ w1.c \in Connections
  BY <1>1, OnParts
<1>5. r \in Bytes /\ r.num = w1.c.recvSeqNum.num /\ r.con \in Valid
  BY <1>4 DEF Connections, Bytes, Valid
<1>6. w2 = [u EXCEPT !.c.state = "Connected"] /\ u.c.free = w1.c.free
  <2>. DEFINE c == w1.c
  <2>1. [c EXCEPT !.recvSeqNum.con = 2, !.state = "Connected"]
          = [[c EXCEPT !.recvSeqNum = r] EXCEPT !.state = "Connected"]
    BY <1>4 DEF Connections
  <2>2. w2 = [w1 EXCEPT !.c = [c EXCEPT !.recvSeqNum.con = 2, !.state = "Connected"]]
    BY <1>4 DEF WorkType
  <2>. HIDE DEF r
  <2>3. /\ u = [w1 EXCEPT !.c = [c EXCEPT !.recvSeqNum = r]]
        /\ u.c = [c EXCEPT !.recvSeqNum = r] /\ u.c.free = c.free
    BY <1>4 DEF WorkType, Connections
  <2>. HIDE DEF u, c, w2
  <2>4. [u EXCEPT !.c.state = "Connected"]
          = [w1 EXCEPT !.c = [[c EXCEPT !.recvSeqNum = r] EXCEPT !.state = "Connected"]]
    BY <1>4, <2>3 DEF WorkType
  <2>. QED
    BY <2>1, <2>2, <2>3, <2>4 DEF c
<1>. HIDE DEF r
<1>7. On(u, k, n, g)
  BY <1>1, <1>5, BytesOn
<1>. HIDE DEF u, w2
<1>8. On(w2, k, n, g)
  BY <1>2, <1>6, <1>7, AgainConnected
<1>. QED
  <2>1. On(SendData(w2, onAck, ret), k, n, g)
    BY <1>8, SendDataOn
  <2>2. On(Flow(SendData(w2, onAck, ret), ret), k, n, g)
    BY <2>1, FlagsOn
  <2>. QED
    BY <1>3, <2>2

-----------------------------------------------------------------------------
(* The handlers of an established connection.  Unless the connection ends,  *)
(* the number is as before, or the frame was the next one and is passed on. *)
Heeds(f, k, n, g, v) ==
  \/ On(v, k, n, g)
  \/ /\ f.scon.con \in Valid /\ f.scon.num = NextNum(n)
     /\ On(v, k, f.scon.num, Append(g, f.data))

LEMMA ExpectedIs ==
  ASSUME NEW w, NEW k, NEW n, NEW g, On(w, k, n, g), NEW f
  PROVE  Expected(w.c, f) <=> f.scon.num = NextNum(n)
BY OnParts DEF Expected

LEMMA DeliverHeeds ==
  ASSUME NEW w, NEW k, NEW n, NEW g, On(w, k, n, g), NEW f \in Frames, Expected(w.c, f),
         f.scon.con \in Valid, NEW ret, NEW reply \in Replies
  PROVE  Heeds(f, k, n, g, Deliver(w, f, ret, reply))
BY DeliverOn, ExpectedIs DEF Heeds

LEMMA ConnectedRecOn ==
  ASSUME NEW w, NEW k, NEW n, NEW g, On(w, k, n, g), NEW f \in Frames,
         NEW deletes, NEW ret, NEW reply \in Replies,
         NEW v, v = ConnectedRec(w, f, deletes, ret, reply)
  PROVE  \/ v = Closed(w)
         \/ f.scon.con = 1 /\ v = Reinit(w, f, deletes)
         \/ Heeds(f, k, n, g, v)
<1>. DEFINE m  == f.rcon.num
            w1 == IF AckValid(w.c, m) \/ HistoryAcked(w.c, m) THEN Alive(w) ELSE w
            w2 == [w1 EXCEPT !.c = DeleteAcked(w1.c, m)]
            w3 == IF f.rcon.con = 3 THEN SendWindow(Alive(w2)) ELSE w2
            w4 == ResendOldest(w3, f)
            e  == Deliver(w4, f, ret, reply)
<1>1. On(w1, k, n, g)
  BY AliveOn
<1>2. On(w2, k, n, g)
  <2>1. m \in Numbers
    BY FrameParts
  <2>. HIDE DEF w1, m
  <2>. QED
    BY <1>1, <2>1, AckedOn
<1>3. On(w3, k, n, g)
  <2>. HIDE DEF w2
  <2>. QED
    BY <1>2, AliveOn, SendOn
<1>4. On(w4, k, n, g)
  <2>. HIDE DEF w3
  <2>. QED
    BY <1>3, AnswersOn
<1>5. v = CASE f.scon.con = 0 -> Closed(w)
            [] f.scon.con = 1 -> Reinit(w, f, deletes)
            [] f.scon.con \in {2, 3} /\ Expected(w4.c, f) -> AnswerAckRequest(e, f)
            [] f.scon.con \in {2, 3} /\ ~Expected(w4.c, f) /\ Skipped(w4.c, f) ->
                   SendRetransmissionRequest(w4)
            [] OTHER -> AnswerAckRequest(w4, f)
  BY DEF ConnectedRec
<1>. HIDE DEF w4, e
<1>5a. \/ v = Closed(w)
       \/ f.scon.con = 1 /\ v = Reinit(w, f, deletes)
       \/ f.scon.con \in Valid /\ Expected(w4.c, f) /\ v = AnswerAckRequest(e, f)
       \/ v = SendRetransmissionRequest(w4)
       \/ v = AnswerAckRequest(w4, f)
  BY <1>5 DEF Valid
<1>6. On(SendRetransmissionRequest(w4), k, n, g) /\ On(AnswerAckRequest(w4, f), k, n, g)
  BY <1>4, AnswersOn
<1>7. f.scon.con \in Valid /\ Expected(w4.c, f) => Heeds(f, k, n, g, AnswerAckRequest(e, f))
  <2>1. f.scon.con \in Valid /\ Expected(w4.c, f) => Heeds(f, k, n, g, e)
    BY <1>4, DeliverHeeds DEF e
  <2>. QED
    BY <2>1, AnswersOn DEF Heeds
<1>. QED
  BY <1>5a, <1>6, <1>7 DEF Heeds

LEMMA WaitAckValidOn ==
  ASSUME NEW w, NEW k, NEW n, NEW g, On(w, k, n, g), NEW f \in Frames, f.scon.con \in Valid,
         NEW ret, NEW reply \in Replies, NEW onAck \in Replies
  PROVE  Heeds(f, k, n, g, WaitAckValid(w, f, ret, reply, onAck))
<1>. DEFINE acked == HistoryAcked(w.c, f.rcon.num)
            w1 == IF acked THEN AckReceived(Alive(w), f.rcon.num, ret, onAck) ELSE w
            w2 == IF Expected(w1.c, f) THEN Deliver(w1, f, ret, reply) ELSE w1
<1>1. On(w1, k, n, g)
  <2>. DEFINE v == Alive(w)
              m == f.rcon.num
  <2>1. On(v, k, n, g) /\ m \in Numbers
    BY AliveOn, FrameParts
  <2>2. HistoryAcked(w.c, m) => HistoryAcked(v.c, m)
    BY OnParts DEF HistoryAcked, Alive, WorkType, Connections
  <2>. HIDE DEF v, m
  <2>3. HistoryAcked(w.c, m) => On(AckReceived(v, m, ret, onAck), k, n, g)
    BY <2>1, <2>2, AckReceivedOn
  <2>. QED
    BY <2>3 DEF v, m
<1>2. Heeds(f, k, n, g, w2)
  <2>. HIDE DEF w1
  <2>. QED
    BY <1>1, DeliverHeeds DEF Heeds
<1>3. WaitAckValid(w, f, ret, reply, onAck) \in {w1, w2, ResendOldest(w2, f)}
  BY DEF WaitAckValid
<1>. HIDE DEF w1, w2
<1>4. Heeds(f, k, n, g, ResendOldest(w2, f))
  BY <1>2, AnswersOn DEF Heeds
<1>5. Heeds(f, k, n, g, w1)
  BY <1>1 DEF Heeds
<1>. QED
  BY <1>2, <1>3, <1>4, <1>5

LEMMA WaitAckRequestOn ==
  ASSUME NEW w, NEW k, NEW n, NEW g, On(w, k, n, g), NEW f \in Frames, f.scon.con \in Valid,
         NEW ret, NEW reply \in Replies, NEW onAck \in Replies
  PROVE  Heeds(f, k, n, g, WaitAckRequest(w, f, ret, reply, onAck))
<1>. DEFINE m  == f.rcon.num
            acked == HistoryAcked(w.c, m)
            w1 == IF acked THEN AckReceived(w, m, ret, onAck) ELSE w
            w2 == Alive(w1)
            w3 == [w2 EXCEPT !.c.state = "Connected"]
            r  == Byte(m, 2)
            v  == [w3 EXCEPT !.c.recvSeqNum = r]
<1>0. /\ m \in Numbers /\ Typed(w, k.room) /\ SoundCon(w.c) /\ Established(w.c)
      /\ Up(w, k.room)
  BY FrameParts, OnParts DEF Up, Sound
<1>1. On(w1, k, n, g) /\ (m = w1.c.recvSeqNum.num => w1.c.free >= Room)
  <2>. HIDE DEF m
  <2>1. CASE acked
    <3>. DEFINE x == AckReceived(w, m, ret, onAck)
    <3>1. On(x, k, n, g)
      BY <1>0, <2>1, AckReceivedOn
    <3>2. m = x.c.recvSeqNum.num => x.c.free >= Room
      BY <1>0, <2>1, AckReceivedUp
    <3>. QED
      BY <2>1, <3>1, <3>2
  <2>2. CASE ~acked
    <3>1. m = w.c.recvSeqNum.num => w.c.free = HistorySize
      BY <1>0, <2>2, AckStep
    <3>. QED
      BY <2>2, <3>1, RoomFacts, Sizes
  <2>. QED
    BY <2>1, <2>2
<1>2. \/ WaitAckRequest(w, f, ret, reply, onAck) = w1
      \/ WaitAckRequest(w, f, ret, reply, onAck) = SendWindow(w2)
      \/ /\ m = w2.c.recvSeqNum.num
         /\ \/ /\ Expected(w3.c, f)
               /\ WaitAckRequest(w, f, ret, reply, onAck) = Deliver(w3, f, ret, reply)
            \/ WaitAckRequest(w, f, ret, reply, onAck) \in {SendEmpty(v), w1}
  BY DEF WaitAckRequest
<1>. HIDE DEF w1, m
<1>3. On(w2, k, n, g) /\ w2.c.recvSeqNum.num = w1.c.recvSeqNum.num /\ w2.c.free = w1.c.free
  <2>1. Kept(w1, w2, k.room)
    BY <1>1, OnParts, AliveKept
  <2>. QED
    BY <1>1, <2>1, AliveOn DEF Kept, Alike
<1>. HIDE DEF w2
<1>4. On(SendWindow(w2), k, n, g)
  BY <1>3, SendOn
<1>5. ASSUME m = w2.c.recvSeqNum.num
      PROVE  On(w3, k, n, g) /\ On(SendEmpty(v), k, n, g)
  <2>0. w2.c.free >= Room
    BY <1>1, <1>3, <1>5
  <2>1. On(w3, k, n, g) /\ w3.c.recvSeqNum = w2.c.recvSeqNum
    BY <1>3, <2>0, AgainConnected
  <2>2. r \in Bytes /\ r.num = m /\ r.con \in Valid
    BY <1>0 DEF Byte, Bytes, Valid
  <2>. HIDE DEF r, w3
  <2>3. On(v, k, n, g)
    BY <1>5, <2>1, <2>2, BytesOn
  <2>. HIDE DEF v
  <2>. QED
    BY <2>1, <2>3, SendOn
<1>. HIDE DEF w3, v
<1>6. m = w2.c.recvSeqNum.num /\ Expected(w3.c, f) =>
        Heeds(f, k, n, g, Deliver(w3, f, ret, reply))
  BY <1>5, DeliverHeeds
<1>. QED
  BY <1>1, <1>2, <1>4, <1>5, <1>6 DEF Heeds

LEMMA WaitAckRecOn ==
  ASSUME NEW w, NEW k, NEW n, NEW g, On(w, k, n, g), NEW f \in Frames,
         f.scon.con = 0 => f.rcon.con = 0,
         NEW deletes, NEW ret, NEW reply \in Replies, NEW onAck \in Replies,
         NEW v, v = WaitAckRec(w, f, deletes, ret, reply, onAck)
  PROVE  \/ v = Closed(w)
         \/ f.scon.con = 1 /\ v = Reinit(RequestAck(w), f, deletes)
         \/ Heeds(f, k, n, g, v)
<1>. DEFINE u == RequestAck(w)
<1>1. On(u, k, n, g)
  BY CodesOn
<1>2. \/ f.scon.con = 1 /\ v = Reinit(u, f, deletes)
      \/ v = Closed(w)
      \/ f.scon.con # 1 /\ f.rcon.con # 0 /\ v = WaitAckValid(u, f, ret, reply, onAck)
      \/ f.scon.con # 1 /\ f.rcon.con # 0 /\ v = WaitAckRequest(u, f, ret, reply, onAck)
      \/ v = u
  BY DEF WaitAckRec
<1>. HIDE DEF u
<1>3. f.scon.con # 1 /\ f.rcon.con # 0 => f.scon.con \in Valid
  BY FrameFields DEF Valid
<1>4. f.scon.con \in Valid =>
        /\ Heeds(f, k, n, g, WaitAckValid(u, f, ret, reply, onAck))
        /\ Heeds(f, k, n, g, WaitAckRequest(u, f, ret, reply, onAck))
  BY <1>1, WaitAckValidOn, WaitAckRequestOn
<1>5. Heeds(f, k, n, g, u)
  BY <1>1 DEF Heeds
<1>. QED
  BY <1>2, <1>3, <1>4, <1>5 DEF u

(* Sub-timeouts.                                                            *)
LEMMA FrameCodeOn ==
  ASSUME NEW w, NEW k, NEW n, NEW g, On(w, k, n, g), NEW i \in Slots, NEW y \in 0 .. 3
  PROVE  /\ On([w EXCEPT !.c.frames[i].scon.con = 3], k, n, g)
         /\ On([w EXCEPT !.c.frames[i].rcon.con = y], k, n, g)
<1>. DEFINE c == w.c
            e == c.frames[i]
<1>1. /\ c \in Connections /\ w \in WorkType /\ e \in Frames /\ c.frames \in [Slots -> Frames]
      /\ c.recvSeqNum.con \in Valid /\ c.sendSeqNum.num = n
  BY OnParts, Parts
<1>2. ASSUME NEW h \in Frames, h.scon.num = e.scon.num, h.data = e.data,
             h.scon.con \in Valid \cup {e.scon.con}
      PROVE  On([w EXCEPT !.c = [c EXCEPT !.frames = [c.frames EXCEPT ![i] = h]]], k, n, g)
  <2>. DEFINE fr == [c.frames EXCEPT ![i] = h]
              d  == [c EXCEPT !.frames = fr]
  <2>1. /\ fr \in [Slots -> Frames]
        /\ \A j \in Slots : /\ fr[j].scon.num = c.frames[j].scon.num
                            /\ fr[j].data = c.frames[j].data
                            /\ fr[j].scon.con \in Valid \cup {c.frames[j].scon.con}
    BY <1>1, <1>2
  <2>. HIDE DEF fr
  <2>2. /\ Alike(c, d) /\ d.state = c.state /\ d.recvSeqNum = c.recvSeqNum
        /\ d.sendSeqNum = c.sendSeqNum /\ d.frames = fr
    BY <1>1, <2>1 DEF Connections, Alike
  <2>. HIDE DEF d
  <2>3. On([w EXCEPT !.c = d], k, d.sendSeqNum.num, g)
    BY <1>1, <2>1, <2>2, PutOn
  <2>. QED
    BY <1>1, <2>2, <2>3 DEF d, fr
<1>3. On([w EXCEPT !.c.frames[i].scon.con = 3], k, n, g)
  <2>. DEFINE h == [e EXCEPT !.scon.con = 3]
  <2>1. h \in Frames /\ h.scon.num = e.scon.num /\ h.data = e.data /\ h.scon.con \in Valid
    BY <1>1 DEF Frames, Bytes, Valid
  <2>2. [c.frames EXCEPT ![i].scon.con = 3] = [c.frames EXCEPT ![i] = h]
    OBVIOUS
  <2>3. [c EXCEPT !.frames[i].scon.con = 3] = [c EXCEPT !.frames = [c.frames EXCEPT ![i] = h]]
    BY <1>1, <2>2 DEF Connections
  <2>4. [w EXCEPT !.c.frames[i].scon.con = 3]
          = [w EXCEPT !.c = [c EXCEPT !.frames[i].scon.con = 3]]
    BY <1>1 DEF WorkType
  <2>. HIDE DEF h
  <2>. QED
    BY <1>2, <2>1, <2>3, <2>4
<1>4. On([w EXCEPT !.c.frames[i].rcon.con = y], k, n, g)
  <2>. DEFINE h == [e EXCEPT !.rcon.con = y]
  <2>1. h \in Frames /\ h.scon = e.scon /\ h.data = e.data
    BY <1>1 DEF Frames, Bytes
  <2>2. [c.frames EXCEPT ![i].rcon.con = y] = [c.frames EXCEPT ![i] = h]
    OBVIOUS
  <2>3. [c EXCEPT !.frames[i].rcon.con = y] = [c EXCEPT !.frames = [c.frames EXCEPT ![i] = h]]
    BY <1>1, <2>2 DEF Connections
  <2>4. [w EXCEPT !.c.frames[i].rcon.con = y]
          = [w EXCEPT !.c = [c EXCEPT !.frames[i].rcon.con = y]]
    BY <1>1 DEF WorkType
  <2>. HIDE DEF h
  <2>. QED
    BY <1>2, <2>1, <2>3, <2>4
<1>. QED
  BY <1>3, <1>4

LEMMA SubTimeoutOn ==
  ASSUME NEW w, NEW k, NEW n, NEW g, On(w, k, n, g), w.c.retry < RetryCount
  PROVE  On(SubTimeout(w), k, n, g)
<1>. DEFINE s  == AckCode(w.c)
            t  == w.c.retry + 1
            d1 == [w.c EXCEPT !.sendSeqNum = s, !.retry = t, !.timer = TRUE]
            w1 == [w EXCEPT !.c.sendSeqNum = AckCode(w.c), !.c.retry = @ + 1, !.c.timer = TRUE]
            i  == w1.c.ackIndex
            x  == IF w.c.flow THEN 3 ELSE 2
            w2 == [w1 EXCEPT !.c.frames[i].scon.con = 3, !.c.frames[i].rcon.con = x]
            f  == [Frame(w1.c, 0) EXCEPT !.scon.con = 3]
<1>0. /\ w.c \in Connections /\ w \in WorkType /\ w.c.recvSeqNum.con \in Valid
      /\ w.c.sendSeqNum.num = n
  BY OnParts
<1>1. s \in Bytes /\ t \in 0 .. RetryCount /\ s.num = n
  <2>1. s.num = n
    BY <1>0 DEF AckCode, Coded, Connections, Bytes
  <2>. QED
    BY <1>0, <2>1, AckCodeType, BoundsAssumption DEF Connections
<1>2. On(w1, k, n, g)
  <2>1. w1 = [w EXCEPT !.c = d1]
    BY <1>0 DEF WorkType, Connections
  <2>. HIDE DEF s, t, w1
  <2>2. Plain(w.c, d1) /\ d1.sendSeqNum = s
    <3>1. ASSUME NEW b \in BOOLEAN
          PROVE  LET d == [w.c EXCEPT !.sendSeqNum = s, !.retry = t, !.timer = b]
                 IN  Plain(w.c, d) /\ d.sendSeqNum = s
      BY <1>0, <1>1 DEF Connections, Alike, Plain
    <3>. QED
      BY <3>1
  <2>. HIDE DEF d1
  <2>. QED
    BY <1>1, <2>1, <2>2, PutPlain
<1>3. SubTimeout(w) \in {SendOldest(w2), Emit(w1, f)}
  BY DEF SubTimeout
<1>. HIDE DEF w1
<1>4. /\ w1.c \in Connections /\ w1 \in WorkType /\ Typed(w1, k.room) /\ Up(w1, k.room)
      /\ w1.last \in Nat /\ Told(w1, k) /\ Own(w1.c, w1.last) /\ w1.got = g
      /\ w1.c.sendSeqNum.num = n
  BY <1>2, OnParts
<1>5. On(SendOldest(w2), k, n, g)
  <2>. DEFINE u == [w1 EXCEPT !.c.frames[i].scon.con = 3]
  <2>1. i \in Slots /\ x \in 0 .. 3
    BY <1>4 DEF Connections
  <2>2. w2 = [u EXCEPT !.c.frames[i].rcon.con = x]
    <3>. HIDE DEF i, x
    <3>. QED
      OBVIOUS
  <2>. HIDE DEF w2, i, x
  <2>3. On(u, k, n, g)
    BY <1>2, <2>1, FrameCodeOn
  <2>. HIDE DEF u
  <2>4. On(w2, k, n, g)
    BY <2>1, <2>2, <2>3, FrameCodeOn
  <2>. QED
    BY <2>4, SendOn
<1>6. On(Emit(w1, f), k, n, g)
  <2>. DEFINE e == Frame(w1.c, 0)
  <2>1. e \in Frames /\ e.scon = w1.c.recvSeqNum /\ e.data = 0
    BY <1>4, FrameType DEF Frame
  <2>2. f \in Frames /\ f.data = 0 /\ f.scon.num = w1.c.recvSeqNum.num /\ f.scon.con = 3
    <3>. HIDE DEF e
    <3>1. LET h == [e EXCEPT !.scon.con = 3]
          IN  h \in Frames /\ h.data = 0 /\ h.scon.num = w1.c.recvSeqNum.num /\ h.scon.con = 3
      BY <2>1 DEF Frames, Bytes
    <3>. QED
      BY <3>1 DEF e
  <2>. HIDE DEF f
  <2>3. Joins(f, w1.last, w1.c, w1.last)
    BY <1>4, <2>2, EmptyJoins DEF Valid
  <2>4. Up(Emit(w1, f), k.room)
    BY <1>4, <2>2, EmitTyped DEF Up, Sound
  <2>5. /\ Told(Emit(w1, f), k) /\ Emit(w1, f).c = w1.c /\ Emit(w1, f).last = w1.last
        /\ Emit(w1, f).got = w1.got
    BY <1>4, <2>2, <2>3, EmitTold
  <2>. QED
    BY <1>4, <2>4, <2>5 DEF On
<1>. QED
  BY <1>3, <1>5, <1>6

LEMMA TimeoutEventOn ==
  ASSUME NEW w, NEW k, NEW n, NEW g, On(w, k, n, g), NEW v, v = TimeoutEvent(w)
  PROVE  v = FinalTimeout(w) \/ On(v, k, n, g)
<1>. DEFINE t  == w.c.inactive + 1
            d  == [w.c EXCEPT !.inactive = t]
            u  == [w EXCEPT !.c.inactive = @ + 1]
            w1 == IF w.c.flow THEN w ELSE u
<1>0. /\ w.c \in Connections /\ w \in WorkType /\ w.c.recvSeqNum.con \in Valid
      /\ w.c.sendSeqNum.num = n
  BY OnParts
<1>1. v = FinalTimeout(w)
      \/ /\ v = SubTimeout(w1)
         /\ w.c.retry < RetryCount /\ (w.c.flow \/ w.c.inactive < InactiveThld)
  BY DEF TimeoutEvent
<1>2. ASSUME w.c.inactive < InactiveThld
      PROVE  On(u, k, n, g) /\ u.c.retry = w.c.retry
  <2>1. t \in 0 .. InactiveThld
    BY <1>0, <1>2, BoundsAssumption DEF Connections
  <2>2. u = [w EXCEPT !.c = d]
    BY <1>0 DEF WorkType, Connections
  <2>. HIDE DEF t, u
  <2>3. Plain(w.c, d) /\ d.sendSeqNum = w.c.sendSeqNum /\ d.retry = w.c.retry
    BY <1>0, <2>1 DEF Connections, Alike, Plain
  <2>. HIDE DEF d
  <2>. QED
    BY <1>0, <2>2, <2>3, PutPlain
<1>. HIDE DEF u
<1>3. ASSUME w.c.retry < RetryCount, w.c.flow \/ w.c.inactive < InactiveThld
      PROVE  On(SubTimeout(w1), k, n, g)
  <2>1. On(w1, k, n, g) /\ w1.c.retry < RetryCount
    BY <1>2, <1>3
  <2>. HIDE DEF w1
  <2>. QED
    BY <2>1, SubTimeoutOn
<1>. QED
  BY <1>1, <1>3

-----------------------------------------------------------------------------
(* A connection that is not established.                                    *)
Known(w, k, g) == Typed(w, k.room) /\ Told(w, k) /\ w.got = g

LEMMA KnownParts ==
  ASSUME NEW w, NEW k, NEW g, Known(w, k, g)
  PROVE  /\ Typed(w, k.room) /\ Told(w, k) /\ w.got = g /\ w \in WorkType
         /\ w.c \in Connections /\ w.last \in Nat /\ w.out \in Seq(Frames)
         /\ k.base \o w.out \in Seq(Frames)
<1>1. w.out \in Seq(Frames) /\ k.base \in Seq(Frames)
  BY WorkParts DEF Known, Told
<1>. QED
  BY <1>1, WorkParts DEF Known

LEMMA PutDown ==
  ASSUME NEW w, NEW k, NEW g, Known(w, k, g), NEW d \in Connections, ~Established(d),
         NEW v, v = [w EXCEPT !.c = d]
  PROVE  Off(v, k, g) /\ v.c = d
<1>. DEFINE s == k.base \o w.out
<1>1. /\ Typed(w, k.room) /\ Told(w, k) /\ w.got = g /\ w.last \in Nat /\ s \in Seq(Frames)
  BY KnownParts
<1>2. /\ Typed(v, k.room) /\ v.c = d /\ v.out = w.out /\ v.last = w.last /\ v.got = g
  BY <1>1, PutCon
<1>3. Trail(s, w.c, w.last, k.tag)
  BY <1>1 DEF Told
<1>. HIDE DEF s
<1>4. Trail(s, d, w.last, k.tag)
  BY <1>1, <1>3, TrailDown
<1>. QED
  BY <1>1, <1>2, <1>4 DEF Off, Told, s

LEMMA ClosedOff ==
  ASSUME NEW w, NEW k, NEW g, Known(w, k, g)
  PROVE  Off(Closed(w), k, g) /\ Closed(w).c.state = "Idle"
<1>. DEFINE d == ClosedCon
<1>1. d \in Connections /\ d.state = "Idle" /\ Closed(w) = [w EXCEPT !.c = d]
  BY ClosedConType DEF Closed
<1>. HIDE DEF d
<1>2. ~Established(d)
  BY <1>1 DEF Established
<1>3. Off(Closed(w), k, g) /\ Closed(w).c = d
  BY <1>1, <1>2, PutDown
<1>. QED
  BY <1>1, <1>3

(* The close frame may be sent in any state.                                *)
LEMMA SendCloseKnown ==
  ASSUME NEW w, NEW k, NEW g, Known(w, k, g)
  PROVE  Known(SendClose(w), k, g)
<1>. DEFINE r == [w.c.recvSeqNum EXCEPT !.con = 0]
            s == [w.c.sendSeqNum EXCEPT !.con = 0]
            d == [w.c EXCEPT !.recvSeqNum = r, !.sendSeqNum = s]
            u == [w EXCEPT !.c.sendSeqNum.con = 0, !.c.recvSeqNum.con = 0]
            f == Frame(u.c, 0)
<1>0. /\ Typed(w, k.room) /\ Told(w, k) /\ w.got = g /\ w.last \in Nat
      /\ k.base \o w.out \in Seq(Frames) /\ w \in WorkType /\ w.c \in Connections
  BY KnownParts
<1>1. r \in Bytes /\ s \in Bytes /\ r.con = 0 /\ s.con = 0 /\ r.num = w.c.recvSeqNum.num
  BY <1>0 DEF Connections, Bytes
<1>2. u = [w EXCEPT !.c = d]
  BY <1>0 DEF WorkType, Connections, Bytes
<1>. HIDE DEF r, s
<1>3. /\ d \in Connections /\ Alike(w.c, d) /\ d.state = w.c.state
      /\ d.recvSeqNum = r /\ d.sendSeqNum = s
  BY <1>0, <1>1 DEF Connections, Alike
<1>. HIDE DEF d, u
<1>4. /\ Typed(u, k.room) /\ u.c = d /\ u.out = w.out /\ u.last = w.last /\ u.got = g
  BY <1>0, <1>2, <1>3, PutCon
<1>5. Trail(k.base \o w.out, d, w.last, k.tag)
  <2>1. Established(d) => Established(w.c)
    BY <1>3 DEF Established
  <2>. QED
    BY <1>0, <1>3, <2>1, TrailAlike DEF Told
<1>6. Told(u, k)
  BY <1>0, <1>4, <1>5 DEF Told
<1>7. f \in Frames /\ f.data = 0 /\ f.scon.con = 0 /\ f.rcon.con = 0
  BY <1>1, <1>3, <1>4, FrameType DEF Frame
<1>8. SendClose(w) = Emit(u, f)
  BY DEF SendClose, SendEmpty, u
<1>. HIDE DEF f
<1>9. Joins(f, u.last, u.c, u.last) /\ u.last \in Nat
  BY <1>0, <1>3, <1>4, <1>7, EmptyJoins
<1>10. Told(Emit(u, f), k) /\ Emit(u, f).got = u.got
  BY <1>4, <1>6, <1>7, <1>9, EmitTold
<1>11. Typed(Emit(u, f), k.room)
  BY <1>4, <1>7, EmitTyped
<1>. QED
  BY <1>4, <1>8, <1>10, <1>11 DEF Known

LEMMA OffParts ==
  ASSUME NEW w, NEW k, NEW g, Off(w, k, g)
  PROVE  Known(w, k, g) /\ ~Established(w.c)
BY DEF Off, Known

LEMMA OnKnown ==
  ASSUME NEW w, NEW k, NEW n, NEW g, On(w, k, n, g)
  PROVE  Known(w, k, g)
BY OnParts DEF Known

LEMMA FinalOff ==
  ASSUME NEW w, NEW k, NEW g, Known(w, k, g)
  PROVE  Off(FinalTimeout(w), k, g) /\ FinalTimeout(w).c.state = "Idle"
BY SendCloseKnown, ClosedOff DEF FinalTimeout

(* The sequence bytes of such a connection may be anything.                 *)
LEMMA BytesOff ==
  ASSUME NEW w, NEW k, NEW g, Off(w, k, g), NEW r \in Bytes, NEW s \in Bytes
  PROVE  Off([w EXCEPT !.c.recvSeqNum = r, !.c.sendSeqNum = s], k, g)
<1>. DEFINE d == [w.c EXCEPT !.recvSeqNum = r, !.sendSeqNum = s]
            v == [w EXCEPT !.c.recvSeqNum = r, !.c.sendSeqNum = s]
<1>1. Known(w, k, g) /\ ~Established(w.c) /\ w \in WorkType /\ w.c \in Connections
  BY OffParts, KnownParts
<1>2. /\ d \in Connections /\ d.state = w.c.state /\ d.recvSeqNum = r /\ d.sendSeqNum = s
  BY <1>1 DEF Connections
<1>3. v = [w EXCEPT !.c = d]
  BY <1>1 DEF WorkType
<1>. HIDE DEF d, v
<1>4. ~Established(d)
  BY <1>1, <1>2 DEF Established
<1>5. Off(v, k, g) /\ v.c = d
  BY <1>1, <1>2, <1>3, <1>4, PutDown
<1>. QED
  BY <1>2, <1>5 DEF v

LEMMA EmptyOff ==
  ASSUME NEW w, NEW k, NEW g, Off(w, k, g), w.c.recvSeqNum.con # 0
  PROVE  Off(SendEmpty(w), k, g) /\ SendEmpty(w).c = w.c
<1>. DEFINE f == Frame(w.c, 0)
<1>1. /\ Typed(w, k.room) /\ Told(w, k) /\ w.got = g /\ ~Established(w.c)
      /\ w.c \in Connections /\ w.last \in Nat
  BY OffParts, KnownParts
<1>2. f \in Frames /\ f.data = 0 /\ f.scon.con # 0 /\ SendEmpty(w) = Emit(w, f)
  BY <1>1, FrameType DEF Frame, SendEmpty
<1>. HIDE DEF f
<1>3. Joins(f, w.last, w.c, w.last)
  BY <1>1, <1>2, EmptyJoins
<1>4. Told(Emit(w, f), k) /\ Emit(w, f).c = w.c /\ Emit(w, f).got = w.got
  BY <1>1, <1>2, <1>3, EmitTold
<1>5. Typed(Emit(w, f), k.room)
  BY <1>1, <1>2, EmitTyped
<1>. QED
  BY <1>1, <1>2, <1>4, <1>5 DEF Off

(* A connection is established: its history is empty.                       *)
LEMMA ConnectOn ==
  ASSUME NEW v, NEW k, NEW g, Off(v, k, g), v.c.recvSeqNum.con \in Valid,
         NEW e \in Connections, e.recvSeqNum = v.c.recvSeqNum, e.sendSeqNum = v.c.sendSeqNum,
         NEW u, u = [v EXCEPT !.c = e]
  PROVE  On(Connect(u), k, v.c.sendSeqNum.num, g)
<1>. DEFINE d == [InitHistory(u.c) EXCEPT !.state = "Connected", !.timer = TRUE]
            n == v.c.sendSeqNum.num
<1>1. /\ Typed(v, k.room) /\ Told(v, k) /\ v.got = g /\ v.last \in Nat
      /\ k.base \o v.out \in Seq(Frames)
  BY OffParts, KnownParts
<1>2. Typed(u, k.room) /\ u.c = e /\ u.out = v.out /\ u.last = v.last /\ u.got = g
  BY <1>1, PutCon
<1>3. 0 \in Slots /\ HistorySize \in 0 .. HistorySize /\ "Connected" \in States
  BY Sizes DEF States
<1>4. /\ d \in Connections /\ d.free = HistorySize /\ d.state = "Connected"
      /\ d.recvSeqNum = v.c.recvSeqNum /\ d.sendSeqNum = v.c.sendSeqNum
  BY <1>2, <1>3 DEF InitHistory, Connections
<1>5. Connect(u) = [u EXCEPT !.c = d]
  BY DEF Connect
<1>. HIDE DEF d
<1>6. /\ Connect(u).c = d /\ Connect(u).out = v.out /\ Connect(u).last = v.last
      /\ Connect(u).got = g
  <2>1. ASSUME NEW x, x = [u EXCEPT !.c = d]
        PROVE  x.c = d /\ x.out = v.out /\ x.last = v.last /\ x.got = g
    BY <1>2, <1>4, <2>1, PutCon
  <2>. QED
    BY <1>5, <2>1
<1>7. Used(d) = 0 /\ Established(d)
  BY <1>4, Sizes DEF Used, Established
<1>8. Up(Connect(u), k.room)
  BY <1>2, <1>6, <1>7, ConnectSound DEF Up
<1>9. Trail(k.base \o v.out, d, v.last, k.tag)
  BY <1>1, <1>7, TrailConnects DEF Told
<1>10. Told(Connect(u), k)
  BY <1>1, <1>6, <1>9 DEF Told
<1>11. Own(d, v.last)
  BY <1>1, <1>4, <1>7 DEF Own
<1>. QED
  BY <1>4, <1>6, <1>8, <1>10, <1>11 DEF On

LEMMA AnswerOff ==
  ASSUME NEW w, NEW k, NEW g, Off(w, k, g), NEW f \in Frames, f.rcon.con <= 2,
         NEW state \in States, NEW v, v = Answer(w, f, state)
  PROVE  /\ Full(w) => Off(v, k, g) /\ v.c.state = w.c.state /\ v.c.sendSeqNum = f.scon
         /\ ~Full(w) /\ state \in InitStates =>
              Off(v, k, g) /\ v.c.state = state /\ v.c.sendSeqNum = f.scon
         /\ ~Full(w) /\ f.rcon.con # 0 => On(Connect(v), k, f.scon.num, g)
<1>. DEFINE r  == Byte(f.rcon.num, f.rcon.con + 1)
            s  == f.scon
            w1 == [w EXCEPT !.c.recvSeqNum = r, !.c.sendSeqNum = s]
            u  == SendEmpty(w1)
            d  == [u.c EXCEPT !.state = state, !.timer = TRUE]
<1>1. r \in Bytes /\ s \in Bytes /\ r.con # 0 /\ (f.rcon.con # 0 => r.con \in Valid)
  BY DEF Frames, Bytes, Byte, Valid
<1>2. v = IF Full(w) THEN w1 ELSE [u EXCEPT !.c.state = state, !.c.timer = TRUE]
  BY DEF Answer
<1>3. /\ Off(w1, k, g) /\ w1.c.state = w.c.state /\ w1.c.recvSeqNum = r
      /\ w1.c.sendSeqNum = s
  <2>. HIDE DEF r, s
  <2>1. Off(w1, k, g)
    BY <1>1, BytesOff
  <2>2. w \in WorkType /\ w.c \in Connections
    BY OffParts, KnownParts
  <2>3. /\ w1.c.state = w.c.state /\ w1.c.recvSeqNum = r /\ w1.c.sendSeqNum = s
    BY <2>2 DEF WorkType, Connections
  <2>. QED
    BY <2>1, <2>3
<1>. HIDE DEF r, w1
<1>4. Off(u, k, g) /\ u.c = w1.c
  BY <1>1, <1>3, EmptyOff
<1>. HIDE DEF u
<1>5. Known(u, k, g) /\ u \in WorkType /\ u.c \in Connections
  BY <1>4, OffParts, KnownParts
<1>6. /\ d \in Connections /\ d.state = state /\ d.recvSeqNum = r /\ d.sendSeqNum = s
  BY <1>3, <1>4, <1>5 DEF Connections
<1>7. [u EXCEPT !.c.state = state, !.c.timer = TRUE] = [u EXCEPT !.c = d]
  BY <1>5 DEF WorkType
<1>. HIDE DEF d, s
<1>8. CASE Full(w)
  BY <1>2, <1>3, <1>8 DEF s
<1>9. CASE ~Full(w)
  <2>1. v = [u EXCEPT !.c = d]
    BY <1>2, <1>7, <1>9
  <2>2. ASSUME state \in InitStates
        PROVE  Off(v, k, g) /\ v.c.state = state /\ v.c.sendSeqNum = f.scon
    <3>1. ~Established(d)
      BY <1>6, <2>2 DEF Established, InitStates
    <3>2. Off(v, k, g) /\ v.c = d
      BY <1>5, <1>6, <2>1, <3>1, PutDown
    <3>. QED
      BY <1>6, <3>2 DEF s
  <2>3. ASSUME f.rcon.con # 0
        PROVE  On(Connect(v), k, f.scon.num, g)
    <3>1. /\ u.c.recvSeqNum.con \in Valid /\ d.recvSeqNum = u.c.recvSeqNum
          /\ d.sendSeqNum = u.c.sendSeqNum /\ u.c.sendSeqNum.num = f.scon.num
      BY <1>1, <1>3, <1>4, <1>6, <2>3 DEF s
    <3>2. ASSUME NEW x, x = [u EXCEPT !.c = d] PROVE On(Connect(x), k, u.c.sendSeqNum.num, g)
      BY <1>4, <1>6, <3>1, <3>2, ConnectOn
    <3>. QED
      BY <2>1, <3>1, <3>2
  <2>. QED
    BY <1>9, <2>2, <2>3
<1>. QED
  BY <1>8, <1>9

-----------------------------------------------------------------------------
(* What a handler leaves: the partner's number is the one it had taken over *)
(* before, h, or the one of frame f, which is passed on or cannot be data.  *)
Covers(h, f) == \/ h.scon.con = 0
                \/ h.scon.con = 1 /\ f.scon.con = 1
                \/ h.scon.con = 2 /\ f.scon.con \in Valid /\ h.scon.num = f.scon.num

Passed(h, v, f, got) ==
  \/ Covers(v, h) /\ got = << >>
  \/ Covers(v, f) /\ got = << >> /\ (f.scon.con = 1 \/ h.scon.con = 1)
  \/ /\ Covers(v, f) /\ got = << f.data >>
     /\ h.scon.con = 2 /\ f.scon.con \in Valid /\ f.scon.num = NextNum(h.scon.num)

Ends(v, k) == Typed(v, k.room) /\ Told(v, k) /\ Own(v.c, v.last)

Outcome(v, k, h, f) == Ends(v, k) /\ Passed(h, Heard(v.c), f, v.got)

LEMMA OffEnds ==
  ASSUME NEW v, NEW k, NEW g, Off(v, k, g)
  PROVE  /\ Ends(v, k) /\ v.got = g /\ Heard(v.c).scon.con \in {0, 1}
         /\ Heard(v.c).scon.con = 1 <=> v.c.state \in {"Init2", "Init3"}
BY OffParts, KnownParts, HeardFrame DEF Off, Ends, Own, Heard, Byte

LEMMA OnEnds ==
  ASSUME NEW v, NEW k, NEW n, NEW g, On(v, k, n, g)
  PROVE  /\ Ends(v, k) /\ v.got = g /\ Heard(v.c).scon.con = 2 /\ Heard(v.c).scon.num = n
BY OnParts, HeardFrame DEF Ends

LEMMA DownOutcome ==
  ASSUME NEW v, NEW k, Off(v, k, << >>), NEW h, NEW f,
         \/ v.c.state \notin {"Init2", "Init3"}
         \/ f.scon.con = 1
         \/ h.scon.con = 1
  PROVE  Outcome(v, k, h, f)
<1>. DEFINE V == Heard(v.c)
<1>1. Ends(v, k) /\ v.got = << >> /\ V.scon.con \in {0, 1}
      /\ (V.scon.con = 1 => f.scon.con = 1 \/ h.scon.con = 1)
  BY OffEnds
<1>2. Outcome(v, k, h, f) <=> Ends(v, k) /\ Passed(h, V, f, v.got)
  BY DEF Outcome
<1>. HIDE DEF V
<1>3. CASE V.scon.con = 0
  BY <1>1, <1>2, <1>3 DEF Passed, Covers
<1>4. CASE V.scon.con = 1
  BY <1>1, <1>2, <1>4 DEF Passed, Covers
<1>. QED
  BY <1>1, <1>3, <1>4

LEMMA ClosedOutcome ==
  ASSUME NEW w, NEW k, Known(w, k, << >>), NEW h, NEW f
  PROVE  Outcome(Closed(w), k, h, f)
<1>1. Off(Closed(w), k, << >>) /\ Closed(w).c.state \notin {"Init2", "Init3"}
  BY ClosedOff
<1>. HIDE DEF Closed
<1>. QED
  BY <1>1, DownOutcome

LEMMA ConnectOutcome ==
  ASSUME NEW v, NEW k, NEW f \in Frames, On(v, k, f.scon.num, << >>), f.scon.con \in Valid,
         NEW h, h.scon.con = 1
  PROVE  Outcome(v, k, h, f)
BY OnEnds DEF Outcome, Passed, Covers

LEMMA HeedsOutcome ==
  ASSUME NEW v, NEW k, NEW f \in Frames, NEW n, Heeds(f, k, n, << >>, v),
         NEW h, h.scon.con = 2, h.scon.num = n
  PROVE  Outcome(v, k, h, f)
<1>1. CASE On(v, k, n, << >>)
  BY <1>1, OnEnds DEF Outcome, Passed, Covers, Valid
<1>2. CASE /\ f.scon.con \in Valid /\ f.scon.num = NextNum(n)
           /\ On(v, k, f.scon.num, Append(<< >>, f.data))
  <2>1. Append(<< >>, f.data) = << f.data >>
    BY FrameFields
  <2>. QED
    BY <1>2, <2>1, OnEnds DEF Outcome, Passed, Covers
<1>. QED
  BY <1>1, <1>2 DEF Heeds

LEMMA IdleRecOutcome ==
  ASSUME NEW w, NEW k, Off(w, k, << >>), w.c.state = "Idle", NEW f \in Frames, NEW h
  PROVE  Outcome(IdleRec(w, f), k, h, f)
<1>1. CASE Code(f) = <<0, 1>>
  <2>. DEFINE v == Answer(w, f, "Init2")
  <2>1. f.rcon.con = 0 /\ f.scon.con = 1 /\ f.rcon.con <= 2
    BY <1>1 DEF Code
  <2>2. "Init2" \in States /\ "Init2" \in InitStates
    BY DEF States, InitStates
  <2>3. IdleRec(w, f) = v
    BY <1>1 DEF IdleRec
  <2>4. Off(v, k, << >>)
    BY <2>1, <2>2, AnswerOff
  <2>. HIDE DEF v
  <2>. QED
    BY <2>1, <2>3, <2>4, DownOutcome
<1>2. CASE Code(f) # <<0, 1>>
  <2>1. IdleRec(w, f) = Closed(w)
    BY <1>2 DEF IdleRec
  <2>. QED
    BY <2>1, OffParts, ClosedOutcome
<1>. QED
  BY <1>1, <1>2

LEMMA ReinitOutcome ==
  ASSUME NEW w, NEW k, Known(w, k, << >>), NEW f \in Frames, NEW deletes, NEW h
  PROVE  Outcome(Reinit(w, f, deletes), k, h, f)
<1>. DEFINE e == [w.c EXCEPT !.state = "Idle", !.timer = FALSE]
            d == IF deletes THEN [ClosedCon EXCEPT !.open = TRUE] ELSE e
            v == [w EXCEPT !.c = d]
<1>1. d \in Connections /\ d.state = "Idle"
  <2>1. e \in Connections /\ e.state = "Idle"
    BY KnownParts DEF Connections, States
  <2>. HIDE DEF e
  <2>. QED
    BY <2>1, ClosedConType
<1>2. Reinit(w, f, deletes) = IdleRec(v, f)
  BY DEF Reinit
<1>. HIDE DEF d
<1>3. ~Established(d)
  BY <1>1 DEF Established
<1>4. Off(v, k, << >>) /\ v.c = d
  BY <1>1, <1>3, PutDown
<1>. HIDE DEF v
<1>. QED
  BY <1>1, <1>2, <1>4, IdleRecOutcome

LEMMA InitErrorOutcome ==
  ASSUME NEW w, NEW k, Off(w, k, << >>), NEW f \in Frames, NEW h
  PROVE  Outcome(InitError(w, f), k, h, f)
<1>. DEFINE v == [w EXCEPT !.c.recvSeqNum = f.rcon, !.c.sendSeqNum = f.scon]
<1>1. f.rcon \in Bytes /\ f.scon \in Bytes
  BY DEF Frames
<1>2. Off(v, k, << >>)
  BY <1>1, BytesOff
<1>3. InitError(w, f) \in {Closed(w), Closed(SendClose(v))}
  BY DEF InitError
<1>. HIDE DEF v
<1>4. Known(w, k, << >>) /\ Known(SendClose(v), k, << >>)
  BY <1>2, OffParts, SendCloseKnown
<1>. QED
  BY <1>3, <1>4, ClosedOutcome

LEMMA AnswerOutcome ==
  ASSUME NEW w, NEW k, Off(w, k, << >>), NEW f \in Frames, f.rcon.con <= 2,
         NEW state \in InitStates, NEW h, f.scon.con = 1 \/ h.scon.con = 1
  PROVE  Outcome(Answer(w, f, state), k, h, f)
<1>. DEFINE v == Answer(w, f, state)
<1>1. state \in States
  BY DEF States, InitStates
<1>2. Off(v, k, << >>)
  BY <1>1, AnswerOff
<1>. HIDE DEF v
<1>3. Outcome(v, k, h, f)
  BY <1>2, DownOutcome
<1>. QED
  BY <1>3 DEF v

LEMMA InitRecOutcome ==
  ASSUME NEW w, NEW k, Off(w, k, << >>), NEW f \in Frames, NEW deletes, NEW h
  PROVE  /\ Outcome(Init1Rec(w, f), k, h, f)
         /\ h.scon.con = 1 => Outcome(Init2Rec(w, f, deletes), k, h, f)
         /\ h.scon.con = 1 /\ w.c.state = "Init3" => Outcome(Init3Rec(w, f, deletes), k, h, f)
<1>. DEFINE c == Code(f)
            b == Answer(w, f, "Connected")
            v == [w EXCEPT !.c.recvSeqNum = f.rcon, !.c.sendSeqNum = f.scon]
<1>1. c = <<f.rcon.con, f.scon.con>>
  BY DEF Code
<1>2. /\ c \in {<<0, 1>>, <<1, 1>>} => f.rcon.con <= 2 /\ f.scon.con = 1
      /\ c = <<1, 2>> => f.rcon.con <= 2 /\ f.rcon.con # 0 /\ f.scon.con \in Valid
      /\ c = <<2, 2>> => f.rcon.con \in Valid /\ f.scon.con \in Valid
  BY <1>1 DEF Valid
<1>. HIDE DEF c
<1>3. c \in {<<0, 1>>, <<1, 1>>} => /\ Outcome(Answer(w, f, "Init2"), k, h, f)
                                    /\ Outcome(Answer(w, f, "Init3"), k, h, f)
  <2>1. "Init2" \in InitStates /\ "Init3" \in InitStates
    BY DEF InitStates
  <2>. QED
    BY <1>2, <2>1, AnswerOutcome
<1>4. Outcome(InitError(w, f), k, h, f) /\ Outcome(Reinit(w, f, deletes), k, h, f)
  BY OffParts, InitErrorOutcome, ReinitOutcome
<1>5. ASSUME h.scon.con = 1, c = <<1, 2>>
      PROVE  Outcome(IF Full(w) THEN b ELSE Connect(b), k, h, f)
  <2>1. "Connected" \in States
    BY DEF States
  <2>2. /\ Full(w) => Off(b, k, << >>)
        /\ ~Full(w) => On(Connect(b), k, f.scon.num, << >>)
    BY <1>2, <1>5, <2>1, AnswerOff
  <2>. HIDE DEF b
  <2>3. CASE Full(w)
    BY <1>5, <2>2, <2>3, DownOutcome
  <2>4. CASE ~Full(w)
    BY <1>2, <1>5, <2>2, <2>4, ConnectOutcome
  <2>. QED
    BY <2>3, <2>4
<1>6. ASSUME h.scon.con = 1, c = <<2, 2>>
      PROVE  Outcome(Connect(v), k, h, f)
  <2>1. f.rcon \in Bytes /\ f.scon \in Bytes
    BY DEF Frames
  <2>2. Off(v, k, << >>)
    BY <2>1, BytesOff
  <2>3. v.c.recvSeqNum = f.rcon /\ v.c.sendSeqNum = f.scon
    <3>1. w \in WorkType /\ w.c \in Connections
      BY OffParts, KnownParts
    <3>. QED
      BY <3>1 DEF WorkType, Connections
  <2>. HIDE DEF v
  <2>4. v \in WorkType /\ v.c \in Connections
    BY <2>2, OffParts, KnownParts
  <2>. DEFINE e == v.c
              x == [v EXCEPT !.c = e]
  <2>5. v = x /\ e \in Connections /\ e.recvSeqNum = v.c.recvSeqNum
        /\ e.sendSeqNum = v.c.sendSeqNum /\ v.c.recvSeqNum.con \in Valid
    BY <1>2, <1>6, <2>3, <2>4 DEF WorkType
  <2>. HIDE DEF e
  <2>6. On(Connect(x), k, v.c.sendSeqNum.num, << >>)
    BY <2>2, <2>5, ConnectOn
  <2>. QED
    BY <1>2, <1>6, <2>3, <2>5, <2>6, ConnectOutcome
<1>7. Outcome(Init1Rec(w, f), k, h, f)
  BY <1>3, <1>4 DEF Init1Rec, c
<1>8. ASSUME h.scon.con = 1 PROVE Outcome(Init2Rec(w, f, deletes), k, h, f)
  BY <1>3, <1>4, <1>5, <1>8 DEF Init2Rec, c
<1>9. ASSUME h.scon.con = 1, w.c.state = "Init3"
      PROVE  Outcome(Init3Rec(w, f, deletes), k, h, f)
  <2>1. Outcome(w, k, h, f)
    BY <1>9, DownOutcome
  <2>. QED
    BY <1>3, <1>4, <1>5, <1>6, <1>9, <2>1 DEF Init3Rec, c
<1>. QED
  BY <1>7, <1>8, <1>9

(* An established connection, with the number n taken over last.            *)
LEMMA EstablishedOutcome ==
  ASSUME NEW w, NEW k, NEW n, On(w, k, n, << >>), NEW f \in Frames,
         f.scon.con = 0 => f.rcon.con = 0,
         NEW deletes, NEW ret, NEW reply \in Replies, NEW onAck \in Replies,
         NEW h, h.scon.con = 2, h.scon.num = n
  PROVE  /\ Outcome(ConnectedRec(w, f, deletes, ret, reply), k, h, f)
         /\ Outcome(WaitAckRec(w, f, deletes, ret, reply, onAck), k, h, f)
<1>. DEFINE u == RequestAck(w)
<1>1. On(u, k, n, << >>)
  BY CodesOn
<1>. HIDE DEF u
<1>2. Known(w, k, << >>) /\ Known(u, k, << >>)
  BY <1>1, OnKnown
<1>3. /\ Outcome(Closed(w), k, h, f) /\ Outcome(Reinit(w, f, deletes), k, h, f)
      /\ Outcome(Reinit(u, f, deletes), k, h, f)
  BY <1>2, ClosedOutcome, ReinitOutcome
<1>4. \A v : Heeds(f, k, n, << >>, v) => Outcome(v, k, h, f)
  BY HeedsOutcome
<1>5. Outcome(ConnectedRec(w, f, deletes, ret, reply), k, h, f)
  <2>. DEFINE v == ConnectedRec(w, f, deletes, ret, reply)
  <2>1. v = Closed(w) \/ v = Reinit(w, f, deletes) \/ Heeds(f, k, n, << >>, v)
    BY ConnectedRecOn
  <2>. HIDE DEF v
  <2>2. Outcome(v, k, h, f)
    BY <1>3, <1>4, <2>1
  <2>. QED
    BY <2>2 DEF v
<1>6. Outcome(WaitAckRec(w, f, deletes, ret, reply, onAck), k, h, f)
  <2>. DEFINE v == WaitAckRec(w, f, deletes, ret, reply, onAck)
  <2>1. v = Closed(w) \/ v = Reinit(u, f, deletes) \/ Heeds(f, k, n, << >>, v)
    BY WaitAckRecOn DEF u
  <2>. HIDE DEF v
  <2>2. Outcome(v, k, h, f)
    BY <1>3, <1>4, <2>1
  <2>. QED
    BY <2>2 DEF v
<1>. QED
  BY <1>5, <1>6

-----------------------------------------------------------------------------
(* The receiving side: frames leave a trail at its head.                    *)
LEMMA Fronted ==
  ASSUME NEW D, NEW f \in D, NEW s \in Seq(D)
  PROVE  /\ << f >> \o s \in Seq(D) /\ Len(<< f >> \o s) = Len(s) + 1 /\ Len(s) \in Nat
         /\ (<< f >> \o s)[1] = f
         /\ \A i \in 2 .. Len(s) + 1 : (<< f >> \o s)[i] = s[i - 1] /\ i - 1 \in 1 .. Len(s)
<1>. DEFINE z == << f >>
<1>0. z \in Seq(D)
  OBVIOUS
<1>1. Len(z) = 1 /\ z[1] = f
  OBVIOUS
<1>. HIDE DEF z
<1>2. /\ z \o s \in Seq(D) /\ Len(z \o s) = Len(z) + Len(s) /\ Len(s) \in Nat
      /\ \A i \in 1 .. Len(z) : (z \o s)[i] = z[i]
      /\ \A i \in Len(z) + 1 .. Len(z) + Len(s) : /\ (z \o s)[i] = s[i - Len(z)]
                                               /\ i - Len(z) \in 1 .. Len(s)
  BY <1>0
<1>. DEFINE a == z \o s
            n == Len(s)
<1>3. a \in Seq(D) /\ Len(a) = n + 1 /\ n \in Nat /\ a[1] = f
  BY <1>1, <1>2
<1>4. \A i \in 2 .. n + 1 : i \in Len(z) + 1 .. Len(z) + n /\ i - Len(z) = i - 1
  BY <1>1, <1>3
<1>5. \A i \in 2 .. n + 1 : a[i] = s[i - 1] /\ i - 1 \in 1 .. n
  BY <1>2, <1>4
<1>. QED
  BY <1>3, <1>5 DEF z

LEMMA HeadTail ==
  ASSUME NEW D, NEW s \in Seq(D), s # << >>
  PROVE  /\ Head(s) \in D /\ Head(s) = s[1] /\ Tail(s) \in Seq(D)
         /\ Len(s) \in Nat /\ Len(s) >= 1 /\ Len(Tail(s)) = Len(s) - 1
         /\ \A i \in 1 .. Len(s) - 1 : Tail(s)[i] = s[i + 1]
         /\ s = << Head(s) >> \o Tail(s)
OBVIOUS

(* Of a trail, any frames in their order are a trail.                       *)
Picks(m, a, z) == /\ \A i \in 1 .. Len(z) : m[i] \in 1 .. Len(a) /\ z[i] = a[m[i]]
                  /\ \A i, j \in 1 .. Len(z) : i < j => m[i] < m[j]

LEMMA Picked ==
  ASSUME NEW a \in Seq(Frames), NEW t \in Seq(Nat), NEW c, NEW S, Tagged(a, t, c, S),
         NEW z \in Seq(Frames), Len(z) >= 1, NEW m, Picks(m, a, z)
  PROVE  Trail(z, c, S, t[m[1]])
<1>. DEFINE n == Len(z)
            y == [i \in 1 .. n |-> t[m[i]]]
<1>1. /\ Len(t) = Len(a) /\ n \in Nat /\ n >= 1
      /\ \A i \in 1 .. n : m[i] \in 1 .. Len(a) /\ z[i] = a[m[i]]
      /\ \A i, j \in 1 .. n : i < j => m[i] < m[j]
  BY DEF Tagged, Picks
<1>. HIDE DEF n
<1>2. \A i \in 1 .. n : t[m[i]] \in Nat
  BY <1>1
<1>3. y \in Seq(Nat) /\ Len(y) = n /\ \A i \in 1 .. n : y[i] = t[m[i]]
  <2>1. y \in [1 .. n -> Nat] /\ \A i \in 1 .. n : y[i] = t[m[i]]
    BY <1>2
  <2>. HIDE DEF y
  <2>2. y \in Seq(Nat) /\ Len(y) = n
    BY <1>1, <2>1
  <2>. QED
    BY <2>1, <2>2
<1>. HIDE DEF y
<1>4. \A i \in 1 .. n : Sane(z[i], y[i]) /\ Behind(z[i], y[i], c, S)
  BY <1>1, <1>3 DEF Tagged
<1>5. \A i, j \in 1 .. n : i < j => Follows(z[i], y[i], z[j], y[j])
  BY <1>1, <1>3 DEF Tagged
<1>6. Tagged(z, y, c, S)
  BY <1>3, <1>4, <1>5 DEF Tagged, n
<1>7. y[1] = t[m[1]]
  BY <1>1, <1>3
<1>. QED
  BY <1>3, <1>6, <1>7 DEF Trail

LEMMA Reached ==
  ASSUME NEW V \in Frames, NEW s \in Seq(Frames), s # << >>, NEW c, NEW S, NEW r,
         Trail(<< V >> \o s, c, S, r)
  PROVE  /\ Trail(<< V >> \o Tail(s), c, S, r) /\ r \in Nat
         /\ \E u \in Nat : Trail(s, c, S, u) /\ Sane(Head(s), u) /\ Follows(V, r, Head(s), u)
<1>. DEFINE a == << V >> \o s
            e == Tail(s)
            z == << V >> \o e
            n == Len(s)
<1>1. /\ a \in Seq(Frames) /\ Len(a) = n + 1 /\ n \in Nat /\ a[1] = V
      /\ \A i \in 2 .. n + 1 : a[i] = s[i - 1]
  BY Fronted
<1>2. /\ Head(s) = s[1] /\ e \in Seq(Frames) /\ n >= 1 /\ Len(e) = n - 1
      /\ \A i \in 1 .. n - 1 : e[i] = s[i + 1]
  BY HeadTail
<1>. HIDE DEF e, n
<1>3. /\ z \in Seq(Frames) /\ Len(z) = Len(e) + 1 /\ z[1] = V
      /\ \A i \in 2 .. Len(e) + 1 : z[i] = e[i - 1] /\ i - 1 \in 1 .. Len(e)
  BY <1>2, Fronted
<1>4. PICK t \in Seq(Nat) : Tagged(a, t, c, S) /\ t[1] = r
  BY DEF Trail
<1>. HIDE DEF a, z
<1>5. Len(t) = n + 1 /\ \A i \in 1 .. n + 1 : t[i] \in Nat
  BY <1>1, <1>4 DEF Tagged
<1>6. Trail(z, c, S, r)
  <2>. DEFINE m == [i \in 1 .. n |-> IF i = 1 THEN 1 ELSE i + 1]
  <2>1. Len(z) = n
    BY <1>1, <1>2, <1>3
  <2>2. \A i, j \in 1 .. n : i < j => m[i] < m[j]
    BY <1>1
  <2>3. \A i \in 1 .. n : m[i] \in 1 .. n + 1 /\ z[i] = a[m[i]]
    <3>1. SUFFICES ASSUME NEW i \in 1 .. n PROVE m[i] \in 1 .. n + 1 /\ z[i] = a[m[i]]
      OBVIOUS
    <3>2. CASE i = 1
      BY <1>1, <1>2, <1>3, <3>2
    <3>3. CASE i # 1
      <4>1. /\ i \in 2 .. n /\ i - 1 \in 1 .. n - 1 /\ i + 1 \in 2 .. n + 1
            /\ (i + 1) - 1 = i /\ (i - 1) + 1 = i /\ m[i] = i + 1 
            /\ i + 1 \in 1 .. n + 1 /\ i \in 2 .. Len(e) + 1
        BY <1>1, <1>2, <3>3
      <4>. HIDE DEF m
      <4>2. z[i] = e[i - 1]
        BY <1>3, <4>1
      <4>3. e[i - 1] = s[i]
        BY <1>2, <4>1
      <4>4. a[i + 1] = s[i]
        BY <1>1, <4>1
      <4>. QED
        BY <4>1, <4>2, <4>3, <4>4
    <3>. QED
      BY <3>2, <3>3
  <2>4. m[1] = 1
    BY <1>1, <1>2
  <2>. HIDE DEF m
  <2>5. Picks(m, a, z)
    BY <1>1, <2>1, <2>2, <2>3 DEF Picks
  <2>6. Trail(z, c, S, t[m[1]])
    BY <1>1, <1>2, <1>3, <1>4, <2>1, <2>5, Picked
  <2>. QED
    BY <1>4, <2>4, <2>6
<1>7. Trail(s, c, S, t[2])
  <2>. DEFINE m == [i \in 1 .. n |-> i + 1]
  <2>1. \A i, j \in 1 .. n : i < j => m[i] < m[j]
    BY <1>1
  <2>2. \A i \in 1 .. n : m[i] \in 1 .. n + 1 /\ s[i] = a[m[i]]
    <3>1. SUFFICES ASSUME NEW i \in 1 .. n PROVE i + 1 \in 1 .. n + 1 /\ s[i] = a[i + 1]
      OBVIOUS
    <3>2. i + 1 \in 2 .. n + 1 /\ (i + 1) - 1 = i /\ i + 1 \in 1 .. n + 1
      BY <1>1
    <3>. QED
      BY <1>1, <3>2
  <2>3. m[1] = 2 /\ Len(s) = n
    BY <1>1, <1>2 DEF n
  <2>. HIDE DEF m
  <2>4. Picks(m, a, s)
    BY <1>1, <2>1, <2>2, <2>3 DEF Picks
  <2>5. Trail(s, c, S, t[m[1]])
    BY <1>1, <1>2, <1>4, <2>3, <2>4, Picked
  <2>. QED
    BY <2>3, <2>5
<1>8. Sane(Head(s), t[2]) /\ Follows(V, r, Head(s), t[2]) /\ t[2] \in Nat /\ r \in Nat
  <2>1. 1 \in 1 .. Len(a) /\ 2 \in 1 .. Len(a) /\ 1 < 2 /\ a[2] = Head(s) /\ 2 \in 2 .. n + 1
    BY <1>1, <1>2
  <2>. QED
    BY <1>1, <1>4, <1>5, <2>1 DEF Tagged
<1>. QED
  BY <1>6, <1>7, <1>8 DEF z, e

(* The partner may stand where the first frame was, if it took its number.  *)
LEMMA Recast ==
  ASSUME NEW f \in Frames, NEW h \in Frames, NEW s \in Seq(Frames), NEW c, NEW S \in Nat, NEW r,
         Trail(<< f >> \o s, c, S, r), h.data = 0, h.rcon.con = 0, Covers(h, f)
  PROVE  Trail(<< h >> \o s, c, S, r)
<1>. DEFINE a == << f >> \o s
            z == << h >> \o s
            n == Len(s) + 1
<1>1. /\ a \in Seq(Frames) /\ Len(a) = n /\ n \in Nat /\ a[1] = f
      /\ \A i \in 2 .. n : a[i] = s[i - 1]
  BY Fronted
<1>2. /\ z \in Seq(Frames) /\ Len(z) = n /\ z[1] = h
      /\ \A i \in 2 .. n : z[i] = s[i - 1]
  BY Fronted
<1>3. PICK t \in Seq(Nat) : Tagged(a, t, c, S) /\ t[1] = r
  BY DEF Trail
<1>4. n \in Nat /\ n >= 1 /\ 1 \in 1 .. n /\ \A i \in 1 .. n : i # 1 => i \in 2 .. n
  BY <1>1
<1>. HIDE DEF a, z, n
<1>5. Len(t) = n /\ \A i \in 1 .. n : t[i] \in Nat
  BY <1>1, <1>3 DEF Tagged
<1>6. ASSUME NEW g, NEW v \in Nat, NEW u \in Nat, Follows(f, v, g, u)
      PROVE  Follows(h, v, g, u)
  BY <1>6 DEF Follows, Covers, Valid
<1>7. ASSUME NEW v \in Nat, Behind(f, v, c, S)
      PROVE  Behind(h, v, c, S)
  BY <1>7 DEF Behind, Covers, Valid
<1>8. \A v : Sane(h, v)
  BY DEF Sane
<1>9. \A i \in 1 .. n : Sane(z[i], t[i]) /\ Behind(z[i], t[i], c, S)
  <2>1. SUFFICES ASSUME NEW i \in 1 .. n PROVE Sane(z[i], t[i]) /\ Behind(z[i], t[i], c, S)
    OBVIOUS
  <2>2. Sane(a[i], t[i]) /\ Behind(a[i], t[i], c, S)
    BY <1>1, <1>3 DEF Tagged
  <2>3. CASE i = 1
    BY <1>1, <1>2, <1>4, <1>5, <1>7, <1>8, <2>2, <2>3
  <2>4. CASE i # 1
    BY <1>1, <1>2, <1>4, <2>2, <2>4
  <2>. QED
    BY <2>3, <2>4
<1>10. \A i, j \in 1 .. n : i < j => Follows(z[i], t[i], z[j], t[j])
  <2>1. SUFFICES ASSUME NEW i \in 1 .. n, NEW j \in 1 .. n, i < j
                 PROVE  Follows(z[i], t[i], z[j], t[j])
    OBVIOUS
  <2>2. Follows(a[i], t[i], a[j], t[j])
    BY <1>1, <1>3, <2>1 DEF Tagged
  <2>3. z[j] = a[j]
    <3>1. j # 1
      BY <1>4, <2>1
    <3>. QED
      BY <1>1, <1>2, <1>4, <3>1
  <2>4. CASE i = 1
    BY <1>1, <1>2, <1>4, <1>5, <1>6, <2>2, <2>3, <2>4
  <2>5. CASE i # 1
    BY <1>1, <1>2, <1>4, <2>2, <2>3, <2>5
  <2>. QED
    BY <2>4, <2>5
<1>11. Tagged(z, t, c, S)
  BY <1>2, <1>5, <1>9, <1>10 DEF Tagged
<1>. QED
  BY <1>3, <1>11 DEF Trail, z

(* What a command layer was handed, up to the payload r.                    *)
Under(s, r) == \A i \in 1 .. Len(s) : s[i] <= r
Ordered(s)  == \A i, j \in 1 .. Len(s) : i < j /\ s[j] # 0 => s[i] < s[j]

(* A data frame with the next number is a new payload: an old one with this *)
(* number is a whole turn away, and the history is shorter than that.       *)
LEMMA Accepted ==
  ASSUME NEW V \in Frames, NEW f \in Frames, NEW r \in Nat, NEW u \in Nat,
         Sane(f, u), Follows(V, r, f, u),
         V.scon.con = 2, f.scon.con \in Valid, f.scon.num = NextNum(V.scon.num)
  PROVE  r <= u /\ (f.data # 0 => f.data = u /\ r < u)
<1>1. CASE f.data = 0
  BY <1>1 DEF Follows
<1>2. CASE f.data # 0
  <2>1. f.data = u /\ r < u + HistorySize /\ V.scon.con \in Valid
    BY <1>2 DEF Follows, Sane, Valid
  <2>2. ASSUME u <= r PROVE FALSE
    <3>. DEFINE a == V.scon.num + 1
                x == Rem(a, NumMod) - u
                y == a - u
                z == V.scon.num - r
    <3>1. /\ V.scon.num \in Int /\ a \in Int /\ NumMod \in Nat \ {0} /\ HistorySize \in Int
          /\ HistorySize <= NumMod - 1 /\ NumMod \in Int
      BY FrameFields, Sizes
    <3>2. f.scon.num = Rem(a, NumMod) /\ Rem(a, NumMod) \in Int
      <4>1. f.scon.num = Rem(a, NumMod)
        BY FrameFields, NextIs
      <4>. HIDE DEF a
      <4>. QED
        BY <3>1, <4>1, RemFacts
    <3>3. Rem(x, NumMod) = Rem(z, NumMod)
      BY <1>2, <2>1, <2>2, <3>2 DEF Follows, Origin
    <3>4. x \in Int /\ y \in Int /\ z \in Int /\ x - y = Rem(a, NumMod) - a
      <4>. DEFINE b == Rem(a, NumMod)
      <4>1. b \in Int
        BY <3>2
      <4>. HIDE DEF b
      <4>2. b - u \in Int /\ y \in Int /\ z \in Int /\ (b - u) - y = b - a
        BY <3>1, <4>1
      <4>. QED
        BY <4>2 DEF b
    <3>5. y - z \in 1 .. NumMod - 1
      BY <2>1, <2>2, <3>1
    <3>. HIDE DEF a, x, y, z
    <3>6. Rem(x, NumMod) = Rem(y, NumMod)
      BY <3>1, <3>4, RemShift
    <3>7. Rem(z, NumMod) # Rem(y, NumMod)
      BY <3>1, <3>4, <3>5, RemDiffers
    <3>. QED
      BY <3>3, <3>6, <3>7
  <2>. QED
    BY <2>1, <2>2
<1>. QED
  BY <1>1, <1>2

LEMMA Handed ==
  ASSUME NEW s \in Seq(Nat), NEW r \in Nat, Under(s, r), Ordered(s),
         NEW u \in Nat, r <= u, NEW x \in Nat, x # 0 => x = u /\ r < u
  PROVE  Under(s \o << x >>, u) /\ Ordered(s \o << x >>)
<1>. DEFINE a == s \o << x >>
            n == Len(s)
<1>1. n \in Nat /\ Len(a) = n + 1 /\ a[n + 1] = x /\ \A i \in 1 .. n : a[i] = s[i] /\ s[i] \in Nat
  OBVIOUS
<1>2. /\ \A i \in 1 .. n : s[i] <= r
      /\ \A i, j \in 1 .. n : i < j /\ s[j] # 0 => s[i] < s[j]
  BY DEF Under, Ordered
<1>. HIDE DEF a, n
<1>3. Under(a, u)
  BY <1>1, <1>2 DEF Under
<1>4. Ordered(a)
  <2>1. SUFFICES ASSUME NEW i \in 1 .. n + 1, NEW j \in 1 .. n + 1, i < j, a[j] # 0
                 PROVE  a[i] < a[j]
    BY <1>1 DEF Ordered
  <2>2. i \in 1 .. n
    BY <1>1, <2>1
  <2>3. CASE j \in 1 .. n
    BY <1>1, <1>2, <2>1, <2>2, <2>3
  <2>4. CASE j = n + 1
    BY <1>1, <1>2, <2>1, <2>2, <2>4
  <2>. QED
    BY <1>1, <2>3, <2>4
<1>. QED
  BY <1>3, <1>4 DEF a

(* The frame at the head of s is processed.                                 *)
LEMMA Taking ==
  ASSUME NEW V \in Frames, NEW s \in Seq(Frames), s # << >>, NEW c, NEW S \in Nat, NEW r,
         Trail(<< V >> \o s, c, S, r),
         NEW h \in Frames, h.data = 0, h.rcon.con = 0,
         NEW got, Passed(V, h, Head(s), got),
         NEW D \in Seq(Nat), Under(D, r), Ordered(D)
  PROVE  \E u \in Nat : /\ Trail(<< h >> \o Tail(s), c, S, u)
                        /\ Under(D \o got, u) /\ Ordered(D \o got)
<1>. DEFINE f == Head(s)
            e == Tail(s)
<1>1. f \in Frames /\ e \in Seq(Frames) /\ s = << f >> \o e
  BY HeadTail
<1>2. /\ Trail(<< V >> \o e, c, S, r) /\ r \in Nat
      /\ \E u \in Nat : Trail(s, c, S, u) /\ Sane(f, u) /\ Follows(V, r, f, u)
  BY Reached
<1>3. PICK u \in Nat : Trail(s, c, S, u) /\ Sane(f, u) /\ Follows(V, r, f, u)
  BY <1>2
<1>. HIDE DEF f, e
<1>4. Covers(h, f) => Trail(<< h >> \o e, c, S, u)
  BY <1>1, <1>3, Recast
<1>5. D \o << >> = D
  OBVIOUS
<1>6. CASE Covers(h, V) /\ got = << >>
  <2>1. Trail(<< h >> \o e, c, S, r)
    BY <1>1, <1>2, <1>6, Recast
  <2>. QED
    BY <1>2, <1>5, <1>6, <2>1 DEF e
<1>7. CASE Covers(h, f) /\ got = << >> /\ (f.scon.con = 1 \/ V.scon.con = 1)
  <2>1. r <= u
    <3>1. CASE f.data = 0
      BY <1>3, <3>1 DEF Follows
    <3>2. CASE f.data # 0
      <4>1. f.scon.con \in Valid /\ V.scon.con = 1 /\ r < u
        BY <1>3, <1>7, <3>2 DEF Follows, Sane, Valid
      <4>. QED
        BY <1>2, <4>1
    <3>. QED
      BY <3>1, <3>2
  <2>2. Under(D, u)
    <3>1. \A i \in 1 .. Len(D) : D[i] \in Nat /\ D[i] <= r
      BY DEF Under
    <3>. QED
      BY <1>2, <2>1, <3>1 DEF Under
  <2>. QED
    BY <1>4, <1>5, <1>7, <2>2 DEF e
<1>8. CASE /\ Covers(h, f) /\ got = << f.data >>
           /\ V.scon.con = 2 /\ f.scon.con \in Valid /\ f.scon.num = NextNum(V.scon.num)
  <2>1. f.data \in Nat /\ r <= u /\ (f.data # 0 => f.data = u /\ r < u)
    BY <1>1, <1>2, <1>3, <1>8, FrameFields, Accepted
  <2>2. Under(D \o << f.data >>, u) /\ Ordered(D \o << f.data >>)
    BY <1>2, <2>1, Handed
  <2>. QED
    BY <1>4, <1>8, <2>2 DEF e
<1>. QED
  BY <1>6, <1>7, <1>8 DEF Passed, f

-----------------------------------------------------------------------------
(* The inductive invariant: what is on its way to a node is a trail with    *)
(* the node at its head, whose tag no payload that it was handed exceeds.   *)
Stream(p) == << Heard(con[Other(p)]) >> \o net[p]

OrderInv ==
  \A p \in Peers :
    /\ Own(con[p], submitted[p]) /\ Ordered(delivered[p])
    /\ \E r \in Nat : /\ Trail(Stream(p), con[p], submitted[p], r)
                      /\ Under(delivered[Other(p)], r)

Behalf(p, r) == [room |-> Left(p), base |-> Stream(p), tag |-> r]

(* The invariant, of other variables with these values.                     *)
LEMMA OrderPrime ==
  OrderInv' <=> \A x \in Peers :
                  /\ Own(con'[x], submitted'[x]) /\ Ordered(delivered'[x])
                  /\ \E z \in Nat :
                       /\ Trail(<< Heard(con'[Other(x)]) >> \o net'[x], con'[x], submitted'[x], z)
                       /\ Under(delivered'[Other(x)], z)
BY DEF OrderInv, Own, Ordered, Trail, Under, Established, Used, Slot, Tagged, Sane, Behind,
       Follows, Origin, Rem, Stream, Heard

LEMMA OtherTwice ==
  ASSUME NEW p \in Peers
  PROVE  Other(Other(p)) = p /\ \A q \in Peers : q = p \/ q = Other(p)
<1>1. PICK a \in Peers, b \in Peers : a # b /\ Peers = {a, b}
  BY PeersAssumption
<1>2. Other(p) \in Peers /\ Other(p) # p
  BY OtherPeer
<1>3. Other(Other(p)) \in Peers /\ Other(Other(p)) # Other(p)
  BY <1>2, OtherPeer
<1>. QED
  BY <1>1, <1>2, <1>3

LEMMA TypeParts ==
  ASSUME IInv, NEW p \in Peers
  PROVE  /\ con[p] \in Connections /\ net[p] \in Seq(Frames) /\ submitted[p] \in Nat
         /\ delivered[p] \in Seq(Nat) /\ Heard(con[p]) \in Frames
         /\ Stream(p) \in Seq(Frames) /\ Stream(p) # << >>
<1>1. /\ con[p] \in Connections /\ net[p] \in Seq(Frames) /\ submitted[p] \in Nat
      /\ delivered[p] \in Seq(Nat) /\ con[Other(p)] \in Connections
  BY OtherPeer DEF IInv, TypeOK
<1>2. Heard(con[p]) \in Frames /\ Heard(con[Other(p)]) \in Frames
  BY <1>1, HeardFrame
<1>. DEFINE h == Heard(con[Other(p)])
            s == net[p]
            a == << h >> \o s
<1>3. a \in Seq(Frames) /\ a # << >>
  <2>1. h \in Frames /\ s \in Seq(Frames)
    BY <1>1, <1>2
  <2>. HIDE DEF h, s
  <2>. QED
    BY <2>1
<1>. QED
  BY <1>1, <1>2, <1>3 DEF Stream

(* A node's step, which may take the frame at the head of its queue.        *)
LEMMA OrderStep ==
  ASSUME IInv, OrderInv, NEW p \in Peers, NEW r \in Nat, Under(delivered[Other(p)], r),
         NEW w, Ends(w, Behalf(p, r)), Finish(p, w),
         \/ /\ net' = [net EXCEPT ![p] = @ \o w.out]
            /\ w.got = << >> /\ Covers(Heard(w.c), Heard(con[p]))
         \/ /\ net[Other(p)] # << >>
            /\ net' = [net EXCEPT ![Other(p)] = Tail(@), ![p] = @ \o w.out]
            /\ Passed(Heard(con[p]), Heard(w.c), Head(net[Other(p)]), w.got)
  PROVE  OrderInv'
<1>. DEFINE q == Other(p)
            V == Heard(con[p])
            h == Heard(w.c)
            X == Heard(con[q])
            s == net[q]
            e == net[p]
            o == w.out
            D == delivered[p]
            g == w.got
<1>1. q \in Peers /\ q # p /\ Other(q) = p /\ \A x \in Peers : x = p \/ x = q
  BY OtherPeer, OtherTwice
<1>2. /\ Typed(w, Left(p)) /\ Told(w, Behalf(p, r)) /\ Own(w.c, w.last)
      /\ w.c \in Connections /\ w.last \in Nat /\ w.got \in Seq(Nat) /\ w.out \in Seq(Frames)
  <2>1. Typed(w, Left(p)) /\ Told(w, Behalf(p, r)) /\ Own(w.c, w.last)
    BY DEF Ends, Behalf
  <2>. QED
    BY <2>1, WorkParts
<1>3. /\ con[q] \in Connections /\ submitted[q] \in Nat /\ delivered[q] \in Seq(Nat)
      /\ s \in Seq(Frames) /\ e \in Seq(Frames) /\ D \in Seq(Nat)
      /\ V \in Frames /\ X \in Frames
  BY <1>1, TypeParts
<1>4. h \in Frames /\ h.data = 0 /\ h.rcon.con = 0
  BY <1>2, HeardFrame
<1>5. /\ con'[p] = w.c /\ con'[q] = con[q] /\ submitted'[p] = w.last
      /\ submitted'[q] = submitted[q]
      /\ delivered'[p] = D \o g /\ delivered'[q] = delivered[q]
  BY <1>1 DEF IInv, TypeOK, Finish
<1>6. /\ Own(con[q], submitted[q]) /\ Ordered(delivered[q]) /\ Ordered(D)
      /\ \E z \in Nat : Trail(<< V >> \o s, con[q], submitted[q], z) /\ Under(D, z)
  BY <1>1 DEF OrderInv, Stream
<1>7. Heard(con'[p]) = h /\ Heard(con'[q]) = X
  BY <1>5
<1>8. net'[p] = e \o o
      /\ \/ net'[q] = s /\ g = << >> /\ Covers(h, V)
         \/ s # << >> /\ net'[q] = Tail(s) /\ Passed(V, h, Head(s), g)
  BY <1>1 DEF IInv, TypeOK
<1>9. Trail(<< X >> \o net'[p], w.c, w.last, r)
  <2>1. Trail((<< X >> \o e) \o o, w.c, w.last, r)
    BY <1>2 DEF Told, Behalf, Stream
  <2>2. (<< X >> \o e) \o o = << X >> \o (e \o o)
    <3>. DEFINE z == << X >>
    <3>1. z \in Seq(Frames) /\ e \in Seq(Frames) /\ o \in Seq(Frames)
      BY <1>2, <1>3
    <3>. HIDE DEF z, e, o
    <3>2. (z \o e) \o o = z \o (e \o o)
      BY <3>1, Regroup
    <3>. QED
      BY <3>2 DEF z
  <2>. QED
    BY <1>8, <2>1, <2>2
<1>. HIDE DEF q, V, h, X, s, e, o, D, g
<1>10. \E z \in Nat : /\ Trail(<< h >> \o net'[q], con[q], submitted[q], z)
                      /\ Under(D \o g, z) /\ Ordered(D \o g)
  <2>1. PICK z \in Nat : Trail(<< V >> \o s, con[q], submitted[q], z) /\ Under(D, z)
    BY <1>6
  <2>2. CASE net'[q] = s /\ g = << >> /\ Covers(h, V)
    <3>1. Trail(<< h >> \o s, con[q], submitted[q], z)
      BY <1>3, <1>4, <2>1, <2>2, Recast
    <3>2. D \o g = D
      BY <1>3, <2>2
    <3>. QED
      BY <1>6, <2>1, <2>2, <3>1, <3>2
  <2>3. CASE s # << >> /\ net'[q] = Tail(s) /\ Passed(V, h, Head(s), g)
    <3>1. \E u \in Nat : /\ Trail(<< h >> \o Tail(s), con[q], submitted[q], u)
                         /\ Under(D \o g, u) /\ Ordered(D \o g)
      BY <1>3, <1>4, <1>6, <2>1, <2>3, Taking
    <3>. QED
      BY <2>3, <3>1
  <2>. QED
    BY <1>8, <2>2, <2>3
<1>. QED
  <2>1. /\ Own(con'[p], submitted'[p]) /\ Ordered(delivered'[p])
        /\ \E z \in Nat : /\ Trail(<< X >> \o net'[p], con'[p], submitted'[p], z)
                          /\ Under(delivered'[q], z)
    BY <1>2, <1>5, <1>9, <1>10 DEF q
  <2>2. /\ Own(con'[q], submitted'[q]) /\ Ordered(delivered'[q])
        /\ \E z \in Nat : /\ Trail(<< h >> \o net'[q], con'[q], submitted'[q], z)
                          /\ Under(delivered'[p], z)
    BY <1>5, <1>6, <1>10
  <2>3. /\ Heard(con'[Other(p)]) = X /\ Heard(con'[Other(q)]) = h
        /\ Other(p) = q /\ Other(q) = p
    BY <1>1, <1>7 DEF q
  <2>4. \A x \in Peers :
            /\ Own(con'[x], submitted'[x]) /\ Ordered(delivered'[x])
            /\ \E z \in Nat :
                 /\ Trail(<< Heard(con'[Other(x)]) >> \o net'[x], con'[x], submitted'[x], z)
                 /\ Under(delivered'[Other(x)], z)
    BY <1>1, <2>1, <2>2, <2>3
  <2>. QED
    BY <2>4, OrderPrime

(* A handler begins.                                                        *)
Begins(p, r) == /\ Trail(Stream(p), con[p], submitted[p], r) /\ Under(delivered[Other(p)], r)
                /\ Own(con[p], submitted[p])

LEMMA WorkOrder ==
  ASSUME IInv, NEW p \in Peers, NEW r \in Nat, Begins(p, r), NEW k, k = Behalf(p, r),
         NEW w, w \in {Work(p), Opened(p)}
  PROVE  /\ Known(w, k, << >>) /\ w.c.state = con[p].state
         /\ ~Established(con[p]) => Off(w, k, << >>)
         /\ Established(con[p]) => On(w, k, con[p].sendSeqNum.num, << >>)
<1>. DEFINE v == Work(p)
            d == [v.c EXCEPT !.open = TRUE]
<1>1. /\ Sound(v, Left(p)) /\ Typed(v, Left(p)) /\ v.c = con[p] /\ v \in WorkType
      /\ v.c \in Connections
  BY WorkSound, WorkParts DEF Sound
<1>2. v.out = << >> /\ v.got = << >> /\ v.last = submitted[p]
  BY DEF Work
<1>3. /\ k.room = Left(p) /\ k.base = Stream(p) /\ k.tag = r
      /\ Stream(p) \in Seq(Frames) /\ Stream(p) # << >> /\ Own(con[p], submitted[p])
      /\ Trail(Stream(p), con[p], submitted[p], r)
  BY TypeParts DEF Behalf, Begins
<1>. HIDE DEF v
<1>4. Told(v, k)
  <2>1. Stream(p) \o << >> = Stream(p)
    BY <1>3
  <2>. QED
    BY <1>1, <1>2, <1>3, <2>1 DEF Told
<1>5. Known(v, k, << >>)
  BY <1>1, <1>2, <1>3, <1>4 DEF Known
<1>6. ASSUME Established(con[p]) PROVE On(v, k, con[p].sendSeqNum.num, << >>)
  BY <1>1, <1>2, <1>3, <1>4, <1>6 DEF On, Up
<1>7. ASSUME ~Established(con[p]) PROVE Off(v, k, << >>)
  BY <1>1, <1>5, <1>7 DEF Off, Known
<1>8. Opened(p) = [v EXCEPT !.c = d]
  BY <1>1 DEF Opened, v, WorkType
<1>9. /\ Alike(v.c, d) /\ d \in Connections /\ d.state = con[p].state
      /\ d.sendSeqNum = con[p].sendSeqNum
      /\ d.frames = v.c.frames /\ d.recvSeqNum = v.c.recvSeqNum
  <2>1. ASSUME NEW b \in BOOLEAN
        PROVE  LET e == [v.c EXCEPT !.open = b]
               IN  /\ Alike(v.c, e) /\ e \in Connections /\ e.state = con[p].state
                   /\ e.sendSeqNum = con[p].sendSeqNum
                   /\ e.frames = v.c.frames /\ e.recvSeqNum = v.c.recvSeqNum
    BY <1>1 DEF Connections, Alike
  <2>. QED
    BY <2>1
<1>. HIDE DEF d
<1>10. ASSUME Established(con[p])
       PROVE  On(Opened(p), k, con[p].sendSeqNum.num, << >>) /\ Opened(p).c = d
  <2>1. Plain(v.c, d)
    BY <1>1, <1>6, <1>9, <1>10, OnParts DEF Plain
  <2>2. ASSUME NEW x, x = [v EXCEPT !.c = d]
        PROVE  On(x, k, con[p].sendSeqNum.num, << >>) /\ x.c = d
    BY <1>6, <1>9, <1>10, <2>1, <2>2, PutPlain
  <2>. QED
    BY <1>8, <2>2
<1>11. ASSUME ~Established(con[p])
       PROVE  Off(Opened(p), k, << >>) /\ Opened(p).c = d
  <2>1. ~Established(d)
    BY <1>9, <1>11 DEF Established
  <2>2. ASSUME NEW x, x = [v EXCEPT !.c = d]
        PROVE  Off(x, k, << >>) /\ x.c = d
    BY <1>5, <1>9, <2>1, <2>2, PutDown
  <2>. QED
    BY <1>8, <2>2
<1>12. CASE w = v
  BY <1>1, <1>5, <1>6, <1>7, <1>12
<1>13. CASE w = Opened(p)
  BY <1>9, <1>10, <1>11, <1>13, OnKnown, OffParts
<1>. QED
  BY <1>12, <1>13 DEF v

LEMMA CoversDown ==
  ASSUME NEW v, NEW k, NEW g, Off(v, k, g), v.c.state \notin {"Init2", "Init3"}, NEW h
  PROVE  Ends(v, k) /\ v.got = g /\ Covers(Heard(v.c), h)
BY OffEnds DEF Covers

LEMMA CoversOn ==
  ASSUME NEW v, NEW k, NEW n, NEW g, On(v, k, n, g), NEW c \in Connections, Established(c),
         c.sendSeqNum.num = n
  PROVE  Ends(v, k) /\ v.got = g /\ Covers(Heard(v.c), Heard(c))
<1>1. Ends(v, k) /\ v.got = g /\ Heard(v.c).scon.con = 2 /\ Heard(v.c).scon.num = n
  BY OnEnds
<1>2. Heard(c).scon.con = 2 /\ Heard(c).scon.num = n
  BY HeardFrame
<1>. QED
  BY <1>1, <1>2 DEF Covers, Valid

LEMMA Begun ==
  ASSUME OrderInv, NEW p \in Peers
  PROVE  \E r \in Nat : Begins(p, r)
BY DEF OrderInv, Begins

(* A step without a reception.                                              *)
LEMMA QuietStep ==
  ASSUME IInv, OrderInv, NEW p \in Peers, NEW r \in Nat, Begins(p, r),
         NEW k, k = Behalf(p, r), NEW w, Finish(p, w), net' = [net EXCEPT ![p] = @ \o w.out],
         \/ Off(w, k, << >>) /\ w.c.state \notin {"Init2", "Init3"}
         \/ Established(con[p]) /\ On(w, k, con[p].sendSeqNum.num, << >>)
  PROVE  OrderInv'
<1>1. Ends(w, k) /\ w.got = << >> /\ Covers(Heard(w.c), Heard(con[p]))
  <2>1. CASE Off(w, k, << >>) /\ w.c.state \notin {"Init2", "Init3"}
    BY <2>1, CoversDown
  <2>2. CASE Established(con[p]) /\ On(w, k, con[p].sendSeqNum.num, << >>)
    BY <2>2, TypeParts, CoversOn
  <2>. QED
    BY <2>1, <2>2
<1>2. Under(delivered[Other(p)], r)
  BY DEF Begins
<1>. QED
  BY <1>1, <1>2, OrderStep

LEMMA CommandOrder ==
  ASSUME IInv, OrderInv, NEW p \in Peers,
         \/ InitCon(p) \/ DeleteCon(p) \/ Restart(p) \/ \E ret \in Returns : Submit(p, ret)
  PROVE  OrderInv'
<1>. DEFINE v == Work(p)
<1>1. PICK r \in Nat : Begins(p, r)
  BY Begun
<1>. DEFINE k == Behalf(p, r)
<1>2. /\ Known(v, k, << >>) /\ v.c.state = con[p].state
      /\ ~Established(con[p]) => Off(v, k, << >>)
      /\ Established(con[p]) => On(v, k, con[p].sendSeqNum.num, << >>)
  BY <1>1, WorkOrder
<1>3. v \in WorkType /\ v.c \in Connections
  BY <1>2, KnownParts
<1>. HIDE DEF v, k
<1>4. ASSUME NEW w, Finish(p, w), net' = [net EXCEPT ![p] = @ \o w.out],
             \/ Off(w, k, << >>) /\ w.c.state \notin {"Init2", "Init3"}
             \/ Established(con[p]) /\ On(w, k, con[p].sendSeqNum.num, << >>)
      PROVE  OrderInv'
  BY <1>1, <1>4, QuietStep DEF k
<1>5. CASE InitCon(p)
  <2>. DEFINE r0 == Byte(0, 1)
              s0 == Byte(0, 0)
              d1 == [v.c EXCEPT !.open = TRUE, !.recvSeqNum = r0, !.sendSeqNum = s0]
              w1 == [v EXCEPT !.c.open = TRUE, !.c.recvSeqNum = Byte(0, 1),
                              !.c.sendSeqNum = Byte(0, 0)]
              u  == SendEmpty(w1)
              d2 == [u.c EXCEPT !.flow = FALSE, !.state = "Init1", !.timer = TRUE]
              w2 == IF Full(w1) THEN w1
                    ELSE [u EXCEPT !.c.flow = FALSE, !.c.state = "Init1", !.c.timer = TRUE]
  <2>1. r0 \in Bytes /\ s0 \in Bytes /\ r0.con # 0
    BY Sizes DEF Byte, Bytes
  <2>2. w1 = [v EXCEPT !.c = d1]
    BY <1>3 DEF WorkType
  <2>. HIDE DEF r0, s0
  <2>3. d1 \in Connections /\ d1.state = "Idle" /\ d1.recvSeqNum = r0
    BY <1>2, <1>3, <1>5, <2>1 DEF Connections, InitCon
  <2>. HIDE DEF d1, w1
  <2>4. ~Established(d1)
    BY <2>3 DEF Established
  <2>5. Off(w1, k, << >>) /\ w1.c = d1
    BY <1>2, <2>2, <2>3, <2>4, PutDown
  <2>6. Off(u, k, << >>)
    BY <2>1, <2>3, <2>5, EmptyOff
  <2>. HIDE DEF u
  <2>7. Known(u, k, << >>) /\ u \in WorkType /\ u.c \in Connections
    BY <2>6, OffParts, KnownParts
  <2>8. [u EXCEPT !.c.flow = FALSE, !.c.state = "Init1", !.c.timer = TRUE] = [u EXCEPT !.c = d2]
    BY <2>7 DEF WorkType
  <2>9. d2 \in Connections /\ d2.state = "Init1"
    BY <2>7 DEF Connections, States
  <2>. HIDE DEF d2
  <2>10. ~Established(d2)
    BY <2>9 DEF Established
  <2>11. Off([u EXCEPT !.c = d2], k, << >>) /\ [u EXCEPT !.c = d2].c = d2
    BY <2>7, <2>9, <2>10, PutDown
  <2>12. w2 = w1 \/ w2 = [u EXCEPT !.c = d2]
    BY <2>8
  <2>13. Finish(p, w2) /\ net' = [net EXCEPT ![p] = @ \o w2.out]
    BY <1>5 DEF InitCon, v, u, w1
  <2>. HIDE DEF w2
  <2>14. Off(w2, k, << >>) /\ w2.c.state \notin {"Init2", "Init3"}
    BY <2>3, <2>5, <2>9, <2>11, <2>12
  <2>. QED
    BY <1>4, <2>13, <2>14
<1>6. CASE DeleteCon(p)
  <2>. DEFINE w == IF con[p].state = "Connected" THEN SendClose(v) ELSE v
  <2>1. Known(w, k, << >>)
    BY <1>2, SendCloseKnown
  <2>2. /\ Finish(p, Closed(w)) /\ net' = [net EXCEPT ![p] = @ \o w.out]
    BY <1>6 DEF DeleteCon, v
  <2>. HIDE DEF w
  <2>3. Off(Closed(w), k, << >>) /\ Closed(w).c.state = "Idle"
    BY <2>1, ClosedOff
  <2>4. Closed(w).out = w.out
    BY <2>1, KnownParts DEF Closed, WorkType
  <2>. QED
    BY <1>4, <2>2, <2>3, <2>4
<1>7. CASE Restart(p)
  <2>. DEFINE d == FreshCon
              w == [v EXCEPT !.c = d]
  <2>1. d \in Connections /\ d.state = "Idle"
    BY ClosedConType
  <2>2. Finish(p, w) /\ net' = net
    BY <1>7 DEF Restart, v
  <2>3. w.out = << >>
    BY DEF v, Work
  <2>4. net' = [net EXCEPT ![p] = @ \o w.out]
    <3>1. net \in [Peers -> Seq(Frames)] /\ net[p] \o << >> = net[p]
      BY TypeParts DEF IInv, TypeOK
    <3>. QED
      BY <2>2, <2>3, <3>1
  <2>. HIDE DEF d
  <2>5. ~Established(d)
    BY <2>1 DEF Established
  <2>6. Off(w, k, << >>) /\ w.c = d
    BY <1>2, <2>1, <2>5, PutDown
  <2>. HIDE DEF w
  <2>. QED
    BY <1>4, <2>1, <2>2, <2>4, <2>6
<1>8. CASE \E ret \in Returns : Submit(p, ret)
  <2>1. PICK ret \in Returns : Submit(p, ret)
    BY <1>8
  <2>. DEFINE w == SendData(v, "data", ret)
  <2>2. Established(con[p]) /\ "data" \in Replies
    BY <2>1 DEF Submit, Established, Replies
  <2>3. On(w, k, con[p].sendSeqNum.num, << >>)
    BY <1>2, <2>2, SendDataOn
  <2>4. Finish(p, w) /\ net' = [net EXCEPT ![p] = @ \o w.out]
    BY <2>1 DEF Submit, v
  <2>. HIDE DEF w
  <2>. QED
    BY <1>4, <2>2, <2>3, <2>4
<1>. QED
  BY <1>5, <1>6, <1>7, <1>8

LEMMA TimeoutOrder ==
  ASSUME IInv, OrderInv, NEW p \in Peers, Timeout(p)
  PROVE  OrderInv'
<1>. DEFINE v == Work(p)
            d == [v.c EXCEPT !.timer = FALSE]
            w == [v EXCEPT !.c.timer = FALSE]
            n == con[p].sendSeqNum.num
            x == CASE con[p].state = "Idle"       -> w
                   [] con[p].state \in InitStates -> FinalTimeout(w)
                   [] con[p].state = "Connected"  -> TimeoutEvent(w)
                   [] con[p].state = "WaitAck"    -> TimeoutEvent(RequestAck(w))
<1>1. PICK r \in Nat : Begins(p, r)
  BY Begun
<1>. DEFINE k == Behalf(p, r)
<1>2. /\ Known(v, k, << >>) /\ v.c.state = con[p].state
      /\ ~Established(con[p]) => Off(v, k, << >>)
      /\ Established(con[p]) => On(v, k, n, << >>)
  BY <1>1, WorkOrder
<1>3. v \in WorkType /\ v.c \in Connections /\ v.c = con[p]
  BY <1>2, KnownParts, WorkSound
<1>4. Finish(p, x) /\ net' = [net EXCEPT ![p] = @ \o x.out]
  BY DEF Timeout, v
<1>. HIDE DEF v, k
<1>5. /\ Alike(v.c, d) /\ d \in Connections /\ d.state = con[p].state
      /\ d.sendSeqNum = v.c.sendSeqNum /\ d.frames = v.c.frames
      /\ d.recvSeqNum = v.c.recvSeqNum
  <2>1. ASSUME NEW b \in BOOLEAN
        PROVE  LET e == [v.c EXCEPT !.timer = b]
               IN  /\ Alike(v.c, e) /\ e \in Connections /\ e.state = v.c.state
                   /\ e.sendSeqNum = v.c.sendSeqNum /\ e.frames = v.c.frames
                   /\ e.recvSeqNum = v.c.recvSeqNum
    BY <1>3 DEF Connections, Alike
  <2>. QED
    BY <1>2, <2>1
<1>6. w = [v EXCEPT !.c = d]
  BY <1>3 DEF WorkType
<1>. HIDE DEF d, w
<1>7. ASSUME ~Established(con[p]) PROVE Off(w, k, << >>) /\ w.c.state = con[p].state
  <2>1. ~Established(d)
    BY <1>5, <1>7 DEF Established
  <2>. QED
    BY <1>2, <1>5, <1>6, <2>1, PutDown
<1>8. ASSUME Established(con[p]) PROVE On(w, k, n, << >>)
  <2>1. Plain(v.c, d) /\ d.sendSeqNum.num = n
    BY <1>2, <1>3, <1>5, <1>8, OnParts DEF Plain
  <2>. QED
    BY <1>2, <1>6, <1>8, <2>1, PutPlain
<1>9. ASSUME Established(con[p])
      PROVE  /\ TimeoutEvent(w) = FinalTimeout(w) \/ On(TimeoutEvent(w), k, n, << >>)
             /\ \/ TimeoutEvent(RequestAck(w)) = FinalTimeout(RequestAck(w))
                \/ On(TimeoutEvent(RequestAck(w)), k, n, << >>)
             /\ Known(w, k, << >>) /\ Known(RequestAck(w), k, << >>)
  <2>1. On(w, k, n, << >>) /\ On(RequestAck(w), k, n, << >>)
    BY <1>8, <1>9, CodesOn
  <2>2. Known(w, k, << >>) /\ Known(RequestAck(w), k, << >>)
    BY <2>1, OnKnown
  <2>. QED
    BY <2>1, <2>2, TimeoutEventOn
<1>10. ASSUME NEW u, Known(u, k, << >>)
       PROVE  Off(FinalTimeout(u), k, << >>) /\ FinalTimeout(u).c.state = "Idle"
  BY <1>10, FinalOff
<1>11. \/ Off(x, k, << >>) /\ x.c.state \notin {"Init2", "Init3"}
       \/ Established(con[p]) /\ On(x, k, n, << >>)
  <2>. HIDE DEF n
  <2>1. CASE con[p].state = "Idle"
    <3>1. x = w /\ ~Established(con[p])
      BY <2>1 DEF Established, InitStates
    <3>. QED
      BY <1>7, <2>1, <3>1
  <2>2. CASE con[p].state \in InitStates
    <3>1. x = FinalTimeout(w) /\ ~Established(con[p])
      BY <2>2 DEF Established, InitStates
    <3>2. Known(w, k, << >>)
      BY <1>7, <3>1, OffParts
    <3>. HIDE DEF x
    <3>. QED
      BY <1>10, <3>1, <3>2
  <2>3. CASE con[p].state = "Connected"
    <3>1. x = TimeoutEvent(w) /\ Established(con[p])
      BY <2>3 DEF Established, InitStates
    <3>. HIDE DEF x
    <3>. QED
      BY <1>9, <1>10, <3>1
  <2>4. CASE con[p].state = "WaitAck"
    <3>1. x = TimeoutEvent(RequestAck(w)) /\ Established(con[p])
      BY <2>4 DEF Established, InitStates
    <3>. HIDE DEF x
    <3>. QED
      BY <1>9, <1>10, <3>1
  <2>5. con[p].state \in States
    BY <1>3 DEF Connections
  <2>. QED
    BY <2>1, <2>2, <2>3, <2>4, <2>5 DEF States, InitStates
<1>. HIDE DEF x
<1>. QED
  BY <1>1, <1>4, <1>11, QuietStep DEF k

LEMMA ReceiveOrder ==
  ASSUME IInv, OrderInv, NEW p \in Peers, ReceiveAny(p)
  PROVE  OrderInv'
<1>. DEFINE v == Opened(p)
            f == Incoming(p)
            h == Heard(con[p])
            n == con[p].sendSeqNum.num
<1>1. PICK r \in Nat : Begins(p, r)
  BY Begun
<1>. DEFINE k == Behalf(p, r)
<1>2. /\ Known(v, k, << >>) /\ v.c.state = con[p].state
      /\ ~Established(con[p]) => Off(v, k, << >>)
      /\ Established(con[p]) => On(v, k, n, << >>)
  BY <1>1, WorkOrder
<1>3. ASSUME net[Other(p)] # << >>
      PROVE  f \in Frames /\ (f.scon.con = 0 => f.rcon.con = 0) /\ f = Head(net[Other(p)])
  <2>. DEFINE q == Other(p)
              s == net[q]
  <2>1. q \in Peers /\ Other(q) = p /\ f = Head(s)
    BY OtherPeer, OtherTwice DEF Incoming
  <2>2. s \in Seq(Frames) /\ h \in Frames
    BY <2>1, TypeParts
  <2>3. PICK z : Trail(<< h >> \o s, con[q], submitted[q], z)
    BY <2>1 DEF OrderInv, Stream
  <2>. HIDE DEF h, s, q
  <2>4. f \in Frames /\ \E u \in Nat : Sane(f, u)
    BY <1>3, <2>1, <2>2, <2>3, HeadTail, Reached DEF s, q
  <2>. QED
    BY <2>1, <2>4 DEF Sane, s, q
<1>4. /\ con[p].state \in {"Init2", "Init3"} => h.scon.con = 1
      /\ Established(con[p]) => h.scon.con = 2 /\ h.scon.num = n
  BY TypeParts, HeardFrame
<1>. HIDE DEF v, f, h, n, k
<1>5. ASSUME NEW w, Outcome(w, k, h, f), Receive(p, w), net[Other(p)] # << >>
      PROVE  OrderInv'
  <2>1. /\ Ends(w, k) /\ Passed(h, Heard(w.c), f, w.got) /\ f = Head(net[Other(p)])
        /\ Finish(p, w) /\ net' = [net EXCEPT ![Other(p)] = Tail(@), ![p] = @ \o w.out]
    BY <1>3, <1>5 DEF Outcome, Receive
  <2>2. Under(delivered[Other(p)], r)
    BY <1>1 DEF Begins
  <2>. QED
    BY <1>5, <2>1, <2>2, OrderStep DEF k, h
<1>6. CASE ReceiveIdle(p)
  <2>1. con[p].state = "Idle" /\ net[Other(p)] # << >> /\ Receive(p, IdleRec(v, f))
    BY <1>6 DEF ReceiveIdle, Expecting, v, f
  <2>2. Outcome(IdleRec(v, f), k, h, f)
    BY <1>2, <1>3, <2>1, IdleRecOutcome DEF Established
  <2>. QED
    BY <1>5, <2>1, <2>2
<1>7. CASE ReceiveInit1(p)
  <2>1. con[p].state = "Init1" /\ net[Other(p)] # << >> /\ Receive(p, Init1Rec(v, f))
    BY <1>7 DEF ReceiveInit1, Expecting, v, f
  <2>2. Outcome(Init1Rec(v, f), k, h, f)
    BY <1>2, <1>3, <2>1, InitRecOutcome DEF Established
  <2>. QED
    BY <1>5, <2>1, <2>2
<1>8. ASSUME NEW deletes \in BOOLEAN, ReceiveInit2(p, deletes)
      PROVE  OrderInv'
  <2>1. con[p].state = "Init2" /\ net[Other(p)] # << >> /\ Receive(p, Init2Rec(v, f, deletes))
    BY <1>8 DEF ReceiveInit2, Expecting, v, f
  <2>2. Outcome(Init2Rec(v, f, deletes), k, h, f)
    BY <1>2, <1>3, <1>4, <2>1, InitRecOutcome DEF Established
  <2>. QED
    BY <1>5, <2>1, <2>2
<1>9. ASSUME NEW deletes \in BOOLEAN, ReceiveInit3(p, deletes)
      PROVE  OrderInv'
  <2>1. con[p].state = "Init3" /\ net[Other(p)] # << >> /\ Receive(p, Init3Rec(v, f, deletes))
    BY <1>9 DEF ReceiveInit3, Expecting, v, f
  <2>2. Outcome(Init3Rec(v, f, deletes), k, h, f)
    BY <1>2, <1>3, <1>4, <2>1, InitRecOutcome DEF Established
  <2>. QED
    BY <1>5, <2>1, <2>2
<1>10. ASSUME NEW deletes \in BOOLEAN, NEW ret \in Returns, NEW reply \in Replies,
              ReceiveConnected(p, deletes, ret, reply)
       PROVE  OrderInv'
  <2>. DEFINE w == ConnectedRec(v, f, deletes, ret, reply)
  <2>1. con[p].state = "Connected" /\ net[Other(p)] # << >> /\ Receive(p, w)
    BY <1>10 DEF ReceiveConnected, Expecting, v, f
  <2>2. Established(con[p]) /\ "none" \in Replies
    BY <2>1 DEF Established, Replies
  <2>3. On(v, k, n, << >>) /\ h.scon.con = 2 /\ h.scon.num = n
    BY <1>2, <1>4, <2>2
  <2>4. Outcome(w, k, h, f)
    BY <1>3, <2>1, <2>2, <2>3, EstablishedOutcome
  <2>. HIDE DEF w
  <2>. QED
    BY <1>5, <2>1, <2>4
<1>11. ASSUME NEW deletes \in BOOLEAN, NEW ret \in Returns, NEW reply \in Replies,
              NEW onAck \in {"none", "data"}, ReceiveWaitAck(p, deletes, ret, reply, onAck)
       PROVE  OrderInv'
  <2>. DEFINE w == WaitAckRec(v, f, deletes, ret, reply, onAck)
  <2>1. con[p].state = "WaitAck" /\ net[Other(p)] # << >> /\ Receive(p, w)
    BY <1>11 DEF ReceiveWaitAck, Expecting, v, f
  <2>2. Established(con[p]) /\ onAck \in Replies
    BY <2>1 DEF Established, Replies
  <2>3. On(v, k, n, << >>) /\ h.scon.con = 2 /\ h.scon.num = n
    BY <1>2, <1>4, <2>2
  <2>4. Outcome(w, k, h, f)
    BY <1>3, <2>1, <2>2, <2>3, EstablishedOutcome
  <2>. HIDE DEF w
  <2>. QED
    BY <1>5, <2>1, <2>4
<1>. QED
  BY <1>6, <1>7, <1>8, <1>9, <1>10, <1>11 DEF ReceiveAny

LEMMA LoseOrder ==
  ASSUME IInv, OrderInv, NEW p \in Peers, Lose(p)
  PROVE  OrderInv'
<1>1. /\ con' = con /\ submitted' = submitted /\ delivered' = delivered
      /\ net[p] # << >> /\ net' = [net EXCEPT ![p] = Tail(@)]
      /\ net \in [Peers -> Seq(Frames)]
  BY DEF Lose, IInv, TypeOK
<1>2. SUFFICES ASSUME NEW x \in Peers
               PROVE  /\ Own(con[x], submitted[x]) /\ Ordered(delivered[x])
                      /\ \E z \in Nat :
                           /\ Trail(<< Heard(con[Other(x)]) >> \o net'[x],
                                    con[x], submitted[x], z)
                           /\ Under(delivered[Other(x)], z)
  BY <1>1, OrderPrime
<1>. DEFINE h == Heard(con[Other(x)])
            s == net[x]
<1>3. /\ Own(con[x], submitted[x]) /\ Ordered(delivered[x])
      /\ \E z \in Nat : Trail(<< h >> \o s, con[x], submitted[x], z)
                        /\ Under(delivered[Other(x)], z)
  BY DEF OrderInv, Stream
<1>4. h \in Frames /\ s \in Seq(Frames)
  BY OtherPeer, TypeParts
<1>5. net'[x] = s \/ (s # << >> /\ net'[x] = Tail(s))
  BY <1>1
<1>. HIDE DEF h, s
<1>6. \A z : s # << >> /\ Trail(<< h >> \o s, con[x], submitted[x], z)
               => Trail(<< h >> \o Tail(s), con[x], submitted[x], z)
  BY <1>4, Reached
<1>. QED
  BY <1>3, <1>5, <1>6 DEF h

LEMMA OrderInit ==
  ASSUME Init
  PROVE  OrderInv
<1>. DEFINE d == FreshCon
<1>1. /\ d \in Connections /\ d.state = "Idle" /\ con = [p \in Peers |-> d]
      /\ net = [p \in Peers |-> << >>] /\ submitted = [p \in Peers |-> 0]
      /\ delivered = [p \in Peers |-> << >>]
  BY ClosedConType DEF Init
<1>. HIDE DEF d
<1>. DEFINE h == Heard(d)
<1>2. h \in Frames /\ h.data = 0 /\ h.rcon.con = 0 /\ ~Established(d)
  BY <1>1, HeardFrame DEF Established
<1>. HIDE DEF h
<1>3. Trail(<< h >>, d, 0, 0)
  <2>. DEFINE t == << 0 >>
  <2>1. t \in Seq(Nat) /\ Len(t) = 1 /\ t[1] = 0
    OBVIOUS
  <2>2. Len(<< h >>) = 1 /\ << h >>[1] = h
    OBVIOUS
  <2>3. Sane(h, 0) /\ Behind(h, 0, d, 0)
    BY <1>2 DEF Sane, Behind
  <2>. HIDE DEF t
  <2>4. Tagged(<< h >>, t, d, 0)
    BY <2>1, <2>2, <2>3 DEF Tagged
  <2>. QED
    BY <2>1, <2>4 DEF Trail
<1>4. << h >> \o << >> = << h >>
  BY <1>2
<1>5. Own(d, 0)
  BY <1>2 DEF Own
<1>6. Ordered(<< >>) /\ Under(<< >>, 0)
  BY DEF Ordered, Under
<1>7. ASSUME NEW p \in Peers
      PROVE  /\ Own(con[p], submitted[p]) /\ Ordered(delivered[p])
             /\ \E r \in Nat : /\ Trail(Stream(p), con[p], submitted[p], r)
                               /\ Under(delivered[Other(p)], r)
  <2>1. Stream(p) = << h >> /\ con[p] = d /\ submitted[p] = 0 /\ delivered[p] = << >>
        /\ delivered[Other(p)] = << >>
    BY <1>1, <1>4, OtherPeer DEF Stream, h
  <2>2. Trail(Stream(p), con[p], submitted[p], 0) /\ Under(delivered[Other(p)], 0)
    BY <1>3, <1>6, <2>1
  <2>. QED
    BY <1>5, <1>6, <2>1, <2>2
<1>. QED
  BY <1>7 DEF OrderInv

(* What a command layer is handed is in the order of its submission, and    *)
(* nothing twice, whatever is lost, sent again, acknowledged or restarted   *)
(* and however often the sequence numbers wrap around: the history is       *)
(* shorter than a turn of the numbers.                                      *)
THEOREM SpecInOrder == Spec => []InOrder
<1>1. Init => OrderInv
  BY OrderInit
<1>2. IInv /\ OrderInv /\ [Next]_vars => OrderInv'
  <2>. SUFFICES ASSUME IInv, OrderInv, [Next]_vars PROVE OrderInv'
    OBVIOUS
  <2>1. CASE UNCHANGED vars
    <3>1. OrderInv <=> \A x \in Peers :
                  /\ Own(con[x], submitted[x]) /\ Ordered(delivered[x])
                  /\ \E z \in Nat :
                       /\ Trail(<< Heard(con[Other(x)]) >> \o net[x], con[x], submitted[x], z)
                       /\ Under(delivered[Other(x)], z)
      BY DEF OrderInv, Stream
    <3>. QED
      BY <2>1, <3>1, OrderPrime DEF vars
  <2>. QED
    BY <2>1, CommandOrder, ReceiveOrder, TimeoutOrder, LoseOrder DEF Next
<1>3. IInv /\ OrderInv => InOrder
  BY DEF OrderInv, Ordered, InOrder
<1>. QED
  BY <1>1, <1>2, <1>3, IInvHolds, PTL DEF Spec
=============================================================================
