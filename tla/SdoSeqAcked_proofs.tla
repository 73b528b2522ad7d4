------------------------ MODULE SdoSeqAcked_proofs --------------------------
(***************************************************************************)
(* AckedWasTaken compares the two nodes during the first connection: what  *)
(* a node has counted off, what the frames under way and in the histories  *)
(* acknowledge and carry, and what the partner has been handed. A frame    *)
(* under way that counts n data carries the last of them or nothing, so    *)
(* that the n-th frame handed over is the n-th datum or an empty frame.    *)
(* An established connection has counted from zero at both ends because    *)
(* the handshake leaves no frame behind that could be taken for one of its *)
(* steps, which is shown of a client and a server.                         *)
(***************************************************************************)
EXTENDS SdoSeq_proofs

(* Acknowledgements of the first connection.  The number that frame f        *)
(* acknowledges counts a frames that were handed over, its own number counts *)
(* at most S data; a close frame says nothing.                               *)
Counted(f, a, S) == /\ f.rcon.num = Rem(a, NumMod)
                    /\ \E s \in 0 .. S : f.scon.num = Rem(s, NumMod)
Dated(f, a, S)   == \/ f.scon.con = 0 /\ f.rcon.con = 0
                    \/ Counted(f, a, S)

(* The own number of frame f counts n data, and it carries the last of these *)
(* or nothing.  A frame that is sent belongs to the last HistorySize data.   *)
Bears(f, n) == \/ f.scon.con = 0 /\ f.rcon.con = 0
               \/ f.scon.num = Rem(n, NumMod) /\ f.data \in {0, n}
Recent(f, S) == \E n \in 0 .. S : S < n + HistorySize /\ Bears(f, n)

(* A node that was handed D frames and sends no data of its own acknowledges *)
(* all of them in each frame; data sent again repeat an old acknowledgement. *)
Says(f, D, S, limit) == /\ \E a \in 0 .. D : Dated(f, a, S) /\ (limit = 0 => a = D)
                        /\ Recent(f, S)

(* What a sequence of frames acknowledges.  If no data are among them, it     *)
(* grows, from low on.                                                       *)
Counts(s, t, low, D, S, limit) ==
  /\ Len(t) = Len(s)
  /\ \A i \in 1 .. Len(s) : t[i] <= D /\ Dated(s[i], t[i], S) /\ (limit = 0 => low <= t[i])
  /\ limit = 0 => \A i, j \in 1 .. Len(s) : i < j => t[i] <= t[j]
Reports(s, low, D, S, limit) == \E t \in Seq(Nat) : Counts(s, t, low, D, S, limit)

(* What the frames on the way to a node that took H frames carry: none lies  *)
(* a history behind a frame in front of it, nor behind what was taken.       *)
Carries(s, t, H, S) ==
  /\ Len(t) = Len(s)
  /\ \A i \in 1 .. Len(s) : t[i] <= S /\ H < t[i] + HistorySize /\ Bears(s[i], t[i])
  /\ \A i, j \in 1 .. Len(s) : i < j => t[i] < t[j] + HistorySize
Numbered(s, H, S) == H <= S /\ \E t \in Seq(Nat) : Carries(s, t, H, S)

(* The frames that the history holds or held.                                *)
Stock(c, D, S) ==
  \A i \in Slots : /\ c.frames[i].scon.con # 1
                   /\ \E a \in 0 .. D : Counted(c.frames[i], a, S)

LEMMA DatedMore ==
  ASSUME NEW f, NEW a, NEW S \in Nat, NEW T \in Nat, S <= T
  PROVE  /\ Counted(f, a, S) => Counted(f, a, T)
         /\ Dated(f, a, S) => Dated(f, a, T)
BY DEF Counted, Dated

LEMMA ReportsMore ==
  ASSUME NEW s \in Seq(Frames), NEW low \in Nat, NEW D \in Nat, NEW S \in Nat, NEW limit,
         Reports(s, low, D, S, limit), NEW E \in Nat, D <= E, NEW T \in Nat, S <= T
  PROVE  Reports(s, low, E, T, limit)
<1>1. PICK t \in Seq(Nat) : Counts(s, t, low, D, S, limit)
  BY DEF Reports
<1>2. ASSUME NEW i \in 1 .. Len(s)
      PROVE  t[i] <= E /\ Dated(s[i], t[i], T)
  <2>1. Len(t) = Len(s) /\ t[i] <= D /\ Dated(s[i], t[i], S)
    BY <1>1 DEF Counts
  <2>2. t[i] \in Nat
    BY <2>1
  <2>. QED
    BY <2>1, <2>2, DatedMore
<1>3. Counts(s, t, low, E, T, limit)
  BY <1>1, <1>2 DEF Counts
<1>. QED
  BY <1>3 DEF Reports

LEMMA StockMore ==
  ASSUME NEW c, NEW D \in Nat, NEW S \in Nat, Stock(c, D, S),
         NEW E \in Nat, D <= E, NEW T \in Nat, S <= T
  PROVE  Stock(c, E, T)
<1>. SUFFICES ASSUME NEW i \in Slots
              PROVE  /\ c.frames[i].scon.con # 1
                     /\ \E a \in 0 .. E : Counted(c.frames[i], a, T)
  BY DEF Stock
<1>1. PICK a \in 0 .. D : Counted(c.frames[i], a, S)
  BY DEF Stock
<1>2. a \in 0 .. E /\ Counted(c.frames[i], a, T)
  BY <1>1, DatedMore
<1>. QED
  BY <1>2 DEF Stock

LEMMA ReportsJoined ==
  ASSUME NEW s \in Seq(Frames), NEW D \in Nat, NEW low \in 0 .. D, NEW S, NEW limit,
         Reports(s, low, D, S, limit), NEW z \in Seq(Frames),
         \A i \in 1 .. Len(z) : Says(z[i], D, S, limit)
  PROVE  Reports(s \o z, low, D, S, limit)
<1>1. PICK t \in Seq(Nat) : Counts(s, t, low, D, S, limit)
  BY DEF Reports
<1>. DEFINE d(i) == CHOOSE a \in 0 .. D : Dated(z[i], a, S) /\ (limit = 0 => a = D)
            y == [i \in 1 .. Len(z) |-> d(i)]
            a == s \o z
            b == t \o y
            n == Len(s)
            m == Len(z)
<1>2. ASSUME NEW i \in 1 .. m
      PROVE  d(i) \in 0 .. D /\ Dated(z[i], d(i), S) /\ (limit = 0 => d(i) = D)
  BY DEF Says
<1>3. m \in Nat /\ n \in Nat
  OBVIOUS
<1>. HIDE DEF d
<1>4. y \in Seq(Nat) /\ Len(y) = m /\ \A i \in 1 .. m : y[i] = d(i)
  <2>1. \A i \in 1 .. m : d(i) \in Nat
    BY <1>2
  <2>2. \A x \in Nat : \A e : e = [i \in 1 .. x |-> d(i)] /\ (\A i \in 1 .. x : d(i) \in Nat)
          => e \in Seq(Nat) /\ Len(e) = x /\ \A i \in 1 .. x : e[i] = d(i)
    OBVIOUS
  <2>. QED
    BY <1>3, <2>1, <2>2
<1>. HIDE DEF y
<1>5. /\ Len(t) = n /\ a \in Seq(Frames) /\ b \in Seq(Nat) /\ Len(a) = n + m /\ Len(b) = n + m
  <2>1. Len(t) = n
    BY <1>1 DEF Counts
  <2>2. a \in Seq(Frames) /\ Len(a) = n + m
    BY Joined
  <2>3. b \in Seq(Nat) /\ Len(b) = Len(t) + Len(y)
    BY <1>4, Joined
  <2>. HIDE DEF a, b, n, m
  <2>. QED
    BY <1>4, <2>1, <2>2, <2>3
<1>6. ASSUME NEW i \in 1 .. n
      PROVE  a[i] = s[i] /\ b[i] = t[i] /\ t[i] \in Nat
  BY <1>4, <1>5, Joined
<1>7. ASSUME NEW i \in n + 1 .. n + m
      PROVE  a[i] = z[i - n] /\ b[i] = y[i - n] /\ i - n \in 1 .. m
  <2>1. a[i] = z[i - n] /\ i - n \in 1 .. m
    BY Joined
  <2>2. i \in Len(t) + 1 .. Len(t) + Len(y)
    BY <1>4, <1>5
  <2>3. b[i] = y[i - Len(t)]
    BY <1>4, <2>2, Joined
  <2>. QED
    BY <1>5, <2>1, <2>3
<1>. HIDE DEF a, b, n, m
<1>8. ASSUME NEW i \in 1 .. n
      PROVE  b[i] \in Nat /\ b[i] <= D /\ Dated(a[i], b[i], S) /\ (limit = 0 => low <= b[i])
  BY <1>1, <1>6 DEF Counts, n
<1>9. ASSUME NEW i \in n + 1 .. n + m
      PROVE  b[i] \in 0 .. D /\ Dated(a[i], b[i], S) /\ (limit = 0 => b[i] = D)
  BY <1>2, <1>4, <1>7
<1>10. ASSUME NEW i \in 1 .. n + m
       PROVE  b[i] \in Nat /\ b[i] <= D /\ Dated(a[i], b[i], S) /\ (limit = 0 => low <= b[i])
  <2>1. CASE i \in 1 .. n
    BY <1>8, <2>1
  <2>2. CASE i \in n + 1 .. n + m
    BY <1>9, <2>2
  <2>. QED
    BY <1>3, <2>1, <2>2 DEF n, m
<1>11. ASSUME limit = 0, NEW i \in 1 .. n + m, NEW j \in 1 .. n + m, i < j
       PROVE  b[i] <= b[j]
  <2>1. CASE j \in 1 .. n
    <3>1. i \in 1 .. n
      BY <1>3, <1>11, <2>1 DEF n
    <3>. QED
      BY <1>1, <1>6, <1>11, <2>1, <3>1 DEF Counts, n
  <2>2. CASE j \in n + 1 .. n + m
    BY <1>9, <1>10, <1>11, <2>2
  <2>. QED
    BY <1>3, <2>1, <2>2 DEF n, m
<1>12. Counts(a, b, low, D, S, limit)
  BY <1>5, <1>10, <1>11 DEF Counts
<1>. QED
  BY <1>5, <1>12 DEF Reports, a

LEMMA NumberedMore ==
  ASSUME NEW s \in Seq(Frames), NEW H \in Nat, NEW S \in Nat, Numbered(s, H, S),
         NEW T \in Nat, S <= T
  PROVE  Numbered(s, H, T)
<1>1. PICK t \in Seq(Nat) : Carries(s, t, H, S)
  BY DEF Numbered
<1>2. Carries(s, t, H, T)
  <2>1. \A i \in 1 .. Len(s) : t[i] \in Nat /\ t[i] <= S
    BY <1>1 DEF Carries
  <2>2. \A i \in 1 .. Len(s) : t[i] <= T
    BY <2>1
  <2>. QED
    BY <1>1, <2>2 DEF Carries
<1>. QED
  BY <1>2 DEF Numbered

LEMMA NumberedJoined ==
  ASSUME NEW s \in Seq(Frames), NEW H \in Nat, NEW S \in Nat, Numbered(s, H, S),
         NEW z \in Seq(Frames), \A i \in 1 .. Len(z) : Recent(z[i], S)
  PROVE  Numbered(s \o z, H, S)
<1>1. PICK t \in Seq(Nat) : Carries(s, t, H, S)
  BY DEF Numbered
<1>. DEFINE d(i) == CHOOSE n \in 0 .. S : S < n + HistorySize /\ Bears(z[i], n)
            y == [i \in 1 .. Len(z) |-> d(i)]
            a == s \o z
            b == t \o y
            n == Len(s)
            m == Len(z)
<1>2. ASSUME NEW i \in 1 .. m
      PROVE  d(i) \in 0 .. S /\ S < d(i) + HistorySize /\ Bears(z[i], d(i))
  BY DEF Recent
<1>3. m \in Nat /\ n \in Nat /\ HistorySize \in Nat /\ H <= S
  BY Sizes DEF Numbered
<1>. HIDE DEF d
<1>4. y \in Seq(Nat) /\ Len(y) = m /\ \A i \in 1 .. m : y[i] = d(i)
  <2>1. \A i \in 1 .. m : d(i) \in Nat
    BY <1>2
  <2>2. \A x \in Nat : \A e : e = [i \in 1 .. x |-> d(i)] /\ (\A i \in 1 .. x : d(i) \in Nat)
          => e \in Seq(Nat) /\ Len(e) = x /\ \A i \in 1 .. x : e[i] = d(i)
    OBVIOUS
  <2>. QED
    BY <1>3, <2>1, <2>2
<1>. HIDE DEF y
<1>5. /\ Len(t) = n /\ a \in Seq(Frames) /\ b \in Seq(Nat) /\ Len(a) = n + m /\ Len(b) = n + m
  <2>1. Len(t) = n
    BY <1>1 DEF Carries
  <2>2. a \in Seq(Frames) /\ Len(a) = n + m
    BY Joined
  <2>3. b \in Seq(Nat) /\ Len(b) = Len(t) + Len(y)
    BY <1>4, Joined
  <2>. HIDE DEF a, b, n, m
  <2>. QED
    BY <1>4, <2>1, <2>2, <2>3
<1>6. ASSUME NEW i \in 1 .. n
      PROVE  a[i] = s[i] /\ b[i] = t[i] /\ t[i] \in Nat
  BY <1>4, <1>5, Joined
<1>7. ASSUME NEW i \in n + 1 .. n + m
      PROVE  a[i] = z[i - n] /\ b[i] = y[i - n] /\ i - n \in 1 .. m
  <2>1. a[i] = z[i - n] /\ i - n \in 1 .. m
    BY Joined
  <2>2. i \in Len(t) + 1 .. Len(t) + Len(y)
    BY <1>4, <1>5
  <2>3. b[i] = y[i - Len(t)]
    BY <1>4, <2>2, Joined
  <2>. QED
    BY <1>5, <2>1, <2>3
<1>. HIDE DEF a, b, n, m
<1>8. ASSUME NEW i \in 1 .. n
      PROVE  b[i] \in Nat /\ b[i] <= S /\ H < b[i] + HistorySize /\ Bears(a[i], b[i])
  BY <1>1, <1>6 DEF Carries, n
<1>9. ASSUME NEW i \in n + 1 .. n + m
      PROVE  /\ b[i] \in Nat /\ b[i] <= S /\ S < b[i] + HistorySize /\ Bears(a[i], b[i])
             /\ H < b[i] + HistorySize
  <2>1. b[i] \in 0 .. S /\ S < b[i] + HistorySize /\ Bears(a[i], b[i])
    BY <1>2, <1>4, <1>7
  <2>. QED
    BY <1>3, <2>1
<1>10. ASSUME NEW i \in 1 .. n + m
       PROVE  b[i] \in Nat /\ b[i] <= S /\ H < b[i] + HistorySize /\ Bears(a[i], b[i])
  <2>1. CASE i \in 1 .. n
    BY <1>8, <2>1
  <2>2. CASE i \in n + 1 .. n + m
    BY <1>9, <2>2
  <2>. QED
    BY <1>3, <2>1, <2>2 DEF n, m
<1>11. ASSUME NEW i \in 1 .. n + m, NEW j \in 1 .. n + m, i < j
       PROVE  b[i] < b[j] + HistorySize
  <2>1. CASE j \in 1 .. n
    <3>1. i \in 1 .. n
      BY <1>3, <1>11, <2>1 DEF n
    <3>. QED
      BY <1>1, <1>6, <1>11, <2>1, <3>1 DEF Carries, n
  <2>2. CASE j \in n + 1 .. n + m
    <3>1. b[i] \in Nat /\ b[i] <= S
      BY <1>10
    <3>2. b[j] \in Nat /\ S < b[j] + HistorySize
      BY <1>9, <2>2
    <3>. QED
      BY <1>3, <3>1, <3>2
  <2>. QED
    BY <1>3, <2>1, <2>2 DEF n, m
<1>12. Carries(a, b, H, S)
  BY <1>5, <1>10, <1>11 DEF Carries
<1>. QED
  BY <1>3, <1>5, <1>12 DEF Numbered, a

-----------------------------------------------------------------------------
(* The work record of a handler.  k.base is what was on its way before, and   *)
(* k.count what the command layer had been handed; k.low is what the partner *)
(* has released, k.seen what it was handed, k.top what this node may release; *)
(* k.held says of a server that it sends no data before it has been handed a *)
(* frame.                                                                    *)
Terms(k) == /\ k.base \in Seq(Frames) /\ k.count \in Nat /\ k.low \in 0 .. k.count
            /\ k.top \in Nat /\ k.limit \in Nat /\ k.seen \in Nat
Bare(s) == \A i \in 1 .. Len(s) : s[i].scon.con # 1
Mail(w, k, D) == /\ Bare(w.out) /\ Reports(k.base \o w.out, k.low, D, w.last, k.limit)
                 /\ Numbered(k.base \o w.out, k.seen, w.last)
Fair(c, S, k, D) ==
  /\ c.recvSeqNum.con \in Valid
  /\ c.recvSeqNum.num = Rem(S, NumMod) /\ c.sendSeqNum.num = Rem(D, NumMod)
  /\ Used(c) <= S /\ S <= Used(c) + k.top /\ S <= k.limit
  /\ Stock(c, D, S) /\ Own(c, S)
  /\ k.held /\ D = 0 => S = 0 /\ c.state = "Connected"
Due(w, k, g) == /\ Terms(k) /\ Up(w, k.room) /\ w.got = g /\ w.limit = k.limit
                /\ Mail(w, k, k.count + Len(g))
                /\ Fair(w.c, w.last, k, k.count + Len(g))

LEMMA DueParts ==
  ASSUME NEW w, NEW k, NEW g, Due(w, k, g)
  PROVE  /\ w \in WorkType /\ w.c \in Connections /\ Typed(w, k.room) /\ Up(w, k.room)
         /\ Ring(w.c) /\ Established(w.c) /\ w.last \in Nat /\ w.got = g /\ g \in Seq(Nat)
         /\ Terms(k) /\ w.limit = k.limit /\ k.count + Len(g) \in Nat
         /\ k.low \in 0 .. k.count + Len(g) /\ Used(w.c) \in Nat /\ Used(w.c) <= w.last
         /\ Mail(w, k, k.count + Len(g)) /\ Fair(w.c, w.last, k, k.count + Len(g))
         /\ w.out \in Seq(Frames) /\ k.base \o w.out \in Seq(Frames)
         /\ w.c.recvSeqNum.con \in Valid
<1>1. /\ w \in WorkType /\ w.c \in Connections /\ Typed(w, k.room) /\ Up(w, k.room)
      /\ Ring(w.c) /\ Established(w.c) /\ w.last \in Nat /\ w.got = g /\ g \in Seq(Nat)
      /\ Terms(k) /\ w.limit = k.limit /\ w.out \in Seq(Frames)
      /\ Mail(w, k, k.count + Len(g)) /\ Fair(w.c, w.last, k, k.count + Len(g))
  BY WorkParts DEF Due, Up, Sound, SoundCon
<1>2. /\ k.count \in Nat /\ k.low \in 0 .. k.count /\ k.base \in Seq(Frames)
      /\ w.c.recvSeqNum.con \in Valid /\ Used(w.c) <= w.last
  BY <1>1 DEF Terms, Fair
<1>3. Used(w.c) \in Nat
  BY <1>1, Parts, Sizes
<1>4. Len(g) \in Nat
  BY <1>1
<1>5. k.count + Len(g) \in Nat /\ k.low \in 0 .. k.count + Len(g)
  BY <1>2, <1>4
<1>6. k.base \o w.out \in Seq(Frames)
  BY <1>1, <1>2
<1>. QED
  BY <1>1, <1>2, <1>3, <1>5, <1>6

(* Nothing is in the history of a node that sends no data.                   *)
LEMMA DueQuiet ==
  ASSUME NEW w, NEW k, NEW g, Due(w, k, g), k.limit = 0
  PROVE  Used(w.c) = 0
<1>1. w.last \in Nat /\ Used(w.c) \in Nat /\ Used(w.c) <= w.last /\ w.last <= k.limit
  BY DueParts DEF Fair
<1>. QED
  BY <1>1

(* Frames are sent.                                                          *)
LEMMA MoreMail ==
  ASSUME NEW w, NEW k, NEW g, Due(w, k, g), NEW z \in Seq(Frames), Bare(z),
         \A i \in 1 .. Len(z) : Says(z[i], k.count + Len(g), w.last, k.limit),
         NEW v, v = [w EXCEPT !.out = @ \o z], Up(v, k.room)
  PROVE  Due(v, k, g)
<1>. DEFINE D == k.count + Len(g)
            s == k.base \o w.out
<1>1. /\ w \in WorkType /\ w.out \in Seq(Frames) /\ w.last \in Nat /\ D \in Nat
      /\ Terms(k) /\ Mail(w, k, D) /\ Fair(w.c, w.last, k, D) /\ k.low \in 0 .. D
      /\ s \in Seq(Frames) /\ w.got = g /\ w.limit = k.limit
  BY DueParts
<1>2. /\ v.c = w.c /\ v.last = w.last /\ v.got = w.got /\ v.limit = w.limit
      /\ v.out = w.out \o z
  BY <1>1 DEF WorkType
<1>3. k.base \o v.out = s \o z
  <2>. DEFINE a == k.base
              b == w.out
  <2>0. a \in Seq(Frames) /\ b \in Seq(Frames)
    BY <1>1 DEF Terms
  <2>. HIDE DEF a, b
  <2>1. a \o (b \o z) = (a \o b) \o z
    BY SMTT(30), <2>0, Regroup
  <2>. QED
    BY <1>2, <2>1 DEF a, b
<1>4. Bare(v.out)
  <2>1. Bare(w.out)
    BY <1>1 DEF Mail
  <2>. DEFINE o == w.out
  <2>2. o \in Seq(Frames) /\ Bare(o)
    BY <1>1, <2>1
  <2>. HIDE DEF o
  <2>3. Bare(o \o z)
    <3>1. /\ Len(o \o z) = Len(o) + Len(z) /\ Len(o) \in Nat /\ Len(z) \in Nat
          /\ \A i \in 1 .. Len(o) : (o \o z)[i] = o[i]
          /\ \A i \in Len(o) + 1 .. Len(o) + Len(z) :
               (o \o z)[i] = z[i - Len(o)] /\ i - Len(o) \in 1 .. Len(z)
      BY <2>2, Joined
    <3>2. ASSUME NEW i \in 1 .. Len(o \o z) PROVE (o \o z)[i].scon.con # 1
      <4>1. i \in 1 .. Len(o) \/ i \in Len(o) + 1 .. Len(o) + Len(z)
        BY <3>1
      <4>. QED
        BY <2>2, <3>1, <4>1 DEF Bare
    <3>. QED
      BY <3>2 DEF Bare
  <2>. QED
    BY <1>2, <2>3 DEF o
<1>5. Reports(s, k.low, D, w.last, k.limit) /\ Numbered(s, k.seen, w.last)
  BY <1>1 DEF Mail
<1>. HIDE DEF s
<1>6. Reports(s \o z, k.low, D, w.last, k.limit) /\ Numbered(s \o z, k.seen, w.last)
  <2>1. k.seen \in Nat /\ \A i \in 1 .. Len(z) : Recent(z[i], w.last)
    BY <1>1 DEF Terms, Says
  <2>. HIDE DEF D
  <2>. QED
    BY <1>1, <1>5, <2>1, ReportsJoined, NumberedJoined DEF D
<1>7. Mail(v, k, D)
  BY <1>2, <1>3, <1>4, <1>6 DEF Mail
<1>. QED
  BY <1>1, <1>2, <1>7 DEF Due

LEMMA EmitDue ==
  ASSUME NEW w, NEW k, NEW g, Due(w, k, g), NEW f \in Frames, f.scon.con # 1,
         Says(f, k.count + Len(g), w.last, k.limit), Up(Emit(w, f), k.room)
  PROVE  Due(Emit(w, f), k, g)
<1>1. CASE Full(w)
  BY <1>1 DEF Emit
<1>2. CASE ~Full(w)
  <2>. DEFINE z == << f >>
              v == Emit(w, f)
  <2>1. z \in Seq(Frames) /\ Len(z) = 1 /\ z[1] = f
    OBVIOUS
  <2>2. w.out \in Seq(Frames) /\ Append(w.out, f) = w.out \o z
    <3>1. w.out \in Seq(Frames)
      BY DueParts
    <3>. QED
      BY <3>1, AppendIs
  <2>3. v = [w EXCEPT !.out = @ \o z]
    BY <1>2, <2>2 DEF Emit
  <2>. HIDE DEF z, v
  <2>4. Bare(z) /\ \A i \in 1 .. Len(z) : Says(z[i], k.count + Len(g), w.last, k.limit)
    BY <2>1 DEF Bare
  <2>. QED
    BY <2>1, <2>3, <2>4, MoreMail DEF v
<1>. QED
  BY <1>1, <1>2

(* An empty frame and the frames of the history.                             *)
LEMMA EmptySays ==
  ASSUME NEW c \in Connections, NEW S \in Nat, NEW k, NEW D \in Nat, Fair(c, S, k, D),
         NEW f \in Frames, f.scon.num = c.recvSeqNum.num, f.rcon.num = c.sendSeqNum.num,
         f.data = 0, NEW limit
  PROVE  Says(f, D, S, limit)
<1>1. f.scon.num = Rem(S, NumMod) /\ f.rcon.num = Rem(D, NumMod)
  BY DEF Fair
<1>2. S \in 0 .. S /\ D \in 0 .. D
  OBVIOUS
<1>3. Dated(f, D, S)
  BY <1>1, <1>2 DEF Dated, Counted
<1>4. Recent(f, S)
  <2>1. S < S + HistorySize
    BY Sizes
  <2>. QED
    BY <1>1, <1>2, <2>1 DEF Recent, Bears
<1>. QED
  BY <1>2, <1>3, <1>4 DEF Says

LEMMA StoredSays ==
  ASSUME NEW w, NEW k, NEW g, Due(w, k, g), NEW i \in 1 .. Used(w.c),
         NEW f, f = w.c.frames[Slot(w.c, i - 1)]
  PROVE  f \in Frames /\ f.scon.con # 1 /\ Says(f, k.count + Len(g), w.last, k.limit)
<1>. DEFINE D == k.count + Len(g)
            S == w.last
            U == Used(w.c)
            rs == w.c.recvSeqNum.num
            n == S - U + i
            t == rs - U + i
<1>1. /\ w.c \in Connections /\ S \in Nat /\ U \in 0 .. HistorySize /\ HistorySize \in Nat
      /\ Ring(w.c) /\ Established(w.c) /\ Fair(w.c, S, k, D) /\ i - 1 \in Int /\ U # 0
      /\ i \in 1 .. U
  BY DueParts, Parts, Sizes
<1>2. Slot(w.c, i - 1) \in Slots
  BY <1>1, SlotFacts
<1>3. f \in Frames
  BY <1>1, <1>2 DEF Connections
<1>4. k.limit # 0
  BY <1>1, DueQuiet
<1>5. f.scon.con # 1 /\ \E a \in 0 .. D : Counted(f, a, S)
  BY <1>1, <1>2 DEF Fair, Stock
<1>6. Own(w.c, S) /\ rs = Rem(S, NumMod)
  BY <1>1 DEF Fair
<1>7. f.data = n /\ U <= S /\ f.scon.num = Rem(t, NumMod)
  BY <1>1, <1>6 DEF Own, Ring
<1>. HIDE DEF D, S, U, rs
<1>8. n \in 0 .. S /\ S < n + HistorySize /\ U \in Int /\ S \in Int
  BY <1>1, <1>7
<1>9. Rem(t, NumMod) = Rem(n, NumMod)
  <2>1. NumMod \in Nat \ {0} /\ Rem(S, NumMod) \in Int
    BY <1>1, Sizes, RemFacts
  <2>2. t \in Int /\ n \in Int /\ t - n = Rem(S, NumMod) - S
    BY <1>6, <1>8, <2>1
  <2>. HIDE DEF t, n
  <2>. QED
    BY <1>8, <2>1, <2>2, RemShift
<1>. HIDE DEF t, n
<1>10. Recent(f, S)
  BY <1>7, <1>8, <1>9 DEF Recent, Bears
<1>11. Says(f, D, S, k.limit)
  BY <1>4, <1>5, <1>10 DEF Says, Dated
<1>. QED
  BY <1>3, <1>5, <1>11 DEF D, S

LEMMA SendDue ==
  ASSUME NEW w, NEW k, NEW g, Due(w, k, g)
  PROVE  Due(SendEmpty(w), k, g) /\ Due(SendOldest(w), k, g) /\ Due(SendWindow(w), k, g)
<1>. DEFINE c == w.c
            S == w.last
            U == Used(c)
            D == k.count + Len(g)
<1>1. /\ Up(w, k.room) /\ Typed(w, k.room) /\ c \in Connections /\ S \in Nat /\ D \in Nat
      /\ Fair(c, S, k, D) /\ U \in Nat /\ w \in WorkType
  BY DueParts
<1>2. Up(SendEmpty(w), k.room) /\ Up(SendOldest(w), k.room) /\ Up(SendWindow(w), k.room)
  BY <1>1, SendKept DEF Kept
<1>3. Due(SendEmpty(w), k, g)
  <2>. DEFINE f == Frame(c, 0)
  <2>1. f \in Frames /\ f.scon = c.recvSeqNum /\ f.rcon = c.sendSeqNum /\ f.data = 0
    BY <1>1, FrameType DEF Frame
  <2>2. f.scon.con # 1
    BY <1>1, <2>1 DEF Fair, Valid
  <2>3. SendEmpty(w) = Emit(w, f)
    BY DEF SendEmpty
  <2>. HIDE DEF f, D
  <2>4. Says(f, D, S, k.limit)
    BY <1>1, <2>1, EmptySays
  <2>. QED
    BY <1>2, <2>1, <2>2, <2>3, <2>4, EmitDue DEF D
<1>4. Due(SendOldest(w), k, g)
  <2>1. CASE U = 0
    BY <2>1 DEF SendOldest
  <2>2. CASE U # 0
    <3>. DEFINE f == c.frames[c.ackIndex]
    <3>1. SendOldest(w) = Emit(w, f)
      BY <2>2 DEF SendOldest
    <3>2. 1 \in 1 .. U /\ c.frames[Slot(c, 1 - 1)] = f
      BY <1>1, <2>2, SlotZero
    <3>3. f \in Frames /\ f.scon.con # 1 /\ Says(f, D, S, k.limit)
      BY <3>2, StoredSays
    <3>. HIDE DEF f
    <3>. QED
      BY <1>2, <3>1, <3>3, EmitDue
  <2>. QED
    BY <2>1, <2>2
<1>5. Due(SendWindow(w), k, g)
  <2>. DEFINE h == Window(c)
              m == IF U <= w.room - Len(w.out) THEN U ELSE w.room - Len(w.out)
              z == SubSeq(h, 1, m)
  <2>1. m \in 0 .. U
    <3>. HIDE DEF U
    <3>. QED
      BY <1>1, WorkParts
  <2>2. ASSUME NEW i \in 1 .. U
        PROVE  /\ c.frames[Slot(c, i - 1)] \in Frames /\ c.frames[Slot(c, i - 1)].scon.con # 1
               /\ Says(c.frames[Slot(c, i - 1)], D, S, k.limit)
    BY StoredSays
  <2>3. h \in Seq(Frames) /\ Len(h) = U /\ \A i \in 1 .. U : h[i] = c.frames[Slot(c, i - 1)]
    <3>1. \A i \in 1 .. U : c.frames[Slot(c, i - 1)] \in Frames
      BY <2>2
    <3>. HIDE DEF U
    <3>2. h = [i \in 1 .. U |-> c.frames[Slot(c, i - 1)]]
      BY DEF Window, U
    <3>. HIDE DEF h
    <3>. QED
      BY <1>1, <3>1, <3>2
  <2>4. SendWindow(w) = [w EXCEPT !.out = @ \o z]
    BY DEF SendWindow
  <2>. HIDE DEF h, m
  <2>5. z \in Seq(Frames) /\ Len(z) = m /\ \A i \in 1 .. m : z[i] = h[i]
    <3>. HIDE DEF U
    <3>. QED
      BY <1>1, <2>1, <2>3
  <2>. HIDE DEF z
  <2>6. ASSUME NEW i \in 1 .. Len(z) PROVE z[i].scon.con # 1 /\ Says(z[i], D, S, k.limit)
    <3>1. i \in 1 .. U /\ i \in 1 .. m
      BY <1>1, <2>1, <2>5
    <3>. QED
      BY <2>2, <2>3, <2>5, <3>1
  <2>7. Bare(z)
    BY <2>6 DEF Bare
  <2>. QED
    BY <1>2, <2>4, <2>5, <2>6, <2>7, MoreMail
<1>. QED
  BY <1>3, <1>4, <1>5

(* The connection changes, and its history at most in the frames' codes.     *)
LEMMA PutDue ==
  ASSUME NEW w, NEW k, NEW g, Due(w, k, g),
         NEW d, Alike(w.c, d), d.state = w.c.state, d.recvSeqNum.con \in Valid,
         d.sendSeqNum.num = w.c.sendSeqNum.num,
         \A i \in Slots : /\ d.frames[i].rcon.num = w.c.frames[i].rcon.num
                          /\ d.frames[i].scon.con \in Valid \cup {w.c.frames[i].scon.con}
                          /\ d.frames[i].data = w.c.frames[i].data,
         NEW v, v = [w EXCEPT !.c = d]
  PROVE  Due(v, k, g) /\ v.c = d
<1>. DEFINE D == k.count + Len(g)
            S == w.last
<1>1. /\ Up(w, k.room) /\ Typed(w, k.room) /\ w.c \in Connections /\ w \in WorkType
      /\ Fair(w.c, S, k, D) /\ Mail(w, k, D) /\ Terms(k) /\ w.got = g /\ w.limit = k.limit
  BY DueParts
<1>2. Up(v, k.room) /\ v.c = d
  BY <1>1, PutAlike DEF Kept
<1>3. v.out = w.out /\ v.last = w.last /\ v.got = w.got /\ v.limit = w.limit
  BY <1>1 DEF WorkType
<1>. HIDE DEF D, S
<1>4. Stock(d, D, S)
  <2>1. ASSUME NEW i \in Slots
        PROVE  d.frames[i].scon.con # 1 /\ \E a \in 0 .. D : Counted(d.frames[i], a, S)
    <3>1. w.c.frames[i].scon.con # 1 /\ \E a \in 0 .. D : Counted(w.c.frames[i], a, S)
      BY <1>1 DEF Fair, Stock
    <3>2. d.frames[i].scon.num = w.c.frames[i].scon.num
      BY DEF Alike
    <3>. QED
      BY <3>1, <3>2 DEF Counted, Valid
  <2>. QED
    BY <2>1 DEF Stock
<1>5. Used(d) = Used(w.c) /\ d.recvSeqNum.num = w.c.recvSeqNum.num
  BY DEF Alike, Used
<1>5a. Own(d, S)
  <2>1. Own(w.c, S)
    BY <1>1 DEF Fair
  <2>2. Established(d) => Established(w.c) /\ d.recvSeqNum.con \in Valid
    BY DEF Established
  <2>. QED
    BY <1>1, <2>1, <2>2, OwnAlike
<1>6. Fair(d, S, k, D)
  BY <1>1, <1>4, <1>5, <1>5a DEF Fair
<1>7. Mail(v, k, D)
  BY <1>1, <1>3 DEF Mail
<1>. QED
  BY <1>1, <1>2, <1>3, <1>6, <1>7 DEF Due, D, S

LEMMA PutPlainDue ==
  ASSUME NEW w, NEW k, NEW g, Due(w, k, g), NEW d, Plain(w.c, d),
         d.sendSeqNum.num = w.c.sendSeqNum.num, NEW v, v = [w EXCEPT !.c = d]
  PROVE  Due(v, k, g) /\ v.c = d
BY PutDue DEF Plain

LEMMA AliveDue ==
  ASSUME NEW w, NEW k, NEW g, Due(w, k, g)
  PROVE  Due(Alive(w), k, g)
<1>. DEFINE d == [w.c EXCEPT !.timer = TRUE, !.retry = 0]
<1>0. /\ w.c \in Connections /\ w \in WorkType /\ w.c.recvSeqNum.con \in Valid
      /\ 0 \in 0 .. RetryCount
  BY DueParts, BoundsAssumption
<1>1. Plain(w.c, d) /\ d.sendSeqNum.num = w.c.sendSeqNum.num
  <2>1. ASSUME NEW x \in BOOLEAN, NEW z \in 0 .. RetryCount
        PROVE  LET e == [w.c EXCEPT !.timer = x, !.retry = z]
               IN  Plain(w.c, e) /\ e.sendSeqNum = w.c.sendSeqNum
    BY <1>0 DEF Connections, Alike, Plain
  <2>. QED
    BY <1>0, <2>1
<1>2. Alive(w) = [w EXCEPT !.c = d]
  BY <1>0 DEF Alive, WorkType
<1>. HIDE DEF d
<1>. QED
  BY <1>1, <1>2, PutPlainDue

LEMMA FlagsDue ==
  ASSUME NEW w, NEW k, NEW g, Due(w, k, g), NEW ret
  PROVE  /\ Due(Flow(w, ret), k, g) /\ Flow(w, ret).c.state = w.c.state
         /\ Due([w EXCEPT !.c.inactive = 0], k, g)
         /\ Due([w EXCEPT !.c.flow = FALSE, !.c.inactive = 0, !.c.timer = TRUE], k, g)
<1>0. /\ w.c \in Connections /\ w \in WorkType /\ w.c.recvSeqNum.con \in Valid
      /\ 0 \in 0 .. InactiveThld
  BY DueParts, BoundsAssumption
<1>1. ASSUME NEW x \in BOOLEAN, NEW y \in BOOLEAN, NEW z \in 0 .. InactiveThld
      PROVE  LET d == [w.c EXCEPT !.flow = x, !.inactive = z, !.timer = y]
             IN  Plain(w.c, d) /\ d.sendSeqNum = w.c.sendSeqNum /\ d.state = w.c.state
  BY <1>0 DEF Connections, Alike, Plain
<1>2. Due([w EXCEPT !.c.flow = FALSE, !.c.inactive = 0, !.c.timer = TRUE], k, g)
  <2>. DEFINE d == [w.c EXCEPT !.flow = FALSE, !.inactive = 0, !.timer = TRUE]
  <2>1. Plain(w.c, d) /\ d.sendSeqNum.num = w.c.sendSeqNum.num
    BY <1>0, <1>1
  <2>2. [w EXCEPT !.c.flow = FALSE, !.c.inactive = 0, !.c.timer = TRUE] = [w EXCEPT !.c = d]
    BY <1>0 DEF WorkType
  <2>. HIDE DEF d
  <2>. QED
    BY <2>1, <2>2, PutPlainDue
<1>3. Due([w EXCEPT !.c.inactive = 0], k, g)
  <2>. DEFINE d == [w.c EXCEPT !.inactive = 0]
  <2>1. ASSUME NEW z \in 0 .. InactiveThld
        PROVE  LET e == [w.c EXCEPT !.inactive = z]
               IN  Plain(w.c, e) /\ e.sendSeqNum = w.c.sendSeqNum
    BY <1>0 DEF Connections, Alike, Plain
  <2>2. Plain(w.c, d) /\ d.sendSeqNum.num = w.c.sendSeqNum.num
    BY <1>0, <2>1
  <2>3. [w EXCEPT !.c.inactive = 0] = [w EXCEPT !.c = d]
    BY <1>0 DEF WorkType
  <2>. HIDE DEF d
  <2>. QED
    BY <2>2, <2>3, PutPlainDue
<1>4. Due(Flow(w, ret), k, g) /\ Flow(w, ret).c.state = w.c.state
  <2>. DEFINE b == ret = "busy"
              d == [w.c EXCEPT !.flow = b]
  <2>1. ASSUME NEW x \in BOOLEAN
        PROVE  LET e == [w.c EXCEPT !.flow = x]
               IN  /\ Plain(w.c, e) /\ e.sendSeqNum = w.c.sendSeqNum /\ e.state = w.c.state
                   /\ [w EXCEPT !.c.flow = x] = [w EXCEPT !.c = e]
    BY <1>0 DEF Connections, Alike, Plain, WorkType
  <2>2. b \in BOOLEAN /\ Flow(w, ret) = [w EXCEPT !.c.flow = b]
    BY DEF Flow
  <2>. HIDE DEF b
  <2>3. /\ Plain(w.c, d) /\ d.sendSeqNum.num = w.c.sendSeqNum.num /\ Flow(w, ret) = [w EXCEPT !.c = d]
        /\ d.state = w.c.state
    BY <1>0, <2>1, <2>2
  <2>. HIDE DEF d
  <2>4. Due(Flow(w, ret), k, g) /\ Flow(w, ret).c = d
    BY <2>3, PutPlainDue
  <2>. QED
    BY <2>3, <2>4
<1>. QED
  BY <1>2, <1>3, <1>4

(* The sequence bytes, to codes of an established connection.               *)
LEMMA BytesDue ==
  ASSUME NEW w, NEW k, NEW g, Due(w, k, g)
  PROVE  /\ \A s \in Bytes : s.num = w.c.sendSeqNum.num => Due([w EXCEPT !.c.sendSeqNum = s], k, g)
         /\ \A r \in Bytes : r.num = w.c.recvSeqNum.num /\ r.con \in Valid =>
              Due([w EXCEPT !.c.recvSeqNum = r], k, g)
<1>0. /\ w.c \in Connections /\ w \in WorkType /\ w.c.recvSeqNum.con \in Valid
  BY DueParts
<1>1. ASSUME NEW s \in Bytes, s.num = w.c.sendSeqNum.num PROVE Due([w EXCEPT !.c.sendSeqNum = s], k, g)
  <2>. DEFINE d == [w.c EXCEPT !.sendSeqNum = s]
  <2>1. Plain(w.c, d) /\ d.sendSeqNum = s
    BY <1>0 DEF Connections, Alike, Plain
  <2>2. [w EXCEPT !.c.sendSeqNum = s] = [w EXCEPT !.c = d]
    BY <1>0 DEF WorkType
  <2>. HIDE DEF d
  <2>. QED
    BY <1>1, <2>1, <2>2, PutPlainDue
<1>2. ASSUME NEW r \in Bytes, r.num = w.c.recvSeqNum.num, r.con \in Valid
      PROVE  Due([w EXCEPT !.c.recvSeqNum = r], k, g)
  <2>. DEFINE d == [w.c EXCEPT !.recvSeqNum = r]
  <2>1. Plain(w.c, d) /\ d.sendSeqNum = w.c.sendSeqNum
    BY <1>0, <1>2 DEF Connections, Alike, Plain
  <2>2. [w EXCEPT !.c.recvSeqNum = r] = [w EXCEPT !.c = d]
    BY <1>0 DEF WorkType
  <2>. HIDE DEF d
  <2>. QED
    BY <1>0, <2>1, <2>2, PutPlainDue
<1>. QED
  BY <1>1, <1>2

LEMMA CodesDue ==
  ASSUME NEW w, NEW k, NEW g, Due(w, k, g)
  PROVE  /\ Due(RequestAck(w), k, g) /\ RequestAck(w).c.state = w.c.state
         /\ Due([w EXCEPT !.c.sendSeqNum = AckCode(w.c)], k, g)
         /\ \A x \in 0 .. 3 : Due([w EXCEPT !.c.sendSeqNum.con = x], k, g)
<1>0. /\ w.c \in Connections /\ w \in WorkType
  BY DueParts
<1>1. Due(RequestAck(w), k, g) /\ RequestAck(w).c.state = w.c.state
  <2>. DEFINE r == [w.c.recvSeqNum EXCEPT !.con = 3]
  <2>1. r \in Bytes /\ r.num = w.c.recvSeqNum.num /\ r.con \in Valid
    BY <1>0 DEF Connections, Bytes, Valid
  <2>2. RequestAck(w) = [w EXCEPT !.c.recvSeqNum = r] /\ RequestAck(w).c.state = w.c.state
    BY <1>0 DEF RequestAck, WorkType, Connections
  <2>. HIDE DEF r
  <2>. QED
    BY <2>1, <2>2, BytesDue
<1>2. Due([w EXCEPT !.c.sendSeqNum = AckCode(w.c)], k, g)
  <2>1. AckCode(w.c) \in Bytes /\ AckCode(w.c).num = w.c.sendSeqNum.num
    BY <1>0 DEF AckCode, Coded, Connections, Bytes
  <2>. QED
    BY <2>1, BytesDue
<1>3. ASSUME NEW x \in 0 .. 3 PROVE Due([w EXCEPT !.c.sendSeqNum.con = x], k, g)
  <2>. DEFINE s == [w.c.sendSeqNum EXCEPT !.con = x]
  <2>1. s \in Bytes /\ s.num = w.c.sendSeqNum.num
    BY <1>0 DEF Connections, Bytes
  <2>2. [w EXCEPT !.c.sendSeqNum.con = x] = [w EXCEPT !.c.sendSeqNum = s]
    BY <1>0 DEF WorkType, Connections
  <2>. HIDE DEF s
  <2>. QED
    BY <2>1, <2>2, BytesDue
<1>. QED
  BY <1>1, <1>2, <1>3

LEMMA AnswersDue ==
  ASSUME NEW w, NEW k, NEW g, Due(w, k, g), NEW f
  PROVE  /\ Due(ResendOldest(w, f), k, g) /\ Due(AnswerAckRequest(w, f), k, g)
         /\ Due(SendRetransmissionRequest(w), k, g)
<1>1. Due(ResendOldest(w, f), k, g)
  BY SendDue DEF ResendOldest
<1>2. Due(AnswerAckRequest(w, f), k, g)
  <2>. DEFINE v == [w EXCEPT !.c.sendSeqNum = AckCode(w.c)]
  <2>1. Due(v, k, g)
    BY CodesDue
  <2>2. AnswerAckRequest(w, f) \in {w, SendEmpty(v)}
    BY DEF AnswerAckRequest
  <2>. HIDE DEF v
  <2>. QED
    BY <2>1, <2>2, SendDue
<1>3. Due(SendRetransmissionRequest(w), k, g)
  <2>. DEFINE v == [w EXCEPT !.c.sendSeqNum.con = 3]
              u == SendEmpty(v)
  <2>0. 3 \in 0 .. 3 /\ 2 \in 0 .. 3
    OBVIOUS
  <2>1. Due(v, k, g)
    BY <2>0, CodesDue
  <2>2. SendRetransmissionRequest(w) = [u EXCEPT !.c.sendSeqNum.con = 2]
    BY DEF SendRetransmissionRequest
  <2>. HIDE DEF v
  <2>3. Due(u, k, g)
    BY <2>1, SendDue
  <2>. HIDE DEF u
  <2>4. \A x \in 0 .. 3 : Due([u EXCEPT !.c.sendSeqNum.con = x], k, g)
    BY <2>3, CodesDue
  <2>. QED
    BY <2>0, <2>2, <2>4
<1>. QED
  BY <1>1, <1>2, <1>3

(* Data.                                                                    *)

LEMMA NextRem ==
  ASSUME NEW a \in Nat
  PROVE  NextNum(Rem(a, NumMod)) = Rem(a + 1, NumMod) /\ Rem(a, NumMod) \in Numbers
<1>. DEFINE b == Rem(a, NumMod)
            t == b + 1
            u == a + 1
<1>1. NumMod \in Nat \ {0} /\ a \in Int
  BY Sizes
<1>2. b \in 0 .. NumMod - 1
  BY <1>1, RemFacts
<1>3. b \in Numbers
  BY <1>2 DEF Numbers
<1>4. NextNum(b) = Rem(t, NumMod)
  <2>. HIDE DEF b
  <2>. QED
    BY <1>3, NextIs
<1>5. t \in Int /\ u \in Int /\ t - u = Rem(a, NumMod) - a
  BY <1>1, <1>2
<1>6. Rem(t, NumMod) = Rem(u, NumMod)
  <2>. HIDE DEF t, u
  <2>. QED
    BY <1>1, <1>5, RemShift
<1>. QED
  BY <1>3, <1>4, <1>6

(* What an acknowledgement releases.  The number counts a frames, and R are  *)
(* released already.  A number from before R is less than Threshold ahead of *)
(* the oldest frame only after half a turn.                                  *)
LEMMA AheadOf ==
  ASSUME NEW a \in Nat, NEW R \in Nat, NEW e, e = Rem(a - R - 1, NumMod)
  PROVE  /\ e \in Nat
         /\ a > R => e <= a - R - 1
         /\ a <= R /\ R - a < NumMod - Threshold => e >= Threshold
<1>. DEFINE y == a - R - 1
            z == y + NumMod
<1>1. /\ NumMod \in Nat \ {0} /\ Threshold \in Nat /\ y \in Int /\ y = a - R - 1
      /\ z \in Int /\ z = y + NumMod
  BY Sizes
<1>. HIDE DEF y, z
<1>2. /\ e \in 0 .. NumMod - 1 /\ (y \in 0 .. NumMod - 1 => e = y)
      /\ (z \in 0 .. NumMod - 1 => Rem(z, NumMod) = z)
  BY <1>1, RemFacts
<1>3. Rem(z, NumMod) = e
  BY <1>1, RemTurn
<1>4. a > R => e <= y
  BY <1>1, <1>2
<1>5. a <= R /\ R - a < NumMod - Threshold => z \in 0 .. NumMod - 1 /\ z >= Threshold
  BY <1>1
<1>. QED
  BY <1>1, <1>2, <1>3, <1>4, <1>5

LEMMA AckedCounts ==
  ASSUME NEW c \in Connections, Ring(c), NEW n \in Numbers, DeleteAcked(c, n) # c,
         NEW x, x = n - (c.recvSeqNum.num - Used(c) + 1)
  PROVE  \E k \in 1 .. Used(c) :
           /\ k <= Rem(x, NumMod) + 1 /\ Rem(x, NumMod) < Threshold
           /\ DeleteAcked(c, n) = [c EXCEPT !.free = @ + k, !.ackIndex = Slot(c, k)]
<1>. DEFINE U == Used(c)
            e == Rem(n - (c.recvSeqNum.num - U + 1), NumMod)
            k == IF e + 1 <= U THEN e + 1 ELSE U
<1>1. /\ U \in 0 .. HistorySize /\ U = HistorySize - c.free /\ c.free \in 0 .. HistorySize
      /\ x \in Int /\ HistorySize \in Int /\ Threshold \in Int
  BY Parts, Sizes
<1>2. e \in Int
  BY <1>1, Sizes, RemFacts
<1>3. U >= 1
  <2>1. U = 0 => c.free = HistorySize
    BY <1>1
  <2>2. c.free = HistorySize => DeleteAcked(c, n) = c
    BY DEF DeleteAcked
  <2>. HIDE DEF U
  <2>. QED
    BY <1>1, <2>1, <2>2
<1>4. ~(e >= Threshold)
  BY <1>3, NothingAcked
<1>5. e < Threshold
  <2>. HIDE DEF e
  <2>. QED
    BY <1>1, <1>2, <1>4
<1>6. /\ k \in 1 .. U
      /\ DeleteAcked(c, n) = [c EXCEPT !.free = @ + k, !.ackIndex = Slot(c, k)]
  BY <1>3, <1>5, SomeAcked
<1>7. e = Rem(x, NumMod)
  OBVIOUS
<1>8. k <= e + 1
  <2>. HIDE DEF e, U
  <2>. QED
    BY <1>1, <1>2
<1>. HIDE DEF e, k
<1>. QED
  BY <1>5, <1>6, <1>7, <1>8

LEMMA AckedWithin ==
  ASSUME NEW c \in Connections, Ring(c), NEW S \in Nat, c.recvSeqNum.num = Rem(S, NumMod),
         Used(c) <= S, NEW top \in Nat, S <= Used(c) + top,
         NEW a \in 0 .. top, NEW n, n = Rem(a, NumMod),
         a = top \/ S <= NumMod - Threshold,
         NEW d, d = DeleteAcked(c, n)
  PROVE  /\ n \in Numbers /\ Used(d) <= S /\ S <= Used(d) + top
         /\ d.frames = c.frames /\ d.sendSeqNum = c.sendSeqNum
<1>. DEFINE U == Used(c)
            R == S - U
            rs == c.recvSeqNum.num
            x == n - (rs - U + 1)
            m == a - (rs - U + 1)
            y == a - R - 1
            e == Rem(x, NumMod)
<1>1. /\ U \in 0 .. HistorySize /\ U = HistorySize - c.free /\ c.free \in 0 .. HistorySize
      /\ HistorySize \in Nat /\ NumMod \in Nat \ {0} /\ Threshold \in Nat
      /\ U <= S /\ U \in Nat /\ a \in Nat /\ 2 <= Threshold /\ 2 * Threshold <= NumMod
      /\ S <= U + top
  BY Parts, Sizes, SizesAssumption
<1>2. rs \in 0 .. NumMod - 1 /\ n \in 0 .. NumMod - 1 /\ rs = Rem(S, NumMod)
  BY <1>1, RemFacts
<1>3. n \in Numbers
  BY <1>2 DEF Numbers
<1>4. CASE DeleteAcked(c, n) = c
  <2>1. d = c
    BY <1>4
  <2>2. U <= S /\ S <= U + top
    <3>. HIDE DEF U
    <3>. QED
      BY <1>1
  <2>. QED
    BY <1>3, <2>1, <2>2
<1>5. CASE DeleteAcked(c, n) # c
  <2>1. PICK k \in 1 .. U : /\ k <= e + 1 /\ e < Threshold
                             /\ d = [c EXCEPT !.free = @ + k, !.ackIndex = Slot(c, k)]
    BY <1>3, <1>5, AckedCounts
  <2>2. e < Threshold /\ k \in 1 .. U /\ k <= e + 1 /\ k \in Int /\ U >= 1
    <3>. HIDE DEF U, e
    <3>. QED
      BY <1>1, <2>1
  <2>4. e = Rem(y, NumMod)
    <3>1. /\ x \in Int /\ m \in Int /\ y \in Int /\ S \in Int /\ a \in Int
          /\ x - m = Rem(a, NumMod) - a /\ m - y = S - rs
      <4>. HIDE DEF U, rs
      <4>. QED
        BY <1>1, <1>2
    <3>2. y - m = Rem(S, NumMod) - S
      <4>. HIDE DEF y, m, rs
      <4>. QED
        BY <1>2, <3>1
    <3>. HIDE DEF x, m, y
    <3>3. Rem(x, NumMod) = Rem(m, NumMod)
      BY <1>1, <3>1, RemShift
    <3>4. Rem(y, NumMod) = Rem(m, NumMod)
      BY <1>1, <3>1, <3>2, RemShift
    <3>. QED
      BY <3>3, <3>4
  <2>5. R \in Nat /\ R = S - U /\ R <= top /\ R < S
    <3>. HIDE DEF U
    <3>. QED
      BY <1>1, <2>2
  <2>6. /\ e \in Nat /\ (a > R => e <= a - R - 1)
        /\ (a <= R /\ R - a < NumMod - Threshold => e >= Threshold)
    <3>. HIDE DEF e, R
    <3>. QED
      BY <1>1, <2>4, <2>5, AheadOf
  <2>7. a > R /\ e <= a - R - 1
    <3>. HIDE DEF e, R, U
    <3>. QED
      BY <1>1, <2>2, <2>5, <2>6
  <2>8. Used(d) = U - k /\ d.frames = c.frames /\ d.sendSeqNum = c.sendSeqNum
    <3>1. d.free = c.free + k /\ d.frames = c.frames /\ d.sendSeqNum = c.sendSeqNum
      BY <2>1 DEF Connections
    <3>. HIDE DEF U, e
    <3>. QED
      BY <1>1, <2>2, <3>1 DEF Used
  <2>9. k <= a - R
    <3>. HIDE DEF e, R, U
    <3>. QED
      BY <1>1, <2>2, <2>5, <2>6, <2>7
  <2>10. U - k <= S /\ S <= U - k + top
    <3>. HIDE DEF U, R
    <3>. QED
      BY <1>1, <2>2, <2>5, <2>9
  <2>. QED
    BY <1>3, <2>8, <2>10
<1>. QED
  BY <1>4, <1>5

(* Data.                                                                     *)
Spoken(k, g) == k.held => k.count + Len(g) # 0

LEMMA SendFrameDue ==
  ASSUME NEW w, NEW k, NEW g, Due(w, k, g), w.c.state = "Connected",
         w.last < k.limit, Spoken(k, g), NEW ret
  PROVE  Due(SendFrame(w, ret), k, g)
<1>. DEFINE c  == w.c
            S  == w.last
            D  == k.count + Len(g)
            c1 == [c EXCEPT !.recvSeqNum.num = NextNum(@)]
            f  == Frame(c1, S + 1)
            c2 == AddToHistory(c1, f)
            st == IF c2.free <= 1 THEN "WaitAck" ELSE c2.state
            c3 == [c2 EXCEPT !.state = st]
            w3 == [w EXCEPT !.c = c3, !.last = @ + 1]
            v  == SendWindow(w3)
            T  == S + 1
<1>1. /\ Typed(w, k.room) /\ c \in Connections /\ Ring(c) /\ c.free >= Room /\ c.free >= 1
      /\ c.free \in 0 .. HistorySize /\ c.state = "Connected" /\ S \in Nat /\ Established(c)
      /\ w.got = g /\ w \in WorkType /\ c.recvSeqNum.con \in Valid /\ D \in Nat
      /\ Terms(k) /\ w.limit = k.limit /\ Mail(w, k, D) /\ Fair(c, S, k, D)
      /\ k.low \in 0 .. D /\ w.out \in Seq(Frames) /\ k.base \o w.out \in Seq(Frames)
  <2>1. /\ Typed(w, k.room) /\ c \in Connections /\ Ring(c) /\ c.free >= Room /\ S \in Nat
        /\ Established(c) /\ w.got = g /\ w \in WorkType /\ c.recvSeqNum.con \in Valid
        /\ D \in Nat /\ Terms(k) /\ w.limit = k.limit /\ Mail(w, k, D) /\ Fair(c, S, k, D)
        /\ k.low \in 0 .. D /\ w.out \in Seq(Frames) /\ k.base \o w.out \in Seq(Frames)
    BY DueParts DEF Up, Sound, SoundCon
  <2>. QED
    BY <2>1, Parts, RoomFacts
<1>2. /\ c1 \in Connections /\ c1.recvSeqNum.num = NextNum(c.recvSeqNum.num)
      /\ c1.recvSeqNum.con \in Valid /\ c1.sendSeqNum = c.sendSeqNum
      /\ c1.frames = c.frames /\ c1.free = c.free /\ c1.writeIndex = c.writeIndex
      /\ c1.ackIndex = c.ackIndex /\ c1.state = c.state
  <2>1. NextNum(c.recvSeqNum.num) \in Numbers
    BY <1>1, Parts, NextIs, Sizes
  <2>2. c1 = [c EXCEPT !.recvSeqNum.num = NextNum(c.recvSeqNum.num)]
    BY <1>1 DEF Connections, Bytes
  <2>. HIDE DEF c1
  <2>. QED
    BY <1>1, <2>1, <2>2 DEF Connections, Bytes
<1>3. T \in Nat /\ T = S + 1 /\ S <= T /\ T <= k.limit
  <2>1. S \in Nat /\ k.limit \in Nat /\ S < k.limit
    BY <1>1 DEF Terms
  <2>. HIDE DEF S
  <2>. QED
    BY <2>1
<1>4. f \in Frames /\ f.scon = c1.recvSeqNum /\ f.rcon = c1.sendSeqNum /\ f.data = S + 1
  <2>. HIDE DEF c1
  <2>. QED
    BY <1>2, <1>3, FrameType DEF Frame
<1>6. SendFrame(w, ret) = IF c1.free = 0 THEN [w EXCEPT !.c = c1] ELSE Flow(v, ret)
  BY DEF SendFrame
<1>15. c2.frames = [c1.frames EXCEPT ![c1.writeIndex] = f] /\ c2.sendSeqNum = c1.sendSeqNum
       /\ c2.recvSeqNum = c1.recvSeqNum
  <2>. HIDE DEF c1, f
  <2>. QED
    BY <1>2 DEF AddToHistory, Connections
<1>. HIDE DEF c1, f, c, S
<1>5. c2 \in Connections /\ Ring(c2) /\ c2.free = c.free - 1 /\ c2.state = c.state
  <2>1. f.scon.num = c1.recvSeqNum.num
    BY <1>4
  <2>. QED
    BY <1>1, <1>2, <1>4, <2>1, Appended
<1>5a. Own(c2, S + 1)
  <2>1. Own(c, S)
    BY <1>1 DEF Fair
  <2>. QED
    BY <1>1, <1>2, <1>4, <2>1, AppendedOwn DEF c2
<1>. HIDE DEF c2, T
<1>7. /\ c3 \in Connections /\ c3.free = c.free - 1 /\ Established(c3)
      /\ Alike(c2, c3) /\ c3.frames = c2.frames /\ c3.sendSeqNum = c2.sendSeqNum
      /\ c3.recvSeqNum = c2.recvSeqNum /\ (c3.state = "Connected" => c2.free > 1)
  <2>1. st \in States /\ st \in {"WaitAck", "Connected"} /\ (st = "Connected" => ~(c2.free <= 1))
    BY <1>1, <1>5 DEF States
  <2>2. c2.free \in Int
    BY <1>1, <1>5
  <2>. HIDE DEF st
  <2>3. /\ c3 \in Connections /\ c3.state = st /\ Alike(c2, c3) /\ c3.frames = c2.frames
        /\ c3.sendSeqNum = c2.sendSeqNum /\ c3.recvSeqNum = c2.recvSeqNum
    BY <1>5, <2>1 DEF Connections, Alike
  <2>. QED
    BY <1>1, <1>5, <2>1, <2>2, <2>3 DEF Established, Alike
<1>. HIDE DEF c3
<1>8. SoundCon(c3)
  <2>1. Ring(c3)
    BY <1>5, <1>7, AlikeRing
  <2>. QED
    BY <1>1, <1>5, <1>7, <2>1, RoomFacts DEF SoundCon
<1>9. /\ w3.c = c3 /\ w3.last = T /\ w3.out = w.out /\ w3.got = g /\ w3.room = w.room
      /\ w3.limit = w.limit /\ Typed(w3, k.room)
  BY <1>1, <1>3, <1>7 DEF Typed, WorkType, c, S
<1>10. Up(w3, k.room)
  BY <1>7, <1>8, <1>9 DEF Up, Sound
<1>. HIDE DEF D
<1>11. Fair(c3, T, k, D)
  <2>1. c.recvSeqNum.num = Rem(S, NumMod) /\ c.sendSeqNum.num = Rem(D, NumMod)
    BY <1>1 DEF Fair
  <2>2. /\ c3.recvSeqNum.con \in Valid /\ c3.recvSeqNum.num = Rem(T, NumMod)
        /\ c3.sendSeqNum.num = Rem(D, NumMod)
    BY <1>1, <1>2, <1>3, <1>7, <1>15, <2>1, NextRem
  <2>3. Used(c3) <= T /\ T <= Used(c3) + k.top
    <3>1. Used(c) <= S /\ S <= Used(c) + k.top /\ k.top \in Nat
      BY <1>1 DEF Fair, Terms
    <3>2. Used(c3) = Used(c) + 1 /\ Used(c) \in Nat
      <4>1. Used(c) = HistorySize - c.free /\ Used(c) \in 0 .. HistorySize
        BY <1>1, Parts
      <4>2. Used(c3) = HistorySize - c3.free /\ c3.free = c.free - 1 /\ c.free \in Int
        BY <1>1, <1>7 DEF Used
      <4>3. HistorySize \in Int
        BY Sizes
      <4>. HIDE DEF Used
      <4>. QED
        BY <4>1, <4>2, <4>3
    <3>. QED
      BY <1>1, <1>3, <3>1, <3>2
  <2>4. Stock(c3, D, T)
    <3>1. Stock(c, D, S)
      BY <1>1 DEF Fair
    <3>2. Stock(c, D, T)
      BY <1>1, <1>3, <3>1, StockMore
    <3>3. f.scon.con # 1 /\ Counted(f, D, T) /\ D \in 0 .. D
      <4>1. T \in 0 .. T /\ D \in 0 .. D
        BY <1>1, <1>3
      <4>2. f.rcon.num = Rem(D, NumMod) /\ f.scon.num = Rem(T, NumMod) /\ f.scon.con # 1
        BY <1>2, <1>4, <1>7, <1>15, <2>1, <2>2 DEF Valid
      <4>. QED
        BY <4>1, <4>2 DEF Counted
    <3>4. c.writeIndex \in Slots /\ c.frames \in [Slots -> Frames]
      BY <1>1 DEF Connections
    <3>5. c3.frames = [c.frames EXCEPT ![c.writeIndex] = f]
      BY <1>2, <1>7, <1>15
    <3>6. ASSUME NEW i \in Slots
          PROVE  c3.frames[i].scon.con # 1 /\ \E a \in 0 .. D : Counted(c3.frames[i], a, T)
      <4>1. c3.frames[i] = f \/ c3.frames[i] = c.frames[i]
        BY <3>4, <3>5
      <4>. QED
        BY <3>2, <3>3, <4>1 DEF Stock
    <3>. QED
      BY <3>6 DEF Stock
  <2>5. ~(k.held /\ D = 0)
    BY DEF Spoken, D
  <2>6. Own(c3, T)
    <3>1. Own(c2, T) /\ c2.recvSeqNum.con \in Valid /\ Established(c2)
      BY <1>1, <1>2, <1>3, <1>5, <1>5a, <1>15 DEF Established
    <3>. QED
      BY <1>5, <1>7, <3>1, OwnAlike
  <2>. QED
    BY <1>3, <2>2, <2>3, <2>4, <2>5, <2>6 DEF Fair
<1>12. Mail(w3, k, D)
  <2>. DEFINE s == k.base \o w.out
  <2>1. Bare(w.out) /\ Reports(s, k.low, D, S, k.limit) /\ Numbered(s, k.seen, S)
    BY <1>1 DEF Mail, S
  <2>2. s \in Seq(Frames) /\ k.low \in Nat /\ k.seen \in Nat
    BY <1>1 DEF Terms
  <2>. HIDE DEF s
  <2>3. Reports(s, k.low, D, T, k.limit) /\ Numbered(s, k.seen, T)
    BY <1>1, <1>3, <2>1, <2>2, ReportsMore, NumberedMore
  <2>. QED
    BY <1>9, <2>1, <2>3 DEF Mail, s
<1>13. Due(w3, k, g)
  BY <1>1, <1>9, <1>10, <1>11, <1>12 DEF Due, D
<1>. HIDE DEF w3
<1>14. Due(Flow(v, ret), k, g)
  BY <1>13, SendDue, FlagsDue
<1>. QED
  BY <1>1, <1>2, <1>6, <1>14

LEMMA SendDataDue ==
  ASSUME NEW w, NEW k, NEW g, Due(w, k, g), NEW reply \in Replies,
         reply = "data" => Spoken(k, g), NEW ret
  PROVE  Due(SendData(w, reply, ret), k, g)
<1>. DEFINE w1 == [w EXCEPT !.c.flow = FALSE, !.c.inactive = 0, !.c.timer = TRUE]
<1>1. Due(w1, k, g)
  BY FlagsDue
<1>2. w1.c.state = w.c.state /\ w1.last = w.last /\ w.limit = k.limit
  <2>. DEFINE d == [w.c EXCEPT !.flow = FALSE, !.inactive = 0, !.timer = TRUE]
  <2>1. w.c \in Connections /\ w \in WorkType /\ w.limit = k.limit
    BY DueParts
  <2>2. d.state = w.c.state
    BY <2>1 DEF Connections
  <2>3. w1.c = d /\ w1.last = w.last
    BY <2>1 DEF WorkType
  <2>. QED
    BY <2>1, <2>2, <2>3
<1>3. \/ SendData(w, reply, ret) = w
      \/ SendData(w, reply, ret) = SendEmpty(w1)
      \/ /\ w.c.state = "Connected" /\ w.last < w.limit /\ reply = "data"
         /\ SendData(w, reply, ret) = SendFrame(w1, ret)
  BY DEF SendData, Replies
<1>. HIDE DEF w1
<1>. QED
  BY <1>1, <1>2, <1>3, SendDue, SendFrameDue

(* A frame with the next number is passed on and its number taken over, or,  *)
(* under flow control, neither.                                              *)
LEMMA DeliverDue ==
  ASSUME NEW w, NEW k, NEW g, Due(w, k, g), NEW f \in Frames, Expected(w.c, f), NEW ret,
         NEW reply \in Replies
  PROVE  LET v == Deliver(w, f, ret, reply)
         IN  Due(v, k, g) \/ Due(v, k, Append(g, f.data))
<1>. DEFINE D  == k.count + Len(g)
            E  == D + 1
            w1 == [w EXCEPT !.c.inactive = 0]
            s  == Byte(f.scon.num, f.scon.con - (f.scon.con % 2))
            h  == Append(g, f.data)
            w2 == [w1 EXCEPT !.c.sendSeqNum = s, !.got = Append(@, f.data)]
            d  == [w1.c EXCEPT !.sendSeqNum = s]
            u  == [w1 EXCEPT !.c = d]
<1>1. Due(w1, k, g)
  BY FlagsDue
<1>2. w.c.sendSeqNum.num = Rem(D, NumMod) /\ D \in Nat /\ w \in WorkType /\ w.c \in Connections
  BY DueParts DEF Fair
<1>3. s \in Bytes /\ f.data \in Nat /\ s.num = Rem(E, NumMod)
  <2>1. f.scon.con \in 0 .. 3 /\ f.scon.num \in Numbers /\ f.data \in Nat
    BY DEF Frames, Bytes
  <2>2. f.scon.con - (f.scon.con % 2) \in 0 .. 3
    BY <2>1
  <2>3. f.scon.num = NextNum(Rem(D, NumMod))
    BY <1>2 DEF Expected
  <2>. HIDE DEF D
  <2>4. f.scon.num = Rem(D + 1, NumMod)
    BY <1>2, <2>3, NextRem
  <2>. QED
    BY <2>1, <2>2, <2>4 DEF Byte, Bytes
<1>4. Deliver(w, f, ret, reply) = IF w.c.flow THEN w1 ELSE Flow(SendData(w2, reply, ret), ret)
  BY DEF Deliver
<1>. HIDE DEF w1, s
<1>5. /\ w1 \in WorkType /\ w1.c \in Connections /\ w1.got = g /\ g \in Seq(Nat)
      /\ Typed(w1, k.room) /\ Up(w1, k.room) /\ w1.last \in Nat /\ w1.limit = k.limit
      /\ Terms(k) /\ Mail(w1, k, D) /\ Fair(w1.c, w1.last, k, D)
      /\ w1.out \in Seq(Frames) /\ k.base \o w1.out \in Seq(Frames)
      /\ w1.c.recvSeqNum.con \in Valid
  BY <1>1, DueParts
<1>6. w2 = [u EXCEPT !.got = h] /\ h \in Seq(Nat) /\ Len(h) = Len(g) + 1
  BY <1>3, <1>5 DEF WorkType
<1>7. /\ Alike(w1.c, d) /\ d.state = w1.c.state /\ d.recvSeqNum = w1.c.recvSeqNum
      /\ d.sendSeqNum = s /\ d.frames = w1.c.frames
  BY <1>3, <1>5 DEF Alike, Connections
<1>. HIDE DEF d
<1>8. Up(u, k.room) /\ u.c = d /\ u.last = w1.last /\ u.limit = w1.limit /\ u.out = w1.out
  <2>1. Up(u, k.room) /\ u.c = d
    BY <1>5, <1>7, PutAlike DEF Kept
  <2>. QED
    BY <1>5, <2>1 DEF WorkType
<1>. HIDE DEF u, w2, h
<1>9. /\ w2.c = d /\ w2.last = w1.last /\ w2.limit = k.limit /\ w2.out = w1.out /\ w2.got = h
      /\ Up(w2, k.room)
  <2>1. Typed(u, k.room) /\ u \in WorkType
    <3>1. Typed(u, k.room)
      BY <1>8 DEF Up, Sound
    <3>. QED
      BY <3>1, WorkParts
  <2>2. Typed(w2, k.room) /\ w2.c = u.c
    BY <1>6, <2>1, PutGot
  <2>3. w2.out = u.out /\ w2.last = u.last /\ w2.got = h /\ w2.limit = u.limit
    BY <1>6, <2>1 DEF WorkType
  <2>. QED
    BY <1>5, <1>8, <2>2, <2>3 DEF Up, Sound
<1>10. E = k.count + Len(h) /\ E \in Nat /\ D <= E /\ E # 0 /\ k.low \in Nat
  <2>1. k.count \in Nat /\ k.low \in Nat
    BY <1>5 DEF Terms
  <2>2. Len(g) \in Nat
    BY <1>5
  <2>3. Len(h) = Len(g) + 1
    BY <1>6
  <2>. HIDE DEF h
  <2>. QED
    BY <2>1, <2>2, <2>3
<1>. HIDE DEF E, D
<1>11. Mail(w2, k, E)
  <2>. DEFINE b == k.base \o w1.out
  <2>1. /\ Bare(w1.out) /\ Reports(b, k.low, D, w1.last, k.limit)
        /\ Numbered(b, k.seen, w1.last)
    BY <1>5 DEF Mail
  <2>2. b \in Seq(Frames)
    BY <1>5
  <2>. HIDE DEF b
  <2>3. Reports(b, k.low, E, w1.last, k.limit)
    BY <1>2, <1>5, <1>10, <2>1, <2>2, ReportsMore
  <2>. QED
    BY <1>9, <2>1, <2>3 DEF Mail, b
<1>12. Fair(d, w1.last, k, E)
  <2>1. Stock(w1.c, D, w1.last)
    BY <1>5 DEF Fair
  <2>2. Stock(w1.c, E, w1.last)
    BY <1>2, <1>5, <1>10, <2>1, StockMore
  <2>3. Stock(d, E, w1.last)
    BY <1>7, <2>2 DEF Stock
  <2>4. Used(d) = Used(w1.c)
    BY <1>7 DEF Alike, Used
  <2>5. Own(d, w1.last)
    <3>1. Own(w1.c, w1.last) /\ (Established(d) => Established(w1.c))
      BY <1>5, <1>7 DEF Fair, Established
    <3>. QED
      BY <1>5, <1>7, <3>1, OwnAlike
  <2>. QED
    BY <1>3, <1>5, <1>7, <1>10, <2>3, <2>4, <2>5 DEF Fair
<1>13. Due(w2, k, h)
  BY <1>5, <1>9, <1>10, <1>11, <1>12 DEF Due
<1>14. Spoken(k, h)
  BY <1>10 DEF Spoken
<1>15. Due(Flow(SendData(w2, reply, ret), ret), k, h)
  BY <1>13, <1>14, SendDataDue, FlagsDue
<1>. QED
  BY <1>1, <1>4, <1>15 DEF h

(* Acknowledgements.  A number that a frame of the partner acknowledges; the *)
(* latest one may be any, an older one is less than half a turn behind.      *)
Names(k, m) == \E a \in 0 .. k.top : /\ m = Rem(a, NumMod)
                                     /\ a = k.top \/ k.limit <= NumMod - Threshold

LEMMA AckedDue ==
  ASSUME NEW w, NEW k, NEW g, Due(w, k, g), NEW m \in Numbers, Names(k, m),
         NEW v, v = [w EXCEPT !.c = DeleteAcked(w.c, m)]
  PROVE  Due(v, k, g)
<1>. DEFINE d == DeleteAcked(w.c, m)
            S == w.last
            D == k.count + Len(g)
<1>1. /\ w.c \in Connections /\ w \in WorkType /\ Typed(w, k.room) /\ Up(w, k.room)
      /\ w.got = g /\ Ring(w.c) /\ Established(w.c) /\ w.limit = k.limit
      /\ S \in Nat /\ Terms(k) /\ Mail(w, k, D) /\ Fair(w.c, S, k, D)
  BY DueParts
<1>2. PICK a \in 0 .. k.top : m = Rem(a, NumMod) /\ (a = k.top \/ k.limit <= NumMod - Threshold)
  BY DEF Names
<1>. HIDE DEF D
<1>3. /\ k.top \in Nat /\ w.c.recvSeqNum.num = Rem(S, NumMod) /\ Used(w.c) <= S
      /\ S <= Used(w.c) + k.top /\ S <= k.limit /\ k.limit \in Nat
  BY <1>1 DEF Terms, Fair
<1>4. a = k.top \/ S <= NumMod - Threshold
  <2>1. S \in Nat /\ S <= k.limit /\ k.limit \in Nat /\ NumMod - Threshold \in Int
    BY <1>1, <1>3, SizesAssumption
  <2>. HIDE DEF S
  <2>. QED
    BY <1>2, <2>1
<1>5. /\ m \in Numbers /\ Used(d) <= S /\ S <= Used(d) + k.top
      /\ d.frames = w.c.frames /\ d.sendSeqNum = w.c.sendSeqNum
  <2>. HIDE DEF S
  <2>. QED
    BY <1>1, <1>2, <1>3, <1>4, AckedWithin
<1>6. Up(v, k.room)
  BY <1>1, AckedUp
<1>7. v.c = d /\ v.out = w.out /\ v.last = S /\ v.got = g /\ v.limit = w.limit
  BY <1>1 DEF WorkType
<1>8. d.recvSeqNum = w.c.recvSeqNum /\ d.state = w.c.state
  BY <1>1, <1>5, AckStep DEF Up, Sound
<1>8a. Own(d, S)
  <2>1. Own(w.c, S)
    BY <1>1 DEF Fair
  <2>. HIDE DEF S
  <2>. QED
    BY <1>1, <2>1, Acknowledged
<1>. HIDE DEF d
<1>9. Fair(d, S, k, D)
  <2>1. Stock(d, D, S)
    BY <1>1, <1>5 DEF Fair, Stock
  <2>. QED
    BY <1>1, <1>5, <1>6, <1>7, <1>8, <1>8a, <2>1 DEF Fair
<1>10. Mail(v, k, D)
  BY <1>1, <1>7 DEF Mail
<1>. QED
  BY <1>1, <1>6, <1>7, <1>9, <1>10 DEF Due, D

LEMMA AgainDue ==
  ASSUME NEW w, NEW k, NEW g, Due(w, k, g), w.c.free >= Room,
         NEW v, v = [w EXCEPT !.c.state = "Connected"]
  PROVE  Due(v, k, g) /\ v.c.recvSeqNum = w.c.recvSeqNum
<1>. DEFINE c == w.c
            d == [c EXCEPT !.state = "Connected"]
            D == k.count + Len(g)
<1>1. /\ c \in Connections /\ w \in WorkType /\ Typed(w, k.room) /\ Up(w, k.room)
      /\ w.got = g /\ Ring(c) /\ Established(c) /\ w.limit = k.limit
      /\ w.last \in Nat /\ Terms(k) /\ Mail(w, k, D) /\ Fair(c, w.last, k, D)
  BY DueParts
<1>2. /\ Alike(c, d) /\ d.state = "Connected" /\ d.frames = c.frames
      /\ d.sendSeqNum = c.sendSeqNum /\ d.recvSeqNum = c.recvSeqNum
  <2>. HIDE DEF c
  <2>1. "Connected" \in States
    BY DEF States
  <2>. QED
    BY <1>1, <2>1 DEF Connections, Alike
<1>3. v = [w EXCEPT !.c = d]
  BY <1>1 DEF WorkType
<1>4. c.free >= Room
  OBVIOUS
<1>. HIDE DEF c, d, D
<1>5. SoundCon(d) /\ d \in Connections /\ Established(d)
  <2>1. SoundCon(d)
    BY <1>1, <1>2, <1>4, RoomySound
  <2>. QED
    BY <1>2, <2>1 DEF Alike, Established
<1>6. /\ Up(v, k.room) /\ v.c = d /\ v.out = w.out /\ v.last = w.last /\ v.got = g
      /\ v.limit = w.limit
  <2>1. v.c = d /\ v.out = w.out /\ v.last = w.last /\ v.got = w.got /\ v.limit = w.limit
    BY <1>1, <1>3 DEF WorkType
  <2>2. Sound(v, k.room)
    BY <1>1, <1>3, <1>5, PutCon
  <2>. QED
    BY <1>1, <1>5, <2>1, <2>2 DEF Up
<1>7. Fair(d, w.last, k, D)
  <2>1. Stock(d, D, w.last)
    BY <1>1, <1>2 DEF Fair, Stock
  <2>2. Used(d) = Used(c)
    BY <1>2 DEF Alike, Used
  <2>3. Own(d, w.last)
    <3>1. Own(c, w.last) /\ d.recvSeqNum.con \in Valid
      BY <1>1, <1>2 DEF Fair
    <3>. QED
      BY <1>1, <1>2, <3>1, OwnAlike
  <2>. QED
    BY <1>1, <1>2, <2>1, <2>2, <2>3 DEF Fair
<1>8. Mail(v, k, D)
  BY <1>1, <1>6 DEF Mail
<1>. QED
  BY <1>1, <1>2, <1>6, <1>7, <1>8 DEF Due, D, c

LEMMA AckReceivedDue ==
  ASSUME NEW w, NEW k, NEW g, Due(w, k, g), NEW m \in Numbers, Names(k, m), HistoryAcked(w.c, m),
         NEW ret, NEW onAck \in Replies, onAck = "data" => Spoken(k, g)
  PROVE  Due(AckReceived(w, m, ret, onAck), k, g)
<1>. DEFINE w1 == [w EXCEPT !.c = DeleteAcked(w.c, m)]
            r  == [w1.c.recvSeqNum EXCEPT !.con = 2]
            u  == [w1 EXCEPT !.c.recvSeqNum = r]
            w2 == [w1 EXCEPT !.c.recvSeqNum.con = 2, !.c.state = "Connected"]
<1>1. Due(w1, k, g)
  BY AckedDue
<1>2. w1.c.free >= Room
  <2>1. w1.c = DeleteAcked(w.c, m)
    BY DueParts DEF WorkType
  <2>2. DeleteAcked(w.c, m).free >= Room
    BY DueParts, AckStep DEF Up, Sound
  <2>. QED
    BY <2>1, <2>2
<1>3. AckReceived(w, m, ret, onAck) = Flow(SendData(w2, onAck, ret), ret)
  BY DEF AckReceived
<1>. HIDE DEF w1
<1>4. w1 \in WorkType /\ w1.c \in Connections
  BY <1>1, DueParts
<1>5. r \in Bytes /\ r.num = w1.c.recvSeqNum.num /\ r.con \in Valid
  BY <1>4 DEF Connections, Bytes, Valid
<1>6. w2 = [u EXCEPT !.c.state = "Connected"] /\ u.c.free = w1.c.free
  <2>. DEFINE c == w1.c
  <2>1. [c EXCEPT !.recvSeqNum.con = 2, !.state = "Connected"]
          = [[c EXCEPT !.recvSeqNum = r] EXCEPT !.state = "Connected"]
    BY <1>4 DEF Connections
  <2>2. w2 = [w1 EXCEPT !.c = [c EXCEPT !.recvSeqNum.con = 2, !.state = "Connected"]]
    BY <1>4 DEF WorkType
  <2>. HIDE DEF r
  <2>3. /\ u = [w1 EXCEPT !.c = [c EXCEPT !.recvSeqNum = r]]
        /\ u.c = [c EXCEPT !.recvSeqNum = r] /\ u.c.free = c.free
    BY <1>4 DEF WorkType, Connections
  <2>. HIDE DEF u, c, w2
  <2>4. [u EXCEPT !.c.state = "Connected"]
          = [w1 EXCEPT !.c = [[c EXCEPT !.recvSeqNum = r] EXCEPT !.state = "Connected"]]
    BY <1>4, <2>3 DEF WorkType
  <2>. QED
    BY <2>1, <2>2, <2>3, <2>4 DEF c
<1>. HIDE DEF r
<1>7. Due(u, k, g)
  BY <1>1, <1>5, BytesDue
<1>. HIDE DEF u, w2
<1>8. Due(w2, k, g)
  BY <1>2, <1>6, <1>7, AgainDue
<1>. QED
  <2>1. Due(SendData(w2, onAck, ret), k, g)
    BY <1>8, SendDataDue
  <2>2. Due(Flow(SendData(w2, onAck, ret), ret), k, g)
    BY <2>1, FlagsDue
  <2>. QED
    BY <1>3, <2>2

-----------------------------------------------------------------------------

(* The handlers of an established connection: at most the frame was passed   *)
(* on.                                                                       *)
Took(f, k, g, v) == \/ Due(v, k, g)
                    \/ /\ Due(v, k, Append(g, f.data))
                       /\ f.scon.num = Rem(k.count + Len(g) + 1, NumMod)

LEMMA DeliverTook ==
  ASSUME NEW w, NEW k, NEW g, Due(w, k, g), NEW f \in Frames, Expected(w.c, f),
         NEW ret, NEW reply \in Replies
  PROVE  Took(f, k, g, Deliver(w, f, ret, reply))
<1>. DEFINE D == k.count + Len(g)
<1>1. D \in Nat /\ w.c.sendSeqNum.num = Rem(D, NumMod)
  BY DueParts DEF Fair
<1>2. f.scon.num = NextNum(Rem(D, NumMod))
  BY <1>1 DEF Expected
<1>. HIDE DEF D
<1>3. f.scon.num = Rem(D + 1, NumMod)
  BY <1>1, <1>2, NextRem
<1>. QED
  BY <1>3, DeliverDue DEF Took, D

LEMMA ConnectedRecDue ==
  ASSUME NEW w, NEW k, NEW g, Due(w, k, g), NEW f \in Frames, Names(k, f.rcon.num),
         NEW deletes, NEW ret, NEW reply \in Replies,
         NEW v, v = ConnectedRec(w, f, deletes, ret, reply)
  PROVE  \/ v = Closed(w)
         \/ f.scon.con = 1 /\ v = Reinit(w, f, deletes)
         \/ Took(f, k, g, v)
<1>. DEFINE m  == f.rcon.num
            w1 == IF AckValid(w.c, m) \/ HistoryAcked(w.c, m) THEN Alive(w) ELSE w
            w2 == [w1 EXCEPT !.c = DeleteAcked(w1.c, m)]
            w3 == IF f.rcon.con = 3 THEN SendWindow(Alive(w2)) ELSE w2
            w4 == ResendOldest(w3, f)
            e  == Deliver(w4, f, ret, reply)
<1>1. Due(w1, k, g)
  BY AliveDue
<1>2. Due(w2, k, g)
  <2>1. m \in Numbers /\ Names(k, m)
    BY FrameParts
  <2>. HIDE DEF w1, m
  <2>. QED
    BY <1>1, <2>1, AckedDue
<1>3. Due(w3, k, g)
  <2>. HIDE DEF w2
  <2>. QED
    BY <1>2, AliveDue, SendDue
<1>4. Due(w4, k, g)
  <2>. HIDE DEF w3
  <2>. QED
    BY <1>3, AnswersDue
<1>5. v = CASE f.scon.con = 0 -> Closed(w)
            [] f.scon.con = 1 -> Reinit(w, f, deletes)
            [] f.scon.con \in {2, 3} /\ Expected(w4.c, f) -> AnswerAckRequest(e, f)
            [] f.scon.con \in {2, 3} /\ ~Expected(w4.c, f) /\ Skipped(w4.c, f) ->
                   SendRetransmissionRequest(w4)
            [] OTHER -> AnswerAckRequest(w4, f)
  BY DEF ConnectedRec
<1>. HIDE DEF w4, e
<1>5a. \/ v = Closed(w)
       \/ f.scon.con = 1 /\ v = Reinit(w, f, deletes)
       \/ f.scon.con \in Valid /\ Expected(w4.c, f) /\ v = AnswerAckRequest(e, f)
       \/ v = SendRetransmissionRequest(w4)
       \/ v = AnswerAckRequest(w4, f)
  BY <1>5 DEF Valid
<1>6. Due(SendRetransmissionRequest(w4), k, g) /\ Due(AnswerAckRequest(w4, f), k, g)
  BY <1>4, AnswersDue
<1>7. f.scon.con \in Valid /\ Expected(w4.c, f) => Took(f, k, g, AnswerAckRequest(e, f))
  <2>1. f.scon.con \in Valid /\ Expected(w4.c, f) => Took(f, k, g, e)
    BY <1>4, DeliverTook DEF e
  <2>. QED
    BY <2>1, AnswersDue DEF Took
<1>. QED
  BY <1>5a, <1>6, <1>7 DEF Took

LEMMA WaitAckValidDue ==
  ASSUME NEW w, NEW k, NEW g, Due(w, k, g), NEW f \in Frames, Names(k, f.rcon.num),
         NEW ret, NEW reply \in Replies, NEW onAck \in Replies, Spoken(k, g)
  PROVE  Took(f, k, g, WaitAckValid(w, f, ret, reply, onAck))
<1>. DEFINE acked == HistoryAcked(w.c, f.rcon.num)
            w1 == IF acked THEN AckReceived(Alive(w), f.rcon.num, ret, onAck) ELSE w
            w2 == IF Expected(w1.c, f) THEN Deliver(w1, f, ret, reply) ELSE w1
<1>1. Due(w1, k, g)
  <2>. DEFINE v == Alive(w)
              m == f.rcon.num
  <2>1. Due(v, k, g) /\ m \in Numbers /\ Names(k, m)
    BY AliveDue, FrameParts
  <2>2. HistoryAcked(w.c, m) => HistoryAcked(v.c, m)
    <3>1. w \in WorkType /\ w.c \in Connections
      BY DueParts
    <3>2. v.c.frames = w.c.frames /\ v.c.ackIndex = w.c.ackIndex
      BY <3>1 DEF Alive, WorkType, Connections
    <3>. QED
      BY <3>2 DEF HistoryAcked
  <2>. HIDE DEF v, m
  <2>3. HistoryAcked(w.c, m) => Due(AckReceived(v, m, ret, onAck), k, g)
    BY <2>1, <2>2, AckReceivedDue
  <2>. QED
    BY <2>3 DEF v, m
<1>2. Took(f, k, g, w2)
  <2>. HIDE DEF w1
  <2>. QED
    BY <1>1, DeliverTook DEF Took
<1>3. WaitAckValid(w, f, ret, reply, onAck) \in {w1, w2, ResendOldest(w2, f)}
  BY DEF WaitAckValid
<1>. HIDE DEF w1, w2
<1>4. Took(f, k, g, ResendOldest(w2, f))
  BY <1>2, AnswersDue DEF Took
<1>5. Took(f, k, g, w1)
  BY <1>1 DEF Took
<1>. QED
  BY <1>2, <1>3, <1>4, <1>5

LEMMA WaitAckRequestDue ==
  ASSUME NEW w, NEW k, NEW g, Due(w, k, g), NEW f \in Frames, Names(k, f.rcon.num),
         NEW ret, NEW reply \in Replies, NEW onAck \in Replies, Spoken(k, g)
  PROVE  Took(f, k, g, WaitAckRequest(w, f, ret, reply, onAck))
<1>. DEFINE m  == f.rcon.num
            acked == HistoryAcked(w.c, m)
            w1 == IF acked THEN AckReceived(w, m, ret, onAck) ELSE w
            w2 == Alive(w1)
            w3 == [w2 EXCEPT !.c.state = "Connected"]
            r  == Byte(m, 2)
            v  == [w3 EXCEPT !.c.recvSeqNum = r]
<1>0. /\ m \in Numbers /\ Names(k, m) /\ Typed(w, k.room) /\ SoundCon(w.c) /\ Established(w.c)
      /\ Up(w, k.room)
  BY FrameParts, DueParts DEF Up, Sound
<1>1. Due(w1, k, g) /\ (m = w1.c.recvSeqNum.num => w1.c.free >= Room)
  <2>. HIDE DEF m
  <2>1. CASE acked
    <3>. DEFINE x == AckReceived(w, m, ret, onAck)
    <3>1. Due(x, k, g)
      BY <1>0, <2>1, AckReceivedDue
    <3>2. m = x.c.recvSeqNum.num => x.c.free >= Room
      BY <1>0, <2>1, AckReceivedUp
    <3>. QED
      BY <2>1, <3>1, <3>2
  <2>2. CASE ~acked
    <3>1. m = w.c.recvSeqNum.num => w.c.free = HistorySize
      BY <1>0, <2>2, AckStep
    <3>. QED
      BY <2>2, <3>1, RoomFacts, Sizes
  <2>. QED
    BY <2>1, <2>2
<1>2. \/ WaitAckRequest(w, f, ret, reply, onAck) = w1
      \/ WaitAckRequest(w, f, ret, reply, onAck) = SendWindow(w2)
      \/ /\ m = w2.c.recvSeqNum.num
         /\ \/ /\ Expected(w3.c, f)
               /\ WaitAckRequest(w, f, ret, reply, onAck) = Deliver(w3, f, ret, reply)
            \/ WaitAckRequest(w, f, ret, reply, onAck) \in {SendEmpty(v), w1}
  BY DEF WaitAckRequest
<1>. HIDE DEF w1, m
<1>3. Due(w2, k, g) /\ w2.c.recvSeqNum.num = w1.c.recvSeqNum.num /\ w2.c.free = w1.c.free
  <2>1. Kept(w1, w2, k.room)
    BY <1>1, DueParts, AliveKept
  <2>. QED
    BY <1>1, <2>1, AliveDue DEF Kept, Alike
<1>. HIDE DEF w2
<1>4. Due(SendWindow(w2), k, g)
  BY <1>3, SendDue
<1>5. ASSUME m = w2.c.recvSeqNum.num
      PROVE  Due(w3, k, g) /\ Due(SendEmpty(v), k, g)
  <2>0. w2.c.free >= Room
    BY <1>1, <1>3, <1>5
  <2>1. Due(w3, k, g) /\ w3.c.recvSeqNum = w2.c.recvSeqNum
    BY <1>3, <2>0, AgainDue
  <2>2. r \in Bytes /\ r.num = m /\ r.con \in Valid
    BY <1>0 DEF Byte, Bytes, Valid
  <2>. HIDE DEF r, w3
  <2>3. Due(v, k, g)
    BY <1>5, <2>1, <2>2, BytesDue
  <2>. HIDE DEF v
  <2>. QED
    BY <2>1, <2>3, SendDue
<1>. HIDE DEF w3, v
<1>6. m = w2.c.recvSeqNum.num /\ Expected(w3.c, f) =>
        Took(f, k, g, Deliver(w3, f, ret, reply))
  BY <1>5, DeliverTook
<1>. QED
  BY <1>1, <1>2, <1>4, <1>5, <1>6 DEF Took

LEMMA WaitAckRecDue ==
  ASSUME NEW w, NEW k, NEW g, Due(w, k, g), w.c.state = "WaitAck",
         NEW f \in Frames, Names(k, f.rcon.num),
         NEW deletes, NEW ret, NEW reply \in Replies, NEW onAck \in Replies,
         NEW v, v = WaitAckRec(w, f, deletes, ret, reply, onAck)
  PROVE  \/ v = Closed(w)
         \/ f.scon.con = 1 /\ v = Reinit(RequestAck(w), f, deletes)
         \/ Took(f, k, g, v)
<1>. DEFINE u == RequestAck(w)
<1>1. Due(u, k, g)
  BY CodesDue
<1>2. \/ f.scon.con = 1 /\ v = Reinit(u, f, deletes)
      \/ v = Closed(w)
      \/ v = WaitAckValid(u, f, ret, reply, onAck)
      \/ v = WaitAckRequest(u, f, ret, reply, onAck)
      \/ v = u
  BY DEF WaitAckRec
<1>. HIDE DEF u
<1>3. Spoken(k, g)
  BY DueParts DEF Fair, Spoken
<1>4. /\ Took(f, k, g, WaitAckValid(u, f, ret, reply, onAck))
      /\ Took(f, k, g, WaitAckRequest(u, f, ret, reply, onAck))
  BY <1>1, <1>3, WaitAckValidDue, WaitAckRequestDue
<1>5. Took(f, k, g, u)
  BY <1>1 DEF Took
<1>. QED
  BY <1>2, <1>4, <1>5 DEF u

(* Sub-timeouts.                                                            *)
LEMMA FrameCodeDue ==
  ASSUME NEW w, NEW k, NEW g, Due(w, k, g), NEW i \in Slots, NEW y \in 0 .. 3
  PROVE  /\ Due([w EXCEPT !.c.frames[i].scon.con = 3], k, g)
         /\ Due([w EXCEPT !.c.frames[i].rcon.con = y], k, g)
<1>. DEFINE c == w.c
            e == c.frames[i]
<1>1. /\ c \in Connections /\ w \in WorkType /\ e \in Frames /\ c.frames \in [Slots -> Frames]
      /\ c.recvSeqNum.con \in Valid
  BY DueParts, Parts
<1>2. ASSUME NEW h \in Frames, h.scon.num = e.scon.num, h.rcon.num = e.rcon.num,
             h.scon.con \in Valid \cup {e.scon.con}, h.data = e.data
      PROVE  Due([w EXCEPT !.c = [c EXCEPT !.frames = [c.frames EXCEPT ![i] = h]]], k, g)
  <2>. DEFINE fr == [c.frames EXCEPT ![i] = h]
              d  == [c EXCEPT !.frames = fr]
  <2>1. /\ fr \in [Slots -> Frames]
        /\ \A j \in Slots : /\ fr[j].scon.num = c.frames[j].scon.num
                            /\ fr[j].rcon.num = c.frames[j].rcon.num
                            /\ fr[j].scon.con \in Valid \cup {c.frames[j].scon.con}
                            /\ fr[j].data = c.frames[j].data
    BY <1>1, <1>2
  <2>. HIDE DEF fr
  <2>2. /\ Alike(c, d) /\ d.state = c.state /\ d.recvSeqNum = c.recvSeqNum
        /\ d.sendSeqNum = c.sendSeqNum /\ d.frames = fr
    BY <1>1, <2>1 DEF Connections, Alike
  <2>. HIDE DEF d
  <2>3. Due([w EXCEPT !.c = d], k, g)
    BY <1>1, <2>1, <2>2, PutDue
  <2>. QED
    BY <1>1, <2>2, <2>3 DEF d, fr
<1>3. Due([w EXCEPT !.c.frames[i].scon.con = 3], k, g)
  <2>. DEFINE h == [e EXCEPT !.scon.con = 3]
  <2>1. /\ h \in Frames /\ h.scon.num = e.scon.num /\ h.rcon = e.rcon /\ h.scon.con \in Valid
        /\ h.data = e.data
    BY <1>1 DEF Frames, Bytes, Valid
  <2>2. [c.frames EXCEPT ![i].scon.con = 3] = [c.frames EXCEPT ![i] = h]
    OBVIOUS
  <2>3. [c EXCEPT !.frames[i].scon.con = 3] = [c EXCEPT !.frames = [c.frames EXCEPT ![i] = h]]
    BY <1>1, <2>2 DEF Connections
  <2>4. [w EXCEPT !.c.frames[i].scon.con = 3]
          = [w EXCEPT !.c = [c EXCEPT !.frames[i].scon.con = 3]]
    BY <1>1 DEF WorkType
  <2>. HIDE DEF h
  <2>. QED
    BY <1>2, <2>1, <2>3, <2>4
<1>4. Due([w EXCEPT !.c.frames[i].rcon.con = y], k, g)
  <2>. DEFINE h == [e EXCEPT !.rcon.con = y]
  <2>1. h \in Frames /\ h.scon = e.scon /\ h.rcon.num = e.rcon.num /\ h.data = e.data
    BY <1>1 DEF Frames, Bytes
  <2>2. [c.frames EXCEPT ![i].rcon.con = y] = [c.frames EXCEPT ![i] = h]
    OBVIOUS
  <2>3. [c EXCEPT !.frames[i].rcon.con = y] = [c EXCEPT !.frames = [c.frames EXCEPT ![i] = h]]
    BY <1>1, <2>2 DEF Connections
  <2>4. [w EXCEPT !.c.frames[i].rcon.con = y]
          = [w EXCEPT !.c = [c EXCEPT !.frames[i].rcon.con = y]]
    BY <1>1 DEF WorkType
  <2>. HIDE DEF h
  <2>. QED
    BY <1>2, <2>1, <2>3, <2>4
<1>. QED
  BY <1>3, <1>4

LEMMA SubTimeoutDue ==
  ASSUME NEW w, NEW k, NEW g, Due(w, k, g), w.c.retry < RetryCount
  PROVE  Due(SubTimeout(w), k, g)
<1>. DEFINE s  == AckCode(w.c)
            t  == w.c.retry + 1
            d1 == [w.c EXCEPT !.sendSeqNum = s, !.retry = t, !.timer = TRUE]
            w1 == [w EXCEPT !.c.sendSeqNum = AckCode(w.c), !.c.retry = @ + 1, !.c.timer = TRUE]
            i  == w1.c.ackIndex
            x  == IF w.c.flow THEN 3 ELSE 2
            w2 == [w1 EXCEPT !.c.frames[i].scon.con = 3, !.c.frames[i].rcon.con = x]
            f  == [Frame(w1.c, 0) EXCEPT !.scon.con = 3]
<1>0. /\ w.c \in Connections /\ w \in WorkType /\ w.c.recvSeqNum.con \in Valid
  BY DueParts
<1>1. s \in Bytes /\ t \in 0 .. RetryCount /\ s.num = w.c.sendSeqNum.num
  <2>1. s.num = w.c.sendSeqNum.num
    BY <1>0 DEF AckCode, Coded, Connections, Bytes
  <2>. QED
    BY <1>0, <2>1, AckCodeType, BoundsAssumption DEF Connections
<1>2. Due(w1, k, g)
  <2>1. w1 = [w EXCEPT !.c = d1]
    BY <1>0 DEF WorkType, Connections
  <2>. HIDE DEF s, t, w1
  <2>2. Plain(w.c, d1) /\ d1.sendSeqNum = s
    <3>1. ASSUME NEW b \in BOOLEAN
          PROVE  LET d == [w.c EXCEPT !.sendSeqNum = s, !.retry = t, !.timer = b]
                 IN  Plain(w.c, d) /\ d.sendSeqNum = s
      BY <1>0, <1>1 DEF Connections, Alike, Plain
    <3>. QED
      BY <3>1
  <2>. HIDE DEF d1
  <2>. QED
    BY <1>1, <2>1, <2>2, PutPlainDue
<1>3. SubTimeout(w) \in {SendOldest(w2), Emit(w1, f)}
  BY DEF SubTimeout
<1>. HIDE DEF w1
<1>4. /\ w1.c \in Connections /\ w1 \in WorkType /\ Typed(w1, k.room) /\ Up(w1, k.room)
      /\ w1.last \in Nat /\ k.count + Len(g) \in Nat
      /\ Fair(w1.c, w1.last, k, k.count + Len(g))
  BY <1>2, DueParts
<1>5. Due(SendOldest(w2), k, g)
  <2>. DEFINE u == [w1 EXCEPT !.c.frames[i].scon.con = 3]
  <2>1. i \in Slots /\ x \in 0 .. 3
    BY <1>4 DEF Connections
  <2>2. w2 = [u EXCEPT !.c.frames[i].rcon.con = x]
    <3>. HIDE DEF i, x
    <3>. QED
      OBVIOUS
  <2>. HIDE DEF w2, i, x
  <2>3. Due(u, k, g)
    BY <1>2, <2>1, FrameCodeDue
  <2>. HIDE DEF u
  <2>4. Due(w2, k, g)
    BY <2>1, <2>2, <2>3, FrameCodeDue
  <2>. QED
    BY <2>4, SendDue
<1>6. Due(Emit(w1, f), k, g)
  <2>. DEFINE e == Frame(w1.c, 0)
              D == k.count + Len(g)
  <2>1. e \in Frames /\ e.scon = w1.c.recvSeqNum /\ e.rcon = w1.c.sendSeqNum /\ e.data = 0
    BY <1>4, FrameType DEF Frame
  <2>2. /\ f \in Frames /\ f.rcon.num = w1.c.sendSeqNum.num
        /\ f.scon.num = w1.c.recvSeqNum.num /\ f.scon.con = 3 /\ f.data = 0
    <3>. HIDE DEF e
    <3>1. LET h == [e EXCEPT !.scon.con = 3]
          IN  /\ h \in Frames /\ h.rcon.num = w1.c.sendSeqNum.num
              /\ h.scon.num = w1.c.recvSeqNum.num /\ h.scon.con = 3 /\ h.data = 0
      BY <2>1 DEF Frames, Bytes
    <3>. QED
      BY <3>1 DEF e
  <2>. HIDE DEF f, D
  <2>3. Says(f, D, w1.last, k.limit)
    BY <1>4, <2>2, EmptySays DEF D
  <2>4. Up(Emit(w1, f), k.room)
    BY <1>4, <2>2, EmitTyped DEF Up, Sound
  <2>. QED
    BY <1>2, <2>2, <2>3, <2>4, EmitDue DEF D
<1>. QED
  BY <1>3, <1>5, <1>6

LEMMA TimeoutEventDue ==
  ASSUME NEW w, NEW k, NEW g, Due(w, k, g), NEW v, v = TimeoutEvent(w)
  PROVE  v = FinalTimeout(w) \/ Due(v, k, g)
<1>. DEFINE t  == w.c.inactive + 1
            d  == [w.c EXCEPT !.inactive = t]
            u  == [w EXCEPT !.c.inactive = @ + 1]
            w1 == IF w.c.flow THEN w ELSE u
<1>0. /\ w.c \in Connections /\ w \in WorkType /\ w.c.recvSeqNum.con \in Valid
  BY DueParts
<1>1. v = FinalTimeout(w)
      \/ /\ v = SubTimeout(w1)
         /\ w.c.retry < RetryCount /\ (w.c.flow \/ w.c.inactive < InactiveThld)
  BY DEF TimeoutEvent
<1>2. ASSUME w.c.inactive < InactiveThld
      PROVE  Due(u, k, g) /\ u.c.retry = w.c.retry
  <2>1. t \in 0 .. InactiveThld
    BY <1>0, <1>2, BoundsAssumption DEF Connections
  <2>2. u = [w EXCEPT !.c = d]
    BY <1>0 DEF WorkType, Connections
  <2>. HIDE DEF t, u
  <2>3. Plain(w.c, d) /\ d.sendSeqNum = w.c.sendSeqNum /\ d.retry = w.c.retry
    BY <1>0, <2>1 DEF Connections, Alike, Plain
  <2>. HIDE DEF d
  <2>. QED
    BY <1>0, <2>2, <2>3, PutPlainDue
<1>. HIDE DEF u
<1>3. ASSUME w.c.retry < RetryCount, w.c.flow \/ w.c.inactive < InactiveThld
      PROVE  Due(SubTimeout(w1), k, g)
  <2>1. Due(w1, k, g) /\ w1.c.retry < RetryCount
    BY <1>2, <1>3
  <2>. HIDE DEF w1
  <2>. QED
    BY <2>1, SubTimeoutDue
<1>. QED
  BY <1>1, <1>3

-----------------------------------------------------------------------------
(* Both nodes.                                                               *)
Half(p) == [c |-> con[p], sent |-> net[p], last |-> submitted[p],
            heard |-> Len(delivered[p])]
Halves  == [c : Connections, sent : Seq(Frames), last : Nat, heard : Nat]

(* After a step of a node, and after its partner took a frame from it or not. *)
Moved(x, v, n) == [c |-> v.c, sent |-> x.sent \o v.out, last |-> v.last, heard |-> n]
Queued(y, t)   == [c |-> y.c, sent |-> t, last |-> y.last, heard |-> y.heard]

Blank(x, y) == x.last = 0 /\ x.heard = 0 /\ y.last = 0 /\ y.heard = 0

(* What the partner has released by acknowledging it.                        *)
Freed(x) == IF Established(x.c) THEN x.last - Used(x.c) ELSE 0

Paid(x, y) ==
  /\ x.c.recvSeqNum.con \in Valid
  /\ x.c.recvSeqNum.num = Rem(x.last, NumMod) /\ x.c.sendSeqNum.num = Rem(x.heard, NumMod)
  /\ Used(x.c) <= x.last /\ x.last <= Used(x.c) + y.heard
  /\ Own(x.c, x.last)

(* What the partner still has to be handed is in the history.                *)
Runs(x, y) == Numbered(x.sent, y.heard, x.last) /\ x.last <= y.heard + HistorySize

Account(limit, x, y) ==
  /\ Established(x.c) => Paid(x, y)
  /\ x.last <= limit
  /\ Stock(x.c, x.heard, x.last)
  /\ Reports(x.sent, Freed(y), x.heard, x.last, limit)
  /\ Runs(x, y)

(* The handshake.  The first frame of the client opens it: nothing else was  *)
(* sent before.                                                              *)
ClientSide(x, y) ==
  /\ x.c.state # "Init2"
  /\ x.c.state \in InitStates => Blank(x, y)
  /\ \A i \in 1 .. Len(x.sent) : x.sent[i].scon.con = 1 =>
       /\ x.sent[i].rcon.con = 0 /\ i = 1 /\ Blank(x, y)
       /\ x.c.state \in {"Idle", "Init1"} /\ y.c.state = "Idle" /\ y.sent = << >>

ServerSide(x, y) ==
  /\ x.c.state \notin {"Init1", "Init3"}
  /\ \A i \in 1 .. Len(x.sent) : x.sent[i].scon.con = 1 => x.sent[i].rcon.con = 1
  /\ x.c.state = "Init2" =>
       /\ Blank(x, y) /\ ~Established(y.c)
       /\ \A i \in 1 .. Len(x.sent) : x.sent[i].scon.con \notin Valid
  /\ x.heard = 0 => x.last = 0 /\ x.c.state # "WaitAck"

Side(client, x, y) == IF client THEN ClientSide(x, y) ELSE ServerSide(x, y)

Both(client, a, b, x, y) ==
  /\ Account(a, x, y) /\ Account(b, y, x)
  /\ Side(client, x, y) /\ Side(~client, y, x)

(* Queues that lose their head, or not.                                      *)
Rest(s, t) == t = s \/ (s # << >> /\ t = Tail(s))

LEMMA RestParts ==
  ASSUME NEW s \in Seq(Frames), NEW t, Rest(s, t)
  PROVE  /\ t \in Seq(Frames)
         /\ \A i \in 1 .. Len(t) : \E j \in 1 .. Len(s) : t[i] = s[j] /\ (t = s \/ j > 1)
         /\ t = s => \A i \in 1 .. Len(t) : t[i] = s[i]
<1>1. CASE t = s
  BY <1>1
<1>2. CASE s # << >> /\ t = Tail(s)
  <2>1. /\ t \in Seq(Frames) /\ Len(t) = Len(s) - 1 /\ Len(s) \in Nat /\ Len(t) \in Nat
        /\ \A i \in 1 .. Len(t) : t[i] = s[i + 1]
    BY <1>2
  <2>2. ASSUME NEW i \in 1 .. Len(t)
        PROVE  \E j \in 1 .. Len(s) : t[i] = s[j] /\ j > 1
    <3>. DEFINE j == i + 1
    <3>1. j \in 1 .. Len(s) /\ t[i] = s[j] /\ j > 1
      BY <2>1
    <3>. QED
      BY <3>1
  <2>. QED
    BY <2>1, <2>2
<1>. QED
  BY <1>1, <1>2 DEF Rest

LEMMA ReportsRest ==
  ASSUME NEW s \in Seq(Frames), NEW D \in Nat, NEW low \in 0 .. D, NEW S, NEW limit,
         Reports(s, low, D, S, limit), NEW t, Rest(s, t), NEW z \in 0 .. low
  PROVE  Reports(t, z, D, S, limit)
<1>1. PICK y \in Seq(Nat) : Counts(s, y, low, D, S, limit)
  BY DEF Reports
<1>2. Len(y) = Len(s) /\ Len(s) \in Nat
  BY <1>1 DEF Counts
<1>3. CASE t = s
  <2>1. ASSUME NEW i \in 1 .. Len(s) PROVE limit = 0 => z <= y[i]
    <3>1. y[i] \in Nat /\ (limit = 0 => low <= y[i])
      BY <1>1, <1>2 DEF Counts
    <3>. QED
      BY <3>1
  <2>2. Counts(s, y, z, D, S, limit)
    BY <1>1, <2>1 DEF Counts
  <2>. QED
    BY <1>3, <2>2 DEF Reports
<1>4. CASE s # << >> /\ t = Tail(s)
  <2>. DEFINE u == Tail(y)
              n == Len(s)
  <2>1. /\ t \in Seq(Frames) /\ Len(t) = n - 1 /\ n \in Nat /\ n >= 1
        /\ \A i \in 1 .. n - 1 : t[i] = s[i + 1]
    BY <1>4
  <2>2. /\ u \in Seq(Nat) /\ Len(u) = n - 1 /\ \A i \in 1 .. n - 1 : u[i] = y[i + 1]
    <3>1. y # << >>
      BY <1>2, <2>1
    <3>. QED
      BY <1>2, <3>1
  <2>3. \A i \in 1 .. n : y[i] \in Nat /\ y[i] <= D /\ Dated(s[i], y[i], S) /\ (limit = 0 => low <= y[i])
    BY <1>1, <1>2 DEF Counts
  <2>4. limit = 0 => \A i, j \in 1 .. n : i < j => y[i] <= y[j]
    BY <1>1 DEF Counts
  <2>. HIDE DEF u, n
  <2>5. ASSUME NEW i \in 1 .. n - 1
        PROVE  u[i] <= D /\ Dated(t[i], u[i], S) /\ (limit = 0 => z <= u[i])
    <3>0. n \in Nat /\ u[i] = y[i + 1] /\ t[i] = s[i + 1]
      BY <2>1, <2>2
    <3>1. i + 1 \in 1 .. n
      BY <3>0
    <3>. QED
      BY <2>3, <3>0, <3>1
  <2>6. ASSUME limit = 0, NEW i \in 1 .. n - 1, NEW j \in 1 .. n - 1, i < j
        PROVE  u[i] <= u[j]
    <3>1. i + 1 \in 1 .. n /\ j + 1 \in 1 .. n /\ i + 1 < j + 1
      BY <2>1, <2>6
    <3>. QED
      BY <2>2, <2>4, <2>6, <3>1
  <2>7. Counts(t, u, z, D, S, limit)
    BY <2>1, <2>2, <2>5, <2>6 DEF Counts
  <2>. QED
    BY <2>2, <2>7 DEF Reports
<1>. QED
  BY <1>3, <1>4 DEF Rest

(* The frame at the head of the queue, and what the frames behind it report. *)
LEMMA ReportsHead ==
  ASSUME NEW s \in Seq(Frames), s # << >>, NEW D \in Nat, NEW low \in 0 .. D, NEW S, NEW limit,
         Reports(s, low, D, S, limit)
  PROVE  \E top \in low .. D :
           /\ Reports(Tail(s), top, D, S, limit)
           /\ \E a \in 0 .. top : Dated(Head(s), a, S) /\ (a = top \/ limit # 0)
<1>1. PICK y \in Seq(Nat) : Counts(s, y, low, D, S, limit)
  BY DEF Reports
<1>. DEFINE t == Tail(s)
            u == Tail(y)
            n == Len(s)
            a == y[1]
            top == IF limit = 0 THEN a ELSE D
<1>2. /\ t \in Seq(Frames) /\ Len(t) = n - 1 /\ n \in Nat /\ n >= 1 /\ Head(s) = s[1]
      /\ \A i \in 1 .. n - 1 : t[i] = s[i + 1]
  OBVIOUS
<1>3. Len(y) = n
  BY <1>1 DEF Counts
<1>4. /\ u \in Seq(Nat) /\ Len(u) = n - 1 /\ \A i \in 1 .. n - 1 : u[i] = y[i + 1]
  <2>1. y # << >>
    BY <1>2, <1>3
  <2>. QED
    BY <1>3, <2>1
<1>5. \A i \in 1 .. n : y[i] \in Nat /\ y[i] <= D /\ Dated(s[i], y[i], S) /\ (limit = 0 => low <= y[i])
  BY <1>1, <1>3 DEF Counts
<1>6. limit = 0 => \A i, j \in 1 .. n : i < j => y[i] <= y[j]
  BY <1>1 DEF Counts
<1>. HIDE DEF t, u, n
<1>7. 1 \in 1 .. n /\ a \in 0 .. D /\ Dated(Head(s), a, S) /\ (limit = 0 => low <= a)
  BY <1>2, <1>5
<1>8. top \in low .. D /\ a \in 0 .. top /\ (a = top \/ limit # 0)
  BY <1>7
<1>9. ASSUME NEW i \in 1 .. n - 1
      PROVE  u[i] <= D /\ Dated(t[i], u[i], S) /\ (limit = 0 => top <= u[i])
  <2>0. u[i] = y[i + 1] /\ t[i] = s[i + 1]
    BY <1>2, <1>4
  <2>1. i + 1 \in 1 .. n /\ u[i] = y[i + 1] /\ t[i] = s[i + 1] /\ 1 < i + 1
    <3>1. n \in Nat
      BY <1>2
    <3>. QED
      BY <2>0, <3>1
  <2>2. limit = 0 => a <= y[i + 1]
    BY <1>6, <1>7, <2>1
  <2>. QED
    BY <1>5, <2>1, <2>2
<1>10. ASSUME limit = 0, NEW i \in 1 .. n - 1, NEW j \in 1 .. n - 1, i < j
       PROVE  u[i] <= u[j]
  <2>1. i + 1 \in 1 .. n /\ j + 1 \in 1 .. n /\ i + 1 < j + 1
    BY <1>2, <1>10
  <2>. QED
    BY <1>4, <1>6, <1>10, <2>1
<1>. HIDE DEF a, top
<1>11. Counts(t, u, top, D, S, limit)
  BY <1>2, <1>4, <1>9, <1>10 DEF Counts
<1>12. Reports(t, top, D, S, limit)
  BY <1>4, <1>11 DEF Reports
<1>. QED
  BY <1>7, <1>8, <1>12 DEF t

LEMMA RemZero == Rem(0, NumMod) = 0
BY Sizes DEF Rem

LEMMA NumberedRest ==
  ASSUME NEW s \in Seq(Frames), NEW H \in Nat, NEW S \in Nat, Numbered(s, H, S),
         NEW t, Rest(s, t)
  PROVE  Numbered(t, H, S)
<1>1. PICK y \in Seq(Nat) : Carries(s, y, H, S)
  BY DEF Numbered
<1>2. CASE t = s
  BY <1>2
<1>3. CASE s # << >> /\ t = Tail(s)
  <2>. DEFINE u == Tail(y)
              n == Len(s)
  <2>1. /\ t \in Seq(Frames) /\ Len(t) = n - 1 /\ n \in Nat /\ n >= 1
        /\ \A i \in 1 .. n - 1 : t[i] = s[i + 1]
    BY <1>3
  <2>2. /\ u \in Seq(Nat) /\ Len(u) = n - 1 /\ \A i \in 1 .. n - 1 : u[i] = y[i + 1]
    <3>1. Len(y) = n
      BY <1>1 DEF Carries
    <3>2. y # << >>
      BY <2>1, <3>1
    <3>. QED
      BY <3>1, <3>2
  <2>3. /\ \A i \in 1 .. n : y[i] <= S /\ H < y[i] + HistorySize /\ Bears(s[i], y[i])
        /\ \A i, j \in 1 .. n : i < j => y[i] < y[j] + HistorySize
    BY <1>1 DEF Carries
  <2>. HIDE DEF u, n
  <2>4. ASSUME NEW i \in 1 .. n - 1
        PROVE  u[i] <= S /\ H < u[i] + HistorySize /\ Bears(t[i], u[i])
    <3>0. n \in Nat /\ u[i] = y[i + 1] /\ t[i] = s[i + 1]
      BY <2>1, <2>2
    <3>1. i + 1 \in 1 .. n /\ u[i] = y[i + 1] /\ t[i] = s[i + 1]
      BY <3>0
    <3>. QED
      BY <2>3, <3>1
  <2>5. ASSUME NEW i \in 1 .. n - 1, NEW j \in 1 .. n - 1, i < j
        PROVE  u[i] < u[j] + HistorySize
    <3>1. i + 1 \in 1 .. n /\ j + 1 \in 1 .. n /\ i + 1 < j + 1
      BY <2>1, <2>5
    <3>. QED
      BY <2>2, <2>3, <3>1
  <2>6. Carries(t, u, H, S)
    BY <2>1, <2>2, <2>4, <2>5 DEF Carries
  <2>. QED
    BY <2>2, <2>6 DEF Numbered
<1>. QED
  BY <1>2, <1>3 DEF Rest

(* Numbers less than a turn apart differ in the sequence byte.               *)
LEMMA RemSame ==
  ASSUME NEW N \in Nat \ {0}, NEW a \in Int, NEW y \in 0 .. N - 1,
         NEW b, b = a + y, Rem(a, N) = Rem(b, N)
  PROVE  a = b
<1>. DEFINE s == Rem(a, N)
            t == s + y
            z == t - N
<1>1. s \in 0 .. N - 1
  BY RemFacts
<1>2. Rem(b, N) = s
  OBVIOUS
<1>. HIDE DEF s
<1>3. t \in Int /\ b \in Int /\ t - b = s - a /\ z \in Int /\ t = z + N
  BY <1>1
<1>4. Rem(t, N) = s
  <2>1. t - b = Rem(a, N) - a
    BY <1>3 DEF s
  <2>. HIDE DEF t
  <2>2. Rem(t, N) = Rem(b, N)
    BY <1>3, <2>1, RemShift
  <2>. QED
    BY <1>2, <2>2
<1>5. CASE t < N
  <2>1. t \in 0 .. N - 1
    BY <1>1, <1>5
  <2>2. Rem(t, N) = t
    <3>. HIDE DEF t
    <3>. QED
      BY <1>3, <2>1, RemFacts
  <2>. QED
    BY <1>1, <1>4, <2>2
<1>6. CASE ~(t < N)
  <2>1. z \in 0 .. N - 1
    BY <1>1, <1>6
  <2>2. Rem(z, N) = z /\ Rem(z + N, N) = Rem(z, N)
    <3>. HIDE DEF z
    <3>. QED
      BY <1>3, <2>1, RemFacts, RemTurn
  <2>3. z = s
    <3>. HIDE DEF z, t
    <3>. QED
      BY <1>3, <1>4, <2>2
  <2>. QED
    BY <1>1, <2>3
<1>. QED
  BY <1>5, <1>6

(* A frame with the next number at the head of the queue carries the next    *)
(* data or nothing: no other of the last HistorySize has its number.         *)
LEMMA NumberedHead ==
  ASSUME NEW s \in Seq(Frames), s # << >>, NEW H \in Nat, NEW S \in Nat, Numbered(s, H, S),
         S <= H + HistorySize, NEW f, f = Head(s), ~(f.scon.con = 0 /\ f.rcon.con = 0),
         f.scon.num = Rem(H + 1, NumMod)
  PROVE  Numbered(Tail(s), H + 1, S) /\ f.data \in {0, H + 1}
<1>1. PICK y \in Seq(Nat) : Carries(s, y, H, S)
  BY DEF Numbered
<1>. DEFINE t == Tail(s)
            u == Tail(y)
            n == Len(s)
            a == y[1]
            c == H + 1
<1>2. /\ t \in Seq(Frames) /\ Len(t) = n - 1 /\ n \in Nat /\ n >= 1 /\ f = s[1]
      /\ \A i \in 1 .. n - 1 : t[i] = s[i + 1]
  OBVIOUS
<1>3. Len(y) = n
  BY <1>1 DEF Carries
<1>4. /\ u \in Seq(Nat) /\ Len(u) = n - 1 /\ \A i \in 1 .. n - 1 : u[i] = y[i + 1]
  <2>1. y # << >>
    BY <1>2, <1>3
  <2>. QED
    BY <1>3, <2>1
<1>5. /\ \A i \in 1 .. n : /\ y[i] \in Nat /\ y[i] <= S /\ H < y[i] + HistorySize
                            /\ Bears(s[i], y[i])
      /\ \A i, j \in 1 .. n : i < j => y[i] < y[j] + HistorySize
  <2>1. \A i \in 1 .. n : y[i] \in Nat
    BY <1>3
  <2>. QED
    BY <1>1, <2>1 DEF Carries
<1>. HIDE DEF t, u, n
<1>6. 1 \in 1 .. n /\ a \in Nat /\ a <= S /\ H < a + HistorySize /\ Bears(f, a)
  BY <1>2, <1>5
<1>7. f.scon.num = Rem(a, NumMod) /\ f.data \in {0, a}
  BY <1>6 DEF Bears
<1>. HIDE DEF a
<1>8. a = c
  <2>1. /\ NumMod \in Nat \ {0} /\ HistorySize \in Nat /\ HistorySize < NumMod
        /\ a \in Int /\ c \in Int
    BY <1>6, Sizes
  <2>2. Rem(a, NumMod) = Rem(c, NumMod)
    BY <1>7
  <2>3. CASE a <= c
    <3>. DEFINE d == c - a
    <3>1. d \in 0 .. NumMod - 1 /\ c = a + d
      BY <1>6, <2>1, <2>3
    <3>. HIDE DEF d, c
    <3>. QED
      BY <2>1, <2>2, <3>1, RemSame
  <2>4. CASE ~(a <= c)
    <3>. DEFINE d == a - c
    <3>1. d \in 0 .. NumMod - 1 /\ a = c + d
      BY <1>6, <2>1, <2>4
    <3>. HIDE DEF d, c
    <3>. QED
      BY <2>1, <2>2, <3>1, RemSame
  <2>. QED
    BY <2>3, <2>4
<1>9. c \in Nat /\ c <= S
  BY <1>6, <1>8
<1>10. ASSUME NEW i \in 1 .. n - 1
       PROVE  u[i] <= S /\ c < u[i] + HistorySize /\ Bears(t[i], u[i])
  <2>1. i + 1 \in 1 .. n /\ u[i] = y[i + 1] /\ t[i] = s[i + 1] /\ 1 < i + 1
    <3>1. u[i] = y[i + 1] /\ t[i] = s[i + 1]
      BY <1>2, <1>4
    <3>2. n \in Nat
      BY <1>2
    <3>. QED
      BY <3>1, <3>2
  <2>2. a < y[i + 1] + HistorySize
    BY <1>5, <1>6, <2>1 DEF a
  <2>. QED
    BY <1>5, <1>8, <2>1, <2>2
<1>11. ASSUME NEW i \in 1 .. n - 1, NEW j \in 1 .. n - 1, i < j
       PROVE  u[i] < u[j] + HistorySize
  <2>1. i + 1 \in 1 .. n /\ j + 1 \in 1 .. n /\ i + 1 < j + 1
    BY <1>2, <1>11
  <2>. QED
    BY <1>4, <1>5, <2>1
<1>. HIDE DEF c
<1>12. Carries(t, u, c, S)
  BY <1>2, <1>4, <1>10, <1>11 DEF Carries
<1>13. Numbered(t, c, S)
  BY <1>4, <1>9, <1>12 DEF Numbered
<1>. QED
  BY <1>7, <1>8, <1>13 DEF t, c

(* A close frame says nothing.                                               *)
LEMMA CloseSays ==
  ASSUME NEW f, f.scon.con = 0, f.rcon.con = 0, NEW D \in Nat, NEW S \in Nat, NEW limit
  PROVE  Says(f, D, S, limit)
<1>1. S \in 0 .. S /\ S < S + HistorySize /\ D \in 0 .. D
  BY Sizes
<1>. QED
  BY <1>1 DEF Says, Dated, Recent, Bears

(* An empty frame of the handshake.                                          *)
LEMMA ShakeSays ==
  ASSUME NEW f, f.scon.num = 0, f.rcon.num = 0, f.data = 0, NEW limit
  PROVE  Says(f, 0, 0, limit)
<1>1. 0 \in 0 .. 0 /\ 0 < 0 + HistorySize
  BY Sizes
<1>2. Counted(f, 0, 0) /\ Bears(f, 0)
  BY <1>1, RemZero DEF Counted, Bears
<1>. QED
  BY <1>1, <1>2 DEF Says, Dated, Recent

LEMMA JoinedFrom ==
  ASSUME NEW s \in Seq(Frames), NEW z \in Seq(Frames)
  PROVE  /\ s \o z \in Seq(Frames)
         /\ \A i \in 1 .. Len(s \o z) :
              \/ i \in 1 .. Len(s) /\ (s \o z)[i] = s[i]
              \/ \E j \in 1 .. Len(z) : (s \o z)[i] = z[j]
<1>. DEFINE a == s \o z
            n == Len(s)
            m == Len(z)
<1>1. /\ a \in Seq(Frames) /\ Len(a) = n + m /\ n \in Nat /\ m \in Nat
      /\ \A i \in 1 .. n : a[i] = s[i]
      /\ \A i \in n + 1 .. n + m : a[i] = z[i - n] /\ i - n \in 1 .. m
  BY Joined
<1>. HIDE DEF a, n, m
<1>2. ASSUME NEW i \in 1 .. Len(a)
      PROVE  (i \in 1 .. n /\ a[i] = s[i]) \/ \E j \in 1 .. m : a[i] = z[j]
  <2>1. i \in 1 .. n \/ i \in n + 1 .. n + m
    BY <1>1
  <2>. QED
    BY <1>1, <2>1
<1>. QED
  BY <1>1, <1>2 DEF a, n, m

LEMMA FreedType ==
  ASSUME NEW x \in Halves, NEW y \in Halves, NEW limit, Account(limit, x, y)
  PROVE  Freed(x) \in 0 .. y.heard /\ Freed(x) \in Nat
<1>1. x.last \in Nat /\ y.heard \in Nat /\ x.c \in Connections
  BY DEF Halves
<1>2. CASE Established(x.c)
  <2>1. Used(x.c) \in Nat
    BY <1>1, Parts, Sizes
  <2>2. Used(x.c) <= x.last /\ x.last <= Used(x.c) + y.heard
    BY <1>2 DEF Account, Paid
  <2>. QED
    BY <1>1, <1>2, <2>1, <2>2 DEF Freed
<1>3. CASE ~Established(x.c)
  BY <1>1, <1>3 DEF Freed
<1>. QED
  BY <1>2, <1>3

LEMMA Weigh ==
  ASSUME NEW S \in Nat, NEW U \in 0 .. HistorySize, NEW D \in Nat, NEW E \in Nat, D <= E
  PROVE  /\ S <= U + D => S <= U + E /\ S <= E + HistorySize
         /\ S <= D + HistorySize => S <= E + HistorySize
BY Sizes

(* A step that leaves an established connection.                            *)
LEMMA DueBoth ==
  ASSUME NEW client \in BOOLEAN, NEW a, NEW b, NEW x \in Halves, NEW y \in Halves,
         Both(client, a, b, x, y),
         NEW t, Rest(y.sent, t), NEW k, NEW g, NEW v, Due(v, k, g),
         k.base = x.sent, k.count = x.heard, k.low = Freed(y), k.limit = a, k.held = ~client,
         k.seen = y.heard,
         k.top \in 0 .. y.heard, Reports(t, k.top, y.heard, y.last, b),
         Numbered(t, x.heard + Len(g), y.last),
         x.c.state \notin {"Idle", "Init1"}, y.c.state # "Init2",
         y.c.state \in InitStates => g = << >>
  PROVE  Both(client, a, b, Moved(x, v, x.heard + Len(g)), Queued(y, t))
<1>. DEFINE D == x.heard + Len(g)
            X == Moved(x, v, D)
            Y == Queued(y, t)
<1>1. /\ v.c \in Connections /\ Established(v.c) /\ v.last \in Nat /\ g \in Seq(Nat)
      /\ Mail(v, k, D) /\ Fair(v.c, v.last, k, D) /\ Used(v.c) \in Nat /\ v.out \in Seq(Frames)
      /\ D \in Nat /\ Len(g) \in Nat /\ Used(v.c) \in 0 .. HistorySize
  BY DueParts, Parts
<1>2. /\ x.c \in Connections /\ x.sent \in Seq(Frames) /\ x.heard \in Nat /\ x.last \in Nat
      /\ y.c \in Connections /\ y.sent \in Seq(Frames) /\ y.heard \in Nat /\ y.last \in Nat
  BY DEF Halves
<1>3. /\ X.c = v.c /\ X.sent = x.sent \o v.out /\ X.last = v.last /\ X.heard = D
      /\ Y.c = y.c /\ Y.sent = t /\ Y.last = y.last /\ Y.heard = y.heard
  BY DEF Moved, Queued
<1>4. x.heard <= D /\ (g = << >> => D = x.heard)
  <2>1. \A m, n \in Nat : m <= m + n /\ (n = 0 => m + n = m)
    OBVIOUS
  <2>2. g = << >> => Len(g) = 0
    OBVIOUS
  <2>. QED
    BY <1>1, <1>2, <2>1, <2>2
<1>4b. k.top \in Nat /\ k.top <= y.heard
  BY <1>2
<1>4a. Numbered(t, D, y.last)
  OBVIOUS
<1>. HIDE DEF D, X, Y
<1>5. Account(a, X, Y)
  <2>0. /\ v.c.recvSeqNum.con \in Valid
        /\ v.c.recvSeqNum.num = Rem(v.last, NumMod) /\ v.c.sendSeqNum.num = Rem(D, NumMod)
        /\ Used(v.c) <= v.last /\ v.last <= Used(v.c) + k.top /\ Own(v.c, v.last)
    BY <1>1 DEF Fair
  <2>1. Paid(X, Y)
    <3>1. v.last <= Used(v.c) + y.heard
      BY <1>1, <1>2, <1>4b, <2>0, Weigh
    <3>. QED
      BY <1>3, <2>0, <3>1 DEF Paid
  <2>1a. Runs(X, Y)
    <3>1. Numbered(x.sent \o v.out, y.heard, v.last)
      BY <1>1 DEF Mail
    <3>2. v.last <= y.heard + HistorySize
      BY <1>1, <1>2, <1>4b, <2>0, Weigh
    <3>. QED
      BY <1>3, <3>1, <3>2 DEF Runs
  <2>2. X.last <= a /\ Stock(X.c, X.heard, X.last)
    BY <1>1, <1>3 DEF Fair
  <2>3. Freed(Y) = Freed(y)
    BY <1>3 DEF Freed
  <2>4. Reports(X.sent, Freed(Y), X.heard, X.last, a)
    BY <1>1, <1>3, <2>3 DEF Mail
  <2>. QED
    BY <2>1, <2>1a, <2>2, <2>4 DEF Account
<1>6. Account(b, Y, X)
  <2>1. Account(b, y, x)
    BY DEF Both
  <2>1a. Runs(Y, X)
    <3>1. y.last <= x.heard + HistorySize
      BY <2>1 DEF Account, Runs
    <3>2. y.last <= D + HistorySize
      BY <1>1, <1>2, <1>4, <3>1, Weigh
    <3>. QED
      BY <1>3, <1>4a, <3>2 DEF Runs
  <2>2. Established(y.c) => Paid(Y, X)
    <3>1. Used(y.c) \in 0 .. HistorySize
      BY <1>2, Parts
    <3>2. Established(y.c) => Paid(y, x)
      BY <2>1 DEF Account
    <3>3. y.last <= Used(y.c) + x.heard => y.last <= Used(y.c) + D
      BY <1>1, <1>2, <1>4, <3>1, Weigh
    <3>. QED
      BY <1>3, <3>2, <3>3 DEF Paid
  <2>3. Freed(X) \in 0 .. k.top
    <3>1. Used(v.c) <= v.last /\ v.last <= Used(v.c) + k.top /\ k.top \in Nat
      BY <1>1, <1>2 DEF Fair
    <3>. QED
      BY <1>1, <1>3, <3>1 DEF Freed
  <2>4. Reports(t, Freed(X), y.heard, y.last, b)
    <3>1. t \in Seq(Frames) /\ Rest(t, t)
      BY <1>2, RestParts DEF Rest
    <3>2. k.top \in 0 .. y.heard
      OBVIOUS
    <3>. QED
      BY <1>2, <2>3, <3>1, <3>2, ReportsRest
  <2>. QED
    BY <1>3, <2>1, <2>1a, <2>2, <2>4 DEF Account
<1>7. \A i \in 1 .. Len(X.sent) :
        X.sent[i].scon.con = 1 => i \in 1 .. Len(x.sent) /\ X.sent[i] = x.sent[i]
  <2>. DEFINE s == x.sent
              z == v.out
  <2>1. s \in Seq(Frames) /\ z \in Seq(Frames) /\ X.sent = s \o z
        /\ \A j \in 1 .. Len(z) : z[j].scon.con # 1
    BY <1>1, <1>2, <1>3 DEF Mail, Bare
  <2>. HIDE DEF s, z
  <2>2. \A i \in 1 .. Len(s \o z) :
          \/ i \in 1 .. Len(s) /\ (s \o z)[i] = s[i]
          \/ \E j \in 1 .. Len(z) : (s \o z)[i] = z[j]
    BY <2>1, JoinedFrom
  <2>3. \A i \in 1 .. Len(s \o z) :
          (s \o z)[i].scon.con = 1 => i \in 1 .. Len(s) /\ (s \o z)[i] = s[i]
    BY <2>1, <2>2
  <2>. QED
    BY <2>1, <2>3 DEF s
<1>8. \A i \in 1 .. Len(t) : \E j \in 1 .. Len(y.sent) : t[i] = y.sent[j]
  <2>. DEFINE s == y.sent
  <2>1. s \in Seq(Frames) /\ Rest(s, t)
    BY <1>2
  <2>. HIDE DEF s
  <2>2. \A i \in 1 .. Len(t) : \E j \in 1 .. Len(s) : t[i] = s[j]
    BY <2>1, RestParts
  <2>. QED
    BY <2>2 DEF s
<1>9. v.c.state \notin InitStates /\ v.c.state # "Idle"
  BY <1>1 DEF Established, InitStates
<1>10. CASE client
  <2>1. ClientSide(x, y) /\ ServerSide(y, x)
    BY <1>10 DEF Both, Side
  <2>2. \A i \in 1 .. Len(X.sent) : X.sent[i].scon.con # 1
    BY <1>3, <1>7, <2>1 DEF ClientSide
  <2>3. ClientSide(X, Y)
    BY <1>3, <1>9, <2>2 DEF ClientSide, InitStates
  <2>4. ServerSide(Y, X)
    BY <1>3, <1>8, <2>1 DEF ServerSide
  <2>. QED
    BY <1>5, <1>6, <1>10, <2>3, <2>4 DEF Both, Side, D, X, Y
<1>11. CASE ~client
  <2>1. ServerSide(x, y) /\ ClientSide(y, x)
    BY <1>11 DEF Both, Side
  <2>2. D = 0 => v.last = 0 /\ v.c.state = "Connected"
    BY <1>1, <1>11 DEF Fair
  <2>3. ServerSide(X, Y)
    <3>1. \A i \in 1 .. Len(X.sent) : X.sent[i].scon.con = 1 => X.sent[i].rcon.con = 1
      <4>1. \A i \in 1 .. Len(x.sent) : x.sent[i].scon.con = 1 => x.sent[i].rcon.con = 1
        BY <2>1 DEF ServerSide
      <4>2. ASSUME NEW i \in 1 .. Len(X.sent), X.sent[i].scon.con = 1
            PROVE  X.sent[i].rcon.con = 1
        <5>1. i \in 1 .. Len(x.sent) /\ X.sent[i] = x.sent[i]
          BY <1>7, <4>2
        <5>. QED
          BY <4>1, <4>2, <5>1
      <4>. QED
        BY <4>2
    <3>2. X.c.state \notin {"Init1", "Init2", "Init3"}
      BY <1>3, <1>9 DEF InitStates
    <3>3. X.heard = 0 => X.last = 0 /\ X.c.state # "WaitAck"
      BY <1>3, <2>2
    <3>. QED
      BY <3>1, <3>2, <3>3 DEF ServerSide
  <2>4. \A i \in 1 .. Len(t) : t[i].scon.con # 1
    BY <1>8, <2>1 DEF ClientSide
  <2>5. y.c.state \in InitStates => Blank(Y, X)
    <3>1. y.c.state \in InitStates => Blank(y, x) /\ D = 0
      BY <1>4, <2>1 DEF ClientSide, Blank
    <3>. QED
      BY <1>3, <2>2, <3>1 DEF Blank
  <2>6. ClientSide(Y, X)
    BY <1>3, <2>1, <2>4, <2>5 DEF ClientSide
  <2>. QED
    BY <1>5, <1>6, <1>11, <2>3, <2>6 DEF Both, Side, D, X, Y
<1>. QED
  BY <1>10, <1>11

(* A step that leaves the connection idle: it says good-bye at most.        *)
Quit(v, x) ==
  /\ v.c \in Connections /\ v.c.state = "Idle" /\ v.last = x.last /\ v.got = << >>
  /\ v.out \in Seq(Frames)
  /\ \A i \in 1 .. Len(v.out) : v.out[i].scon.con = 0 /\ v.out[i].rcon.con = 0
  /\ Stock(v.c, x.heard, x.last)

LEMMA QuitBoth ==
  ASSUME NEW client \in BOOLEAN, NEW a, NEW b, NEW x \in Halves, NEW y \in Halves,
         Both(client, a, b, x, y),
         NEW t, Rest(y.sent, t), NEW v, Quit(v, x),
         x.c.state = "Idle" => v.out = << >>
  PROVE  Both(client, a, b, Moved(x, v, x.heard), Queued(y, t))
<1>. DEFINE X == Moved(x, v, x.heard)
            Y == Queued(y, t)
<1>1. /\ v.c \in Connections /\ v.c.state = "Idle" /\ v.last = x.last /\ v.out \in Seq(Frames)
      /\ \A i \in 1 .. Len(v.out) : v.out[i].scon.con = 0 /\ v.out[i].rcon.con = 0
      /\ Stock(v.c, x.heard, x.last)
  BY DEF Quit
<1>2. /\ x.c \in Connections /\ x.sent \in Seq(Frames) /\ x.heard \in Nat /\ x.last \in Nat
      /\ y.c \in Connections /\ y.sent \in Seq(Frames) /\ y.heard \in Nat /\ y.last \in Nat
  BY DEF Halves
<1>3. /\ X.c = v.c /\ X.sent = x.sent \o v.out /\ X.last = x.last /\ X.heard = x.heard
      /\ Y.c = y.c /\ Y.sent = t /\ Y.last = y.last /\ Y.heard = y.heard
  BY <1>1 DEF Moved, Queued
<1>. HIDE DEF X, Y
<1>4. ~Established(v.c) /\ v.c.state \notin InitStates
  BY <1>1 DEF Established, InitStates
<1>5. Account(a, x, y) /\ Account(b, y, x)
  BY DEF Both
<1>6. Account(a, X, Y)
  <2>1. Freed(Y) = Freed(y) /\ Freed(y) \in 0 .. x.heard
    BY <1>3, <1>5, FreedType DEF Freed
  <2>2. \A i \in 1 .. Len(v.out) : Says(v.out[i], x.heard, x.last, a)
    BY <1>1, <1>2, CloseSays
  <2>3. Reports(x.sent \o v.out, Freed(y), x.heard, x.last, a)
    BY <1>1, <1>2, <1>5, <2>1, <2>2, ReportsJoined DEF Account
  <2>4. Runs(X, Y)
    <3>1. Runs(x, y)
      BY <1>5 DEF Account
    <3>2. \A i \in 1 .. Len(v.out) : Recent(v.out[i], x.last)
      BY <2>2 DEF Says
    <3>3. Numbered(x.sent \o v.out, y.heard, x.last)
      BY <1>1, <1>2, <3>1, <3>2, NumberedJoined DEF Runs
    <3>. QED
      BY <1>3, <3>1, <3>3 DEF Runs
  <2>. QED
    BY <1>1, <1>3, <1>4, <1>5, <2>1, <2>3, <2>4 DEF Account
<1>7. Account(b, Y, X)
  <2>1. Freed(X) = 0 /\ Freed(x) \in 0 .. y.heard /\ 0 \in 0 .. Freed(x)
    BY <1>3, <1>4, <1>5, FreedType DEF Freed
  <2>2. Reports(t, 0, y.heard, y.last, b)
    BY <1>2, <1>5, <2>1, ReportsRest DEF Account
  <2>3. Runs(Y, X)
    <3>1. Runs(y, x)
      BY <1>5 DEF Account
    <3>2. Numbered(t, x.heard, y.last)
      BY <1>2, <3>1, NumberedRest DEF Runs
    <3>. QED
      BY <1>3, <3>1, <3>2 DEF Runs
  <2>. QED
    BY <1>3, <1>5, <2>1, <2>2, <2>3 DEF Account, Paid
<1>8. \A i \in 1 .. Len(X.sent) :
        X.sent[i].scon.con = 1 => i \in 1 .. Len(x.sent) /\ X.sent[i] = x.sent[i]
  <2>. DEFINE s == x.sent
              z == v.out
  <2>1. s \in Seq(Frames) /\ z \in Seq(Frames) /\ X.sent = s \o z
        /\ \A j \in 1 .. Len(z) : z[j].scon.con = 0
    BY <1>1, <1>2, <1>3
  <2>. HIDE DEF s, z
  <2>2. \A i \in 1 .. Len(s \o z) :
          \/ i \in 1 .. Len(s) /\ (s \o z)[i] = s[i]
          \/ \E j \in 1 .. Len(z) : (s \o z)[i] = z[j]
    BY <2>1, JoinedFrom
  <2>3. \A i \in 1 .. Len(s \o z) :
          (s \o z)[i].scon.con = 1 => i \in 1 .. Len(s) /\ (s \o z)[i] = s[i]
    BY <2>1, <2>2
  <2>. QED
    BY <2>1, <2>3 DEF s
<1>9. \A i \in 1 .. Len(t) : \E j \in 1 .. Len(y.sent) :
        t[i] = y.sent[j] /\ (t = y.sent \/ j > 1)
  <2>. DEFINE s == y.sent
  <2>1. s \in Seq(Frames) /\ Rest(s, t)
    BY <1>2
  <2>. HIDE DEF s
  <2>2. \A i \in 1 .. Len(t) : \E j \in 1 .. Len(s) : t[i] = s[j] /\ (t = s \/ j > 1)
    BY <2>1, RestParts
  <2>. QED
    BY <2>2 DEF s
<1>10. CASE client
  <2>1. ClientSide(x, y) /\ ServerSide(y, x)
    BY <1>10 DEF Both, Side
  <2>2. ASSUME NEW i \in 1 .. Len(X.sent), X.sent[i].scon.con = 1
        PROVE  /\ X.sent[i].rcon.con = 0 /\ i = 1 /\ Blank(x, y)
               /\ y.c.state = "Idle" /\ t = << >>
    <3>1. i \in 1 .. Len(x.sent) /\ X.sent[i] = x.sent[i] /\ x.sent[i].scon.con = 1
      BY <1>3, <1>8, <2>2
    <3>2. /\ x.sent[i].rcon.con = 0 /\ i = 1 /\ Blank(x, y)
          /\ y.c.state = "Idle" /\ y.sent = << >>
      BY <2>1, <3>1 DEF ClientSide
    <3>. QED
      BY <3>1, <3>2 DEF Rest
  <2>3. ClientSide(X, Y)
    BY <1>1, <1>3, <1>4, <2>2 DEF ClientSide, Blank
  <2>4. ServerSide(Y, X)
    BY <1>3, <1>4, <1>9, <2>1 DEF ServerSide, Blank
  <2>. QED
    BY <1>6, <1>7, <1>10, <2>3, <2>4 DEF Both, Side, X, Y
<1>11. CASE ~client
  <2>1. ServerSide(x, y) /\ ClientSide(y, x)
    BY <1>11 DEF Both, Side
  <2>2. ServerSide(X, Y)
    <3>1. \A i \in 1 .. Len(x.sent) : x.sent[i].scon.con = 1 => x.sent[i].rcon.con = 1
      BY <2>1 DEF ServerSide
    <3>2. ASSUME NEW i \in 1 .. Len(X.sent), X.sent[i].scon.con = 1
          PROVE  X.sent[i].rcon.con = 1
      <4>1. i \in 1 .. Len(x.sent) /\ X.sent[i] = x.sent[i]
        BY <1>8, <3>2
      <4>. QED
        BY <3>1, <3>2, <4>1
    <3>3. X.c.state \notin {"Init1", "Init2", "Init3", "WaitAck"}
      BY <1>1, <1>3
    <3>4. X.heard = 0 => X.last = 0
      BY <1>3, <2>1 DEF ServerSide
    <3>. QED
      BY <3>2, <3>3, <3>4 DEF ServerSide
  <2>3. ASSUME NEW i \in 1 .. Len(t), t[i].scon.con = 1
        PROVE  /\ t[i].rcon.con = 0 /\ i = 1 /\ Blank(y, x)
               /\ y.c.state \in {"Idle", "Init1"} /\ X.sent = << >>
    <3>1. PICK j \in 1 .. Len(y.sent) : t[i] = y.sent[j] /\ (t = y.sent \/ j > 1)
      BY <1>9
    <3>2. y.sent[j].rcon.con = 0 /\ j = 1 /\ Blank(y, x)
          /\ y.c.state \in {"Idle", "Init1"} /\ x.c.state = "Idle" /\ x.sent = << >>
      BY <2>1, <2>3, <3>1 DEF ClientSide
    <3>3. t = y.sent /\ v.out = << >>
      BY <3>1, <3>2
    <3>4. i = 1
      BY <2>1, <2>3, <3>3 DEF ClientSide
    <3>. QED
      BY <1>3, <3>1, <3>2, <3>3, <3>4
  <2>4. ClientSide(Y, X)
    BY <1>1, <1>3, <2>1, <2>3 DEF ClientSide, Blank
  <2>. QED
    BY <1>6, <1>7, <1>11, <2>2, <2>4 DEF Both, Side, X, Y
<1>. QED
  BY <1>10, <1>11

(* A step of the handshake: nothing has been counted.                       *)
Shake(v, x) ==
  /\ v.c \in Connections /\ ~Established(v.c) /\ v.c.frames = x.c.frames
  /\ v.last = x.last /\ v.got = << >> /\ v.out \in Seq(Frames) /\ Len(v.out) <= 1
  /\ \A i \in 1 .. Len(v.out) :
       v.out[i].scon.num = 0 /\ v.out[i].rcon.num = 0 /\ v.out[i].data = 0

LEMMA ShakeAccount ==
  ASSUME NEW a, NEW b, NEW x \in Halves, NEW y \in Halves,
         Account(a, x, y), Account(b, y, x), Blank(x, y),
         NEW t, Rest(y.sent, t), NEW v, Shake(v, x)
  PROVE  LET X == Moved(x, v, x.heard)
             Y == Queued(y, t)
         IN  Account(a, X, Y) /\ Account(b, Y, X) /\ Blank(X, Y) /\ Blank(Y, X)
<1>. DEFINE X == Moved(x, v, x.heard)
            Y == Queued(y, t)
<1>1. /\ v.c \in Connections /\ ~Established(v.c) /\ v.c.frames = x.c.frames
      /\ v.last = x.last /\ v.out \in Seq(Frames)
      /\ \A i \in 1 .. Len(v.out) :
           v.out[i].scon.num = 0 /\ v.out[i].rcon.num = 0 /\ v.out[i].data = 0
  BY DEF Shake
<1>2. /\ x.c \in Connections /\ x.sent \in Seq(Frames) /\ x.heard = 0 /\ x.last = 0
      /\ y.c \in Connections /\ y.sent \in Seq(Frames) /\ y.heard = 0 /\ y.last = 0
  BY DEF Halves, Blank
<1>3. /\ X.c = v.c /\ X.sent = x.sent \o v.out /\ X.last = x.last /\ X.heard = x.heard
      /\ Y.c = y.c /\ Y.sent = t /\ Y.last = y.last /\ Y.heard = y.heard
  BY <1>1 DEF Moved, Queued
<1>. HIDE DEF X, Y
<1>4. Freed(y) \in 0 .. x.heard /\ Freed(x) \in 0 .. y.heard
  BY FreedType
<1>5. Account(a, X, Y)
  <2>1. Freed(Y) = Freed(y)
    BY <1>3 DEF Freed
  <2>2. \A i \in 1 .. Len(v.out) : Says(v.out[i], x.heard, x.last, a)
    BY <1>1, <1>2, ShakeSays
  <2>2a. Runs(X, Y)
    <3>1. Runs(x, y) /\ x.last \in Nat /\ y.heard \in Nat
      BY <1>2 DEF Account
    <3>2. \A i \in 1 .. Len(v.out) : Recent(v.out[i], x.last)
      BY <2>2 DEF Says
    <3>3. Numbered(x.sent \o v.out, y.heard, x.last)
      BY <1>1, <1>2, <3>1, <3>2, NumberedJoined DEF Runs
    <3>. QED
      BY <1>3, <3>1, <3>3 DEF Runs
  <2>3. Reports(x.sent \o v.out, Freed(y), x.heard, x.last, a)
    <3>1. x.heard \in Nat
      BY <1>2
    <3>. QED
      BY <1>1, <1>2, <1>4, <2>2, <3>1, ReportsJoined DEF Account
  <2>4. Stock(v.c, x.heard, x.last)
    BY <1>1 DEF Account, Stock
  <2>. QED
    BY <1>1, <1>3, <2>1, <2>2a, <2>3, <2>4 DEF Account
<1>6. Account(b, Y, X)
  <2>1. Freed(X) = 0 /\ 0 \in 0 .. Freed(x)
    BY <1>1, <1>3, <1>4 DEF Freed
  <2>1a. Runs(Y, X)
    <3>1. Runs(y, x) /\ y.last \in Nat /\ x.heard \in Nat
      BY <1>2 DEF Account
    <3>2. Numbered(t, x.heard, y.last)
      BY <1>2, <3>1, NumberedRest DEF Runs
    <3>. QED
      BY <1>3, <3>1, <3>2 DEF Runs
  <2>2. Reports(t, 0, y.heard, y.last, b)
    <3>1. y.heard \in Nat
      BY <1>2
    <3>. QED
      BY <1>2, <1>4, <2>1, <3>1, ReportsRest DEF Account
  <2>3. Established(y.c) => Paid(Y, X)
    BY <1>3 DEF Account, Paid
  <2>. QED
    BY <1>3, <2>1, <2>1a, <2>2, <2>3 DEF Account
<1>7. Blank(X, Y) /\ Blank(Y, X)
  BY <1>2, <1>3 DEF Blank
<1>. QED
  BY <1>5, <1>6, <1>7 DEF X, Y

(* The client opens the connection.                                         *)
LEMMA ShakeOpens ==
  ASSUME NEW a, NEW b, NEW x \in Halves, NEW y \in Halves,
         Both(TRUE, a, b, x, y), Blank(x, y), x.sent = << >>, y.sent = << >>,
         x.c.state = "Idle", y.c.state = "Idle", NEW v, Shake(v, x),
         v.c.state \in {"Idle", "Init1"},
         \A i \in 1 .. Len(v.out) : v.out[i].rcon.con = 0
  PROVE  Both(TRUE, a, b, Moved(x, v, x.heard), Queued(y, y.sent))
<1>. DEFINE X == Moved(x, v, x.heard)
            Y == Queued(y, y.sent)
<1>1. v.out \in Seq(Frames) /\ x.sent \o v.out = v.out /\ Len(v.out) <= 1
  BY DEF Shake
<1>2. Account(a, X, Y) /\ Account(b, Y, X) /\ Blank(X, Y) /\ Blank(Y, X)
  <2>1. Account(a, x, y) /\ Account(b, y, x)
    BY DEF Both
  <2>2. Rest(y.sent, y.sent)
    BY DEF Rest
  <2>. QED
    BY <2>1, <2>2, ShakeAccount
<1>3. X.c = v.c /\ X.sent = v.out /\ Y.c = y.c /\ Y.sent = << >>
  BY <1>1 DEF Moved, Queued
<1>. HIDE DEF X, Y
<1>4. \A i \in 1 .. Len(v.out) : i = 1
  BY <1>1
<1>5. ClientSide(X, Y)
  BY <1>2, <1>3, <1>4 DEF ClientSide
<1>6. ServerSide(Y, X)
  BY <1>2, <1>3 DEF ServerSide, Blank
<1>. QED
  BY <1>2, <1>5, <1>6 DEF Both, Side, X, Y

(* The client goes on.                                                      *)
LEMMA ShakeClient ==
  ASSUME NEW a, NEW b, NEW x \in Halves, NEW y \in Halves,
         Both(TRUE, a, b, x, y), y.sent # << >>, x.c.state \in {"Init1", "Init3"},
         NEW t, Rest(y.sent, t), NEW v, Shake(v, x), v.c.state \in {"Init1", "Init3"},
         \A i \in 1 .. Len(v.out) : v.out[i].scon.con # 1
  PROVE  Both(TRUE, a, b, Moved(x, v, x.heard), Queued(y, t))
<1>. DEFINE X == Moved(x, v, x.heard)
            Y == Queued(y, t)
<1>1. ClientSide(x, y) /\ ServerSide(y, x) /\ Blank(x, y)
  BY DEF Both, Side, ClientSide, InitStates
<1>2. Account(a, X, Y) /\ Account(b, Y, X) /\ Blank(X, Y) /\ Blank(Y, X)
  <2>1. Account(a, x, y) /\ Account(b, y, x)
    BY DEF Both
  <2>. QED
    BY <1>1, <2>1, ShakeAccount
<1>3. X.c = v.c /\ X.sent = x.sent \o v.out /\ Y.c = y.c /\ Y.sent = t
  BY DEF Moved, Queued
<1>. HIDE DEF X, Y
<1>4. \A i \in 1 .. Len(X.sent) : X.sent[i].scon.con # 1
  <2>. DEFINE s == x.sent
              z == v.out
  <2>1. /\ s \in Seq(Frames) /\ z \in Seq(Frames) /\ X.sent = s \o z
        /\ \A j \in 1 .. Len(z) : z[j].scon.con # 1
        /\ \A j \in 1 .. Len(s) : s[j].scon.con # 1
    BY <1>1, <1>3 DEF Shake, Halves, ClientSide
  <2>. HIDE DEF s, z
  <2>2. \A i \in 1 .. Len(s \o z) :
          \/ i \in 1 .. Len(s) /\ (s \o z)[i] = s[i]
          \/ \E j \in 1 .. Len(z) : (s \o z)[i] = z[j]
    BY <2>1, JoinedFrom
  <2>3. \A i \in 1 .. Len(s \o z) : (s \o z)[i].scon.con # 1
    BY <2>1, <2>2
  <2>. QED
    BY <2>1, <2>3
<1>5. ClientSide(X, Y)
  BY <1>2, <1>3, <1>4 DEF ClientSide
<1>6. ServerSide(Y, X)
  <2>1. \A i \in 1 .. Len(t) : \E j \in 1 .. Len(y.sent) : t[i] = y.sent[j]
    <3>. DEFINE s == y.sent
    <3>1. s \in Seq(Frames) /\ Rest(s, t)
      BY DEF Halves
    <3>. HIDE DEF s
    <3>2. \A i \in 1 .. Len(t) : \E j \in 1 .. Len(s) : t[i] = s[j]
      BY <3>1, RestParts
    <3>. QED
      BY <3>2 DEF s
  <2>2. ~Established(X.c)
    BY <1>3 DEF Shake
  <2>. QED
    BY <1>1, <1>2, <1>3, <2>1, <2>2 DEF ServerSide, Blank
<1>. QED
  BY <1>2, <1>5, <1>6 DEF Both, Side, X, Y

(* The server answers.                                                      *)
LEMMA ShakeServer ==
  ASSUME NEW a, NEW b, NEW x \in Halves, NEW y \in Halves,
         Both(FALSE, a, b, x, y), y.sent # << >>,
         NEW v, Shake(v, x),
         \/ /\ x.c.state = "Idle" /\ Head(y.sent).scon.con = 1
            /\ v.c.state \in {"Idle", "Init2"}
            /\ \A i \in 1 .. Len(v.out) : v.out[i].scon.con = 1 /\ v.out[i].rcon.con = 1
         \/ x.c.state = "Init2" /\ v.c.state = "Init2" /\ v.out = << >>
  PROVE  Both(FALSE, a, b, Moved(x, v, x.heard), Queued(y, Tail(y.sent)))
<1>. DEFINE s == y.sent
            t == Tail(s)
            e == x.sent
            z == v.out
            X == Moved(x, v, x.heard)
            Y == Queued(y, t)
<1>1. ServerSide(x, y) /\ ClientSide(y, x)
  BY DEF Both, Side
<1>2. /\ s \in Seq(Frames) /\ Rest(s, t) /\ s # << >>
      /\ e \in Seq(Frames) /\ z \in Seq(Frames)
  BY DEF Halves, Rest, Shake
<1>3. X.c = v.c /\ X.sent = e \o z /\ Y.c = y.c /\ Y.sent = t
  BY DEF Moved, Queued
<1>4. x.c.state = "Idle" => Blank(x, y) /\ ~Established(y.c) /\ e = << >>
  <2>1. ASSUME x.c.state = "Idle" PROVE Head(s).scon.con = 1 /\ 1 \in 1 .. Len(s) /\ Head(s) = s[1]
    BY <1>2, <2>1
  <2>. QED
    BY <1>1, <2>1 DEF ClientSide, Blank, Established
<1>5. Blank(x, y) /\ ~Established(y.c)
  BY <1>1, <1>4 DEF ServerSide
<1>6. Account(a, X, Y) /\ Account(b, Y, X) /\ Blank(X, Y) /\ Blank(Y, X)
  <2>1. Account(a, x, y) /\ Account(b, y, x)
    BY DEF Both
  <2>. HIDE DEF t
  <2>2. Rest(y.sent, t)
    BY <1>2
  <2>. QED
    BY <1>5, <2>1, <2>2, ShakeAccount
<1>. HIDE DEF s, t, e, z, X, Y
<1>7. ServerSide(X, Y)
  <2>1. X.c.state \in {"Idle", "Init2"} /\ ~Established(Y.c)
    BY <1>3, <1>5
  <2>2. \A i \in 1 .. Len(e \o z) :
          /\ (e \o z)[i].scon.con = 1 => (e \o z)[i].rcon.con = 1
          /\ (e \o z)[i].scon.con \notin Valid
    <3>1. CASE x.c.state = "Idle"
      <4>1. e \o z = z /\ \A i \in 1 .. Len(z) : z[i].scon.con = 1 /\ z[i].rcon.con = 1
        BY <1>2, <1>4, <3>1 DEF z
      <4>. QED
        BY <4>1 DEF Valid
    <3>2. CASE x.c.state = "Init2"
      <4>1. e \o z = e
        BY <1>2, <3>2 DEF z
      <4>. QED
        BY <1>1, <3>2, <4>1 DEF ServerSide, e
    <3>. QED
      BY <3>1, <3>2
  <2>. QED
    BY <1>3, <1>6, <2>1, <2>2 DEF ServerSide, Blank
<1>8. ClientSide(Y, X)
  <2>1. /\ \A i \in 1 .. Len(s) : s[i].scon.con = 1 => i = 1
        /\ y.c.state # "Init2"
    BY <1>1 DEF ClientSide, s
  <2>2. \A i \in 1 .. Len(t) : t[i].scon.con # 1
    <3>1. t \in Seq(Frames) /\ \A i \in 1 .. Len(t) : t[i] = s[i + 1] /\ i + 1 \in 1 .. Len(s) /\ i + 1 # 1
      BY <1>2 DEF t
    <3>. QED
      BY <2>1, <3>1
  <2>. QED
    BY <1>3, <1>6, <2>1, <2>2 DEF ClientSide
<1>. QED
  BY <1>6, <1>7, <1>8 DEF Both, Side, X, Y, t, s

-----------------------------------------------------------------------------
(* A handler that has sent nothing yet and leaves the history alone.        *)
Still(w, x, k) == /\ Typed(w, k.room) /\ w.out = << >> /\ w.got = << >>
                  /\ w.last = x.last /\ w.limit = k.limit /\ w.c.frames = x.c.frames

LEMMA StillPut ==
  ASSUME NEW w, NEW x, NEW k, Still(w, x, k), NEW d \in Connections, d.frames = w.c.frames,
         NEW v, v = [w EXCEPT !.c = d]
  PROVE  Still(v, x, k) /\ v.c = d
<1>1. Typed(w, k.room) /\ w \in WorkType
  BY WorkParts DEF Still
<1>2. /\ Typed(v, k.room) /\ v.c = d /\ v.out = w.out /\ v.last = w.last /\ v.got = w.got
  BY <1>1, PutCon
<1>3. v.limit = w.limit
  BY <1>1 DEF WorkType
<1>. QED
  BY <1>2, <1>3 DEF Still

LEMMA BlankStock ==
  ASSUME NEW c, NEW D \in Nat, NEW S \in Nat, \A i \in Slots : c.frames[i] = NoFrame
  PROVE  Stock(c, D, S)
<1>1. /\ NoFrame.scon.con = 0 /\ NoFrame.scon.num = 0 /\ NoFrame.rcon.num = 0
  BY DEF NoFrame, Byte
<1>2. 0 \in 0 .. D /\ 0 \in 0 .. S
  OBVIOUS
<1>3. Counted(NoFrame, 0, S)
  BY <1>1, <1>2, RemZero DEF Counted
<1>. HIDE DEF NoFrame
<1>. QED
  BY <1>1, <1>2, <1>3 DEF Stock

LEMMA ClosedStock ==
  ASSUME NEW D \in Nat, NEW S \in Nat
  PROVE  Stock(ClosedCon, D, S) /\ Stock(FreshCon, D, S)
<1>1. \A i \in Slots : ClosedCon.frames[i] = NoFrame /\ FreshCon.frames[i] = NoFrame
  BY DEF ClosedCon, FreshCon
<1>2. ASSUME NEW c, \A i \in Slots : c.frames[i] = NoFrame
      PROVE  Stock(c, D, S)
  BY <1>2, BlankStock
<1>. HIDE DEF NoFrame
<1>. QED
  BY <1>1, <1>2

(* The connection is given up.                                              *)
LEMMA ClosedQuit ==
  ASSUME NEW x \in Halves, NEW k, NEW w, Typed(w, k.room), w.got = << >>, w.last = x.last,
         \A i \in 1 .. Len(w.out) : w.out[i].scon.con = 0 /\ w.out[i].rcon.con = 0
  PROVE  Quit(Closed(w), x) /\ Closed(w).out = w.out
<1>. DEFINE d == ClosedCon
            v == [w EXCEPT !.c = d]
<1>1. d \in Connections /\ d.state = "Idle" /\ Stock(d, x.heard, x.last)
  BY ClosedConType, ClosedStock DEF Halves
<1>. HIDE DEF d
<1>2. v.c = d /\ v.out = w.out /\ v.last = w.last /\ v.got = w.got /\ w.out \in Seq(Frames)
  BY <1>1, PutCon, WorkParts
<1>. HIDE DEF v
<1>3. Quit(v, x) /\ v.out = w.out
  BY <1>1, <1>2 DEF Quit
<1>. QED
  BY <1>3 DEF Closed, v, d

LEMMA StillClosed ==
  ASSUME NEW x \in Halves, NEW k, NEW w, Still(w, x, k)
  PROVE  Quit(Closed(w), x) /\ Closed(w).out = << >>
<1>1. /\ Typed(w, k.room) /\ w.got = << >> /\ w.last = x.last /\ w.out = << >>
  BY DEF Still
<1>2. \A i \in 1 .. Len(w.out) : w.out[i].scon.con = 0 /\ w.out[i].rcon.con = 0
  BY <1>1
<1>. QED
  BY <1>1, <1>2, ClosedQuit

(* An empty frame is sent.                                                  *)
LEMMA StillSends ==
  ASSUME NEW x, NEW k, NEW w, Still(w, x, k)
  PROVE  LET v == SendEmpty(w)
             h == Frame(w.c, 0)
         IN  /\ Typed(v, k.room) /\ v.c = w.c /\ v.got = << >> /\ v.last = x.last
             /\ v.limit = k.limit
             /\ h \in Frames /\ h.scon = w.c.recvSeqNum /\ h.rcon = w.c.sendSeqNum
             /\ h.data = 0
             /\ v.out = IF Full(w) THEN << >> ELSE << h >>
<1>. DEFINE v == SendEmpty(w)
            h == Frame(w.c, 0)
<1>1. /\ Typed(w, k.room) /\ w \in WorkType /\ w.c \in Connections /\ w.out = << >>
      /\ w.got = << >> /\ w.last = x.last /\ w.limit = k.limit
  BY WorkParts DEF Still
<1>2. h \in Frames /\ h.scon = w.c.recvSeqNum /\ h.rcon = w.c.sendSeqNum /\ h.data = 0
  BY <1>1, FrameType DEF Frame
<1>3. v = Emit(w, h)
  BY DEF SendEmpty
<1>. HIDE DEF h, v
<1>4. Typed(v, k.room) /\ v.c = w.c
  BY <1>1, <1>2, <1>3, EmitTyped
<1>5. /\ v.got = w.got /\ v.last = w.last /\ v.limit = w.limit
      /\ v.out = IF Full(w) THEN << >> ELSE << h >>
  <2>1. Append(w.out, h) = << h >>
    BY <1>1
  <2>. QED
    BY <1>1, <1>3, <2>1 DEF Emit, WorkType
<1>. QED
  BY <1>1, <1>2, <1>4, <1>5 DEF v, h

Noted(w, r, s) == [w EXCEPT !.c.recvSeqNum = r, !.c.sendSeqNum = s]

LEMMA StillBytes ==
  ASSUME NEW x, NEW k, NEW w, Still(w, x, k), NEW r \in Bytes, NEW s \in Bytes
  PROVE  LET v == Noted(w, r, s)
         IN  /\ Still(v, x, k) /\ v.c.recvSeqNum = r /\ v.c.sendSeqNum = s
             /\ v.c.state = w.c.state /\ v.room = w.room
<1>. DEFINE d == [w.c EXCEPT !.recvSeqNum = r, !.sendSeqNum = s]
            v == Noted(w, r, s)
<1>1. w \in WorkType /\ w.c \in Connections
  BY WorkParts DEF Still
<1>2. /\ d \in Connections /\ d.recvSeqNum = r /\ d.sendSeqNum = s /\ d.state = w.c.state
      /\ d.frames = w.c.frames
  BY <1>1 DEF Connections
<1>3. v = [w EXCEPT !.c = d]
  BY <1>1 DEF WorkType, Noted
<1>4. v.room = w.room
  BY <1>1 DEF WorkType, Noted
<1>. HIDE DEF d, v
<1>5. Still(v, x, k) /\ v.c = d
  BY <1>2, <1>3, StillPut
<1>. QED
  BY <1>2, <1>4, <1>5 DEF v

LEMMA StillCloses ==
  ASSUME NEW x \in Halves, NEW k, NEW w, Still(w, x, k)
  PROVE  Quit(FinalTimeout(w), x) /\ Quit(Closed(SendClose(w)), x)
         /\ SendClose(w).out = Closed(SendClose(w)).out
<1>. DEFINE r == [w.c.recvSeqNum EXCEPT !.con = 0]
            s == [w.c.sendSeqNum EXCEPT !.con = 0]
            u == [w EXCEPT !.c.sendSeqNum.con = 0, !.c.recvSeqNum.con = 0]
            v == SendClose(w)
            h == Frame(u.c, 0)
<1>1. w \in WorkType /\ w.c \in Connections
  BY WorkParts DEF Still
<1>2. r \in Bytes /\ s \in Bytes /\ r.con = 0 /\ s.con = 0
  BY <1>1 DEF Connections, Bytes
<1>3. u = Noted(w, r, s)
  BY <1>1 DEF WorkType, Connections, Noted
<1>4. v = SendEmpty(u)
  BY DEF SendClose
<1>. HIDE DEF r, s, u, v
<1>5. Still(u, x, k) /\ u.c.recvSeqNum = r /\ u.c.sendSeqNum = s
  BY <1>2, <1>3, StillBytes
<1>5a. LET e == SendEmpty(u)
           g == Frame(u.c, 0)
       IN  /\ Typed(e, k.room) /\ e.got = << >> /\ e.last = x.last
           /\ g.scon = u.c.recvSeqNum /\ g.rcon = u.c.sendSeqNum
           /\ e.out = IF Full(u) THEN << >> ELSE << g >>
  BY <1>5, StillSends
<1>. HIDE DEF h
<1>5b. /\ Typed(v, k.room) /\ v.got = << >> /\ v.last = x.last
       /\ h.scon = u.c.recvSeqNum /\ h.rcon = u.c.sendSeqNum
       /\ v.out = IF Full(u) THEN << >> ELSE << h >>
  BY <1>4, <1>5a DEF h
<1>6. /\ Typed(v, k.room) /\ v.got = << >> /\ v.last = x.last
      /\ h.scon = r /\ h.rcon = s /\ v.out \in {<< >>, << h >>}
  BY <1>5, <1>5b
<1>7. \A i \in 1 .. Len(v.out) : v.out[i].scon.con = 0 /\ v.out[i].rcon.con = 0
  BY <1>2, <1>6
<1>8. Quit(Closed(v), x) /\ Closed(v).out = v.out
  BY <1>6, <1>7, ClosedQuit
<1>. QED
  BY <1>8 DEF FinalTimeout, v

LEMMA StillError ==
  ASSUME NEW x \in Halves, NEW k, NEW w, Still(w, x, k), NEW f \in Frames
  PROVE  Quit(InitError(w, f), x)
<1>. DEFINE r == f.rcon
            s == f.scon
            u == [w EXCEPT !.c.recvSeqNum = f.rcon, !.c.sendSeqNum = f.scon]
<1>1. r \in Bytes /\ s \in Bytes
  BY DEF Frames
<1>2. Still(u, x, k)
  <2>1. u = Noted(w, r, s)
    BY DEF Noted
  <2>. HIDE DEF u, r, s
  <2>. QED
    BY <1>1, <2>1, StillBytes
<1>3. InitError(w, f) \in {Closed(w), Closed(SendClose(u))}
  BY DEF InitError
<1>. HIDE DEF u
<1>. QED
  BY <1>2, <1>3, StillClosed, StillCloses

(* The partner's numbers are taken over and sent back.                      *)
LEMMA StillAnswer ==
  ASSUME NEW x, NEW k, NEW w, Still(w, x, k), NEW f \in Frames, f.rcon.con <= 2,
         NEW state \in States
  PROVE  LET v == Answer(w, f, state)
             r == Byte(f.rcon.num, f.rcon.con + 1)
         IN  /\ Typed(v, k.room) /\ v.c.frames = x.c.frames /\ v.got = << >>
             /\ v.last = x.last /\ v.limit = k.limit
             /\ v.c.recvSeqNum = r /\ v.c.sendSeqNum = f.scon
             /\ Full(w) => v.out = << >> /\ v.c.state = w.c.state
             /\ ~Full(w) => /\ v.c.state = state
                            /\ \E h \in Frames : /\ v.out = << h >> /\ h.data = 0
                                                 /\ h.scon = r /\ h.rcon = f.scon
<1>. DEFINE r  == Byte(f.rcon.num, f.rcon.con + 1)
            s  == f.scon
            w1 == [w EXCEPT !.c.recvSeqNum = r, !.c.sendSeqNum = s]
            u  == SendEmpty(w1)
            d  == [u.c EXCEPT !.state = state, !.timer = TRUE]
            v  == Answer(w, f, state)
            h  == Frame(w1.c, 0)
            y  == [u EXCEPT !.c.state = state, !.c.timer = TRUE]
<1>1. r \in Bytes /\ s \in Bytes
  BY DEF Frames, Bytes, Byte
<1>2. v = IF Full(w) THEN w1 ELSE y
  BY DEF Answer
<1>. HIDE DEF r, s, v
<1>3. Still(w1, x, k) /\ w1.c.recvSeqNum = r /\ w1.c.sendSeqNum = s
      /\ w1.c.state = w.c.state /\ w1.room = w.room
  <2>1. w1 = Noted(w, r, s)
    BY DEF Noted
  <2>. HIDE DEF w1
  <2>. QED
    BY <1>1, <2>1, StillBytes
<1>. HIDE DEF w1
<1>4. /\ Typed(w1, k.room) /\ w1.out = << >> /\ w1.got = << >> /\ w1.last = x.last
      /\ w1.limit = k.limit /\ w1.c.frames = x.c.frames
  BY <1>3 DEF Still
<1>5. Full(w1) <=> Full(w)
  BY <1>3, <1>4 DEF Full, Still
<1>6. /\ Typed(u, k.room) /\ u.c = w1.c /\ u.got = << >> /\ u.last = x.last
      /\ u.limit = k.limit /\ h \in Frames /\ h.scon = r /\ h.rcon = s /\ h.data = 0
      /\ u.out = IF Full(w) THEN << >> ELSE << h >>
  BY <1>3, <1>5, StillSends
<1>. HIDE DEF u, h
<1>7. u \in WorkType /\ u.c \in Connections
  BY <1>6, WorkParts
<1>8. /\ d \in Connections /\ d.state = state /\ d.recvSeqNum = u.c.recvSeqNum
      /\ d.sendSeqNum = u.c.sendSeqNum /\ d.frames = u.c.frames
  BY <1>7 DEF Connections
<1>9. y = [u EXCEPT !.c = d]
  BY <1>7 DEF WorkType
<1>10. y.limit = u.limit
  BY <1>7 DEF WorkType
<1>. HIDE DEF d, y
<1>11. /\ Typed(y, k.room) /\ y.c = d /\ y.out = u.out /\ y.last = u.last /\ y.got = u.got
  BY <1>6, <1>8, <1>9, PutCon
<1>12. CASE Full(w)
  BY <1>2, <1>3, <1>4, <1>12 DEF r, s, v
<1>13. CASE ~Full(w)
  BY <1>2, <1>3, <1>4, <1>6, <1>8, <1>10, <1>11, <1>13 DEF r, s, v
<1>. QED
  BY <1>12, <1>13

Brief(x, y, a, top, client, room) ==
  [room |-> room, base |-> x.sent, count |-> x.heard, low |-> Freed(y), top |-> top,
   limit |-> a, held |-> ~client, seen |-> y.heard]

(* The connection is established: nothing is in its history.                *)
LEMMA ConnectDue ==
  ASSUME NEW x \in Halves, NEW y \in Halves, NEW a \in Nat, Account(a, x, y), Blank(x, y),
         NEW b, Account(b, y, x), NEW client \in BOOLEAN, NEW room,
         NEW k, k = Brief(x, y, a, 0, client, room),
         NEW v, Typed(v, k.room), v.c.frames = x.c.frames, v.got = << >>, v.last = x.last,
         v.limit = k.limit, v.c.recvSeqNum.con \in Valid, v.c.recvSeqNum.num = 0,
         v.c.sendSeqNum.num = 0,
         \A i \in 1 .. Len(v.out) : /\ v.out[i].scon.con # 1 /\ v.out[i].data = 0
                                     /\ v.out[i].scon.num = 0 /\ v.out[i].rcon.num = 0
  PROVE  Due(Connect(v), k, << >>)
<1>. DEFINE d == [InitHistory(v.c) EXCEPT !.state = "Connected", !.timer = TRUE]
            u == Connect(v)
            z == v.out
            s == x.sent
<1>1. /\ k.room = room /\ k.base = s /\ k.count = 0 /\ k.low = Freed(y) /\ k.top = 0
      /\ k.limit = a /\ k.held = ~client /\ s \in Seq(Frames) /\ x.heard = 0 /\ x.last = 0
      /\ k.seen = 0 /\ y.heard = 0
  BY DEF Brief, Blank, Halves
<1>2. v \in WorkType /\ v.c \in Connections /\ z \in Seq(Frames)
  BY WorkParts
<1>3. 0 \in Slots /\ HistorySize \in 0 .. HistorySize /\ "Connected" \in States
  BY Sizes DEF States
<1>4. /\ d \in Connections /\ d.free = HistorySize /\ d.state = "Connected"
      /\ d.recvSeqNum = v.c.recvSeqNum /\ d.sendSeqNum = v.c.sendSeqNum
      /\ d.frames = v.c.frames
  BY <1>2, <1>3 DEF InitHistory, Connections
<1>5. u = [v EXCEPT !.c = d]
  BY DEF Connect
<1>6. Sound(u, room)
  BY <1>1, ConnectSound
<1>. HIDE DEF d, u
<1>7. u.c = d /\ u.out = z /\ u.last = v.last /\ u.got = v.got /\ u.limit = v.limit
  <2>1. u.limit = v.limit
    BY <1>2, <1>5 DEF WorkType
  <2>. QED
    BY <1>4, <1>5, <2>1, PutCon
<1>8. Up(u, k.room)
  BY <1>1, <1>4, <1>6, <1>7 DEF Up, Established
<1>9. Freed(y) = 0
  <2>1. Freed(y) \in 0 .. x.heard
    BY FreedType
  <2>. QED
    BY <1>1, <2>1
<1>10. Terms(k)
  BY <1>1, <1>9 DEF Terms
<1>11. Used(d) = 0
  BY <1>4, Sizes DEF Used
<1>12. Mail(u, k, 0)
  <2>1. Bare(z)
    BY DEF Bare
  <2>2. \A i \in 1 .. Len(z) : Says(z[i], 0, 0, a)
    BY ShakeSays
  <2>3. Reports(s, 0, 0, 0, a) /\ Numbered(s, 0, 0)
    BY <1>1, <1>9 DEF Account, Runs
  <2>. HIDE DEF z, s
  <2>4. Reports(s \o z, 0, 0, 0, a) /\ Numbered(s \o z, 0, 0)
    <3>1. 0 \in Nat /\ 0 \in 0 .. 0 /\ \A i \in 1 .. Len(z) : Recent(z[i], 0)
      BY <2>2 DEF Says
    <3>. QED
      BY <1>1, <1>2, <2>2, <2>3, <3>1, ReportsJoined, NumberedJoined
  <2>. QED
    BY <1>1, <1>7, <1>9, <2>1, <2>4 DEF Mail
<1>13. Fair(d, 0, k, 0)
  <2>1. Stock(d, 0, 0)
    BY <1>1, <1>4 DEF Account, Stock
  <2>2. Own(d, 0)
    <3>1. d.recvSeqNum.con \in Valid /\ 0 <= 0 /\ \A i \in 1 .. 0 : FALSE
      BY <1>4
    <3>. QED
      BY <1>11, <3>1 DEF Own
  <2>. QED
    BY <1>1, <1>4, <1>11, <2>1, <2>2, RemZero DEF Fair
<1>14. k.count + Len(<< >>) = 0
  BY <1>1
<1>. QED
  BY <1>1, <1>7, <1>8, <1>10, <1>12, <1>13, <1>14 DEF Due, u

-----------------------------------------------------------------------------
(* What a handler starts from, and what it leaves after it took the frame at *)
(* the head of the partner's queue.                                          *)
Starts(client, a, b, x, y, w, room) ==
  /\ client \in BOOLEAN /\ a \in Nat /\ x \in Halves /\ y \in Halves
  /\ Both(client, a, b, x, y) /\ w.c.state = x.c.state
  /\ Still(w, x, Brief(x, y, a, 0, client, room))
  /\ Established(x.c) =>
       \A top \in Freed(x) .. y.heard : Due(w, Brief(x, y, a, top, client, room), << >>)

(* Payloads that are handed over after n others.                             *)
Fits(g, n) == \A i \in 1 .. Len(g) : g[i] \in {0, n + i}

Lands(client, a, b, x, y, v) ==
  /\ Both(client, a, b, Moved(x, v, x.heard + Len(v.got)), Queued(y, Tail(y.sent)))
  /\ Fits(v.got, x.heard)

LEMMA FitsNone == \A n : Fits(<< >>, n)
BY DEF Fits

LEMMA QuitLands ==
  ASSUME NEW client \in BOOLEAN, NEW a, NEW b, NEW x \in Halves, NEW y \in Halves,
         Both(client, a, b, x, y), y.sent # << >>, NEW v, Quit(v, x),
         x.c.state = "Idle" => v.out = << >>
  PROVE  Lands(client, a, b, x, y, v)
<1>. DEFINE t == Tail(y.sent)
<1>1. Rest(y.sent, t)
  BY DEF Rest
<1>. HIDE DEF t
<1>2. Both(client, a, b, Moved(x, v, x.heard), Queued(y, t))
  BY <1>1, QuitBoth
<1>3. x.heard + Len(v.got) = x.heard /\ Fits(v.got, x.heard)
  BY FitsNone DEF Quit, Halves
<1>. QED
  BY <1>2, <1>3 DEF Lands, t

LEMMA DueLands ==
  ASSUME NEW client \in BOOLEAN, NEW a, NEW b, NEW x \in Halves, NEW y \in Halves,
         Both(client, a, b, x, y), y.sent # << >>,
         NEW top \in 0 .. y.heard, Reports(Tail(y.sent), top, y.heard, y.last, b),
         NEW room, NEW k, k = Brief(x, y, a, top, client, room),
         NEW g, NEW v, Due(v, k, g), Fits(g, x.heard),
         Numbered(Tail(y.sent), x.heard + Len(g), y.last),
         x.c.state \notin {"Idle", "Init1"}, y.c.state # "Init2",
         y.c.state \in InitStates => g = << >>
  PROVE  Lands(client, a, b, x, y, v)
<1>. DEFINE t == Tail(y.sent)
<1>1. /\ Rest(y.sent, t) /\ Reports(t, top, y.heard, y.last, b)
      /\ Numbered(t, x.heard + Len(g), y.last)
  BY DEF Rest
<1>. HIDE DEF t
<1>2. /\ k.base = x.sent /\ k.count = x.heard /\ k.low = Freed(y) /\ k.limit = a
      /\ k.held = ~client /\ k.top = top /\ k.seen = y.heard
  BY DEF Brief
<1>3. Both(client, a, b, Moved(x, v, x.heard + Len(g)), Queued(y, t))
  BY <1>1, <1>2, DueBoth
<1>4. v.got = g
  BY DEF Due
<1>. QED
  BY <1>3, <1>4 DEF Lands, t

LEMMA ShakeLands ==
  ASSUME NEW client \in BOOLEAN, NEW a, NEW b, NEW x \in Halves, NEW y \in Halves,
         Both(client, a, b, x, y), y.sent # << >>, NEW v, Shake(v, x),
         \/ /\ client /\ x.c.state \in {"Init1", "Init3"} /\ v.c.state \in {"Init1", "Init3"}
            /\ \A i \in 1 .. Len(v.out) : v.out[i].scon.con # 1
         \/ /\ ~client /\ x.c.state = "Idle" /\ Head(y.sent).scon.con = 1
            /\ v.c.state \in {"Idle", "Init2"}
            /\ \A i \in 1 .. Len(v.out) : v.out[i].scon.con = 1 /\ v.out[i].rcon.con = 1
         \/ ~client /\ x.c.state = "Init2" /\ v.c.state = "Init2" /\ v.out = << >>
  PROVE  Lands(client, a, b, x, y, v)
<1>. DEFINE t == Tail(y.sent)
<1>1. Rest(y.sent, t)
  BY DEF Rest
<1>2. x.heard + Len(v.got) = x.heard /\ Fits(v.got, x.heard)
  BY FitsNone DEF Shake, Halves
<1>3. CASE client
  <2>1. Both(TRUE, a, b, x, y)
    BY <1>3
  <2>. HIDE DEF t
  <2>2. Both(TRUE, a, b, Moved(x, v, x.heard), Queued(y, t))
    BY <1>1, <1>3, <2>1, ShakeClient
  <2>. QED
    BY <1>2, <1>3, <2>2 DEF Lands, t
<1>4. CASE ~client
  <2>1. Both(FALSE, a, b, x, y)
    BY <1>4
  <2>2. Both(FALSE, a, b, Moved(x, v, x.heard), Queued(y, Tail(y.sent)))
    BY <1>4, <2>1, ShakeServer
  <2>. QED
    BY <1>2, <1>4, <2>2 DEF Lands
<1>. QED
  BY <1>3, <1>4

(* The frame at the head of the queue.                                      *)
LEMMA HeadSays ==
  ASSUME NEW client \in BOOLEAN, NEW a, NEW b, NEW x \in Halves, NEW y \in Halves,
         Both(client, a, b, x, y), y.sent # << >>, NEW f, f = Head(y.sent)
  PROVE  /\ f \in Frames
         /\ Blank(x, y) => \/ f.scon.con = 0 /\ f.rcon.con = 0
                           \/ f.scon.num = 0 /\ f.rcon.num = 0
         /\ f.scon.con = 1 => IF client THEN f.rcon.con = 1
                              ELSE f.rcon.con = 0 /\ x.c.state = "Idle" /\ Blank(x, y)
         /\ client /\ f.scon.con \in Valid => y.c.state # "Init2"
<1>. DEFINE s == y.sent
<1>1. s \in Seq(Frames) /\ x.heard \in Nat /\ y.heard \in Nat
  BY DEF Halves
<1>2. f = s[1] /\ 1 \in 1 .. Len(s) /\ f \in Frames /\ s # << >>
  <2>. HIDE DEF s
  <2>1. \A e \in Seq(Frames) : e # << >> => Head(e) = e[1] /\ 1 \in 1 .. Len(e) /\ e[1] \in Frames
    OBVIOUS
  <2>. QED
    BY <1>1, <2>1 DEF s
<1>3. Blank(x, y) => \/ f.scon.con = 0 /\ f.rcon.con = 0
                     \/ f.scon.num = 0 /\ f.rcon.num = 0
  <2>. SUFFICES ASSUME Blank(x, y) PROVE \/ f.scon.con = 0 /\ f.rcon.con = 0
                                         \/ f.scon.num = 0 /\ f.rcon.num = 0
    OBVIOUS
  <2>1. Account(a, x, y) /\ Account(b, y, x)
    BY DEF Both
  <2>2. Freed(x) \in 0 .. y.heard /\ Reports(s, Freed(x), y.heard, y.last, b)
    BY <2>1, FreedType DEF Account
  <2>3. y.heard = 0 /\ y.last = 0
    BY DEF Blank
  <2>. HIDE DEF s
  <2>4. \E top \in Freed(x) .. y.heard : \E n \in 0 .. top : Dated(Head(s), n, y.last)
    BY <1>1, <1>2, <2>2, ReportsHead
  <2>5. \E n \in 0 .. 0 : Dated(f, n, 0)
    <3>1. Head(s) = f
      BY DEF s
    <3>. QED
      BY <2>2, <2>3, <2>4, <3>1
  <2>6. Dated(f, 0, 0)
    BY <2>5
  <2>. QED
    BY <2>6, RemZero DEF Dated, Counted
<1>4. CASE client
  <2>1. ServerSide(y, x)
    BY <1>4 DEF Both, Side
  <2>. QED
    BY <1>2, <1>3, <1>4, <2>1 DEF ServerSide
<1>5. CASE ~client
  <2>1. ClientSide(y, x)
    BY <1>5 DEF Both, Side
  <2>. QED
    BY <1>2, <1>3, <1>5, <2>1 DEF ClientSide, Blank
<1>. QED
  BY <1>4, <1>5

Meets(client, a, b, x, y, w, room, f) ==
  Starts(client, a, b, x, y, w, room) /\ y.sent # << >> /\ f = Head(y.sent)

LEMMA MeetsParts ==
  ASSUME NEW client, NEW a, NEW b, NEW x, NEW y, NEW w, NEW room, NEW f,
         Meets(client, a, b, x, y, w, room, f), NEW k, k = Brief(x, y, a, 0, client, room)
  PROVE  /\ client \in BOOLEAN /\ a \in Nat /\ x \in Halves /\ y \in Halves
         /\ Both(client, a, b, x, y) /\ w.c.state = x.c.state /\ Still(w, x, k)
         /\ Typed(w, k.room) /\ w \in WorkType /\ w.c \in Connections
         /\ w.out = << >> /\ w.got = << >> /\ w.last = x.last /\ w.limit = k.limit
         /\ w.c.frames = x.c.frames
         /\ Account(a, x, y) /\ Account(b, y, x)
         /\ f \in Frames /\ y.sent # << >> /\ f = Head(y.sent)
         /\ Blank(x, y) => \/ f.scon.con = 0 /\ f.rcon.con = 0
                           \/ f.scon.num = 0 /\ f.rcon.num = 0
         /\ f.scon.con = 1 => IF client THEN f.rcon.con = 1
                              ELSE f.rcon.con = 0 /\ x.c.state = "Idle" /\ Blank(x, y)
         /\ client /\ f.scon.con \in Valid => y.c.state # "Init2"
<1>1. /\ client \in BOOLEAN /\ a \in Nat /\ x \in Halves /\ y \in Halves
      /\ Both(client, a, b, x, y) /\ w.c.state = x.c.state /\ Still(w, x, k)
      /\ y.sent # << >> /\ f = Head(y.sent)
  BY DEF Meets, Starts
<1>2. /\ f \in Frames
      /\ Blank(x, y) => \/ f.scon.con = 0 /\ f.rcon.con = 0
                        \/ f.scon.num = 0 /\ f.rcon.num = 0
      /\ f.scon.con = 1 => IF client THEN f.rcon.con = 1
                           ELSE f.rcon.con = 0 /\ x.c.state = "Idle" /\ Blank(x, y)
      /\ client /\ f.scon.con \in Valid => y.c.state # "Init2"
  BY <1>1, HeadSays
<1>3. /\ Typed(w, k.room) /\ w.out = << >> /\ w.got = << >> /\ w.last = x.last
      /\ w.limit = k.limit /\ w.c.frames = x.c.frames
  BY <1>1 DEF Still
<1>4. w \in WorkType /\ w.c \in Connections
  BY <1>3, WorkParts
<1>5. Account(a, x, y) /\ Account(b, y, x)
  BY <1>1 DEF Both
<1>. QED
  BY <1>1, <1>2, <1>3, <1>4, <1>5

LEMMA ClosedLands ==
  ASSUME NEW client, NEW a, NEW b, NEW x, NEW y, NEW w, NEW room, NEW f,
         Meets(client, a, b, x, y, w, room, f)
  PROVE  /\ Lands(client, a, b, x, y, Closed(w))
         /\ x.c.state # "Idle" => Lands(client, a, b, x, y, InitError(w, f))
<1>. DEFINE k == Brief(x, y, a, 0, client, room)
<1>1. /\ client \in BOOLEAN /\ x \in Halves /\ y \in Halves /\ Both(client, a, b, x, y)
      /\ Still(w, x, k) /\ y.sent # << >> /\ f \in Frames
  BY MeetsParts
<1>2. Quit(Closed(w), x) /\ Closed(w).out = << >> /\ Quit(InitError(w, f), x)
  <2>. HIDE DEF k
  <2>. QED
    BY <1>1, StillClosed, StillError
<1>3. \A v : Quit(v, x) /\ (x.c.state = "Idle" => v.out = << >>) => Lands(client, a, b, x, y, v)
  BY <1>1, QuitLands
<1>. QED
  BY <1>2, <1>3

LEMMA OneSent ==
  ASSUME NEW h, NEW o, o \in {<< >>, << h >>}
  PROVE  Len(o) <= 1 /\ \A i \in 1 .. Len(o) : o[i] = h
<1>1. Len(<< h >>) = 1 /\ << h >>[1] = h /\ Len(<< >>) = 0
  OBVIOUS
<1>2. CASE o = << >>
  BY <1>1, <1>2
<1>3. CASE o = << h >>
  <2>1. Len(o) = 1 /\ o[1] = h
    BY <1>1, <1>3
  <2>. HIDE <1>3
  <2>2. \A i \in 1 .. 1 : i = 1
    OBVIOUS
  <2>. QED
    BY <2>1, <2>2
<1>. QED
  BY <1>2, <1>3

LEMMA IdleLands ==
  ASSUME NEW client, NEW a, NEW b, NEW x, NEW y, NEW w, NEW room, NEW f,
         Meets(client, a, b, x, y, w, room, f), x.c.state = "Idle"
  PROVE  Lands(client, a, b, x, y, IdleRec(w, f))
<1>. DEFINE k == Brief(x, y, a, 0, client, room)
            v == Answer(w, f, "Init2")
            r == Byte(f.rcon.num, f.rcon.con + 1)
<1>1. CASE Code(f) # <<0, 1>>
  BY <1>1, ClosedLands DEF IdleRec
<1>2. CASE Code(f) = <<0, 1>>
  <2>1. f.rcon.con = 0 /\ f.scon.con = 1
    BY <1>2 DEF Code
  <2>2. /\ client \in BOOLEAN /\ x \in Halves /\ y \in Halves /\ Both(client, a, b, x, y)
        /\ Still(w, x, k) /\ y.sent # << >> /\ f \in Frames /\ f = Head(y.sent)
        /\ ~client /\ Blank(x, y) /\ f.scon.num = 0 /\ f.rcon.num = 0 /\ w.c.state = "Idle"
    <3>1. ~client
      BY <2>1, MeetsParts
    <3>. QED
      BY <2>1, <3>1, MeetsParts
  <2>3. "Init2" \in States
    BY DEF States
  <2>. HIDE DEF k, v
  <2>4. /\ Typed(v, k.room) /\ v.c.frames = x.c.frames /\ v.got = << >> /\ v.last = x.last
        /\ Full(w) => v.out = << >> /\ v.c.state = w.c.state
        /\ ~Full(w) => /\ v.c.state = "Init2"
                       /\ \E h \in Frames : /\ v.out = << h >> /\ h.data = 0
                                            /\ h.scon = r /\ h.rcon = f.scon
    BY <2>1, <2>2, <2>3, StillAnswer DEF v
  <2>5. v.c \in Connections /\ v.out \in Seq(Frames)
    BY <2>4, WorkParts
  <2>6. r.num = 0 /\ r.con = 1
    BY <2>1, <2>2 DEF Byte
  <2>. HIDE DEF r
  <2>7. /\ v.c.state \in {"Idle", "Init2"} /\ Len(v.out) <= 1
        /\ \A i \in 1 .. Len(v.out) : /\ v.out[i].scon.num = 0 /\ v.out[i].rcon.num = 0
                                      /\ v.out[i].scon.con = 1 /\ v.out[i].rcon.con = 1
                                      /\ v.out[i].data = 0
    <3>1. PICK h : h.scon = r /\ h.rcon = f.scon /\ h.data = 0 /\ v.out \in {<< >>, << h >>}
      <4>1. CASE Full(w)
        <5>. DEFINE e == [scon |-> r, rcon |-> f.scon, data |-> 0]
        <5>1. e.scon = r /\ e.rcon = f.scon /\ e.data = 0 /\ v.out \in {<< >>, << e >>}
          BY <2>4, <4>1
        <5>. QED
          BY <5>1
      <4>2. CASE ~Full(w)
        BY <2>4, <4>2
      <4>. QED
        BY <4>1, <4>2
    <3>. DEFINE o == v.out
    <3>1a. o \in {<< >>, << h >>}
      BY <3>1
    <3>. HIDE DEF o
    <3>2. Len(o) <= 1 /\ \A i \in 1 .. Len(o) : o[i] = h
      BY <3>1a, OneSent
    <3>3. \A i \in 1 .. Len(o) : /\ o[i].scon.num = 0 /\ o[i].rcon.num = 0
                                 /\ o[i].scon.con = 1 /\ o[i].rcon.con = 1
                                 /\ o[i].data = 0
      BY <2>1, <2>2, <2>6, <3>1, <3>2
    <3>4. v.c.state \in {"Idle", "Init2"}
      BY <2>2, <2>4
    <3>. QED
      BY <3>2, <3>3, <3>4 DEF o
  <2>8. Shake(v, x)
    BY <2>4, <2>5, <2>7 DEF Shake, Established
  <2>9. Lands(client, a, b, x, y, v)
    BY <2>1, <2>2, <2>7, <2>8, ShakeLands
  <2>. QED
    BY <1>2, <2>9 DEF IdleRec, v
<1>. QED
  BY <1>1, <1>2

LEMMA ReinitCloses ==
  ASSUME NEW w \in WorkType, NEW f, Code(f) # <<0, 1>>, NEW deletes
  PROVE  /\ Reinit(w, f, deletes) = Closed(w)
         /\ Reinit(RequestAck(w), f, deletes) = Closed(w)
BY DEF Reinit, IdleRec, Closed, RequestAck, WorkType

LEMMA EstablishedLands ==
  ASSUME NEW client, NEW a, NEW b, NEW x, NEW y, NEW w, NEW room, NEW f,
         Meets(client, a, b, x, y, w, room, f), b = 0 \/ a <= NumMod - Threshold,
         NEW deletes, NEW ret, NEW reply \in Replies, NEW onAck \in Replies, NEW v,
         \/ x.c.state = "Connected" /\ v = ConnectedRec(w, f, deletes, ret, reply)
         \/ x.c.state = "WaitAck" /\ v = WaitAckRec(w, f, deletes, ret, reply, onAck)
  PROVE  Lands(client, a, b, x, y, v)
<1>1. /\ client \in BOOLEAN /\ x \in Halves /\ y \in Halves /\ Both(client, a, b, x, y)
      /\ y.sent # << >> /\ f \in Frames /\ f = Head(y.sent) /\ w \in WorkType
      /\ Account(a, x, y) /\ Account(b, y, x) /\ w.c.state = x.c.state
      /\ f.scon.con = 1 => client /\ f.rcon.con = 1
      /\ Blank(x, y) => \/ f.scon.con = 0 /\ f.rcon.con = 0
                        \/ f.scon.num = 0 /\ f.rcon.num = 0
  BY MeetsParts
<1>2. /\ \A top \in Freed(x) .. y.heard : Due(w, Brief(x, y, a, top, client, room), << >>)
      /\ Established(x.c) /\ x.c.state \notin {"Idle", "Init1"}
  BY DEF Meets, Starts, Established
<1>3. Lands(client, a, b, x, y, Closed(w))
  BY ClosedLands
<1>4. y.c.state # "Init2"
  BY <1>1, <1>2 DEF Both, Side, ClientSide, ServerSide
<1>5. y.c.state \in InitStates => Blank(x, y)
  BY <1>1, <1>2, <1>4 DEF Both, Side, ClientSide, ServerSide, Blank, InitStates
<1>6. f.scon.con = 1 => \A u : u \in {Reinit(w, f, deletes), Reinit(RequestAck(w), f, deletes)}
                                 => u = Closed(w)
  <2>1. f.scon.con = 1 => Code(f) # <<0, 1>>
    BY <1>1 DEF Code
  <2>. QED
    BY <1>1, <2>1, ReinitCloses
<1>7. CASE f.scon.con = 0 /\ f.rcon.con = 0
  <2>1. v = Closed(w)
    BY <1>7 DEF ConnectedRec, WaitAckRec
  <2>. QED
    BY <1>3, <2>1
<1>8. CASE ~(f.scon.con = 0 /\ f.rcon.con = 0)
  <2>. DEFINE s == y.sent
  <2>1. /\ s \in Seq(Frames) /\ s # << >> /\ y.heard \in Nat /\ Freed(x) \in 0 .. y.heard
        /\ Reports(s, Freed(x), y.heard, y.last, b) /\ f = Head(s)
    BY <1>1, FreedType DEF Account, Halves
  <2>1a. /\ x.heard \in Nat /\ y.last \in Nat /\ Numbered(s, x.heard, y.last)
         /\ y.last <= x.heard + HistorySize /\ Rest(s, Tail(s))
    BY <1>1 DEF Account, Runs, Halves, Rest
  <2>. HIDE DEF s
  <2>2. PICK top \in Freed(x) .. y.heard :
           /\ Reports(Tail(s), top, y.heard, y.last, b)
           /\ \E n \in 0 .. top : Dated(Head(s), n, y.last) /\ (n = top \/ b # 0)
    BY <2>1, ReportsHead
  <2>3. PICK n \in 0 .. top : Dated(f, n, y.last) /\ (n = top \/ b # 0)
    BY <2>1, <2>2
  <2>4. top \in 0 .. y.heard /\ Reports(Tail(y.sent), top, y.heard, y.last, b)
    BY <2>1, <2>2 DEF s
  <2>. DEFINE k == Brief(x, y, a, top, client, room)
  <2>5. Due(w, k, << >>)
    BY <1>2
  <2>6. Names(k, f.rcon.num)
    <3>1. f.rcon.num = Rem(n, NumMod)
      BY <1>8, <2>3 DEF Dated, Counted
    <3>2. k.top = top /\ k.limit = a
      BY DEF Brief
    <3>3. n = top \/ a <= NumMod - Threshold
      BY <2>3
    <3>. HIDE DEF k
    <3>. QED
      BY <2>3, <3>1, <3>2, <3>3 DEF Names
  <2>7. k.count = x.heard /\ x.heard \in Nat
    BY <1>1 DEF Brief, Halves
  <2>. HIDE DEF k
  <2>8. \/ v = Closed(w)
        \/ f.scon.con = 1 /\ v \in {Reinit(w, f, deletes), Reinit(RequestAck(w), f, deletes)}
        \/ Took(f, k, << >>, v)
    BY <1>1, <2>5, <2>6, ConnectedRecDue, WaitAckRecDue
  <2>9. ASSUME Took(f, k, << >>, v)
        PROVE  \E g : /\ Due(v, k, g) /\ (y.c.state \in InitStates => g = << >>)
                      /\ Fits(g, x.heard) /\ Numbered(Tail(s), x.heard + Len(g), y.last)
    <3>. DEFINE g == Append(<< >>, f.data)
    <3>1. CASE Due(v, k, << >>)
      <4>1. Numbered(Tail(s), x.heard, y.last)
        <5>. DEFINE t == Tail(s)
        <5>1. Rest(s, t)
          BY <2>1a
        <5>. HIDE DEF t
        <5>2. Numbered(t, x.heard, y.last)
          BY <2>1, <2>1a, <5>1, NumberedRest
        <5>. QED
          BY <5>2 DEF t
      <4>2. x.heard + Len(<< >>) = x.heard
        BY <2>1a
      <4>. QED
        BY <3>1, <4>1, <4>2, FitsNone
    <3>2. CASE Due(v, k, g) /\ f.scon.num = Rem(k.count + Len(<< >>) + 1, NumMod)
      <4>1. y.c.state \notin InitStates
        <5>. SUFFICES ASSUME y.c.state \in InitStates PROVE FALSE
          OBVIOUS
        <5>1. Blank(x, y) /\ f.scon.num = 0
          BY <1>1, <1>5, <1>8
        <5>2. k.count + Len(<< >>) + 1 = 1
          BY <2>7, <5>1 DEF Blank
        <5>3. Rem(1, NumMod) = 1
          BY Sizes, SizesAssumption, RemFacts
        <5>. QED
          BY <3>2, <5>1, <5>2, <5>3
      <4>2. f.scon.num = Rem(x.heard + 1, NumMod)
        <5>1. k.count + Len(<< >>) + 1 = x.heard + 1
          BY <2>7
        <5>. QED
          BY <3>2, <5>1
      <4>3. Numbered(Tail(s), x.heard + 1, y.last) /\ f.data \in {0, x.heard + 1}
        BY <1>8, <2>1, <2>1a, <4>2, NumberedHead
      <4>4. Len(g) = 1 /\ g[1] = f.data /\ \A i \in 1 .. 1 : i = 1
        OBVIOUS
      <4>. HIDE DEF g
      <4>5. Fits(g, x.heard) /\ Numbered(Tail(s), x.heard + Len(g), y.last)
        BY <4>3, <4>4 DEF Fits
      <4>. QED
        BY <3>2, <4>1, <4>5
    <3>. QED
      BY <2>9, <3>1, <3>2 DEF Took
  <2>10. ASSUME Took(f, k, << >>, v) PROVE Lands(client, a, b, x, y, v)
    <3>1. PICK g : /\ Due(v, k, g) /\ (y.c.state \in InitStates => g = << >>)
                   /\ Fits(g, x.heard) /\ Numbered(Tail(s), x.heard + Len(g), y.last)
      BY <2>9, <2>10
    <3>2. k = Brief(x, y, a, top, client, room)
          /\ Numbered(Tail(y.sent), x.heard + Len(g), y.last)
      BY <3>1 DEF k, s
    <3>. QED
      BY <1>1, <1>2, <1>4, <2>4, <3>1, <3>2, DueLands
  <2>. QED
    BY <1>3, <1>6, <2>8, <2>10
<1>. QED
  BY <1>7, <1>8

(* An answer of the handshake: all its numbers are zero.                    *)
LEMMA AnswerShakes ==
  ASSUME NEW client, NEW a, NEW b, NEW x, NEW y, NEW w, NEW room, NEW f,
         Meets(client, a, b, x, y, w, room, f), ~Established(x.c), Blank(x, y),
         f.scon.num = 0, f.rcon.num = 0, f.rcon.con <= 2,
         NEW state \in States, NEW v, v = Answer(w, f, state)
  PROVE  /\ Full(w) => Shake(v, x) /\ v.out = << >> /\ v.c.state = x.c.state
         /\ ~Full(w) /\ state \in InitStates => Shake(v, x) /\ v.c.state = state
         /\ \A i \in 1 .. Len(v.out) : v.out[i].scon.con = f.rcon.con + 1
         /\ ~Full(w) /\ f.rcon.con # 0 =>
              Due(Connect(v), Brief(x, y, a, 0, client, room), << >>)
<1>. DEFINE k == Brief(x, y, a, 0, client, room)
            r == Byte(f.rcon.num, f.rcon.con + 1)
            o == v.out
<1>1. /\ client \in BOOLEAN /\ a \in Nat /\ x \in Halves /\ y \in Halves
      /\ Account(a, x, y) /\ Account(b, y, x) /\ Still(w, x, k) /\ f \in Frames
      /\ w.c.state = x.c.state
  BY MeetsParts
<1>2. /\ Typed(v, k.room) /\ v.c.frames = x.c.frames /\ v.got = << >> /\ v.last = x.last
      /\ v.limit = k.limit /\ v.c.recvSeqNum = r /\ v.c.sendSeqNum = f.scon
      /\ Full(w) => o = << >> /\ v.c.state = w.c.state
      /\ ~Full(w) => /\ v.c.state = state
                     /\ \E h \in Frames : /\ o = << h >> /\ h.data = 0
                                          /\ h.scon = r /\ h.rcon = f.scon
  <2>. HIDE DEF k
  <2>. QED
    BY <1>1, StillAnswer
<1>3. v.c \in Connections /\ o \in Seq(Frames)
  BY <1>2, WorkParts
<1>4. r.num = 0 /\ r.con = f.rcon.con + 1 /\ (f.rcon.con # 0 => r.con \in Valid)
  BY <1>1 DEF Byte, Frames, Bytes, Valid
<1>. HIDE DEF k, r, o
<1>5. /\ Len(o) <= 1
      /\ \A i \in 1 .. Len(o) : /\ o[i].scon.num = 0 /\ o[i].rcon.num = 0 /\ o[i].data = 0
                                /\ o[i].scon.con = f.rcon.con + 1
  <2>1. PICK h : h.scon = r /\ h.rcon = f.scon /\ h.data = 0 /\ o \in {<< >>, << h >>}
    <3>1. CASE Full(w)
      <4>. DEFINE e == [scon |-> r, rcon |-> f.scon, data |-> 0]
      <4>1. e.scon = r /\ e.rcon = f.scon /\ e.data = 0 /\ o \in {<< >>, << e >>}
        BY <1>2, <3>1
      <4>. QED
        BY <4>1
    <3>2. CASE ~Full(w)
      BY <1>2, <3>2
    <3>. QED
      BY <3>1, <3>2
  <2>2. Len(o) <= 1 /\ \A i \in 1 .. Len(o) : o[i] = h
    BY <2>1, OneSent
  <2>. QED
    BY <1>4, <2>1, <2>2
<1>6. ASSUME v.c.state \notin {"Connected", "WaitAck"} PROVE Shake(v, x)
  BY <1>2, <1>3, <1>5, <1>6 DEF Shake, Established, o
<1>7. ASSUME f.rcon.con # 0 PROVE Due(Connect(v), k, << >>)
  <2>1. /\ v.c.recvSeqNum.con \in Valid /\ v.c.recvSeqNum.num = 0 /\ v.c.sendSeqNum.num = 0
    BY <1>2, <1>4, <1>7
  <2>2. \A i \in 1 .. Len(o) : /\ o[i].scon.con # 1 /\ o[i].data = 0
                               /\ o[i].scon.num = 0 /\ o[i].rcon.num = 0
    <3>1. f.rcon.con + 1 # 1
      BY <1>1, <1>7 DEF Frames, Bytes
    <3>. QED
      BY <1>5, <3>1
  <2>3. k = Brief(x, y, a, 0, client, room)
    BY DEF k
  <2>. QED
    BY <1>1, <1>2, <2>1, <2>2, <2>3, ConnectDue DEF o
<1>. QED
  BY <1>1, <1>2, <1>5, <1>6, <1>7 DEF o, k, Established, InitStates

LEMMA ConnectLands ==
  ASSUME NEW client, NEW a, NEW b, NEW x, NEW y, NEW w, NEW room, NEW f,
         Meets(client, a, b, x, y, w, room, f),
         x.c.state \notin {"Idle", "Init1"}, y.c.state # "Init2",
         NEW v, Due(v, Brief(x, y, a, 0, client, room), << >>)
  PROVE  Lands(client, a, b, x, y, v)
<1>. DEFINE k == Brief(x, y, a, 0, client, room)
            s == y.sent
            t == Tail(s)
<1>1. /\ client \in BOOLEAN /\ x \in Halves /\ y \in Halves /\ Both(client, a, b, x, y)
      /\ s # << >> /\ Account(a, x, y) /\ Account(b, y, x)
  BY MeetsParts
<1>2. s \in Seq(Frames) /\ Rest(s, t) /\ y.heard \in Nat /\ Freed(x) \in 0 .. y.heard
      /\ Reports(s, Freed(x), y.heard, y.last, b)
  BY <1>1, FreedType DEF Halves, Rest, Account
<1>2a. x.heard \in Nat /\ y.last \in Nat /\ Numbered(s, x.heard, y.last)
  BY <1>1 DEF Halves, Account, Runs
<1>3. 0 \in 0 .. Freed(x) /\ 0 \in 0 .. y.heard
  BY <1>2
<1>. HIDE DEF s, t
<1>4. Reports(t, 0, y.heard, y.last, b) /\ Numbered(t, x.heard, y.last)
  BY <1>2, <1>2a, <1>3, ReportsRest, NumberedRest
<1>4a. x.heard + Len(<< >>) = x.heard
  BY <1>2a
<1>5. /\ Reports(Tail(y.sent), 0, y.heard, y.last, b) /\ y.sent # << >>
      /\ Numbered(Tail(y.sent), x.heard + Len(<< >>), y.last) /\ Fits(<< >>, x.heard)
  BY <1>1, <1>4, <1>4a, FitsNone DEF t, s
<1>6. Due(v, k, << >>)
  OBVIOUS
<1>. HIDE DEF k
<1>7. k = Brief(x, y, a, 0, client, room)
  BY DEF k
<1>8. y.c.state \in InitStates => << >> = << >>
  OBVIOUS
<1>. QED
  BY <1>1, <1>3, <1>5, <1>6, <1>7, <1>8, DueLands

LEMMA Init1Lands ==
  ASSUME NEW client, NEW a, NEW b, NEW x, NEW y, NEW w, NEW room, NEW f,
         Meets(client, a, b, x, y, w, room, f), x.c.state = "Init1"
  PROVE  Lands(client, a, b, x, y, Init1Rec(w, f))
<1>. DEFINE v == Answer(w, f, "Init3")
<1>1. /\ client \in BOOLEAN /\ x \in Halves /\ y \in Halves /\ Both(client, a, b, x, y)
      /\ y.sent # << >>
      /\ Blank(x, y) => \/ f.scon.con = 0 /\ f.rcon.con = 0
                        \/ f.scon.num = 0 /\ f.rcon.num = 0
      /\ f.scon.con = 1 => IF client THEN f.rcon.con = 1
                           ELSE f.rcon.con = 0 /\ x.c.state = "Idle" /\ Blank(x, y)
  BY MeetsParts
<1>2. client /\ Blank(x, y)
  BY <1>1 DEF Both, Side, ServerSide, ClientSide, InitStates
<1>3. CASE Code(f) = <<1, 1>>
  <2>1. f.rcon.con = 1 /\ f.scon.con = 1 /\ f.scon.num = 0 /\ f.rcon.num = 0
    BY <1>1, <1>2, <1>3 DEF Code
  <2>2. ~Established(x.c) /\ "Init3" \in States /\ "Init3" \in InitStates /\ f.rcon.con <= 2
    BY <2>1 DEF Established, States, InitStates
  <2>3. /\ Full(w) => Shake(v, x) /\ v.out = << >> /\ v.c.state = x.c.state
        /\ ~Full(w) => Shake(v, x) /\ v.c.state = "Init3"
        /\ \A i \in 1 .. Len(v.out) : v.out[i].scon.con = f.rcon.con + 1
    <3>1. v = Answer(w, f, "Init3") /\ "Init3" \in States /\ "Init3" \in InitStates
      BY <2>2
    <3>2. /\ ~Established(x.c) /\ Blank(x, y) /\ f.scon.num = 0 /\ f.rcon.num = 0
          /\ f.rcon.con <= 2
      BY <1>2, <2>1, <2>2
    <3>. HIDE DEF v
    <3>. QED
      BY <3>1, <3>2, AnswerShakes
  <2>. HIDE DEF v
  <2>4. Lands(client, a, b, x, y, v)
    <3>1. \A i \in 1 .. Len(v.out) : v.out[i].scon.con # 1
      BY <2>1, <2>3
    <3>2. Shake(v, x) /\ v.c.state \in {"Init1", "Init3"}
      BY <2>3
    <3>. QED
      BY <1>1, <1>2, <3>1, <3>2, ShakeLands
  <2>. QED
    BY <1>3, <2>4 DEF Init1Rec, v
<1>4. CASE Code(f) # <<1, 1>>
  <2>1. Code(f) # <<0, 1>>
    <3>1. f.scon.con = 1 => f.rcon.con = 1
      BY <1>1, <1>2
    <3>2. Code(f) = <<f.rcon.con, f.scon.con>>
      BY DEF Code
    <3>. QED
      BY <3>1, <3>2
  <2>2. Init1Rec(w, f) = InitError(w, f)
    BY <1>4, <2>1 DEF Init1Rec
  <2>. QED
    BY <2>2, ClosedLands
<1>. QED
  BY <1>3, <1>4

LEMMA Init2Lands ==
  ASSUME NEW client, NEW a, NEW b, NEW x, NEW y, NEW w, NEW room, NEW f,
         Meets(client, a, b, x, y, w, room, f), x.c.state = "Init2", NEW deletes
  PROVE  Lands(client, a, b, x, y, Init2Rec(w, f, deletes))
<1>. DEFINE v == Answer(w, f, "Connected")
<1>1. /\ client \in BOOLEAN /\ x \in Halves /\ y \in Halves /\ Both(client, a, b, x, y)
      /\ y.sent # << >>
      /\ Blank(x, y) => \/ f.scon.con = 0 /\ f.rcon.con = 0
                        \/ f.scon.num = 0 /\ f.rcon.num = 0
      /\ f.scon.con = 1 => IF client THEN f.rcon.con = 1
                           ELSE f.rcon.con = 0 /\ x.c.state = "Idle" /\ Blank(x, y)
  BY MeetsParts
<1>2. ~client /\ Blank(x, y) /\ y.c.state # "Init2" /\ f.scon.con # 1
  BY <1>1 DEF Both, Side, ServerSide, ClientSide
<1>3. CASE Code(f) = <<1, 2>>
  <2>1. f.rcon.con = 1 /\ f.scon.con = 2 /\ f.scon.num = 0 /\ f.rcon.num = 0
    BY <1>1, <1>2, <1>3 DEF Code
  <2>2. ~Established(x.c) /\ "Connected" \in States /\ f.rcon.con <= 2 /\ f.rcon.con # 0
    BY <2>1 DEF Established, States
  <2>3. /\ Full(w) => Shake(v, x) /\ v.out = << >> /\ v.c.state = x.c.state
        /\ ~Full(w) => Due(Connect(v), Brief(x, y, a, 0, client, room), << >>)
    BY <1>2, <2>1, <2>2, AnswerShakes
  <2>4. Init2Rec(w, f, deletes) = IF Full(w) THEN v ELSE Connect(v)
    BY <1>3 DEF Init2Rec
  <2>. HIDE DEF v
  <2>5. Full(w) => Lands(client, a, b, x, y, v)
    BY <1>1, <1>2, <2>3, ShakeLands
  <2>6. ~Full(w) => Lands(client, a, b, x, y, Connect(v))
    BY <1>2, <2>3, ConnectLands
  <2>. QED
    BY <2>4, <2>5, <2>6
<1>4. CASE Code(f) # <<1, 2>>
  <2>1. Code(f) # <<0, 1>> /\ Code(f) # <<1, 1>>
    BY <1>2 DEF Code
  <2>2. Init2Rec(w, f, deletes) = InitError(w, f)
    BY <1>4, <2>1 DEF Init2Rec
  <2>. QED
    BY <2>2, ClosedLands
<1>. QED
  BY <1>3, <1>4

LEMMA Init3Lands ==
  ASSUME NEW client, NEW a, NEW b, NEW x, NEW y, NEW w, NEW room, NEW f,
         Meets(client, a, b, x, y, w, room, f), x.c.state = "Init3", NEW deletes
  PROVE  Lands(client, a, b, x, y, Init3Rec(w, f, deletes))
<1>. DEFINE k == Brief(x, y, a, 0, client, room)
            v == Answer(w, f, "Connected")
            r == f.rcon
            s == f.scon
            u == [w EXCEPT !.c.recvSeqNum = f.rcon, !.c.sendSeqNum = f.scon]
<1>1. /\ client \in BOOLEAN /\ x \in Halves /\ y \in Halves /\ Both(client, a, b, x, y)
      /\ y.sent # << >>
      /\ Blank(x, y) => \/ f.scon.con = 0 /\ f.rcon.con = 0
                        \/ f.scon.num = 0 /\ f.rcon.num = 0
      /\ f.scon.con = 1 => IF client THEN f.rcon.con = 1
                           ELSE f.rcon.con = 0 /\ x.c.state = "Idle" /\ Blank(x, y)
      /\ client /\ f.scon.con \in Valid => y.c.state # "Init2"
  BY MeetsParts
<1>2. /\ a \in Nat /\ Account(a, x, y) /\ Account(b, y, x) /\ Still(w, x, k) /\ f \in Frames
      /\ w.c.state = x.c.state /\ w.c \in Connections /\ w.c.frames = x.c.frames
      /\ w.last = x.last /\ w.got = << >> /\ w.out = << >>
  BY MeetsParts
<1>3. client /\ Blank(x, y)
  BY <1>1 DEF Both, Side, ServerSide, ClientSide, InitStates
<1>4. ~Established(x.c)
  BY DEF Established
<1>5. CASE Code(f) = <<2, 2>>
  <2>1. f.rcon.con = 2 /\ f.scon.con = 2 /\ f.scon.num = 0 /\ f.rcon.num = 0
    BY <1>1, <1>3, <1>5 DEF Code
  <2>2. r \in Bytes /\ s \in Bytes
    BY <1>2 DEF Frames
  <2>3. u = Noted(w, r, s)
    BY DEF Noted
  <2>4. Init3Rec(w, f, deletes) = Connect(u)
    BY <1>5 DEF Init3Rec
  <2>. HIDE DEF u, k, r, s
  <2>5. Still(u, x, k) /\ u.c.recvSeqNum = r /\ u.c.sendSeqNum = s
    BY <1>2, <2>2, <2>3, StillBytes
  <2>6. /\ Typed(u, k.room) /\ u.c.frames = x.c.frames /\ u.got = << >> /\ u.last = x.last
        /\ u.limit = k.limit /\ u.out = << >>
    BY <2>5 DEF Still
  <2>7. /\ u.c.recvSeqNum.con \in Valid /\ u.c.recvSeqNum.num = 0 /\ u.c.sendSeqNum.num = 0
        /\ \A i \in 1 .. Len(u.out) : /\ u.out[i].scon.con # 1 /\ u.out[i].data = 0
                                      /\ u.out[i].scon.num = 0 /\ u.out[i].rcon.num = 0
    BY <2>1, <2>5, <2>6 DEF r, s, Valid
  <2>8. Due(Connect(u), k, << >>)
    <3>1. k = Brief(x, y, a, 0, client, room)
      BY DEF k
    <3>. QED
      BY <1>1, <1>2, <1>3, <2>6, <2>7, <3>1, ConnectDue
  <2>9. Lands(client, a, b, x, y, Connect(u))
    <3>1. y.c.state # "Init2"
      BY <1>1, <1>3, <2>1 DEF Valid
    <3>. QED
      BY <2>8, <3>1, ConnectLands DEF k
  <2>. QED
    BY <2>4, <2>9
<1>6. CASE Code(f) = <<1, 2>>
  <2>1. f.rcon.con = 1 /\ f.scon.con = 2 /\ f.scon.num = 0 /\ f.rcon.num = 0
    BY <1>1, <1>3, <1>6 DEF Code
  <2>2. "Connected" \in States /\ f.rcon.con <= 2 /\ f.rcon.con # 0
    BY <2>1 DEF States
  <2>3. /\ Full(w) => Shake(v, x) /\ v.out = << >> /\ v.c.state = x.c.state
        /\ ~Full(w) => Due(Connect(v), Brief(x, y, a, 0, client, room), << >>)
    <3>1. v = Answer(w, f, "Connected") /\ "Connected" \in States /\ f.rcon.con # 0
      BY <2>2
    <3>2. /\ ~Established(x.c) /\ Blank(x, y) /\ f.scon.num = 0 /\ f.rcon.num = 0
          /\ f.rcon.con <= 2
      BY <1>3, <1>4, <2>1, <2>2
    <3>. HIDE DEF v
    <3>. QED
      BY <3>1, <3>2, AnswerShakes
  <2>4. Init3Rec(w, f, deletes) = IF Full(w) THEN v ELSE Connect(v)
    BY <1>6 DEF Init3Rec
  <2>. HIDE DEF v
  <2>5. ASSUME Full(w) PROVE Lands(client, a, b, x, y, v)
    <3>1. \A i \in 1 .. Len(v.out) : v.out[i].scon.con # 1
      BY <2>3, <2>5
    <3>. QED
      BY <1>1, <1>3, <2>3, <2>5, <3>1, ShakeLands
  <2>6. ~Full(w) => Lands(client, a, b, x, y, Connect(v))
    <3>1. y.c.state # "Init2"
      BY <1>1, <1>3, <2>1 DEF Valid
    <3>. QED
      BY <2>3, <3>1, ConnectLands
  <2>. QED
    BY <2>4, <2>5, <2>6
<1>7. CASE Code(f) = <<1, 1>>
  <2>1. Init3Rec(w, f, deletes) = w
    BY <1>7 DEF Init3Rec
  <2>2. \A i \in 1 .. Len(w.out) : FALSE
    BY <1>2
  <2>3. Shake(w, x) /\ w.c.state \in {"Init1", "Init3"}
    BY <1>2, <1>4, <2>2 DEF Shake, Established
  <2>4. Lands(client, a, b, x, y, w)
    BY <1>1, <1>3, <2>2, <2>3, ShakeLands
  <2>. QED
    BY <2>1, <2>4
<1>8. CASE Code(f) \notin {<<2, 2>>, <<1, 2>>, <<1, 1>>}
  <2>1. Code(f) # <<0, 1>>
    BY <1>1, <1>3 DEF Code
  <2>2. Init3Rec(w, f, deletes) = InitError(w, f)
    BY <1>8, <2>1 DEF Init3Rec
  <2>. QED
    BY <2>2, ClosedLands
<1>. QED
  BY <1>5, <1>6, <1>7, <1>8

-----------------------------------------------------------------------------
(* The roles: one node opens connections, the other answers.                *)
OneClient == \A p \in Peers : p \in Clients <=> Other(p) \notin Clients

(* An acknowledgement that is sent again with old data is not taken for a   *)
(* new one: there is none, because the partner sends no data, or all data   *)
(* of the connection have numbers that an old one cannot be mixed up with.  *)
Unmistaken == \A p \in Peers : MaxData[Other(p)] = 0 \/ MaxData[p] <= NumMod - Threshold

(* Each payload was handed over in its place, or an empty frame was.         *)
Placed(p) == \A i \in 1 .. Len(delivered[p]) : delivered[p][i] \in {0, i}

(* The two nodes agree on what has been acknowledged; nothing was opened.   *)
Agree(p) == /\ Both(p \in Clients, MaxData[p], MaxData[Other(p)], Half(p), Half(Other(p)))
            /\ \A q \in Peers : Placed(q)
Untouched(p) == /\ con[p] = FreshCon /\ net[p] = << >>
                /\ submitted[p] = 0 /\ delivered[p] = << >>

(* The inductive invariant of the first connection.                         *)
FirstInv == /\ opened = 0 => \A p \in Peers : Untouched(p)
            /\ opened <= 1 => \A p \in Peers : Agree(p)

LEMMA HalfPrime ==
  ASSUME NEW p \in Peers
  PROVE  /\ Half(p)' = [c |-> con'[p], sent |-> net'[p], last |-> submitted'[p],
                        heard |-> Len(delivered'[p])]
         /\ Agree(p)' <=>
              /\ Both(p \in Clients, MaxData[p], MaxData[Other(p)],
                      [c |-> con'[p], sent |-> net'[p], last |-> submitted'[p],
                       heard |-> Len(delivered'[p])],
                      [c |-> con'[Other(p)], sent |-> net'[Other(p)],
                       last |-> submitted'[Other(p)],
                       heard |-> Len(delivered'[Other(p)])])
              /\ \A q \in Peers : Placed(q)'
BY DEF Agree, Half, Both, Account, Paid, Freed, Used, Established, Stock, Counted, Rem, Reports,
       Counts, Dated, Side, ClientSide, ServerSide, Blank, InitStates, Valid, Own, Slot, Runs,
       Numbered, Carries, Bears

LEMMA HalfType ==
  ASSUME IInv, NEW p \in Peers
  PROVE  /\ Half(p) \in Halves /\ Half(Other(p)) \in Halves
         /\ Half(p).c = con[p] /\ Half(p).sent = net[p] /\ Half(p).last = submitted[p]
         /\ Half(p).heard = Len(delivered[p])
         /\ MaxData[p] \in Nat /\ MaxData[Other(p)] \in Nat
<1>1. ASSUME NEW x \in Peers PROVE Half(x) \in Halves /\ MaxData[x] \in Nat
  <2>1. con[x] \in Connections /\ net[x] \in Seq(Frames) /\ submitted[x] \in Nat
        /\ Len(delivered[x]) \in Nat
    BY TypeParts
  <2>. QED
    BY <2>1, BoundsAssumption DEF Half, Halves
<1>. QED
  BY <1>1, OtherPeer DEF Half

LEMMA BothTurn ==
  ASSUME NEW a, NEW b, NEW x, NEW y
  PROVE  /\ Both(TRUE, a, b, x, y) => Both(FALSE, b, a, y, x)
         /\ Both(FALSE, a, b, x, y) => Both(TRUE, b, a, y, x)
BY DEF Both, Side

(* What both nodes have after a step.                                       *)
LEMMA AgreeStep ==
  ASSUME OneClient, NEW p \in Peers, NEW x, NEW y,
         Both(p \in Clients, MaxData[p], MaxData[Other(p)], x, y),
         x = Half(p)', y = Half(Other(p))', \A q \in Peers : Placed(q)'
  PROVE  \A q \in Peers : Agree(q)'
<1>. DEFINE q == Other(p)
<1>1. q \in Peers /\ Other(q) = p /\ \A z \in Peers : z = p \/ z = q
  BY OtherPeer, OtherTwice
<1>2. /\ x = [c |-> con'[p], sent |-> net'[p], last |-> submitted'[p],
              heard |-> Len(delivered'[p])]
      /\ y = [c |-> con'[q], sent |-> net'[q], last |-> submitted'[q],
              heard |-> Len(delivered'[q])]
  BY <1>1, HalfPrime
<1>3. Agree(p)'
  BY <1>2, HalfPrime
<1>4. Agree(q)'
  <2>4. Both(q \in Clients, MaxData[q], MaxData[Other(q)], y, x)
    <3>1. CASE p \in Clients
      <4>1. (p \in Clients) = TRUE /\ (q \in Clients) = FALSE
        BY <3>1 DEF OneClient
      <4>2. Both(TRUE, MaxData[p], MaxData[q], x, y)
        BY <4>1
      <4>3. Both(FALSE, MaxData[q], MaxData[p], y, x)
        BY <4>2, BothTurn
      <4>. QED
        BY <1>1, <4>1, <4>3
    <3>2. CASE p \notin Clients
      <4>1. (p \in Clients) = FALSE /\ (q \in Clients) = TRUE
        BY <3>2 DEF OneClient
      <4>2. Both(FALSE, MaxData[p], MaxData[q], x, y)
        BY <4>1
      <4>3. Both(TRUE, MaxData[q], MaxData[p], y, x)
        BY <4>2, BothTurn
      <4>. QED
        BY <1>1, <4>1, <4>3
    <3>. QED
      BY <3>1, <3>2
  <2>5. y = [c |-> con'[q], sent |-> net'[q], last |-> submitted'[q],
             heard |-> Len(delivered'[q])]
        /\ x = [c |-> con'[Other(q)], sent |-> net'[Other(q)], last |-> submitted'[Other(q)],
                heard |-> Len(delivered'[Other(q)])]
    BY <1>1, <1>2
  <2>6. q \in Peers
    BY <1>1
  <2>. HIDE DEF q
  <2>. QED
    BY <2>4, <2>5, <2>6, HalfPrime
<1>. HIDE DEF q
<1>. QED
  BY <1>1, <1>3, <1>4

LEMMA PlacedMore ==
  ASSUME NEW d \in Seq(Nat), NEW g \in Seq(Nat), \A i \in 1 .. Len(d) : d[i] \in {0, i},
         Fits(g, Len(d))
  PROVE  \A i \in 1 .. Len(d \o g) : (d \o g)[i] \in {0, i}
<1>. DEFINE e == d \o g
            n == Len(d)
            m == Len(g)
<1>1. /\ n \in Nat /\ m \in Nat /\ Len(e) = n + m /\ \A i \in 1 .. n : e[i] = d[i]
      /\ \A i \in n + 1 .. n + m : e[i] = g[i - n] /\ i - n \in 1 .. m
  BY Joined
<1>. HIDE DEF e, n, m
<1>2. ASSUME NEW i \in 1 .. Len(e) PROVE e[i] \in {0, i}
  <2>1. CASE i \in 1 .. n
    BY <1>1, <2>1 DEF n
  <2>2. CASE i \in n + 1 .. n + m
    <3>1. g[i - n] \in {0, n + (i - n)}
      BY <1>1, <2>2 DEF Fits, n, m
    <3>2. n + (i - n) = i
      BY <1>1
    <3>. QED
      BY <1>1, <2>2, <3>1, <3>2
  <2>. QED
    BY <1>1, <2>1, <2>2
<1>. QED
  BY <1>2 DEF e

(* A node's step.                                                           *)
LEMMA FirstStep ==
  ASSUME IInv, OneClient, NEW p \in Peers, Agree(p), NEW w, Finish(p, w), NEW t,
         Fits(w.got, Half(p).heard),
         net'[p] = net[p] \o w.out, net'[Other(p)] = t, w.got \in Seq(Nat),
         Both(p \in Clients, MaxData[p], MaxData[Other(p)],
              Moved(Half(p), w, Half(p).heard + Len(w.got)), Queued(Half(Other(p)), t))
  PROVE  \A q \in Peers : Agree(q)'
<1>. DEFINE q == Other(p)
            x == Moved(Half(p), w, Half(p).heard + Len(w.got))
            y == Queued(Half(q), t)
<1>1. q \in Peers /\ q # p
  BY OtherPeer
<1>2. /\ con'[p] = w.c /\ con'[q] = con[q] /\ submitted'[p] = w.last
      /\ submitted'[q] = submitted[q]
      /\ delivered'[p] = delivered[p] \o w.got /\ delivered'[q] = delivered[q]
  BY <1>1 DEF IInv, TypeOK, Finish
<1>3. Len(delivered'[p]) = Len(delivered[p]) + Len(w.got) /\ \A z \in Peers : Placed(z)'
  <2>. DEFINE d == delivered[p]
              g == w.got
              e == delivered'[p]
  <2>1. d \in Seq(Nat) /\ g \in Seq(Nat) /\ e = d \o g
    BY <1>2, TypeParts
  <2>2. Fits(g, Len(d)) /\ \A i \in 1 .. Len(d) : d[i] \in {0, i}
    BY DEF Half, Agree, Placed
  <2>. HIDE DEF d, g, e
  <2>3. Len(e) = Len(d) + Len(g) /\ \A i \in 1 .. Len(e) : e[i] \in {0, i}
    <3>1. Len(d \o g) = Len(d) + Len(g)
      BY <2>1, Joined
    <3>2. \A i \in 1 .. Len(d \o g) : (d \o g)[i] \in {0, i}
      BY <2>1, <2>2, PlacedMore
    <3>. QED
      BY <2>1, <3>1, <3>2
  <2>4. \A i \in 1 .. Len(delivered'[p]) : delivered'[p][i] \in {0, i}
    BY <2>3 DEF e
  <2>5. \A i \in 1 .. Len(delivered'[q]) : delivered'[q][i] \in {0, i}
    BY <1>1, <1>2 DEF Agree, Placed
  <2>6. \A z \in Peers : z = p \/ z = q
    BY OtherTwice
  <2>. HIDE DEF q
  <2>7. \A z \in Peers : Placed(z)'
    BY <2>4, <2>5, <2>6 DEF Placed
  <2>. QED
    BY <2>3, <2>7 DEF d, g, e
<1>4. x = Half(p)' /\ y = Half(q)'
  <2>1. /\ Half(p)' = [c |-> con'[p], sent |-> net'[p], last |-> submitted'[p],
                       heard |-> Len(delivered'[p])]
        /\ Half(q)' = [c |-> con'[q], sent |-> net'[q], last |-> submitted'[q],
                       heard |-> Len(delivered'[q])]
    BY <1>1, HalfPrime
  <2>2. x = [c |-> w.c, sent |-> net[p] \o w.out, last |-> w.last,
             heard |-> Len(delivered[p]) + Len(w.got)]
    BY DEF Moved, Half
  <2>3. y = [c |-> con[q], sent |-> t, last |-> submitted[q], heard |-> Len(delivered[q])]
    BY DEF Queued, Half
  <2>. QED
    BY <1>2, <1>3, <2>1, <2>2, <2>3
<1>. HIDE DEF x, y
<1>. QED
  BY <1>3, <1>4, AgreeStep DEF x, y, q

(* What a handler of node p starts from.                                    *)
Before(p, w) == Starts(p \in Clients, MaxData[p], MaxData[Other(p)], Half(p), Half(Other(p)),
                       w, Left(p))

LEMMA WorkDue ==
  ASSUME IInv, NEW p \in Peers, NEW client \in BOOLEAN, NEW b, NEW x, x = Half(p), NEW y \in Halves,
         Both(client, MaxData[p], b, x, y), Established(x.c),
         NEW top \in Freed(x) .. y.heard, NEW k, k = Brief(x, y, MaxData[p], top, client, Left(p))
  PROVE  Due(Work(p), k, << >>)
<1>. DEFINE v == Work(p)
            a == MaxData[p]
            s == net[p]
            D == x.heard
<1>1. /\ x \in Halves /\ x.c = con[p] /\ x.sent = s /\ x.last = submitted[p]
      /\ D = Len(delivered[p]) /\ a \in Nat /\ s \in Seq(Frames) /\ D \in Nat /\ x.last \in Nat
      /\ y.heard \in Nat
  <2>1. x \in Halves /\ x.c = con[p] /\ x.sent = s /\ x.last = submitted[p]
        /\ D = Len(delivered[p]) /\ a \in Nat
    BY HalfType
  <2>. QED
    BY <2>1 DEF Halves
<1>2. /\ v.out = << >> /\ v.got = << >> /\ v.last = x.last /\ v.limit = a /\ v.c = x.c
  BY <1>1 DEF Work
<1>3. Sound(v, Left(p))
  BY WorkSound
<1>. HIDE DEF v
<1>4. /\ k.room = Left(p) /\ k.base = s /\ k.count = D /\ k.low = Freed(y) /\ k.top = top
      /\ k.limit = a /\ k.held = ~client /\ k.seen = y.heard
  BY <1>1 DEF Brief
<1>5. Account(a, x, y) /\ Account(b, y, x)
  BY DEF Both
<1>6. Freed(y) \in 0 .. D /\ Freed(x) \in 0 .. y.heard
  BY <1>1, <1>5, FreedType
<1>7. Terms(k)
  BY <1>1, <1>4, <1>6 DEF Terms
<1>8. Up(v, k.room)
  BY <1>2, <1>3, <1>4 DEF Up
<1>9. Mail(v, k, D)
  <2>1. /\ Reports(s, Freed(y), D, x.last, a) /\ Numbered(s, y.heard, x.last)
        /\ s \o << >> = s
    BY <1>1, <1>5 DEF Account, Runs
  <2>2. Bare(v.out)
    BY <1>2 DEF Bare
  <2>. QED
    BY <1>2, <1>4, <2>1, <2>2 DEF Mail
<1>10. Fair(v.c, v.last, k, D)
  <2>1. /\ x.c.recvSeqNum.con \in Valid
        /\ x.c.recvSeqNum.num = Rem(x.last, NumMod) /\ x.c.sendSeqNum.num = Rem(D, NumMod)
        /\ Used(x.c) <= x.last /\ x.last <= a /\ Stock(x.c, D, x.last)
        /\ Own(x.c, x.last)
    BY <1>5 DEF Account, Paid
  <2>2. x.last <= Used(x.c) + top
    <3>1. Freed(x) = x.last - Used(x.c)
      BY DEF Freed
    <3>2. Used(x.c) \in Nat
      BY <1>1, Parts, Sizes DEF Halves
    <3>. QED
      BY <1>1, <1>6, <3>1, <3>2
  <2>3. k.held /\ D = 0 => x.last = 0 /\ x.c.state = "Connected"
    <3>1. ~client => ServerSide(x, y)
      BY DEF Both, Side
    <3>. QED
      BY <1>4, <3>1 DEF ServerSide, Established
  <2>. QED
    BY <1>2, <1>4, <2>1, <2>2, <2>3 DEF Fair
<1>11. k.count + Len(<< >>) = D
  BY <1>1, <1>4
<1>. QED
  BY <1>2, <1>4, <1>7, <1>8, <1>9, <1>10, <1>11 DEF Due, v

LEMMA WorkStarts ==
  ASSUME IInv, NEW p \in Peers, Agree(p), NEW w, w \in {Work(p), Opened(p)}
  PROVE  Before(p, w)
<1>. DEFINE v == Work(p)
            d == [v.c EXCEPT !.open = TRUE]
            x == Half(p)
            y == Half(Other(p))
            a == MaxData[p]
            b == MaxData[Other(p)]
            client == p \in Clients
            K(top) == Brief(x, y, a, top, client, Left(p))
<1>1. /\ x \in Halves /\ y \in Halves /\ x.c = con[p] /\ x.last = submitted[p]
      /\ a \in Nat /\ client \in BOOLEAN /\ Both(client, a, b, x, y)
  BY HalfType DEF Agree
<1>2. /\ Typed(v, Left(p)) /\ v \in WorkType /\ v.c = x.c /\ v.c \in Connections
  BY <1>1, WorkSound, WorkParts DEF Sound
<1>3. v.out = << >> /\ v.got = << >> /\ v.last = x.last /\ v.limit = a
  BY <1>1 DEF Work
<1>4. \A top : K(top).room = Left(p) /\ K(top).limit = a
  BY DEF Brief
<1>5. ASSUME Established(x.c), NEW top \in Freed(x) .. y.heard
      PROVE  Due(v, K(top), << >>)
  <2>. DEFINE k == K(top)
  <2>1. x = Half(p) /\ k = Brief(x, y, MaxData[p], top, client, Left(p))
    OBVIOUS
  <2>. HIDE DEF x, y, k, v, client
  <2>. QED
    BY <1>1, <1>5, <2>1, WorkDue DEF v, k
<1>6. Opened(p) = [v EXCEPT !.c = d]
  BY <1>2 DEF Opened, WorkType
<1>7. /\ Alike(v.c, d) /\ d \in Connections /\ d.state = v.c.state
      /\ d.sendSeqNum = v.c.sendSeqNum
      /\ d.frames = v.c.frames /\ d.recvSeqNum = v.c.recvSeqNum
  <2>1. ASSUME NEW z \in BOOLEAN
        PROVE  LET e == [v.c EXCEPT !.open = z]
               IN  /\ Alike(v.c, e) /\ e \in Connections /\ e.state = v.c.state
                   /\ e.sendSeqNum = v.c.sendSeqNum
                   /\ e.frames = v.c.frames /\ e.recvSeqNum = v.c.recvSeqNum
    BY <1>2 DEF Connections, Alike
  <2>. QED
    BY <2>1
<1>. HIDE DEF v, d, x, y, a, b, client, K
<1>8. Still(v, x, K(0))
  BY <1>2, <1>3, <1>4 DEF Still
<1>9. ASSUME NEW u, u = [v EXCEPT !.c = d]
      PROVE  /\ Still(u, x, K(0)) /\ u.c.state = x.c.state
             /\ Established(x.c) => \A top \in Freed(x) .. y.heard : Due(u, K(top), << >>)
  <2>1. Still(u, x, K(0)) /\ u.c = d
    BY <1>2, <1>7, <1>8, <1>9, StillPut
  <2>2. ASSUME Established(x.c), NEW top \in Freed(x) .. y.heard
        PROVE  Due(u, K(top), << >>)
    <3>1. Due(v, K(top), << >>)
      BY <1>5, <2>2
    <3>2. Plain(v.c, d)
      BY <1>2, <1>7, <3>1, DueParts DEF Plain
    <3>. QED
      BY <1>7, <1>9, <3>1, <3>2, PutPlainDue
  <2>. QED
    BY <1>2, <1>7, <2>1, <2>2
<1>10. /\ Still(w, x, K(0)) /\ w.c.state = x.c.state
       /\ Established(x.c) => \A top \in Freed(x) .. y.heard : Due(w, K(top), << >>)
  <2>1. CASE w = v
    BY <1>2, <1>5, <1>8, <2>1
  <2>2. CASE w = Opened(p)
    BY <1>6, <1>9, <2>2
  <2>. QED
    BY <2>1, <2>2 DEF v
<1>. QED
  BY <1>1, <1>10 DEF Before, Starts, K, x, y, a, b, client

LEMMA ReceiveFirst ==
  ASSUME IInv, OneClient, Unmistaken, NEW p \in Peers, Agree(p), ReceiveAny(p)
  PROVE  \A q \in Peers : Agree(q)'
<1>. DEFINE v == Opened(p)
            f == Incoming(p)
            room == Left(p)
            q == Other(p)
            a == MaxData[p]
            b == MaxData[q]
            x == Half(p)
            y == Half(q)
            client == p \in Clients
<1>1. /\ q \in Peers /\ q # p
      /\ x.c = con[p] /\ x.sent = net[p] /\ y.sent = net[q] /\ f = Head(net[q])
  BY OtherPeer, HalfType DEF Incoming, Half
<1>2. Sound(v, room) /\ Typed(v, room) /\ v.c.state = con[p].state
  BY WorkSound DEF Sound
<1>3. Starts(client, a, b, x, y, v, room)
  BY WorkStarts DEF Before
<1>4. net[q] # << >> => f \in Frames
  <2>1. net[q] \in Seq(Frames)
    BY <1>1, TypeParts
  <2>. QED
    BY <1>1, <2>1
<1>5. b = 0 \/ a <= NumMod - Threshold
  BY DEF Unmistaken
<1>6. net \in [Peers -> Seq(Frames)]
  BY DEF IInv, TypeOK
<1>. HIDE DEF v, f, room, x, y, a, b, client
<1>7. ASSUME NEW w, Sound(w, room), Receive(p, w), net[q] # << >>,
             Lands(client, a, b, x, y, w)
      PROVE  \A z \in Peers : Agree(z)'
  <2>. DEFINE t == Tail(net[q])
  <2>1. w.got \in Seq(Nat)
    BY <1>7, WorkParts DEF Sound
  <2>2. Finish(p, w) /\ net'[p] = net[p] \o w.out /\ net'[q] = t
    BY <1>1, <1>6, <1>7 DEF Receive
  <2>3. /\ Both(client, a, b, Moved(x, w, x.heard + Len(w.got)), Queued(y, t))
        /\ Fits(w.got, x.heard)
    BY <1>1, <1>7 DEF Lands
  <2>. HIDE DEF t
  <2>4. /\ Both(p \in Clients, MaxData[p], MaxData[Other(p)],
                Moved(Half(p), w, Half(p).heard + Len(w.got)), Queued(Half(Other(p)), t))
        /\ Fits(w.got, Half(p).heard)
    BY <2>3 DEF x, y, a, b, client
  <2>. QED
    BY <2>1, <2>2, <2>4, FirstStep
<1>8. ASSUME net[q] # << >> PROVE Meets(client, a, b, x, y, v, room, f)
  BY <1>1, <1>3, <1>8 DEF Meets
<1>. HIDE DEF q
<1>9. CASE ReceiveIdle(p)
  <2>. DEFINE w == IdleRec(v, f)
  <2>1. x.c.state = "Idle" /\ net[q] # << >> /\ Receive(p, w) /\ ~Established(v.c)
    BY <1>1, <1>2, <1>9 DEF ReceiveIdle, Expecting, Established, v, f, q
  <2>2. Sound(w, room)
    BY <1>2, <1>4, <2>1, IdleRecSound
  <2>3. Lands(client, a, b, x, y, w)
    BY <1>8, <2>1, IdleLands
  <2>. HIDE DEF w
  <2>. QED
    BY <1>7, <2>1, <2>2, <2>3
<1>10. CASE ReceiveInit1(p)
  <2>. DEFINE w == Init1Rec(v, f)
  <2>1. x.c.state = "Init1" /\ net[q] # << >> /\ Receive(p, w) /\ ~Established(v.c)
    BY <1>1, <1>2, <1>10 DEF ReceiveInit1, Expecting, Established, v, f, q
  <2>2. Sound(w, room)
    BY <1>2, <1>4, <2>1, InitRecSound
  <2>3. Lands(client, a, b, x, y, w)
    BY <1>8, <2>1, Init1Lands
  <2>. HIDE DEF w
  <2>. QED
    BY <1>7, <2>1, <2>2, <2>3
<1>11. ASSUME NEW deletes \in BOOLEAN, ReceiveInit2(p, deletes)
       PROVE  \A z \in Peers : Agree(z)'
  <2>. DEFINE w == Init2Rec(v, f, deletes)
  <2>1. x.c.state = "Init2" /\ net[q] # << >> /\ Receive(p, w) /\ ~Established(v.c)
    BY <1>1, <1>2, <1>11 DEF ReceiveInit2, Expecting, Established, v, f, q
  <2>2. Sound(w, room)
    BY <1>2, <1>4, <2>1, InitRecSound
  <2>3. Lands(client, a, b, x, y, w)
    BY <1>8, <2>1, Init2Lands
  <2>. HIDE DEF w
  <2>. QED
    BY <1>7, <2>1, <2>2, <2>3
<1>12. ASSUME NEW deletes \in BOOLEAN, ReceiveInit3(p, deletes)
       PROVE  \A z \in Peers : Agree(z)'
  <2>. DEFINE w == Init3Rec(v, f, deletes)
  <2>1. x.c.state = "Init3" /\ net[q] # << >> /\ Receive(p, w) /\ ~Established(v.c)
    BY <1>1, <1>2, <1>12 DEF ReceiveInit3, Expecting, Established, v, f, q
  <2>2. Sound(w, room)
    BY <1>2, <1>4, <2>1, InitRecSound
  <2>3. Lands(client, a, b, x, y, w)
    BY <1>8, <2>1, Init3Lands
  <2>. HIDE DEF w
  <2>. QED
    BY <1>7, <2>1, <2>2, <2>3
<1>13. ASSUME NEW deletes \in BOOLEAN, NEW ret \in Returns, NEW reply \in Replies,
              ReceiveConnected(p, deletes, ret, reply)
       PROVE  \A z \in Peers : Agree(z)'
  <2>. DEFINE w == ConnectedRec(v, f, deletes, ret, reply)
  <2>1. con[p].state = "Connected" /\ net[q] # << >> /\ Receive(p, w)
    BY <1>13 DEF ReceiveConnected, Expecting, v, f, q
  <2>2. x.c.state = "Connected" /\ "none" \in Replies
    BY <1>1, <2>1 DEF Replies
  <2>3. Up(v, room)
    BY <1>2, <2>1 DEF Up, Established
  <2>4. Sound(w, room)
    BY <1>4, <1>2, <2>1, <2>3, ConnectedRecSound
  <2>5. Lands(client, a, b, x, y, w)
    BY <1>5, <1>8, <2>1, <2>2, EstablishedLands
  <2>. HIDE DEF w
  <2>. QED
    BY <1>7, <2>1, <2>4, <2>5
<1>14. ASSUME NEW deletes \in BOOLEAN, NEW ret \in Returns, NEW reply \in Replies,
              NEW onAck \in {"none", "data"}, ReceiveWaitAck(p, deletes, ret, reply, onAck)
       PROVE  \A z \in Peers : Agree(z)'
  <2>. DEFINE w == WaitAckRec(v, f, deletes, ret, reply, onAck)
  <2>1. con[p].state = "WaitAck" /\ net[q] # << >> /\ Receive(p, w)
    BY <1>14 DEF ReceiveWaitAck, Expecting, v, f, q
  <2>2. x.c.state = "WaitAck" /\ onAck \in Replies
    BY <1>1, <2>1 DEF Replies
  <2>3. Up(v, room)
    BY <1>2, <2>1 DEF Up, Established
  <2>4. Sound(w, room)
    BY <1>2, <1>4, <2>1, <2>2, <2>3, WaitAckRecSound
  <2>5. Lands(client, a, b, x, y, w)
    BY <1>5, <1>8, <2>1, <2>2, EstablishedLands
  <2>. HIDE DEF w
  <2>. QED
    BY <1>7, <2>1, <2>4, <2>5
<1>. QED
  BY <1>9, <1>10, <1>11, <1>12, <1>13, <1>14 DEF ReceiveAny

Quietly(p) == Brief(Half(p), Half(Other(p)), MaxData[p], Freed(Half(p)), p \in Clients, Left(p))

(* A step without a reception.                                              *)
LEMMA QuietFirst ==
  ASSUME IInv, OneClient, NEW p \in Peers, Agree(p), NEW w, Finish(p, w),
         net' = [net EXCEPT ![p] = @ \o w.out],
         \/ Quit(w, Half(p)) /\ (con[p].state = "Idle" => w.out = << >>)
         \/ Established(con[p]) /\ Due(w, Quietly(p), << >>)
  PROVE  \A q \in Peers : Agree(q)'
<1>. DEFINE q == Other(p)
            a == MaxData[p]
            b == MaxData[q]
            x == Half(p)
            y == Half(q)
            client == p \in Clients
            k == Quietly(p)
            t == y.sent
<1>1. /\ q \in Peers /\ q # p /\ x \in Halves /\ y \in Halves /\ x.c = con[p]
      /\ y.sent = net[q] /\ client \in BOOLEAN /\ Both(client, a, b, x, y)
      /\ net \in [Peers -> Seq(Frames)]
  BY OtherPeer, HalfType DEF Agree, Half, IInv, TypeOK
<1>2. Rest(y.sent, t) /\ net'[p] = net[p] \o w.out /\ net'[q] = t
  BY <1>1 DEF Rest
<1>3. /\ k.base = x.sent /\ k.count = x.heard /\ k.low = Freed(y) /\ k.limit = a
      /\ k.held = ~client /\ k.top = Freed(x) /\ k.seen = y.heard
  BY DEF Quietly, Brief
<1>4. x.heard + Len(<< >>) = x.heard
  BY <1>1 DEF Halves
<1>. HIDE DEF t, k, x, y, a, b, client
<1>5. w.got = << >> /\ Both(client, a, b, Moved(x, w, x.heard), Queued(y, t))
  <2>1. CASE Quit(w, x) /\ (con[p].state = "Idle" => w.out = << >>)
    <3>1. w.got = << >>
      BY <2>1 DEF Quit
    <3>. QED
      BY <1>1, <1>2, <2>1, <3>1, QuitBoth
  <2>2. CASE Established(con[p]) /\ Due(w, k, << >>)
    <3>1. x.c.state \notin {"Idle", "Init1"} /\ Established(x.c)
      BY <1>1, <2>2 DEF Established
    <3>2. y.c.state # "Init2"
      BY <1>1, <3>1 DEF Both, Side, ClientSide, ServerSide
    <3>3. Freed(x) \in 0 .. y.heard /\ Reports(y.sent, Freed(x), y.heard, y.last, b)
      BY <1>1, FreedType DEF Both, Account
    <3>3a. Numbered(y.sent, x.heard, y.last)
      BY <1>1 DEF Both, Account, Runs
    <3>4. /\ k.top \in 0 .. y.heard /\ Reports(t, k.top, y.heard, y.last, b)
          /\ Numbered(t, x.heard + Len(<< >>), y.last)
      BY <1>3, <1>4, <3>3, <3>3a DEF t
    <3>5. Both(client, a, b, Moved(x, w, x.heard + Len(<< >>)), Queued(y, t))
      BY <1>1, <1>2, <1>3, <2>2, <3>1, <3>2, <3>4, DueBoth
    <3>6. w.got = << >>
      BY <2>2 DEF Due
    <3>. QED
      BY <1>4, <3>5, <3>6
  <2>. QED
    BY <2>1, <2>2 DEF x, k
<1>6. w.got \in Seq(Nat) /\ Fits(w.got, Half(p).heard)
  BY <1>5, FitsNone
<1>7. Both(p \in Clients, MaxData[p], MaxData[Other(p)],
           Moved(Half(p), w, Half(p).heard + Len(w.got)), Queued(Half(Other(p)), t))
  <2>1. Both(client, a, b, Moved(x, w, x.heard + Len(w.got)), Queued(y, t))
    BY <1>4, <1>5
  <2>. QED
    BY <2>1 DEF x, y, a, b, client, q
<1>. QED
  BY <1>2, <1>6, <1>7, FirstStep DEF q

LEMMA WorkQuiet ==
  ASSUME IInv, NEW p \in Peers, Agree(p)
  PROVE  /\ Work(p).c.state = con[p].state /\ Work(p).c = con[p] /\ Work(p) \in WorkType
         /\ Work(p).c \in Connections
         /\ Still(Work(p), Half(p), Quietly(p)) /\ Half(p) \in Halves
         /\ Established(con[p]) => Due(Work(p), Quietly(p), << >>)
         /\ Quietly(p).limit = MaxData[p] /\ Quietly(p).count = Len(delivered[p])
         /\ Quietly(p).held = (p \notin Clients)
<1>. DEFINE v == Work(p)
            x == Half(p)
            y == Half(Other(p))
            a == MaxData[p]
            b == MaxData[Other(p)]
            client == p \in Clients
            top == Freed(x)
            k == Quietly(p)
            room == Left(p)
<1>1. /\ x \in Halves /\ y \in Halves /\ x.c = con[p] /\ x.heard = Len(delivered[p])
      /\ client \in BOOLEAN /\ Both(client, a, b, x, y)
  BY HalfType DEF Agree
<1>2. Starts(client, a, b, x, y, v, room)
  BY WorkStarts DEF Before
<1>3. Sound(v, room) /\ v.c = con[p]
  BY WorkSound
<1>4. k = Brief(x, y, a, top, client, room)
  BY DEF Quietly
<1>5. v \in WorkType /\ v.c \in Connections
  BY <1>3, WorkParts DEF Sound
<1>6. /\ k.limit = a /\ k.count = x.heard /\ k.held = ~client /\ k.room = room
  BY DEF Quietly, Brief
<1>. HIDE DEF v, x, y, a, b, client, room
<1>7. Still(v, x, k)
  <2>1. Still(v, x, Brief(x, y, a, 0, client, room))
    BY <1>2 DEF Starts
  <2>2. /\ Brief(x, y, a, 0, client, room).room = room
        /\ Brief(x, y, a, 0, client, room).limit = a
    BY DEF Brief
  <2>. QED
    BY <1>6, <2>1, <2>2 DEF Still
<1>8. ASSUME Established(con[p]) PROVE Due(v, k, << >>)
  <2>1. top \in Freed(x) .. y.heard
    <3>1. Freed(x) \in 0 .. y.heard
      BY <1>1, FreedType DEF Both
    <3>. QED
      BY <1>1, <3>1 DEF Halves
  <2>. HIDE DEF top
  <2>. QED
    BY <1>1, <1>2, <1>4, <1>8, <2>1 DEF Starts, top
<1>. QED
  BY <1>1, <1>3, <1>5, <1>6, <1>7, <1>8 DEF v, x, y, a, client, k

LEMMA CommandFirst ==
  ASSUME IInv, OneClient, NEW p \in Peers, Agree(p),
         DeleteCon(p) \/ Restart(p) \/ \E ret \in Returns : Submit(p, ret)
  PROVE  \A q \in Peers : Agree(q)'
<1>. DEFINE v == Work(p)
            x == Half(p)
            k == Quietly(p)
<1>1. /\ v.c = con[p] /\ v \in WorkType /\ v.c \in Connections
      /\ Still(v, x, k) /\ x \in Halves
      /\ Established(con[p]) => Due(v, k, << >>)
      /\ k.limit = MaxData[p] /\ k.count = Len(delivered[p]) /\ k.held = (p \notin Clients)
  BY WorkQuiet
<1>2. v.last = submitted[p] /\ v.out = << >> /\ v.got = << >>
  BY DEF Work
<1>. HIDE DEF v, k, x
<1>3. ASSUME NEW w, Finish(p, w), net' = [net EXCEPT ![p] = @ \o w.out],
             \/ Quit(w, x) /\ (con[p].state = "Idle" => w.out = << >>)
             \/ Established(con[p]) /\ Due(w, k, << >>)
      PROVE  \A q \in Peers : Agree(q)'
  BY <1>3, QuietFirst DEF k, x
<1>4. CASE DeleteCon(p)
  <2>. DEFINE w == IF con[p].state = "Connected" THEN SendClose(v) ELSE v
              u == Closed(w)
  <2>1. /\ Finish(p, Closed(w)) /\ net' = [net EXCEPT ![p] = @ \o w.out]
    BY <1>4 DEF DeleteCon, v
  <2>2. /\ Quit(u, x) /\ u.out = w.out
        /\ con[p].state = "Idle" => w.out = << >>
    <3>1. /\ Quit(Closed(v), x) /\ Closed(v).out = << >>
          /\ Quit(Closed(SendClose(v)), x)
          /\ SendClose(v).out = Closed(SendClose(v)).out
      BY <1>1, StillClosed, StillCloses
    <3>. QED
      BY <1>2, <3>1
  <2>. HIDE DEF w
  <2>. QED
    BY <1>3, <2>1, <2>2
<1>5. CASE Restart(p)
  <2>. DEFINE d == FreshCon
              w == [v EXCEPT !.c = d]
  <2>1. d \in Connections /\ d.state = "Idle" /\ Stock(d, x.heard, x.last)
    BY <1>1, ClosedConType, ClosedStock DEF Halves
  <2>2. Finish(p, w) /\ net' = net
    BY <1>5 DEF Restart, v
  <2>. HIDE DEF d
  <2>3. Typed(v, k.room) /\ v.last = x.last
    BY <1>1 DEF Still
  <2>4. w.c = d /\ w.out = << >> /\ w.got = << >> /\ w.last = x.last
    BY <1>1, <1>2, <2>3 DEF WorkType
  <2>5. net' = [net EXCEPT ![p] = @ \o w.out]
    <3>1. net \in [Peers -> Seq(Frames)] /\ net[p] \o << >> = net[p]
      BY TypeParts DEF IInv, TypeOK
    <3>. QED
      BY <2>2, <2>4, <3>1
  <2>. HIDE DEF w
  <2>6. Quit(w, x)
    BY <2>1, <2>4 DEF Quit
  <2>. QED
    BY <1>3, <2>2, <2>4, <2>5, <2>6
<1>6. ASSUME NEW ret \in Returns, Submit(p, ret)
      PROVE  \A q \in Peers : Agree(q)'
  <2>. DEFINE w == SendData(v, "data", ret)
  <2>1. Established(con[p]) /\ "data" \in Replies
    BY <1>6 DEF Submit, Established, Replies
  <2>2. Spoken(k, << >>)
    <3>1. p \in Clients \/ Len(delivered[p]) # 0
      <4>1. delivered[p] \in Seq(Nat) /\ (p \in Clients \/ delivered[p] # << >>)
        BY <1>6, TypeParts DEF Submit
      <4>. QED
        BY <4>1
    <3>2. k.count + Len(<< >>) = k.count
      <4>1. k.count \in Nat
        BY <1>1, TypeParts
      <4>. QED
        BY <4>1
    <3>. QED
      BY <1>1, <3>1, <3>2 DEF Spoken
  <2>3. Due(w, k, << >>)
    BY <1>1, <2>1, <2>2, SendDataDue
  <2>4. Finish(p, w) /\ net' = [net EXCEPT ![p] = @ \o w.out]
    BY <1>6 DEF Submit, v
  <2>. HIDE DEF w
  <2>. QED
    BY <1>3, <2>1, <2>3, <2>4
<1>. QED
  BY <1>4, <1>5, <1>6

LEMMA TimeoutFirst ==
  ASSUME IInv, OneClient, NEW p \in Peers, Agree(p), Timeout(p)
  PROVE  \A q \in Peers : Agree(q)'
<1>. DEFINE v == Work(p)
            x == Half(p)
            k == Quietly(p)
            d == [v.c EXCEPT !.timer = FALSE]
            w == [v EXCEPT !.c.timer = FALSE]
            u == CASE con[p].state = "Idle"       -> w
                   [] con[p].state \in InitStates -> FinalTimeout(w)
                   [] con[p].state = "Connected"  -> TimeoutEvent(w)
                   [] con[p].state = "WaitAck"    -> TimeoutEvent(RequestAck(w))
<1>1. /\ v.c = con[p] /\ v \in WorkType /\ v.c \in Connections
      /\ Still(v, x, k) /\ x \in Halves /\ x.c = con[p]
      /\ Established(con[p]) => Due(v, k, << >>)
  BY WorkQuiet, HalfType
<1>2. Finish(p, u) /\ net' = [net EXCEPT ![p] = @ \o u.out]
  BY DEF Timeout, v
<1>3. Stock(x.c, x.heard, x.last)
  BY DEF Agree, Both, Account
<1>. HIDE DEF v, k, x
<1>4. /\ Alike(v.c, d) /\ d \in Connections /\ d.state = con[p].state
      /\ d.sendSeqNum = v.c.sendSeqNum /\ d.frames = v.c.frames
      /\ d.recvSeqNum = v.c.recvSeqNum
  <2>1. ASSUME NEW b \in BOOLEAN
        PROVE  LET e == [v.c EXCEPT !.timer = b]
               IN  /\ Alike(v.c, e) /\ e \in Connections /\ e.state = v.c.state
                   /\ e.sendSeqNum = v.c.sendSeqNum /\ e.frames = v.c.frames
                   /\ e.recvSeqNum = v.c.recvSeqNum
    BY <1>1 DEF Connections, Alike
  <2>. QED
    BY <1>1, <2>1
<1>5. w = [v EXCEPT !.c = d]
  BY <1>1 DEF WorkType
<1>. HIDE DEF d, w
<1>6. Still(w, x, k) /\ w.c = d
  BY <1>1, <1>4, <1>5, StillPut
<1>7. Quit(FinalTimeout(w), x)
  BY <1>1, <1>6, StillCloses
<1>8. ASSUME Established(con[p])
      PROVE  /\ Quit(TimeoutEvent(w), x) \/ Due(TimeoutEvent(w), k, << >>)
             /\ \/ Quit(TimeoutEvent(RequestAck(w)), x)
                \/ Due(TimeoutEvent(RequestAck(w)), k, << >>)
  <2>1. Due(v, k, << >>)
    BY <1>1, <1>8
  <2>2. Plain(v.c, d)
    BY <1>1, <1>4, <2>1, DueParts DEF Plain
  <2>3. Due(w, k, << >>) /\ Due(RequestAck(w), k, << >>)
    <3>1. Due(w, k, << >>)
      BY <1>4, <1>5, <2>1, <2>2, PutPlainDue
    <3>. QED
      BY <3>1, CodesDue
  <2>4. Still(RequestAck(w), x, k)
    <3>. DEFINE e == [w.c EXCEPT !.recvSeqNum.con = 3]
                z == RequestAck(w)
    <3>1. w \in WorkType /\ w.c \in Connections
      BY <2>3, DueParts
    <3>2. e \in Connections /\ e.frames = w.c.frames
      BY <3>1 DEF Connections, Bytes
    <3>3. z = [w EXCEPT !.c = e]
      BY <3>1 DEF RequestAck, WorkType
    <3>. HIDE DEF e, z
    <3>4. Still(z, x, k)
      BY <1>6, <3>2, <3>3, StillPut
    <3>. QED
      BY <3>4 DEF z
  <2>5. Quit(FinalTimeout(RequestAck(w)), x)
    BY <1>1, <2>4, StillCloses
  <2>. QED
    BY <1>7, <2>3, <2>5, TimeoutEventDue
<1>9. \/ Quit(u, x) /\ (con[p].state = "Idle" => u.out = << >>)
      \/ Established(con[p]) /\ Due(u, k, << >>)
  <2>1. CASE con[p].state = "Idle"
    <3>1. u = w /\ d.state = "Idle"
      BY <1>4, <2>1 DEF InitStates
    <3>2. w.got = << >> /\ w.out = << >> /\ w.last = x.last
      BY <1>6 DEF Still
    <3>3. Stock(d, x.heard, x.last)
      BY <1>1, <1>3, <1>4 DEF Stock
    <3>4. w.out \in Seq(Frames)
      BY <3>2
    <3>5. Quit(w, x)
      BY <1>4, <1>6, <3>1, <3>2, <3>3, <3>4 DEF Quit
    <3>. HIDE DEF u
    <3>. QED
      BY <3>1, <3>2, <3>5
  <2>2. CASE con[p].state \in InitStates
    <3>1. u = FinalTimeout(w) /\ con[p].state # "Idle"
      BY <2>2 DEF InitStates
    <3>. HIDE DEF u
    <3>. QED
      BY <1>7, <3>1
  <2>3. CASE con[p].state = "Connected"
    <3>1. u = TimeoutEvent(w) /\ Established(con[p])
      BY <2>3 DEF Established, InitStates
    <3>. HIDE DEF u
    <3>. QED
      BY <1>8, <2>3, <3>1
  <2>4. CASE con[p].state = "WaitAck"
    <3>1. u = TimeoutEvent(RequestAck(w)) /\ Established(con[p])
      BY <2>4 DEF Established, InitStates
    <3>. HIDE DEF u
    <3>. QED
      BY <1>8, <2>4, <3>1
  <2>5. con[p].state \in States
    BY <1>1 DEF Connections
  <2>. QED
    BY <2>1, <2>2, <2>3, <2>4, <2>5 DEF States, InitStates
<1>. HIDE DEF u
<1>. QED
  BY <1>2, <1>9, QuietFirst DEF k, x

(* A frame is lost.                                                         *)
LEMMA LoseBoth ==
  ASSUME NEW client \in BOOLEAN, NEW a, NEW b, NEW x \in Halves, NEW y \in Halves,
         Both(client, a, b, x, y), NEW t, Rest(y.sent, t)
  PROVE  Both(client, a, b, x, Queued(y, t))
<1>. DEFINE Y == Queued(y, t)
            s == y.sent
<1>1. Y.c = y.c /\ Y.sent = t /\ Y.last = y.last /\ Y.heard = y.heard
  BY DEF Queued
<1>2. s \in Seq(Frames) /\ y.heard \in Nat /\ Account(a, x, y) /\ Account(b, y, x)
  BY DEF Halves, Both
<1>. HIDE DEF Y
<1>3. Account(a, x, Y) /\ Account(b, Y, x)
  <2>1. Freed(Y) = Freed(y)
    BY <1>1 DEF Freed
  <2>2. Account(a, x, Y)
    BY <1>1, <1>2, <2>1 DEF Account, Paid, Runs
  <2>3. Freed(x) \in 0 .. y.heard /\ Freed(x) \in 0 .. Freed(x) /\ Freed(x) \in Nat
    BY <1>2, FreedType
  <2>4. Reports(t, Freed(x), y.heard, y.last, b)
    BY <1>2, <2>3, ReportsRest DEF Account
  <2>5. Runs(Y, x)
    <3>1. Runs(y, x) /\ y.last \in Nat /\ x.heard \in Nat
      BY <1>2 DEF Account, Halves
    <3>2. Numbered(s, x.heard, y.last)
      BY <3>1 DEF Runs
    <3>. HIDE DEF s
    <3>3. Numbered(t, x.heard, y.last)
      BY <1>2, <3>1, <3>2, NumberedRest DEF s
    <3>. QED
      BY <1>1, <3>1, <3>3 DEF Runs
  <2>. QED
    BY <1>1, <1>2, <2>2, <2>4, <2>5 DEF Account, Paid
<1>4. \A i \in 1 .. Len(t) : \E j \in 1 .. Len(y.sent) :
        t[i] = y.sent[j] /\ (t = y.sent \/ j > 1)
  <2>. HIDE DEF s
  <2>1. Rest(s, t)
    BY DEF s
  <2>2. \A i \in 1 .. Len(t) : \E j \in 1 .. Len(s) : t[i] = s[j] /\ (t = s \/ j > 1)
    BY <1>2, <2>1, RestParts
  <2>. QED
    BY <2>2 DEF s
<1>5. CASE client
  <2>1. ClientSide(x, y) /\ ServerSide(y, x)
    BY <1>5 DEF Both, Side
  <2>2. ClientSide(x, Y)
    BY <1>1, <2>1 DEF ClientSide, Blank, Rest
  <2>3. ServerSide(Y, x)
    BY <1>1, <1>4, <2>1 DEF ServerSide, Blank
  <2>. QED
    BY <1>3, <1>5, <2>2, <2>3 DEF Both, Side, Y
<1>6. CASE ~client
  <2>1. ServerSide(x, y) /\ ClientSide(y, x)
    BY <1>6 DEF Both, Side
  <2>2. ServerSide(x, Y)
    BY <1>1, <2>1 DEF ServerSide, Blank
  <2>3. ASSUME NEW i \in 1 .. Len(t), t[i].scon.con = 1
        PROVE  /\ t[i].rcon.con = 0 /\ i = 1 /\ Blank(y, x)
               /\ y.c.state \in {"Idle", "Init1"} /\ x.c.state = "Idle" /\ x.sent = << >>
    <3>1. PICK j \in 1 .. Len(y.sent) : t[i] = y.sent[j] /\ (t = y.sent \/ j > 1)
      BY <1>4
    <3>2. /\ y.sent[j].rcon.con = 0 /\ j = 1 /\ Blank(y, x)
          /\ y.c.state \in {"Idle", "Init1"} /\ x.c.state = "Idle" /\ x.sent = << >>
      BY <2>1, <2>3, <3>1 DEF ClientSide
    <3>3. t = y.sent
      BY <3>1, <3>2
    <3>4. i = 1
      BY <2>1, <2>3, <3>3 DEF ClientSide
    <3>. QED
      BY <3>1, <3>2, <3>4
  <2>4. ClientSide(Y, x)
    BY <1>1, <2>1, <2>3 DEF ClientSide, Blank
  <2>. QED
    BY <1>3, <1>6, <2>2, <2>4 DEF Both, Side, Y
<1>. QED
  BY <1>5, <1>6

LEMMA LoseFirst ==
  ASSUME IInv, OneClient, NEW p \in Peers, Agree(Other(p)), Lose(p)
  PROVE  \A q \in Peers : Agree(q)'
<1>. DEFINE q == Other(p)
            x == Half(q)
            y == Half(p)
            t == Tail(net[p])
<1>1. q \in Peers /\ q # p /\ Other(q) = p
  BY OtherPeer, OtherTwice
<1>2. /\ con' = con /\ submitted' = submitted /\ delivered' = delivered
      /\ net[p] # << >> /\ net'[p] = t /\ net'[q] = net[q]
  BY <1>1 DEF Lose, IInv, TypeOK
<1>3. x \in Halves /\ y \in Halves /\ y.sent = net[p]
  BY <1>1, HalfType
<1>4. Rest(y.sent, t)
  BY <1>2, <1>3 DEF Rest
<1>5. Both(q \in Clients, MaxData[q], MaxData[p], x, y)
  BY <1>1 DEF Agree
<1>6. x = Half(q)' /\ Queued(y, t) = Half(p)'
  <2>1. /\ Half(p)' = [c |-> con'[p], sent |-> net'[p], last |-> submitted'[p],
                       heard |-> Len(delivered'[p])]
        /\ Half(q)' = [c |-> con'[q], sent |-> net'[q], last |-> submitted'[q],
                       heard |-> Len(delivered'[q])]
    BY <1>1, HalfPrime
  <2>. QED
    BY <1>2, <2>1 DEF Half, Queued
<1>. HIDE DEF x, y, t
<1>7. Both(q \in Clients, MaxData[q], MaxData[p], x, Queued(y, t))
  <2>1. (q \in Clients) \in BOOLEAN
    OBVIOUS
  <2>. QED
    BY <1>3, <1>4, <1>5, <2>1, LoseBoth
<1>8. Both(q \in Clients, MaxData[q], MaxData[Other(q)], x, Queued(y, t))
      /\ x = Half(q)' /\ Queued(y, t) = Half(Other(q))'
  BY <1>1, <1>6, <1>7
<1>9. \A z \in Peers : Placed(z)'
  BY <1>2 DEF Agree, Placed
<1>. HIDE DEF q
<1>. QED
  BY <1>1, <1>8, <1>9, AgreeStep

(* Until a connection is opened, nothing else can happen.                   *)
LEMMA OnlyOpens ==
  ASSUME NEW p \in Peers, \A q \in Peers : Untouched(q),
         \/ DeleteCon(p) \/ Restart(p) \/ Timeout(p) \/ Lose(p)
         \/ \E ret \in Returns : Submit(p, ret)
         \/ ReceiveAny(p)
  PROVE  FALSE
<1>1. /\ ~con[p].open /\ ~con[p].timer /\ con[p].state = "Idle"
      /\ net[p] = << >> /\ net[Other(p)] = << >>
  BY OtherPeer DEF Untouched, FreshCon, ClosedCon
<1>. QED
  BY <1>1 DEF DeleteCon, Restart, Timeout, Lose, Submit, ReceiveAny, ReceiveIdle, ReceiveInit1,
              ReceiveInit2, ReceiveInit3, ReceiveConnected, ReceiveWaitAck, Expecting

LEMMA OpenFirst ==
  ASSUME IInv, OneClient, NEW p \in Peers, \A q \in Peers : Untouched(q), Agree(p), InitCon(p)
  PROVE  \A q \in Peers : Agree(q)'
<1>. DEFINE q == Other(p)
            v == Work(p)
            x == Half(p)
            y == Half(q)
            a == MaxData[p]
            b == MaxData[q]
            k == Quietly(p)
            r == Byte(0, 1)
            s == Byte(0, 0)
            d1 == [v.c EXCEPT !.open = TRUE, !.recvSeqNum = r, !.sendSeqNum = s]
            w1 == [v EXCEPT !.c.open = TRUE, !.c.recvSeqNum = Byte(0, 1),
                            !.c.sendSeqNum = Byte(0, 0)]
            u  == SendEmpty(w1)
            h  == Frame(w1.c, 0)
            d2 == [u.c EXCEPT !.flow = FALSE, !.state = "Init1", !.timer = TRUE]
            w3 == [u EXCEPT !.c.flow = FALSE, !.c.state = "Init1", !.c.timer = TRUE]
            w2 == IF Full(w1) THEN w1 ELSE w3
<1>1. /\ q \in Peers /\ q # p /\ x \in Halves /\ y \in Halves
      /\ x.c = con[p] /\ y.c = con[q] /\ x.sent = net[p] /\ y.sent = net[q]
      /\ x.last = submitted[p] /\ x.heard = Len(delivered[p])
      /\ y.last = submitted[q] /\ y.heard = Len(delivered[q])
      /\ net \in [Peers -> Seq(Frames)]
  BY OtherPeer, HalfType DEF Half, IInv, TypeOK
<1>2. Both(TRUE, a, b, x, y)
  <2>1. (p \in Clients) = TRUE
    BY DEF InitCon
  <2>. QED
    BY <2>1 DEF Agree
<1>3. /\ Blank(x, y) /\ x.sent = << >> /\ y.sent = << >>
      /\ x.c.state = "Idle" /\ y.c.state = "Idle"
  BY <1>1 DEF Blank, Untouched, FreshCon, ClosedCon
<1>4. v.c = con[p] /\ v \in WorkType /\ v.c \in Connections /\ Still(v, x, k)
  <2>1. Agree(p)
    OBVIOUS
  <2>. QED
    BY <2>1, WorkQuiet
<1>5. /\ r \in Bytes /\ s \in Bytes /\ r.num = 0 /\ s.num = 0 /\ s.con = 0
  BY Sizes DEF Byte, Bytes
<1>6. w1 = [v EXCEPT !.c = d1]
  BY <1>4 DEF WorkType
<1>7. Finish(p, w2) /\ net' = [net EXCEPT ![p] = @ \o w2.out]
  BY DEF InitCon
<1>. HIDE DEF r, s, v, x, y, k, a, b
<1>8. /\ d1 \in Connections /\ d1.state = "Idle" /\ d1.recvSeqNum = r /\ d1.sendSeqNum = s
      /\ d1.frames = v.c.frames
  BY <1>1, <1>3, <1>4, <1>5 DEF Connections
<1>. HIDE DEF d1, w1
<1>9. Still(w1, x, k) /\ w1.c = d1
  BY <1>4, <1>6, <1>8, StillPut
<1>10. /\ Typed(u, k.room) /\ u.c = w1.c /\ u.got = << >> /\ u.last = x.last
       /\ h \in Frames /\ h.scon = w1.c.recvSeqNum /\ h.rcon = w1.c.sendSeqNum
       /\ h.data = 0
       /\ u.out = IF Full(w1) THEN << >> ELSE << h >>
  BY <1>9, StillSends
<1>. HIDE DEF u, h
<1>11. u \in WorkType /\ u.c \in Connections
  BY <1>10, WorkParts
<1>12. w3 = [u EXCEPT !.c = d2]
  BY <1>11 DEF WorkType
<1>13. d2 \in Connections /\ d2.state = "Init1" /\ d2.frames = u.c.frames
  BY <1>11 DEF Connections, States
<1>. HIDE DEF d2, w3
<1>14. /\ w3.c = d2 /\ w3.out = u.out /\ w3.last = u.last /\ w3.got = u.got
  BY <1>10, <1>12, <1>13, PutCon
<1>15. /\ w1.out = << >> /\ w1.got = << >> /\ w1.last = x.last /\ w1.c.frames = x.c.frames
  BY <1>9 DEF Still
<1>16. /\ w2.out \in {<< >>, << h >>} /\ w2.got = << >> /\ w2.last = x.last
       /\ w2.c \in Connections /\ w2.c.frames = x.c.frames /\ w2.c.state \in {"Idle", "Init1"}
  <2>1. CASE Full(w1)
    BY <1>8, <1>9, <1>15, <2>1
  <2>2. CASE ~Full(w1)
    BY <1>10, <1>13, <1>14, <1>15, <2>2
  <2>. QED
    BY <2>1, <2>2
<1>. HIDE DEF w2
<1>17. /\ Len(w2.out) <= 1 /\ w2.out \in Seq(Frames)
       /\ \A i \in 1 .. Len(w2.out) : w2.out[i] = h
  <2>. DEFINE o == w2.out
  <2>1. o \in {<< >>, << h >>} /\ h \in Frames
    BY <1>10, <1>16
  <2>. HIDE DEF o
  <2>2. Len(o) <= 1 /\ \A i \in 1 .. Len(o) : o[i] = h
    BY <2>1, OneSent
  <2>3. o \in Seq(Frames)
    <3>1. \A e \in Frames : << e >> \in Seq(Frames) /\ << >> \in Seq(Frames)
      OBVIOUS
    <3>. QED
      BY <2>1, <3>1
  <2>. QED
    BY <2>2, <2>3 DEF o
<1>18. h.scon.num = 0 /\ h.rcon.num = 0 /\ h.rcon.con = 0 /\ h.data = 0
  BY <1>5, <1>8, <1>9, <1>10
<1>19. Shake(w2, x) /\ \A i \in 1 .. Len(w2.out) : w2.out[i].rcon.con = 0
  BY <1>16, <1>17, <1>18 DEF Shake, Established
<1>20. Both(TRUE, a, b, Moved(x, w2, x.heard), Queued(y, y.sent))
  BY <1>1, <1>2, <1>3, <1>16, <1>19, ShakeOpens
<1>21. /\ x.heard + Len(w2.got) = x.heard /\ w2.got \in Seq(Nat)
       /\ Fits(w2.got, Half(p).heard)
  BY <1>1, <1>16, FitsNone DEF Halves
<1>. DEFINE t == y.sent
<1>22. net'[p] = net[p] \o w2.out /\ net'[q] = t
  BY <1>1, <1>7
<1>. HIDE DEF t
<1>23. Both(p \in Clients, MaxData[p], MaxData[Other(p)],
            Moved(Half(p), w2, Half(p).heard + Len(w2.got)), Queued(Half(Other(p)), t))
  <2>1. (p \in Clients) = TRUE
    BY DEF InitCon
  <2>2. Both(TRUE, a, b, Moved(x, w2, x.heard + Len(w2.got)), Queued(y, t))
    BY <1>20, <1>21 DEF t
  <2>. QED
    BY <2>1, <2>2 DEF x, y, a, b
<1>. HIDE DEF q
<1>. QED
  BY <1>7, <1>21, <1>22, <1>23, FirstStep DEF q

LEMMA FirstInit ==
  ASSUME Init
  PROVE  FirstInv
<1>. DEFINE d == FreshCon
<1>1. \A p \in Peers : /\ con[p] = d /\ net[p] = << >> /\ submitted[p] = 0
                       /\ delivered[p] = << >>
  BY DEF Init
<1>2. d.state = "Idle" /\ ~Established(d)
  BY DEF FreshCon, ClosedCon, Established
<1>3. Stock(d, 0, 0)
  BY ClosedStock
<1>. HIDE DEF d
<1>4. ASSUME NEW limit PROVE Reports(<< >>, 0, 0, 0, limit)
  <2>1. Counts(<< >>, << >>, 0, 0, 0, limit)
    BY DEF Counts
  <2>2. << >> \in Seq(Nat)
    OBVIOUS
  <2>. QED
    BY <2>1, <2>2 DEF Reports
<1>4a. Numbered(<< >>, 0, 0) /\ 0 <= 0 + HistorySize
  <2>1. Carries(<< >>, << >>, 0, 0) /\ << >> \in Seq(Nat)
    BY DEF Carries
  <2>. QED
    <3>1. 0 <= 0 /\ 0 <= 0 + HistorySize
      BY Sizes
    <3>. QED
      BY <2>1, <3>1 DEF Numbered
<1>4b. \A q \in Peers : Placed(q)
  BY <1>1 DEF Placed
<1>5. ASSUME NEW p \in Peers PROVE Agree(p)
  <2>. DEFINE x == Half(p)
              y == Half(Other(p))
              a == MaxData[p]
              b == MaxData[Other(p)]
              client == p \in Clients
  <2>1. /\ x.c = d /\ x.sent = << >> /\ x.last = 0 /\ x.heard = 0
        /\ y.c = d /\ y.sent = << >> /\ y.last = 0 /\ y.heard = 0
    BY <1>1, OtherPeer DEF Half
  <2>2. a \in Nat /\ b \in Nat /\ client \in BOOLEAN
    BY OtherPeer, BoundsAssumption
  <2>. HIDE DEF x, y, a, b, client
  <2>3. Freed(x) = 0 /\ Freed(y) = 0
    BY <1>2, <2>1 DEF Freed
  <2>4. Account(a, x, y) /\ Account(b, y, x)
    BY <1>2, <1>3, <1>4, <1>4a, <2>1, <2>2, <2>3 DEF Account, Runs
  <2>5. \A i \in 1 .. Len(<< >>) : FALSE
    OBVIOUS
  <2>6. ClientSide(x, y) /\ ClientSide(y, x) /\ ServerSide(x, y) /\ ServerSide(y, x)
    BY <1>2, <2>1, <2>5 DEF ClientSide, ServerSide, InitStates
  <2>7. Both(client, a, b, x, y)
    BY <2>4, <2>6 DEF Both, Side
  <2>. QED
    BY <1>4b, <2>7 DEF Agree, x, y, a, b, client
<1>6. \A p \in Peers : Untouched(p)
  BY <1>1 DEF Untouched, d
<1>. QED
  BY <1>5, <1>6 DEF FirstInv

LEMMA FirstNext ==
  ASSUME IInv, OneClient, Unmistaken, FirstInv, Next
  PROVE  FirstInv'
<1>1. PICK p \in Peers : \/ InitCon(p)
                         \/ DeleteCon(p) \/ Restart(p) \/ Timeout(p) \/ Lose(p)
                         \/ \E ret \in Returns : Submit(p, ret)
                         \/ ReceiveAny(p)
  BY DEF Next
<1>2. opened \in Nat
  BY BoundsAssumption DEF IInv, TypeOK
<1>3. Other(p) \in Peers
  BY OtherPeer
<1>4. CASE InitCon(p)
  <2>1. opened' = opened + 1
    BY <1>4 DEF InitCon
  <2>2. CASE opened = 0
    <3>1. \A q \in Peers : Untouched(q) /\ Agree(q)
      BY <2>2 DEF FirstInv
    <3>2. \A q \in Peers : Agree(q)'
      BY <1>4, <3>1, OpenFirst
    <3>3. opened' # 0
      BY <2>1, <2>2
    <3>. QED
      BY <3>2, <3>3 DEF FirstInv
  <2>3. CASE opened # 0
    <3>1. ~(opened' <= 1) /\ opened' # 0
      BY <1>2, <2>1, <2>3
    <3>. QED
      BY <3>1 DEF FirstInv
  <2>. QED
    BY <2>2, <2>3
<1>5. CASE \/ DeleteCon(p) \/ Restart(p) \/ Timeout(p) \/ Lose(p)
           \/ \E ret \in Returns : Submit(p, ret)
           \/ ReceiveAny(p)
  <2>0. opened' = opened
    <3>1. ASSUME NEW w, Receive(p, w) PROVE opened' = opened
      BY <3>1 DEF Receive
    <3>2. ReceiveAny(p) => opened' = opened
      BY <3>1 DEF ReceiveAny, ReceiveIdle, ReceiveInit1, ReceiveInit2, ReceiveInit3,
                  ReceiveConnected, ReceiveWaitAck
    <3>3. /\ DeleteCon(p) => opened' = opened
          /\ Restart(p) => opened' = opened
          /\ \A ret \in Returns : Submit(p, ret) => opened' = opened
      BY DEF DeleteCon, Restart, Submit
    <3>4. /\ Timeout(p) => opened' = opened
          /\ Lose(p) => opened' = opened
      BY DEF Timeout, Lose
    <3>. QED
      BY <1>5, <3>2, <3>3, <3>4
  <2>1. opened # 0
    BY <1>5, OnlyOpens DEF FirstInv
  <2>2. ASSUME opened <= 1 PROVE \A q \in Peers : Agree(q)'
    <3>1. Agree(p) /\ Agree(Other(p))
      BY <1>3, <2>2 DEF FirstInv
    <3>. QED
      BY <1>5, <3>1, CommandFirst, TimeoutFirst, LoseFirst, ReceiveFirst
  <2>. QED
    BY <2>0, <2>1, <2>2 DEF FirstInv
<1>. QED
  BY <1>1, <1>4, <1>5

LEMMA FirstHolds ==
  ASSUME OneClient, Unmistaken
  PROVE  Spec => []FirstInv
<1>1. Init => FirstInv
  BY FirstInit
<1>2. IInv /\ FirstInv /\ [Next]_vars => FirstInv'
  <2>. SUFFICES ASSUME IInv, FirstInv, [Next]_vars PROVE FirstInv'
    OBVIOUS
  <2>1. CASE UNCHANGED vars
    <3>1. ASSUME NEW p \in Peers, Agree(p) PROVE Agree(p)'
      <4>1. /\ Both(p \in Clients, MaxData[p], MaxData[Other(p)], Half(p), Half(Other(p)))
            /\ \A q \in Peers : Placed(q)
        BY <3>1 DEF Agree
      <4>2. \A q \in Peers : Placed(q)'
        BY <2>1, <4>1 DEF Placed, vars
      <4>. QED
        BY <2>1, <4>1, <4>2, HalfPrime DEF vars, Half
    <3>. QED
      BY <2>1, <3>1 DEF FirstInv, Untouched, vars
  <2>2. CASE Next
    BY <2>2, FirstNext
  <2>. QED
    BY <2>1, <2>2
<1>. QED
  BY <1>1, <1>2, IInvHolds, PTL DEF Spec

(* What a node's history no longer holds was taken over: during the first    *)
(* connection the partner's command layer was handed each payload that an    *)
(* acknowledgement has released, or an empty frame with its number, and      *)
(* never another payload in its place, although frames are lost and data are *)
(* sent again with the acknowledgement of their first sending.  It holds if  *)
(* such an old acknowledgement cannot be taken for a new one, which          *)
(* Unmistaken says, and if one node opens the connection and the other       *)
(* answers.                                                                  *)
THEOREM SpecAckedWasTaken ==
  ASSUME OneClient, Unmistaken
  PROVE  Spec => []AckedWasTaken
<1>1. IInv /\ FirstInv => AckedWasTaken
  <2>. SUFFICES ASSUME IInv, FirstInv, NEW p \in Peers, Established(con[p]), opened <= 1,
                       NEW i \in 1 .. (submitted[p] - Used(con[p]))
                PROVE  /\ i <= Len(delivered[Other(p)])
                       /\ delivered[Other(p)][i] \in {i, 0}
    BY DEF AckedWasTaken
  <2>. DEFINE S == submitted[p]
              U == Used(con[p])
              D == Len(delivered[Other(p)])
  <2>1. /\ Both(p \in Clients, MaxData[p], MaxData[Other(p)], Half(p), Half(Other(p)))
        /\ Placed(Other(p))
    BY OtherPeer DEF FirstInv, Agree
  <2>2. S <= U + D
    BY <2>1 DEF Both, Account, Paid, Half
  <2>3. S \in Nat /\ D \in Nat /\ U \in Nat /\ i \in 1 .. S - U
    BY TypeParts, OtherPeer, Parts, Sizes
  <2>. HIDE DEF S, U, D
  <2>4. i \in 1 .. D
    BY <2>2, <2>3
  <2>. QED
    BY <2>1, <2>4 DEF Placed, D
<1>. QED
  BY <1>1, FirstHolds, IInvHolds, PTL
=============================================================================
