--------------------------- MODULE NmtMnu_proofs ----------------------------
(***************************************************************************)
(* The types of NmtMnu and SignalAgrees hold for every choice of the       *)
(* constants: any number of nodes, optional, mandatory or async-only,      *)
(* configured or not, any faults, and a user thread any number of events   *)
(* behind.                                                                 *)
(*                                                                         *)
(* signalSlaveCount is set to the number of nodes that the new stage waits *)
(* for, and only their flags are set.  It agrees with the flags only if no *)
(* other flag is left, that is, if the MN enters a stage with the counter  *)
(* at zero.  The kernel enters it first and tells the user thread by an    *)
(* event: the invariant says what NMT states are on their way (Queued).    *)
(***************************************************************************)
EXTENDS NmtMnu, FiniteSetTheorems, SequenceTheorems, TLAPS

NodeType == [state : NodeStates, flags : SUBSET Flags, exp : CnStates,
             cur : CnStates, sr : SrTimers \cup {"none"},
             lo : {"none", "ReadyToOp", "CheckCom"}, cfm : CfmStates, match : BOOLEAN]
UserEvents == [type : SrTimers \cup {"Longer"} \cup NodeCmds, node : CN,
               age : 0 .. CounterSize - 1, old : {"no", "modified", "deleted"}]
KernelEvents == [type : {"StateChange", "NodeAdded", "CmdSent", "Heartbeat", "Ident", "Status"},
                 node : CN \cup {0, Broadcast}, nmt : MnStates, flag : BOOLEAN]
Commands == [cmd : DOMAIN Expected, to : CN \cup {Broadcast}]
Queues == {"tx", "iq", "sq"}
RecType == [mn : MnStates, kmn : MnStates, mand : Int, signal : Int, informed : BOOLEAN,
            node : [CN -> NodeType], ident : SUBSET CN, status : SUBSET CN,
            iq : Seq(CN), sq : Seq(CN), tx : Seq(Commands), turn : Queues,
            kiso : SUBSET CN, seen : [CN -> CnStates], uint : Seq(UserEvents),
            k2u : Seq(KernelEvents)]

Unscanned(r) == {n \in CN : "NOT_SCANNED" \in r.node[n].flags}

(* The NMT states on their way to the user thread.  At most one advances   *)
(* the MN, and nothing has moved since it was ready for that; behind it    *)
(* there may be one that takes the MN back to PreOp1.                      *)
Pending(r) == {i \in DOMAIN r.k2u : r.k2u[i].type = "StateChange"}
Before(s) == CASE s = "PreOp2" -> "PreOp1" [] s = "ReadyToOp" -> "PreOp2" [] OTHER -> "ReadyToOp"
Falls(r, i) == /\ r.kmn = "PreOp1" /\ (r.mn = "PreOp1" => r.informed)
               /\ \A j \in Pending(r) : j <= i
Advances(r, i) == /\ r.k2u[i].nmt # "NotActive" /\ r.informed /\ r.signal = 0
                  /\ r.mn = Before(r.k2u[i].nmt)
                  /\ \A j \in Pending(r) : i <= j
                  /\ \/ r.kmn = r.k2u[i].nmt
                     \/ \E j \in Pending(r) : r.k2u[j].nmt = "PreOp1"
Queued(r) == /\ \A i \in Pending(r) : IF r.k2u[i].nmt = "PreOp1" THEN Falls(r, i) ELSE Advances(r, i)
             /\ Pending(r) = {} => r.mn = r.kmn
NodeEvents(r) == \A i \in DOMAIN r.k2u :
                    r.k2u[i].type \notin {"StateChange", "CmdSent"} => r.k2u[i].node \in CN

Inv(r) == /\ r \in RecType /\ r.signal = Cardinality(Unscanned(r))
          /\ Queued(r) /\ NodeEvents(r)
(* What leaves all of it alone.                                            *)
Keeps(r, v) == /\ v \in RecType /\ v.k2u = r.k2u /\ v.mn = r.mn /\ v.kmn = r.kmn
               /\ v.informed = r.informed /\ v.signal = r.signal
               /\ Unscanned(v) = Unscanned(r)

LEMMA KeepsInv ==
  ASSUME NEW r, NEW v, Inv(r), Keeps(r, v)
  PROVE  Inv(v)
<1>0. /\ v.k2u = r.k2u /\ v.mn = r.mn /\ v.kmn = r.kmn
      /\ v.informed = r.informed /\ v.signal = r.signal
  BY DEF Keeps
<1>1. Pending(v) = Pending(r)
  BY <1>0 DEF Pending
<1>2. Queued(v)
  <2>1. Queued(r)
    BY DEF Inv
  <2>2. \A i : Falls(v, i) <=> Falls(r, i)
    BY <1>0, <1>1 DEF Falls
  <2>3. \A i : Advances(v, i) <=> Advances(r, i)
    BY <1>0, <1>1 DEF Advances
  <2>. QED
    BY <1>0, <1>1, <2>1, <2>2, <2>3 DEF Queued
<1>3. NodeEvents(v)
  <2>1. NodeEvents(r)
    BY DEF Inv
  <2>. QED
    BY <1>0, <2>1 DEF NodeEvents
<1>. QED
  BY <1>2, <1>3 DEF Inv, Keeps

LEMMA KeepsBoth ==
  ASSUME NEW r, NEW v, NEW w, Keeps(r, v), Keeps(v, w)
  PROVE  Keeps(r, w)
BY DEF Keeps

LEMMA Nodes ==
  /\ IsFiniteSet(CN) /\ CN \subseteq 1 .. 254 /\ 0 \notin CN /\ Broadcast \notin CN
  /\ Mandatory \subseteq CN /\ AsyncOnly \subseteq CN
<1>. DEFINE first == 1
            last == 254
<1>1. first \in Int /\ last \in Int
  OBVIOUS
<1>2. CN \subseteq first .. last /\ 0 \notin CN /\ 255 \notin CN
  BY NodeAssumption
<1>3. Mandatory \subseteq CN /\ AsyncOnly \subseteq CN
  BY NodeAssumption
<1>4. IsFiniteSet(CN)
  <2>. HIDE DEF first, last
  <2>1. IsFiniteSet(first .. last)
    BY <1>1, FS_Interval
  <2>. QED
    BY <1>2, <2>1, FS_Subset
<1>. QED
  BY <1>2, <1>3, <1>4 DEF Broadcast

LEMMA Counting ==
  ASSUME NEW N \in SUBSET CN
  PROVE  /\ IsFiniteSet(N) /\ Cardinality(N) \in Nat /\ Cardinality(N) <= Cardinality(CN)
         /\ Cardinality(N) = 0 <=> N = {}
BY Nodes, FS_Subset, FS_CardinalityType, FS_EmptySet

-----------------------------------------------------------------------------
(* The parts of the record that nothing else depends on.                   *)
LEMMA Parts ==
  ASSUME NEW r \in RecType
  PROVE  /\ r.mn \in MnStates /\ r.kmn \in MnStates /\ r.mand \in Int /\ r.signal \in Int
         /\ r.informed \in BOOLEAN /\ r.node \in [CN -> NodeType]
         /\ r.ident \in SUBSET CN /\ r.status \in SUBSET CN /\ r.iq \in Seq(CN) /\ r.sq \in Seq(CN)
         /\ r.tx \in Seq(Commands) /\ r.turn \in Queues /\ r.kiso \in SUBSET CN
         /\ r.seen \in [CN -> CnStates] /\ r.uint \in Seq(UserEvents) /\ r.k2u \in Seq(KernelEvents)
BY DEF RecType

LEMMA NodeParts ==
  ASSUME NEW d \in NodeType
  PROVE  /\ d.state \in NodeStates /\ d.flags \in SUBSET Flags /\ d.exp \in CnStates
         /\ d.cur \in CnStates /\ d.sr \in SrTimers \cup {"none"}
         /\ d.lo \in {"none", "ReadyToOp", "CheckCom"} /\ d.cfm \in CfmStates /\ d.match \in BOOLEAN
BY DEF NodeType

Alike(d, e) == e \in NodeType /\ ("NOT_SCANNED" \in e.flags <=> "NOT_SCANNED" \in d.flags)

LEMMA PutNodes ==
  ASSUME NEW r \in RecType, NEW node \in [CN -> NodeType], \A n \in CN : Alike(r.node[n], node[n])
  PROVE  Keeps(r, [r EXCEPT !.node = node])
<1>. DEFINE v == [r EXCEPT !.node = node]
<1>1. v \in RecType
  BY DEF RecType
<1>2. /\ v.node = node /\ v.k2u = r.k2u /\ v.mn = r.mn /\ v.kmn = r.kmn
      /\ v.informed = r.informed /\ v.signal = r.signal
  BY DEF RecType
<1>. HIDE DEF v
<1>3. Unscanned(v) = Unscanned(r)
  BY <1>2 DEF Unscanned, Alike
<1>4. Keeps(r, v)
  BY <1>1, <1>2, <1>3 DEF Keeps
<1>. QED
  BY <1>4 DEF v

LEMMA PutNode ==
  ASSUME NEW r \in RecType, NEW n \in CN, NEW d, Alike(r.node[n], d)
  PROVE  Keeps(r, [r EXCEPT !.node[n] = d])
<1>. DEFINE node == [r.node EXCEPT ![n] = d]
<1>1. r.node \in [CN -> NodeType] /\ d \in NodeType
  BY Parts DEF Alike
<1>2. node \in [CN -> NodeType]
  BY <1>1
<1>3. \A k \in CN : Alike(r.node[k], node[k])
  BY <1>1 DEF Alike
<1>4. [r EXCEPT !.node[n] = d] = [r EXCEPT !.node = node]
  OBVIOUS
<1>. HIDE DEF node
<1>. QED
  BY <1>2, <1>3, <1>4, PutNodes

LEMMA PutState ==
  ASSUME NEW r \in RecType, NEW n \in CN, NEW s \in NodeStates
  PROVE  Keeps(r, [r EXCEPT !.node[n].state = s])
<1>1. r.node[n] \in NodeType
  BY Parts
<1>2. Alike(r.node[n], [r.node[n] EXCEPT !.state = s])
  BY <1>1 DEF NodeType, Alike
<1>3. [r EXCEPT !.node[n].state = s] = [r EXCEPT !.node[n] = [r.node[n] EXCEPT !.state = s]]
  OBVIOUS
<1>. QED
  BY <1>2, <1>3, PutNode

LEMMA PutExp ==
  ASSUME NEW r \in RecType, NEW n \in CN, NEW s \in CnStates
  PROVE  Keeps(r, [r EXCEPT !.node[n].exp = s])
<1>1. r.node[n] \in NodeType
  BY Parts
<1>2. Alike(r.node[n], [r.node[n] EXCEPT !.exp = s])
  BY <1>1 DEF NodeType, Alike
<1>3. [r EXCEPT !.node[n].exp = s] = [r EXCEPT !.node[n] = [r.node[n] EXCEPT !.exp = s]]
  OBVIOUS
<1>. QED
  BY <1>2, <1>3, PutNode

LEMMA PutCur ==
  ASSUME NEW r \in RecType, NEW n \in CN, NEW s \in CnStates
  PROVE  Keeps(r, [r EXCEPT !.node[n].cur = s])
<1>1. r.node[n] \in NodeType
  BY Parts
<1>2. Alike(r.node[n], [r.node[n] EXCEPT !.cur = s])
  BY <1>1 DEF NodeType, Alike
<1>3. [r EXCEPT !.node[n].cur = s] = [r EXCEPT !.node[n] = [r.node[n] EXCEPT !.cur = s]]
  OBVIOUS
<1>. QED
  BY <1>2, <1>3, PutNode

LEMMA PutCfm ==
  ASSUME NEW r \in RecType, NEW n \in CN, NEW s \in CfmStates
  PROVE  Keeps(r, [r EXCEPT !.node[n].cfm = s])
<1>1. r.node[n] \in NodeType
  BY Parts
<1>2. Alike(r.node[n], [r.node[n] EXCEPT !.cfm = s])
  BY <1>1 DEF NodeType, Alike
<1>3. [r EXCEPT !.node[n].cfm = s] = [r EXCEPT !.node[n] = [r.node[n] EXCEPT !.cfm = s]]
  OBVIOUS
<1>. QED
  BY <1>2, <1>3, PutNode

LEMMA PutMatch ==
  ASSUME NEW r \in RecType, NEW n \in CN, NEW s \in BOOLEAN
  PROVE  Keeps(r, [r EXCEPT !.node[n].match = s])
<1>1. r.node[n] \in NodeType
  BY Parts
<1>2. Alike(r.node[n], [r.node[n] EXCEPT !.match = s])
  BY <1>1 DEF NodeType, Alike
<1>3. [r EXCEPT !.node[n].match = s] = [r EXCEPT !.node[n] = [r.node[n] EXCEPT !.match = s]]
  OBVIOUS
<1>. QED
  BY <1>2, <1>3, PutNode

LEMMA PutUserQueue ==
  ASSUME NEW r \in RecType, NEW q \in Seq(UserEvents)
  PROVE  Keeps(r, [r EXCEPT !.uint = q])
BY DEF RecType, Keeps, Unscanned

LEMMA PutMand ==
  ASSUME NEW r \in RecType, NEW k \in Int
  PROVE  Keeps(r, [r EXCEPT !.mand = k])
BY DEF RecType, Keeps, Unscanned

-----------------------------------------------------------------------------
(* The helpers.                                                            *)
Others == SUBSET (Flags \ {"NOT_SCANNED"})

LEMMA PutFlags ==
  ASSUME NEW r \in RecType, NEW n \in CN, NEW F \in SUBSET Flags,
         "NOT_SCANNED" \in F <=> "NOT_SCANNED" \in r.node[n].flags
  PROVE  Keeps(r, [r EXCEPT !.node[n].flags = F])
<1>1. r.node[n] \in NodeType
  BY Parts
<1>2. Alike(r.node[n], [r.node[n] EXCEPT !.flags = F])
  BY <1>1 DEF NodeType, Alike
<1>3. [r EXCEPT !.node[n].flags = F] = [r EXCEPT !.node[n] = [r.node[n] EXCEPT !.flags = F]]
  OBVIOUS
<1>. QED
  BY <1>2, <1>3, PutNode

LEMMA FlagsKeep ==
  ASSUME NEW r \in RecType, NEW n \in CN, NEW F \in Others
  PROVE  Keeps(r, SetFlags(r, n, F)) /\ Keeps(r, ClearFlags(r, n, F))
<1>1. r.node[n].flags \in SUBSET Flags
  BY Parts, NodeParts
<1>2. Keeps(r, [r EXCEPT !.node[n].flags = r.node[n].flags \cup F])
  BY <1>1, PutFlags DEF Others
<1>3. Keeps(r, [r EXCEPT !.node[n].flags = r.node[n].flags \ F])
  BY <1>1, PutFlags DEF Others
<1>. QED
  BY <1>2, <1>3 DEF SetFlags, ClearFlags

LEMMA ModifiedType ==
  ASSUME NEW q \in Seq(UserEvents), NEW N, NEW K
  PROVE  Modified(q, N, K) \in Seq(UserEvents) /\ Deleted(q, N, K) \in Seq(UserEvents)
<1>1. ASSUME NEW e \in UserEvents
      PROVE  /\ [e EXCEPT !.age = (@ + 1) % CounterSize, !.old = "modified"] \in UserEvents
             /\ [e EXCEPT !.old = "deleted"] \in UserEvents
  <2>1. e.age \in 0 .. 3
    BY DEF UserEvents, CounterSize
  <2>2. (e.age + 1) % CounterSize \in 0 .. CounterSize - 1
    BY <2>1 DEF CounterSize
  <2>. QED
    BY <2>2 DEF UserEvents
<1>2. Modified(q, N, K) \in [1 .. Len(q) -> UserEvents] /\ Deleted(q, N, K) \in [1 .. Len(q) -> UserEvents]
  <2>1. DOMAIN q = 1 .. Len(q) /\ \A i \in DOMAIN q : q[i] \in UserEvents
    OBVIOUS
  <2>2. /\ Modified(q, N, K) = [i \in 1 .. Len(q) |-> Modified(q, N, K)[i]]
        /\ \A i \in 1 .. Len(q) : Modified(q, N, K)[i] \in UserEvents
    BY <1>1, <2>1 DEF Modified
  <2>3. /\ Deleted(q, N, K) = [i \in 1 .. Len(q) |-> Deleted(q, N, K)[i]]
        /\ \A i \in 1 .. Len(q) : Deleted(q, N, K)[i] \in UserEvents
    BY <1>1, <2>1 DEF Deleted
  <2>. QED
    BY <2>2, <2>3
<1>. QED
  BY <1>2

LEMMA StartSrKeeps ==
  ASSUME NEW r \in RecType, NEW N, NEW k \in SrTimers
  PROVE  Keeps(r, StartSr(r, N, k))
<1>. DEFINE u == Modified(r.uint, N, SrTimers)
            node == [n \in CN |-> IF n \in N THEN [r.node[n] EXCEPT !.sr = k] ELSE r.node[n]]
            v == [r EXCEPT !.node = node]
<1>1. u \in Seq(UserEvents)
  BY ModifiedType, Parts
<1>2. \A n \in CN : node[n] \in NodeType /\ Alike(r.node[n], node[n])
  <2>1. ASSUME NEW n \in CN
        PROVE  LET e == [r.node[n] EXCEPT !.sr = k] IN e \in NodeType /\ e.flags = r.node[n].flags
    <3>1. r.node[n] \in NodeType
      BY Parts
    <3>. QED
      BY <3>1 DEF NodeType
  <2>. QED
    BY <2>1, Parts DEF Alike
<1>3. StartSr(r, N, k) = [v EXCEPT !.uint = u]
  BY DEF StartSr
<1>4. Keeps(r, v)
  <2>1. node \in [CN -> NodeType]
    BY <1>2
  <2>. HIDE DEF node
  <2>. QED
    BY <1>2, <2>1, PutNodes
<1>5. v \in RecType
  BY <1>4 DEF Keeps
<1>. HIDE DEF v, u
<1>6. Keeps(v, [v EXCEPT !.uint = u])
  BY <1>1, <1>5, PutUserQueue
<1>. QED
  BY <1>3, <1>4, <1>6, KeepsBoth

LEMMA PutLonger ==
  ASSUME NEW r \in RecType, NEW n \in CN, NEW lo \in {"none", "ReadyToOp", "CheckCom"},
         NEW q \in Seq(UserEvents)
  PROVE  Keeps(r, [r EXCEPT !.node[n].lo = lo, !.uint = q])
<1>1. r.node[n] \in NodeType
  BY Parts
<1>2. Alike(r.node[n], [r.node[n] EXCEPT !.lo = lo])
  BY <1>1 DEF NodeType, Alike
<1>. DEFINE v == [r EXCEPT !.node[n] = [r.node[n] EXCEPT !.lo = lo]]
<1>3. [r EXCEPT !.node[n].lo = lo, !.uint = q] = [v EXCEPT !.uint = q]
  OBVIOUS
<1>4. Keeps(r, v)
  BY <1>2, PutNode
<1>5. v \in RecType
  BY <1>4 DEF Keeps
<1>. HIDE DEF v
<1>. QED
  BY <1>3, <1>4, <1>5, PutUserQueue, KeepsBoth

LEMMA LongerKeeps ==
  ASSUME NEW r \in RecType, NEW n \in CN
  PROVE  /\ \A lo \in {"ReadyToOp", "CheckCom"} : Keeps(r, StartLonger(r, n, lo))
         /\ Keeps(r, DeleteLonger(r, n))
BY Parts, ModifiedType, PutLonger DEF StartLonger, DeleteLonger

LEMMA PutCommands ==
  ASSUME NEW r \in RecType, NEW q \in Seq(Commands), NEW K \in SUBSET CN
  PROVE  Keeps(r, [r EXCEPT !.tx = q, !.kiso = K])
BY DEF RecType, Keeps, Unscanned

LEMMA SendKeeps ==
  ASSUME NEW r \in RecType, NEW to \in CN \cup {Broadcast}, NEW cmd \in DOMAIN Expected
  PROVE  Keeps(r, Send(r, to, cmd))
<1>. DEFINE q == Append(r.tx, [cmd |-> cmd, to |-> to])
            K == IF cmd \in Resets THEN r.kiso \ Destinations(to) ELSE r.kiso
<1>1. r.tx \in Seq(Commands) /\ r.kiso \in SUBSET CN /\ [cmd |-> cmd, to |-> to] \in Commands
  BY Parts DEF Commands
<1>2. q \in Seq(Commands) /\ K \in SUBSET CN
  BY <1>1
<1>3. Send(r, to, cmd) = [r EXCEPT !.tx = q, !.kiso = K]
  <2>1. CASE cmd \in Resets
    BY <2>1 DEF Send
  <2>2. CASE cmd \notin Resets
    BY <2>2 DEF Send
  <2>. QED
    BY <2>1, <2>2
<1>. HIDE DEF q, K
<1>4. Keeps(r, [r EXCEPT !.tx = q, !.kiso = K])
  BY <1>2, PutCommands
<1>. QED
  BY <1>3, <1>4

LEMMA RequestKeeps ==
  ASSUME NEW r \in RecType, NEW n \in CN
  PROVE  Keeps(r, RequestIdent(r, n)) /\ Keeps(r, RequestStatus(r, n)) /\ Keeps(r, r)
<1>1. Append(r.iq, n) \in Seq(CN) /\ Append(r.sq, n) \in Seq(CN)
  BY Parts
<1>2. r.ident \cup {n} \in SUBSET CN /\ r.status \cup {n} \in SUBSET CN
  BY Parts
<1>3. ASSUME NEW q \in Seq(CN), NEW N \in SUBSET CN
      PROVE  /\ Keeps(r, [r EXCEPT !.ident = N, !.iq = q])
             /\ Keeps(r, [r EXCEPT !.status = N, !.sq = q])
  <2>1. [r EXCEPT !.ident = N, !.iq = q] \in RecType
    BY DEF RecType
  <2>2. [r EXCEPT !.status = N, !.sq = q] \in RecType
    BY DEF RecType
  <2>3. \A a, b : /\ [r EXCEPT !.ident = a, !.iq = b].node = r.node
                 /\ [r EXCEPT !.status = a, !.sq = b].node = r.node
    BY DEF RecType
  <2>. QED
    BY <2>1, <2>2, <2>3 DEF Keeps, Unscanned, RecType
<1>4. Keeps(r, r)
  BY DEF Keeps
<1>. QED
  BY <1>1, <1>2, <1>3, <1>4 DEF RequestIdent, RequestStatus

LEMMA CheckConfKeeps ==
  ASSUME NEW r \in RecType, NEW n \in CN
  PROVE  Keeps(r, CheckConf(r, n))
<1>. DEFINE s == IF n \notin Managed \/ (n \in Dated /\ r.node[n].match) THEN "UpToDate" ELSE "WaitRestore"
<1>1. s \in CfmStates
  BY DEF CfmStates
<1>2. CheckConf(r, n) = [r EXCEPT !.node[n].cfm = s]
  BY DEF CheckConf
<1>. HIDE DEF s
<1>. QED
  BY <1>1, <1>2, PutCfm

LEMMA CountedKeeps ==
  ASSUME NEW r \in RecType, NEW n \in CN
  PROVE  Keeps(r, Counted(r, n))
<1>1. r.mand - 1 \in Int
  BY Parts
<1>. QED
  BY <1>1, PutMand, RequestKeeps DEF Counted

-----------------------------------------------------------------------------
(* An event for the user thread that is no change of the MN's state.       *)
LEMMA QueuedSame ==
  ASSUME NEW r, NEW v, Queued(r), v.mn = r.mn, v.kmn = r.kmn, v.informed = r.informed,
         \/ v.signal = r.signal
         \/ r.signal # 0,
         Pending(v) = Pending(r), \A i \in Pending(r) : v.k2u[i].nmt = r.k2u[i].nmt
  PROVE  Queued(v)
<1>1. ASSUME NEW i \in Pending(v)
      PROVE  IF v.k2u[i].nmt = "PreOp1" THEN Falls(v, i) ELSE Advances(v, i)
  <2>1. CASE r.k2u[i].nmt = "PreOp1"
    <3>1. Falls(r, i)
      BY <1>1, <2>1 DEF Queued
    <3>. QED
      BY <1>1, <2>1, <3>1 DEF Falls
  <2>2. CASE r.k2u[i].nmt # "PreOp1"
    <3>1. Advances(r, i)
      BY <1>1, <2>2 DEF Queued
    <3>. QED
      BY <1>1, <2>2, <3>1 DEF Advances
  <2>. QED
    BY <2>1, <2>2
<1>2. Pending(v) = {} => v.mn = v.kmn
  BY DEF Queued
<1>. QED
  BY <1>1, <1>2 DEF Queued

LEMMA AppendFacts ==
  ASSUME NEW S, NEW q \in Seq(S), NEW e \in S
  PROVE  /\ Append(q, e) \in Seq(S) /\ DOMAIN q = 1 .. Len(q) /\ Len(q) \in Nat
         /\ DOMAIN Append(q, e) = 1 .. Len(q) + 1
         /\ \A i \in 1 .. Len(q) : Append(q, e)[i] = q[i]
         /\ Append(q, e)[Len(q) + 1] = e
OBVIOUS

LEMMA PostedInv ==
  ASSUME NEW r, Inv(r), NEW e \in KernelEvents, e.type # "StateChange",
         e.type # "CmdSent" => e.node \in CN
  PROVE  Inv(Posted(r, e))
<1>. DEFINE v == Posted(r, e)
            q == r.k2u
<1>1. r \in RecType /\ q \in Seq(KernelEvents)
  BY Parts DEF Inv
<1>2. v.k2u = Append(q, e)
  BY <1>1 DEF Posted, RecType
<1>3. /\ v.mn = r.mn /\ v.kmn = r.kmn /\ v.informed = r.informed /\ v.signal = r.signal
      /\ v.node = r.node
  BY <1>1 DEF Posted, RecType
<1>4. v \in RecType
  <2>1. Append(q, e) \in Seq(KernelEvents)
    BY <1>1
  <2>. HIDE DEF q
  <2>. QED
    BY <1>1, <2>1 DEF Posted, RecType, q
<1>. HIDE DEF v, q
<1>5. /\ DOMAIN q = 1 .. Len(q) /\ Len(q) \in Nat /\ DOMAIN Append(q, e) = 1 .. Len(q) + 1
      /\ \A i \in 1 .. Len(q) : Append(q, e)[i] = q[i]
      /\ Append(q, e)[Len(q) + 1] = e
  BY <1>1, AppendFacts
<1>6. Pending(v) = Pending(r) /\ \A i \in Pending(r) : v.k2u[i].nmt = r.k2u[i].nmt
  BY <1>2, <1>5 DEF Pending, q
<1>7. NodeEvents(v)
  <2>1. NodeEvents(r)
    BY DEF Inv
  <2>. QED
    BY <1>2, <1>5, <2>1 DEF NodeEvents, q
<1>8. Queued(v)
  BY <1>3, <1>6, QueuedSame DEF Inv
<1>9. Unscanned(v) = Unscanned(r)
  BY <1>3 DEF Unscanned
<1>10. Inv(v)
  BY <1>3, <1>4, <1>7, <1>8, <1>9 DEF Inv
<1>. QED
  BY <1>10 DEF v

LEMMA AddedInv ==
  ASSUME NEW r, Inv(r), NEW n \in CN
  PROVE  Inv(AddNodeIsochronous(r, n))
<1>. DEFINE v == [r EXCEPT !.kiso = r.kiso \cup {n}, !.seen[n] = "NotActive"]
            e == KernelEvent("NodeAdded", n, "NotActive", FALSE)
<1>1. r \in RecType /\ r.kiso \cup {n} \in SUBSET CN
  BY Parts DEF Inv
<1>2. [r.seen EXCEPT ![n] = "NotActive"] \in [CN -> CnStates]
  BY <1>1, Parts DEF CnStates, MnStates
<1>3. v = [r EXCEPT !.kiso = r.kiso \cup {n}, !.seen = [r.seen EXCEPT ![n] = "NotActive"]]
  OBVIOUS
<1>4. \A K \in SUBSET CN, s \in [CN -> CnStates] : Keeps(r, [r EXCEPT !.kiso = K, !.seen = s])
  BY <1>1 DEF RecType, Keeps, Unscanned
<1>5. Keeps(r, v)
  BY <1>1, <1>2, <1>3, <1>4
<1>6. e \in KernelEvents /\ e.type = "NodeAdded" /\ e.node = n
  BY DEF KernelEvent, KernelEvents, MnStates
<1>7. AddNodeIsochronous(r, n) = IF n \in r.kiso THEN r ELSE Posted(v, e)
  BY DEF AddNodeIsochronous
<1>. HIDE DEF v, e
<1>. QED
  BY <1>5, <1>6, <1>7, KeepsInv, PostedInv

-----------------------------------------------------------------------------
(* A node looked at: its flag is cleared as the counter goes down.         *)
LEMMA ScannedInv ==
  ASSUME NEW r, Inv(r), NEW n \in CN
  PROVE  Inv(Scanned(r, n))
<1>. DEFINE F == r.node[n].flags \ {"NOT_SCANNED"}
            node == [r.node EXCEPT ![n].flags = F]
            v == [r EXCEPT !.signal = r.signal - 1, !.node = node]
<1>1. r \in RecType /\ r.node \in [CN -> NodeType] /\ r.signal \in Int
  BY Parts DEF Inv
<1>2. CASE ~Has(r, n, "NOT_SCANNED")
  BY <1>2 DEF Scanned
<1>3. CASE Has(r, n, "NOT_SCANNED")
  <2>1. Scanned(r, n) = v
    BY <1>1, <1>3 DEF Scanned, ClearFlags, RecType
  <2>2. node \in [CN -> NodeType] /\ \A k \in CN : node[k].flags = IF k = n THEN F ELSE r.node[k].flags
    <3>1. [r.node[n] EXCEPT !.flags = F] \in NodeType /\ [r.node[n] EXCEPT !.flags = F].flags = F
      BY <1>1 DEF NodeType
    <3>. QED
      BY <1>1, <3>1
  <2>. HIDE DEF node
  <2>3. v \in RecType /\ v.node = node /\ v.signal = r.signal - 1
    <3>1. \A k \in Int, x \in [CN -> NodeType] :
             LET w == [r EXCEPT !.signal = k, !.node = x]
             IN  w \in RecType /\ w.node = x /\ w.signal = k
      BY <1>1 DEF RecType
    <3>. DEFINE k == r.signal - 1
    <3>2. k \in Int
      BY <1>1
    <3>. HIDE DEF k
    <3>3. LET w == [r EXCEPT !.signal = k, !.node = node]
          IN  w \in RecType /\ w.node = node /\ w.signal = k
      BY <2>2, <3>1, <3>2
    <3>. QED
      BY <3>3 DEF k
  <2>4. v.k2u = r.k2u /\ v.mn = r.mn /\ v.kmn = r.kmn /\ v.informed = r.informed
    BY <1>1 DEF RecType
  <2>. HIDE DEF v
  <2>5. Unscanned(v) = Unscanned(r) \ {n} /\ n \in Unscanned(r)
    BY <1>3, <2>2, <2>3 DEF Unscanned, Has
  <2>6. /\ Cardinality(Unscanned(v)) = Cardinality(Unscanned(r)) - 1
        /\ Cardinality(Unscanned(r)) # 0
    <3>1. Unscanned(r) \in SUBSET CN
      BY DEF Unscanned
    <3>2. IsFiniteSet(Unscanned(r))
      BY <3>1, Counting
    <3>. QED
      BY <2>5, <3>1, <3>2, Counting, FS_RemoveElement
  <2>7. Queued(v)
    <3>1. Pending(v) = Pending(r)
      BY <2>4 DEF Pending
    <3>2. r.signal # 0 /\ Queued(r)
      BY <2>6 DEF Inv
    <3>. QED
      BY <2>4, <3>1, <3>2, QueuedSame
  <2>8. NodeEvents(v)
    <3>1. NodeEvents(r)
      BY DEF Inv
    <3>. QED
      BY <2>4, <3>1 DEF NodeEvents
  <2>9. v.signal = Cardinality(Unscanned(v))
    BY <2>3, <2>6 DEF Inv
  <2>. QED
    BY <2>1, <2>3, <2>7, <2>8, <2>9 DEF Inv
<1>. QED
  BY <1>2, <1>3

-----------------------------------------------------------------------------
(* Every helper keeps the invariant.                                       *)
LEMMA PutInv ==
  ASSUME NEW r, Inv(r), NEW n \in CN
  PROVE  /\ \A s \in NodeStates : Inv([r EXCEPT !.node[n].state = s])
         /\ \A s \in CnStates : Inv([r EXCEPT !.node[n].exp = s]) /\ Inv([r EXCEPT !.node[n].cur = s])
         /\ \A s \in CfmStates : Inv([r EXCEPT !.node[n].cfm = s])
         /\ \A s \in BOOLEAN : Inv([r EXCEPT !.node[n].match = s])
<1>1. r \in RecType
  BY DEF Inv
<1>2. \A s \in NodeStates : Inv([r EXCEPT !.node[n].state = s])
  BY <1>1, PutState, KeepsInv
<1>3. \A s \in CnStates : Inv([r EXCEPT !.node[n].exp = s]) /\ Inv([r EXCEPT !.node[n].cur = s])
  BY <1>1, PutExp, PutCur, KeepsInv
<1>4. \A s \in CfmStates : Inv([r EXCEPT !.node[n].cfm = s])
  BY <1>1, PutCfm, KeepsInv
<1>5. \A s \in BOOLEAN : Inv([r EXCEPT !.node[n].match = s])
  BY <1>1, PutMatch, KeepsInv
<1>. QED
  BY <1>2, <1>3, <1>4, <1>5

LEMMA HelperInv ==
  ASSUME NEW r, Inv(r), NEW n \in CN
  PROVE  /\ \A F \in Others : Inv(SetFlags(r, n, F)) /\ Inv(ClearFlags(r, n, F))
         /\ \A k \in SrTimers : Inv(StartSr(r, {n}, k))
         /\ \A lo \in {"ReadyToOp", "CheckCom"} : Inv(StartLonger(r, n, lo))
         /\ Inv(DeleteLonger(r, n)) /\ Inv(RequestIdent(r, n)) /\ Inv(RequestStatus(r, n))
         /\ \A cmd \in DOMAIN Expected : Inv(Send(r, n, cmd))
         /\ Inv(CheckConf(r, n)) /\ Inv(Counted(r, n))
<1>1. r \in RecType
  BY DEF Inv
<1>2. \A F \in Others : Inv(SetFlags(r, n, F)) /\ Inv(ClearFlags(r, n, F))
  BY <1>1, FlagsKeep, KeepsInv
<1>3. \A k \in SrTimers : Inv(StartSr(r, {n}, k))
  BY <1>1, StartSrKeeps, KeepsInv
<1>4. (\A lo \in {"ReadyToOp", "CheckCom"} : Inv(StartLonger(r, n, lo))) /\ Inv(DeleteLonger(r, n))
  BY <1>1, LongerKeeps, KeepsInv
<1>5. Inv(RequestIdent(r, n)) /\ Inv(RequestStatus(r, n))
  BY <1>1, RequestKeeps, KeepsInv
<1>6. \A cmd \in DOMAIN Expected : Inv(Send(r, n, cmd))
  BY <1>1, SendKeeps, KeepsInv
<1>7. Inv(CheckConf(r, n)) /\ Inv(Counted(r, n))
  BY <1>1, CheckConfKeeps, CountedKeeps, KeepsInv
<1>. QED
  BY <1>2, <1>3, <1>4, <1>5, <1>6, <1>7

LEMMA Values ==
  /\ {"ResetNode", "ResetConf", "EnableReadyToOp", "StartNode"} = DOMAIN Expected
  /\ {"ISOCHRON"} \in Others /\ {"NMT_CMD_ISSUED"} \in Others /\ {"PREOP2_REACHED"} \in Others
  /\ {"ISOCHRON", "NMT_CMD_ISSUED", "PREOP2_REACHED"} \in Others
  /\ {"Unknown", "Identified", "SwOk", "ConfRestored", "ResetConf",
      "Configured", "ReadyToOp", "ComChecked", "Operational"} = NodeStates
  /\ CnStates = MnStates /\ {"NotActive", "PreOp1", "PreOp2", "ReadyToOp", "Operational"} = CnStates
  /\ {"Idle", "WaitRestore", "Download", "WaitStore", "UpToDate"} = CfmStates
  /\ {"IdentReq", "StatReq", "StateMon"} = SrTimers
BY DEF Expected, Others, Flags, NodeStates, CnStates, MnStates, CfmStates, SrTimers

-----------------------------------------------------------------------------
(* The three steps of nmtmnu.c that check and enable a node.               *)
LEMMA BootStep2Inv ==
  ASSUME NEW r, Inv(r), NEW n \in CN
  PROVE  Inv(NodeBootStep2(r, n))
<1>1. Inv(Send(r, n, "EnableReadyToOp"))
  BY HelperInv, Values
<1>2. Inv(StartLonger(Send(r, n, "EnableReadyToOp"), n, "ReadyToOp"))
  BY <1>1, HelperInv
<1>. QED
  BY <1>2 DEF NodeBootStep2

LEMMA ReachPreOp2Inv ==
  ASSUME NEW r, Inv(r), NEW n \in CN
  PROVE  Inv(ReachPreOp2(r, n))
<1>. DEFINE r1 == SetFlags(r, n, {"PREOP2_REACHED"})
<1>1. Inv(r1)
  BY HelperInv, Values
<1>2. Inv(AddNodeIsochronous(r1, n)) /\ Inv(NodeBootStep2(r1, n))
  BY <1>1, AddedInv, BootStep2Inv
<1>. QED
  BY <1>1, <1>2 DEF ReachPreOp2

LEMMA ReachReadyToOpInv ==
  ASSUME NEW r, Inv(r), NEW n \in CN
  PROVE  Inv(ReachReadyToOp(r, n)[1])
<1>. DEFINE a == DeleteLonger(r, n)
            b == [a EXCEPT !.node[n].state = "ReadyToOp"]
            c == [b EXCEPT !.node[n].exp = "ReadyToOp"]
            r1 == Counted(c, n)
            r2 == [r1 EXCEPT !.node[n].state = "ComChecked"]
<1>1. Inv(a)
  BY HelperInv
<1>2. Inv(b)
  BY <1>1, PutInv, Values
<1>3. Inv(c)
  <2>. HIDE DEF b
  <2>. QED
    BY <1>2, PutInv, Values
<1>4. Inv(r1)
  BY <1>3, HelperInv
<1>5. Inv(r2)
  <2>. HIDE DEF r1
  <2>. QED
    BY <1>4, PutInv, Values
<1>6. Inv(Send(r2, n, "StartNode")) /\ Inv(StartLonger(r1, n, "CheckCom"))
  <2>. HIDE DEF r1, r2
  <2>. QED
    BY <1>4, <1>5, HelperInv, Values
<1>7. c = [a EXCEPT !.node[n].state = "ReadyToOp", !.node[n].exp = "ReadyToOp"]
  OBVIOUS
<1>8. \/ ReachReadyToOp(r, n)[1] \in {r1, StartLonger(r1, n, "CheckCom")}
      \/ ReachReadyToOp(r, n)[1] \in {Send(r2, n, "StartNode"), r2}
  <2>. HIDE DEF a, c
  <2>. QED
    BY <1>7 DEF ReachReadyToOp, a
<1>. QED
  BY <1>4, <1>5, <1>6, <1>8

LEMMA WrongStateInv ==
  ASSUME NEW r, Inv(r), NEW n \in CN
  PROVE  Inv(WrongState(r, n))
<1>. DEFINE a == Scanned(r, n)
            b == [a EXCEPT !.node[n].state = "Unknown"]
<1>1. Inv(a)
  BY ScannedInv
<1>2. Inv(b)
  <2>. HIDE DEF a
  <2>. QED
    BY <1>1, PutInv, Values
<1>3. Inv(Send(b, n, "ResetNode"))
  <2>. HIDE DEF b
  <2>. QED
    BY <1>2, HelperInv, Values
<1>. QED
  BY <1>3 DEF WrongState

LEMMA UpdateInv ==
  ASSUME NEW r, Inv(r), NEW n \in CN, NEW s \in CnStates
  PROVE  Inv(UpdateCurrent(r, n, s))
<1>. DEFINE a == [r EXCEPT !.node[n].cur = s]
            k == IF s = "NotActive" /\ r.node[n].cur # s THEN "Idle" ELSE r.node[n].cfm
            b == [a EXCEPT !.node[n].cfm = k]
<1>1. Inv(a)
  BY PutInv
<1>2. k \in CfmStates
  BY Parts, NodeParts, Values DEF Inv
<1>3. Inv(b)
  <2>. HIDE DEF a, k
  <2>. QED
    BY <1>1, <1>2, PutInv
<1>4. UpdateCurrent(r, n, s) = [r EXCEPT !.node[n].cur = s, !.node[n].cfm = k]
  BY DEF UpdateCurrent
<1>5. b = [r EXCEPT !.node[n].cur = s, !.node[n].cfm = k]
  OBVIOUS
<1>. QED
  BY <1>3, <1>4, <1>5

LEMMA CheckInv ==
  ASSUME NEW r, Inv(r), NEW n \in CN, NEW s \in CnStates, NEW error \in BOOLEAN
  PROVE  Inv(CheckNmtState(r, n, s, error)[1])
<1>. DEFINE d == r.node[n]
            p == ReachReadyToOp(r, n)[1]
            o == [r EXCEPT !.node[n].state = "Operational"]
<1>1. Inv(ReachPreOp2(r, n)) /\ Inv(p) /\ Inv(WrongState(r, n)) /\ Inv(o)
  BY ReachPreOp2Inv, ReachReadyToOpInv, WrongStateInv, PutInv, Values
<1>2. Inv(Counted(o, n))
  <2>. HIDE DEF o
  <2>. QED
    BY <1>1, HelperInv
<1>3. \/ CheckNmtState(r, n, s, error)[1] = r
      \/ CheckNmtState(r, n, s, error)[1] \in
           {UpdateCurrent(v, n, s) : v \in {r, ReachPreOp2(r, n), p, Counted(o, n), WrongState(r, n)}}
  BY DEF CheckNmtState
<1>. HIDE DEF p, o
<1>. QED
  BY <1>1, <1>2, <1>3, UpdateInv

-----------------------------------------------------------------------------
(* The handlers of a node's events.                                        *)
LEMMA ConfiguredInv ==
  ASSUME NEW r, Inv(r), NEW n \in CN
  PROVE  Inv(Configured(r, n))
<1>. DEFINE r1 == [r EXCEPT !.node[n].state = "Configured"]
<1>1. Inv(r1)
  BY PutInv, Values
<1>2. Inv(Counted(r1, n)) /\ Inv(NodeBootStep2(r1, n))
  <2>. HIDE DEF r1
  <2>. QED
    BY <1>1, HelperInv, BootStep2Inv
<1>. QED
  BY <1>2 DEF Configured

LEMMA BootInv ==
  ASSUME NEW r, Inv(r), NEW n \in CN
  PROVE  Inv(Boot(r, n))
<1>. DEFINE a == [r EXCEPT !.node[n].state = "SwOk"]
<1>1. Inv(a) /\ Inv([r EXCEPT !.node[n].cfm = "Download"])
  BY PutInv, Values
<1>2. Inv(CheckConf(a, n)) /\ Inv(CheckConf(r, n)) /\ Inv(Configured(r, n))
  <2>. HIDE DEF a
  <2>. QED
    BY <1>1, HelperInv, ConfiguredInv
<1>. QED
  BY <1>1, <1>2 DEF Boot

LEMMA IdentResponseInv ==
  ASSUME NEW r, Inv(r), NEW n \in CN, NEW s \in CnStates, NEW match \in BOOLEAN
  PROVE  Inv(IdentResponse(r, n, s, match))
<1>. DEFINE k == IF HoldsConfig(r, n) THEN r.node[n].state ELSE "Identified"
            a == [r EXCEPT !.node[n].match = match]
            b == [a EXCEPT !.node[n].state = k]
            r1 == ClearFlags(b, n, {"ISOCHRON", "NMT_CMD_ISSUED", "PREOP2_REACHED"})
<1>1. Inv(r1) /\ b = [r EXCEPT !.node[n].match = match, !.node[n].state = k]
  <2>1. k \in NodeStates
    BY Parts, NodeParts, Values DEF Inv
  <2>. HIDE DEF k
  <2>2. Inv(a)
    BY PutInv
  <2>3. Inv(b)
    <3>. HIDE DEF a
    <3>. QED
      BY <2>1, <2>2, PutInv
  <2>4. Inv(r1)
    <3>. HIDE DEF b
    <3>. QED
      BY <2>3, HelperInv, Values
  <2>. QED
    BY <2>4
<1>. DEFINE t == StartSr(SetFlags(r1, n, {"NMT_CMD_ISSUED"}), {n}, "StateMon")
            u == IF s = "PreOp1" THEN t ELSE r1
            r2 == IF r.mn = "PreOp1" THEN [Scanned(r1, n) EXCEPT !.node[n].exp = "PreOp1"]
                  ELSE [u EXCEPT !.node[n].exp = "PreOp2"]
<1>2. Inv(r2)
  <2>. HIDE DEF r1
  <2>1. Inv(Scanned(r1, n)) /\ Inv(SetFlags(r1, n, {"NMT_CMD_ISSUED"}))
    BY <1>1, ScannedInv, HelperInv, Values
  <2>2. Inv(t)
    BY <2>1, HelperInv, Values
  <2>3. Inv(u)
    BY <1>1, <2>2
  <2>. HIDE DEF u
  <2>. QED
    BY <2>1, <2>3, PutInv, Values
<1>. DEFINE checked == CheckNmtState(r2, n, s, FALSE)
            r3 == IF Has(checked[1], n, "NMT_CMD_ISSUED") THEN checked[1]
                  ELSE RequestStatus(checked[1], n)
            r4 == IF HoldsConfig(r3, n) THEN r3 ELSE [r3 EXCEPT !.node[n].cfm = "Idle"]
<1>3. Inv(checked[1])
  <2>. HIDE DEF r2
  <2>. QED
    BY <1>2, CheckInv
<1>4. Inv(r3)
  <2>. HIDE DEF checked
  <2>. QED
    BY <1>3, HelperInv
<1>5. Inv(r4)
  <2>. HIDE DEF r3
  <2>. QED
    BY <1>4, PutInv, Values
<1>6. Inv(Boot(r4, n))
  <2>. HIDE DEF r4
  <2>. QED
    BY <1>5, BootInv
<1>7. IdentResponse(r, n, s, match) = IF checked[2] # "Ok" THEN checked[1] ELSE Boot(r4, n)
  BY <1>1 DEF IdentResponse
<1>. HIDE DEF checked, r4
<1>. QED
  BY <1>3, <1>6, <1>7

LEMMA NoIdentResponseInv ==
  ASSUME NEW r, Inv(r), NEW n \in CN
  PROVE  Inv(NoIdentResponse(r, n))
<1>. DEFINE r1 == IF r.mn = "PreOp1" THEN Scanned(r, n) ELSE r
            k == IF HoldsConfig(r, n) THEN r1.node[n].state ELSE "Unknown"
            r2 == [r1 EXCEPT !.node[n].state = k]
            r3 == CheckNmtState(r2, n, "NotActive", TRUE)[1]
<1>1. Inv(r1)
  BY ScannedInv
<1>. HIDE DEF r1
<1>2. k \in NodeStates
  BY <1>1, Parts, NodeParts, Values DEF Inv
<1>3. Inv(r2)
  <2>. HIDE DEF k
  <2>. QED
    BY <1>1, <1>2, PutInv
<1>4. Inv(r3)
  <2>. HIDE DEF r2
  <2>. QED
    BY <1>3, CheckInv, Values
<1>5. NoIdentResponse(r, n) =
        IF AtLeast(r.mn, "PreOp2") THEN StartSr(r3, {n}, "IdentReq") ELSE RequestIdent(r3, n)
  BY DEF NoIdentResponse, r1
<1>. HIDE DEF r3
<1>6. Inv(StartSr(r3, {n}, "IdentReq")) /\ Inv(RequestIdent(r3, n))
  BY <1>4, HelperInv, Values
<1>. QED
  BY <1>5, <1>6

LEMMA StatusResponseInv ==
  ASSUME NEW r, Inv(r), NEW n \in CN, NEW s \in CnStates
  PROVE  Inv(StatusResponse(r, n, s))
<1>. DEFINE r1 == IF AtLeast(r.mn, "PreOp2") THEN Scanned(r, n) ELSE r
            checked == CheckNmtState(r1, n, s, FALSE)
            r2 == checked[1]
<1>1. Inv(r1)
  BY ScannedInv
<1>2. Inv(r2)
  <2>. HIDE DEF r1
  <2>. QED
    BY <1>1, CheckInv
<1>3. Inv(RequestStatus(r2, n)) /\ Inv(StartSr(r2, {n}, "StatReq"))
  <2>. HIDE DEF r2
  <2>. QED
    BY <1>2, HelperInv, Values
<1>4. StatusResponse(r, n, s) \in {r2, RequestStatus(r2, n), StartSr(r2, {n}, "StatReq")}
  BY DEF StatusResponse
<1>. HIDE DEF r2
<1>. QED
  BY <1>2, <1>3, <1>4

LEMMA NodeHandlersInv ==
  ASSUME NEW r, Inv(r), NEW n \in CN
  PROVE  /\ Inv(NoStatusResponse(r, n)) /\ Inv(ConfigError(r, n))
         /\ \A s \in CnStates : \A error \in BOOLEAN : Inv(Heartbeat(r, n, s, error))
         /\ Inv(ExecResetNode(r, n)) /\ Inv(ExecResetConf(r, n))
         /\ Inv(TimerStateMon(r, n)) /\ Inv(TimerLonger(r, n)) /\ Inv(NodeAdded(r, n))
<1>1. Inv(CheckNmtState(r, n, "NotActive", TRUE)[1])
  BY CheckInv, Values
<1>2. Inv(NoStatusResponse(r, n)) /\ Inv(ConfigError(r, n))
  BY <1>1 DEF NoStatusResponse, ConfigError
<1>3. \A s \in CnStates : \A error \in BOOLEAN : Inv(Heartbeat(r, n, s, error))
  BY CheckInv DEF Heartbeat
<1>4. Inv(ExecResetNode(r, n)) /\ Inv(ExecResetConf(r, n))
  <2>. DEFINE a == [r EXCEPT !.node[n].state = "ConfRestored"]
              b == [r EXCEPT !.node[n].state = "ResetConf"]
  <2>1. Inv(a) /\ Inv(b)
    BY PutInv, Values
  <2>2. Inv(Send(a, n, "ResetNode")) /\ Inv(Send(b, n, "ResetConf"))
    <3>. HIDE DEF a, b
    <3>. QED
      BY <2>1, HelperInv, Values
  <2>. QED
    BY <2>2 DEF ExecResetNode, ExecResetConf
<1>5. Inv(TimerStateMon(r, n))
  <2>1. Inv(ClearFlags(r, n, {"NMT_CMD_ISSUED"}))
    BY HelperInv, Values
  <2>. QED
    BY <2>1, HelperInv DEF TimerStateMon
<1>6. Inv(TimerLonger(r, n))
  <2>. DEFINE a == [r EXCEPT !.node[n].state = "ComChecked"]
              b == Scanned(a, n)
              r1 == Counted(b, n)
  <2>1. Inv(a)
    BY PutInv, Values
  <2>2. Inv(b)
    <3>. HIDE DEF a
    <3>. QED
      BY <2>1, ScannedInv
  <2>3. Inv(r1)
    <3>. HIDE DEF b
    <3>. QED
      BY <2>2, HelperInv
  <2>4. Inv(Send(r1, n, "StartNode"))
    <3>. HIDE DEF r1
    <3>. QED
      BY <2>3, HelperInv, Values
  <2>5. TimerLonger(r, n) \in {CheckNmtState(r, n, "NotActive", TRUE)[1], r1, Send(r1, n, "StartNode"), r}
    BY DEF TimerLonger
  <2>. HIDE DEF r1
  <2>. QED
    BY <1>1, <2>3, <2>4, <2>5
<1>7. Inv(NodeAdded(r, n))
  <2>. DEFINE r1 == SetFlags(r, n, {"ISOCHRON"})
  <2>1. Inv(r1)
    BY HelperInv, Values
  <2>2. Inv(NodeBootStep2(r1, n))
    BY <2>1, BootStep2Inv
  <2>. QED
    BY <2>1, <2>2 DEF NodeAdded
<1>. QED
  BY <1>2, <1>3, <1>4, <1>5, <1>6, <1>7

LEMMA NmtCmdSentInv ==
  ASSUME NEW r, Inv(r), NEW N, NEW s \in CnStates
  PROVE  Inv(NmtCmdSent(r, N, s))
<1>. DEFINE enable == {n \in N : s = "PreOp2" /\ r.node[n].exp = s}
            others == N \ enable
            node == [n \in CN |->
                 IF n \in enable THEN [r.node[n] EXCEPT !.flags = @ \cup {"NMT_CMD_ISSUED"}]
                 ELSE IF n \notin others THEN r.node[n]
                 ELSE IF s = "NotActive" THEN [r.node[n] EXCEPT !.exp = s]
                 ELSE [r.node[n] EXCEPT !.exp = s, !.flags = @ \cup {"NMT_CMD_ISSUED"}]]
            v == [r EXCEPT !.node = node]
            k == IF s = "NotActive" THEN "IdentReq" ELSE "StateMon"
<1>1. r \in RecType
  BY DEF Inv
<1>2. \A n \in CN : Alike(r.node[n], node[n])
  <2>1. ASSUME NEW d \in NodeType
        PROVE  /\ Alike(d, [d EXCEPT !.flags = @ \cup {"NMT_CMD_ISSUED"}])
               /\ Alike(d, [d EXCEPT !.exp = s])
               /\ Alike(d, [d EXCEPT !.exp = s, !.flags = @ \cup {"NMT_CMD_ISSUED"}])
               /\ Alike(d, d)
    BY DEF Alike, NodeType, Flags
  <2>2. \A n \in CN : r.node[n] \in NodeType
    BY <1>1, Parts
  <2>. QED
    BY <2>1, <2>2
<1>3. node \in [CN -> NodeType]
  BY <1>2 DEF Alike
<1>4. Inv(v)
  <2>. HIDE DEF node
  <2>. QED
    BY <1>1, <1>2, <1>3, PutNodes, KeepsInv
<1>5. k \in SrTimers
  BY DEF SrTimers
<1>6. NmtCmdSent(r, N, s) = StartSr(v, others, k)
  BY DEF NmtCmdSent
<1>. HIDE DEF v, k, others
<1>7. v \in RecType
  BY <1>4 DEF Inv
<1>. QED
  BY <1>4, <1>5, <1>6, <1>7, StartSrKeeps, KeepsInv

-----------------------------------------------------------------------------
(* The nodes of a set in ascending order: there is such a sequence, for    *)
(* the nodes up to every number.                                           *)
LEMMA Induction ==
  ASSUME NEW S, 0 \in S, \A n \in Nat : n \in S => n + 1 \in S
  PROVE  Nat \subseteq S
<1>. SUFFICES ASSUME NEW x \in Nat, x \notin S PROVE FALSE
  OBVIOUS
<1>. DEFINE A == {n \in 0 .. x : n \in S}
            f == [n \in A |-> n + 1]
<1>1. IsFiniteSet(A)
  BY FS_Interval, FS_Subset, 0 \in Int, x \in Int
<1>2. 0 \in A
  OBVIOUS
<1>3. f \in Injection(A, A \ {0})
  <2>1. f \in [A -> A \ {0}] /\ \A a, b \in A : f[a] = f[b] => a = b
    OBVIOUS
  <2>. QED
    BY <2>1 DEF Injection, IsInjective
<1>4. Cardinality(A \ {0}) = Cardinality(A) - 1 /\ IsFiniteSet(A \ {0})
  BY <1>1, <1>2, FS_RemoveElement
<1>5. Cardinality(A) <= Cardinality(A \ {0})
  <2>. HIDE DEF A, f
  <2>. QED
    BY <1>3, <1>4, FS_Injection
<1>. QED
  BY <1>1, <1>4, <1>5, FS_CardinalityType

Sorted(N) == {s \in [1 .. Cardinality(N) -> N] : \A i, j \in DOMAIN s : i < j => s[i] < s[j]}

LEMMA SortedUpTo ==
  ASSUME NEW k \in Nat, \A N \in SUBSET (1 .. k) : Sorted(N) # {},
         NEW N \in SUBSET (1 .. k + 1)
  PROVE  Sorted(N) # {}
<1>. DEFINE M == N \ {k + 1}
<1>1. M \in SUBSET (1 .. k)
  OBVIOUS
<1>2. CASE k + 1 \notin N
  <2>1. M = N
    BY <1>2
  <2>. QED
    BY <1>1, <2>1
<1>3. CASE k + 1 \in N
  <2>0. IsFiniteSet(N)
    <3>. DEFINE a == 1
                b == k + 1
    <3>1. a \in Int /\ b \in Int /\ N \subseteq a .. b
      OBVIOUS
    <3>. HIDE DEF a, b
    <3>2. IsFiniteSet(a .. b)
      BY <3>1, FS_Interval
    <3>. QED
      BY <3>1, <3>2, FS_Subset
  <2>1. Cardinality(N) \in Nat /\ Cardinality(M) = Cardinality(N) - 1 /\ Cardinality(M) \in Nat
    BY <1>3, <2>0, FS_RemoveElement, FS_CardinalityType
  <2>. DEFINE c == Cardinality(M)
  <2>2. PICK s : s \in [1 .. c -> M] /\ \A i, j \in DOMAIN s : i < j => s[i] < s[j]
    BY <1>1 DEF Sorted
  <2>. DEFINE t == [i \in 1 .. c + 1 |-> IF i = c + 1 THEN k + 1 ELSE s[i]]
  <2>3. c \in Nat /\ Cardinality(N) = c + 1
    BY <2>1
  <2>. HIDE DEF c
  <2>4. t \in [1 .. c + 1 -> N]
    BY <1>3, <2>2, <2>3
  <2>5. ASSUME NEW i \in 1 .. c + 1, NEW j \in 1 .. c + 1, i < j PROVE t[i] < t[j]
    <3>0. i \in 1 .. c /\ ~(i = c + 1)
      BY <2>3, <2>5
    <3>1. i \in 1 .. c /\ t[i] = s[i] /\ s[i] \in M /\ s[i] \in 1 .. k
      <4>1. s[i] \in M
        BY <2>2, <3>0
      <4>2. s[i] \in 1 .. k
        BY <1>1, <4>1
      <4>. QED
        BY <3>0, <4>1, <4>2
    <3>2. CASE j = c + 1
      BY <3>1, <3>2, <2>3
    <3>3. CASE j # c + 1
      <4>1. j \in 1 .. c /\ t[j] = s[j]
        BY <2>3, <3>3
      <4>2. DOMAIN s = 1 .. c
        BY <2>2
      <4>. QED
        BY <2>2, <2>5, <3>1, <4>1, <4>2
    <3>. QED
      BY <3>2, <3>3
  <2>6. DOMAIN t = 1 .. c + 1
    OBVIOUS
  <2>. HIDE DEF t
  <2>7. t \in Sorted(N)
    BY <2>3, <2>4, <2>5, <2>6 DEF Sorted
  <2>. QED
    BY <2>7
<1>. QED
  BY <1>2, <1>3

LEMMA AscendingIs ==
  ASSUME NEW N \in SUBSET CN
  PROVE  Ascending(N) \in Sorted(N)
<1>. DEFINE S == {k \in Nat : \A K \in SUBSET (1 .. k) : Sorted(K) # {}}
<1>1. 0 \in S
  <2>1. ASSUME NEW K \in SUBSET (1 .. 0) PROVE Sorted(K) # {}
    <3>0. K = {}
      OBVIOUS
    <3>1. K = {} /\ Cardinality(K) = 0
      BY <3>0, FS_EmptySet
    <3>. DEFINE s == [i \in 1 .. 0 |-> i]
    <3>2. s \in [1 .. Cardinality(K) -> K] /\ \A i, j \in DOMAIN s : i < j => s[i] < s[j]
      BY <3>1
    <3>3. s \in Sorted(K)
      BY <3>2 DEF Sorted
    <3>. QED
      BY <3>3
  <2>. QED
    BY <2>1
<1>2. \A k \in Nat : k \in S => k + 1 \in S
  BY SortedUpTo
<1>3. Nat \subseteq S
  <2>. HIDE DEF S
  <2>. QED
    BY <1>1, <1>2, Induction
<1>. DEFINE last == 254
<1>4. last \in Nat /\ N \in SUBSET (1 .. last)
  BY Nodes
<1>. HIDE DEF last
<1>5. Sorted(N) # {}
  BY <1>3, <1>4
<1>6. \E s \in [1 .. Cardinality(N) -> N] : \A i, j \in DOMAIN s : i < j => s[i] < s[j]
  BY <1>5 DEF Sorted
<1>. QED
  BY <1>6 DEF Ascending, Sorted

LEMMA SendEachKeeps ==
  ASSUME NEW r \in RecType, NEW N \in SUBSET CN, NEW cmd \in DOMAIN Expected
  PROVE  Keeps(r, SendEach(r, N, cmd))
<1>. DEFINE to == Ascending(N)
            q == [i \in DOMAIN to |-> [cmd |-> cmd, to |-> to[i]]]
            t == r.tx \o q
<1>1. to \in [1 .. Cardinality(N) -> N] /\ Cardinality(N) \in Nat
  BY AscendingIs, Counting DEF Sorted
<1>. HIDE DEF to
<1>2. q \in [1 .. Cardinality(N) -> Commands]
  BY <1>1 DEF Commands
<1>3. q \in Seq(Commands)
  BY <1>1, <1>2
<1>4. r.tx \in Seq(Commands)
  BY Parts
<1>. HIDE DEF q
<1>5. t \in Seq(Commands)
  BY <1>3, <1>4
<1>. HIDE DEF t
<1>6. Keeps(r, [r EXCEPT !.tx = t])
  BY <1>5 DEF RecType, Keeps, Unscanned
<1>7. SendEach(r, N, cmd) = [r EXCEPT !.tx = t]
  BY DEF SendEach, to, q, t
<1>. QED
  BY <1>6, <1>7

-----------------------------------------------------------------------------
(* The MN enters a state: what holds when the event has left the queue.    *)
Entry(r, s) == /\ r \in RecType /\ NodeEvents(r) /\ r.signal = Cardinality(Unscanned(r))
               /\ \A i \in Pending(r) : r.k2u[i].nmt = "PreOp1"
               /\ \A i, j \in Pending(r) : j <= i
               /\ \/ s = "PreOp1" /\ Pending(r) = {} /\ r.kmn = "PreOp1"
                  \/ /\ s \in {"PreOp2", "ReadyToOp", "Operational"} /\ r.signal = 0
                     /\ r.kmn = IF Pending(r) = {} THEN s ELSE "PreOp1"

LEMMA KeepsEntry ==
  ASSUME NEW r, NEW s, NEW v, Entry(r, s), Keeps(r, v)
  PROVE  Entry(v, s)
<1>0. /\ v.k2u = r.k2u /\ v.mn = r.mn /\ v.kmn = r.kmn /\ v \in RecType
      /\ v.informed = r.informed /\ v.signal = r.signal /\ Unscanned(v) = Unscanned(r)
  BY DEF Keeps
<1>1. Pending(v) = Pending(r)
  BY <1>0 DEF Pending
<1>2. NodeEvents(v)
  BY <1>0 DEF Entry, NodeEvents
<1>. QED
  BY <1>0, <1>1, <1>2 DEF Entry

(* When the user thread has entered the state, what is still on its way is *)
(* at most the fall back to PreOp1.                                        *)
LEMMA EnteredInv ==
  ASSUME NEW r, NEW s, Entry(r, s), NEW v \in RecType, v.k2u = r.k2u, v.kmn = r.kmn, v.mn = s,
         v.signal = Cardinality(Unscanned(v))
  PROVE  Inv(v)
<1>1. Pending(v) = Pending(r)
  BY DEF Pending
<1>2. NodeEvents(v)
  BY DEF Entry, NodeEvents
<1>3. ASSUME NEW i \in Pending(v)
      PROVE  IF v.k2u[i].nmt = "PreOp1" THEN Falls(v, i) ELSE Advances(v, i)
  BY <1>1, <1>3 DEF Entry, Falls
<1>4. Pending(v) = {} => v.mn = v.kmn
  BY <1>1 DEF Entry
<1>. QED
  BY <1>2, <1>3, <1>4 DEF Inv, Queued

LEMMA DoPreOp1Inv ==
  ASSUME NEW r, Entry(r, "PreOp1")
  PROVE  Inv(DoPreOp1(r))
<1>. DEFINE node == [n \in CN |->
                 [r.node[n] EXCEPT !.state = "Unknown", !.sr = "none", !.lo = "none",
                    !.flags = (@ \ {"ISOCHRON"}) \cup {"NOT_SCANNED"}]]
            u == Deleted(r.uint, CN, SrTimers \cup {"Longer"})
            c == Cardinality(CN)
            d == Cardinality(Mandatory)
            v == [r EXCEPT !.mn = "PreOp1", !.node = node, !.informed = FALSE,
                     !.ident = {}, !.status = {}, !.iq = <<>>, !.sq = <<>>,
                     !.turn = "tx", !.kiso = {},
                     !.mand = d, !.signal = c, !.uint = u]
            w == Send(v, Broadcast, "ResetNode")
<1>1. r \in RecType
  BY DEF Entry
<1>2. u \in Seq(UserEvents)
  BY <1>1, Parts, ModifiedType
<1>3. \A n \in CN : node[n] \in NodeType /\ "NOT_SCANNED" \in node[n].flags
  <2>1. ASSUME NEW e \in NodeType
        PROVE  LET x == [e EXCEPT !.state = "Unknown", !.sr = "none", !.lo = "none",
                            !.flags = (@ \ {"ISOCHRON"}) \cup {"NOT_SCANNED"}]
               IN  x \in NodeType /\ "NOT_SCANNED" \in x.flags
    BY DEF NodeType, NodeStates, Flags
  <2>2. \A n \in CN : r.node[n] \in NodeType
    BY <1>1, Parts
  <2>. QED
    BY <2>1, <2>2
<1>4. node \in [CN -> NodeType]
  BY <1>3
<1>5. c \in Int /\ d \in Int
  BY Counting, Nodes
<1>6. DoPreOp1(r) = w
  BY DEF DoPreOp1
<1>7. "PreOp1" \in MnStates /\ "tx" \in Queues
  BY DEF MnStates, Queues
<1>. HIDE DEF node, u, c, d
<1>8. v \in RecType
  <2>. DEFINE a == [r EXCEPT !.mn = "PreOp1", !.node = node, !.informed = FALSE, !.uint = u,
                             !.mand = d, !.signal = c]
              b == [a EXCEPT !.ident = {}, !.status = {}, !.iq = <<>>, !.sq = <<>>]
  <2>1. a \in RecType
    BY <1>1, <1>2, <1>4, <1>5, <1>7 DEF RecType
  <2>2. v = [b EXCEPT !.turn = "tx", !.kiso = {}]
    BY <1>1 DEF RecType
  <2>. HIDE DEF a
  <2>3. b \in RecType
    <3>1. \A K \in SUBSET CN, q \in Seq(CN) :
             [a EXCEPT !.ident = K, !.status = K, !.iq = q, !.sq = q] \in RecType
      BY <2>1 DEF RecType
    <3>2. {} \in SUBSET CN /\ <<>> \in Seq(CN)
      OBVIOUS
    <3>. QED
      BY <3>1, <3>2
  <2>. HIDE DEF b, v
  <2>4. [b EXCEPT !.turn = "tx", !.kiso = {}] \in RecType
    BY <1>7, <2>3 DEF RecType
  <2>. QED
    BY <2>2, <2>4
<1>9. v.k2u = r.k2u /\ v.kmn = r.kmn /\ v.mn = "PreOp1" /\ v.node = node /\ v.signal = c
  BY <1>1 DEF RecType
<1>. HIDE DEF v
<1>10. Unscanned(v) = CN
  BY <1>3, <1>9 DEF Unscanned
<1>11. Inv(v)
  BY <1>8, <1>9, <1>10, EnteredInv DEF c
<1>12. Keeps(v, w)
  BY <1>8, SendKeeps, Values
<1>. HIDE DEF w
<1>. QED
  BY <1>6, <1>11, <1>12, KeepsInv

LEMMA StageInv ==
  ASSUME NEW r, NEW s \in {"PreOp2", "ReadyToOp", "Operational"}, Entry(r, s), NEW To \in SUBSET CN
  PROVE  Inv(Stage(r, s, To))
<1>. DEFINE node == [n \in CN |-> IF n \in To THEN [r.node[n] EXCEPT !.flags = @ \cup {"NOT_SCANNED"}]
                                  ELSE r.node[n]]
            c == Cardinality(To)
            v == [r EXCEPT !.mn = s, !.informed = FALSE, !.signal = c, !.node = node]
<1>1. r \in RecType /\ r.signal = 0 /\ r.signal = Cardinality(Unscanned(r))
  BY DEF Entry
<1>2. Unscanned(r) = {}
  <2>1. Unscanned(r) \in SUBSET CN
    BY DEF Unscanned
  <2>. QED
    BY <1>1, <2>1, Counting
<1>3. \A n \in CN : /\ node[n] \in NodeType
                    /\ "NOT_SCANNED" \in node[n].flags <=> n \in To
  <2>1. ASSUME NEW e \in NodeType
        PROVE  LET x == [e EXCEPT !.flags = @ \cup {"NOT_SCANNED"}]
               IN  x \in NodeType /\ "NOT_SCANNED" \in x.flags
    BY DEF NodeType, Flags
  <2>2. \A n \in CN : r.node[n] \in NodeType /\ "NOT_SCANNED" \notin r.node[n].flags
    BY <1>1, <1>2, Parts DEF Unscanned
  <2>. QED
    BY <2>1, <2>2
<1>4. node \in [CN -> NodeType]
  BY <1>3
<1>5. c \in Int
  BY Counting
<1>6. Stage(r, s, To) = v
  BY DEF Stage
<1>7. s \in MnStates
  BY DEF MnStates
<1>. HIDE DEF node, c
<1>8. v \in RecType
  BY <1>1, <1>4, <1>5, <1>7 DEF RecType
<1>9. v.k2u = r.k2u /\ v.kmn = r.kmn /\ v.mn = s /\ v.node = node /\ v.signal = c
  BY <1>1 DEF RecType
<1>. HIDE DEF v
<1>10. Unscanned(v) = To
  BY <1>3, <1>9 DEF Unscanned
<1>. QED
  BY <1>6, <1>8, <1>9, <1>10, EnteredInv DEF c

LEMMA StateChangeInv ==
  ASSUME NEW r, NEW s, Entry(r, s)
  PROVE  Inv(StateChange(r, s))
<1>1. r \in RecType
  BY DEF Entry
<1>2. CASE s = "PreOp1"
  BY <1>2, DoPreOp1Inv DEF StateChange
<1>3. CASE s = "PreOp2"
  <2>. DEFINE all == {n \in CN : r.node[n].exp = "PreOp1"}
              to == {n \in all : r.node[n].state = "Configured"}
              node == [n \in CN |-> IF n \notin all THEN r.node[n]
                                    ELSE [r.node[n] EXCEPT !.exp = "PreOp2",
                                                   !.flags = @ \cup {"NMT_CMD_ISSUED"}]]
              a == [r EXCEPT !.node = node]
              b == StartSr(a, all, "StateMon")
              c == Cardinality(to \cap Mandatory)
              v == [b EXCEPT !.mand = c]
  <2>1. \A n \in CN : Alike(r.node[n], node[n])
    <3>1. ASSUME NEW d \in NodeType
          PROVE  /\ Alike(d, [d EXCEPT !.exp = "PreOp2", !.flags = @ \cup {"NMT_CMD_ISSUED"}])
                 /\ Alike(d, d)
      BY DEF Alike, NodeType, Flags, CnStates, MnStates
    <3>2. \A n \in CN : r.node[n] \in NodeType
      BY <1>1, Parts
    <3>. QED
      BY <3>1, <3>2
  <2>2. node \in [CN -> NodeType]
    BY <2>1 DEF Alike
  <2>3. c \in Int
    BY Counting
  <2>4. to \in SUBSET CN
    OBVIOUS
  <2>5. StateChange(r, s) = Stage(v, "PreOp2", to)
    BY <1>3 DEF StateChange, StartBootStep2
  <2>6. Keeps(r, a)
    <3>. HIDE DEF node
    <3>. QED
      BY <1>1, <2>1, <2>2, PutNodes
  <2>. HIDE DEF a, c, all
  <2>7. a \in RecType
    BY <2>6 DEF Keeps
  <2>8. Keeps(a, b)
    BY <2>7, StartSrKeeps, Values
  <2>. HIDE DEF b
  <2>9. b \in RecType
    BY <2>8 DEF Keeps
  <2>10. Keeps(b, v)
    BY <2>3, <2>9, PutMand
  <2>. HIDE DEF v, to
  <2>11. Entry(v, s)
    BY <2>6, <2>8, <2>10, KeepsEntry
  <2>. QED
    BY <1>3, <2>4, <2>5, <2>11, StageInv
<1>4. CASE s = "ReadyToOp"
  <2>. DEFINE to == {n \in CN : r.node[n].state = "ReadyToOp"}
              timed == {n \in to : ChecksCom(n)}
              node == [n \in CN |-> IF n \notin to THEN r.node[n]
                            ELSE IF n \in timed THEN [r.node[n] EXCEPT !.lo = "CheckCom"]
                            ELSE [r.node[n] EXCEPT !.state = "ComChecked"]]
              a == [r EXCEPT !.node = node]
              u == Modified(r.uint, timed, {"Longer"})
              b == [a EXCEPT !.uint = u]
              c == Cardinality(timed \cap Mandatory)
              v == [b EXCEPT !.mand = c]
  <2>1. \A n \in CN : Alike(r.node[n], node[n])
    <3>1. ASSUME NEW d \in NodeType
          PROVE  /\ Alike(d, [d EXCEPT !.lo = "CheckCom"])
                 /\ Alike(d, [d EXCEPT !.state = "ComChecked"])
                 /\ Alike(d, d)
      BY DEF Alike, NodeType, NodeStates
    <3>2. \A n \in CN : r.node[n] \in NodeType
      BY <1>1, Parts
    <3>. QED
      BY <3>1, <3>2
  <2>2. node \in [CN -> NodeType]
    BY <2>1 DEF Alike
  <2>3. c \in Int /\ u \in Seq(UserEvents)
    BY <1>1, Counting, Parts, ModifiedType
  <2>4. to \in SUBSET CN
    OBVIOUS
  <2>5. v = [r EXCEPT !.node = node, !.uint = u, !.mand = c]
    OBVIOUS
  <2>6. StateChange(r, s) = Stage(v, "ReadyToOp", to)
    BY <1>4, <2>5 DEF StateChange, StartCheckCom
  <2>7. Keeps(r, a)
    <3>. HIDE DEF node
    <3>. QED
      BY <1>1, <2>1, <2>2, PutNodes
  <2>. HIDE DEF a, c, u
  <2>8. a \in RecType
    BY <2>7 DEF Keeps
  <2>9. Keeps(a, b)
    BY <2>3, <2>8, PutUserQueue
  <2>. HIDE DEF b
  <2>10. b \in RecType
    BY <2>9 DEF Keeps
  <2>11. Keeps(b, v)
    BY <2>3, <2>10, PutMand
  <2>. HIDE DEF v, to
  <2>12. Entry(v, s)
    BY <2>7, <2>9, <2>11, KeepsEntry
  <2>. QED
    BY <1>4, <2>4, <2>6, <2>12, StageInv
<1>5. CASE s = "Operational"
  <2>. DEFINE to == {n \in CN : r.node[n].state = "ComChecked"}
              b == SendEach(r, to, "StartNode")
              c == Cardinality(to \cap Mandatory)
              v == [b EXCEPT !.mand = c]
  <2>1. c \in Int
    BY Counting
  <2>2. to \in SUBSET CN
    OBVIOUS
  <2>3. StateChange(r, s) = Stage(v, "Operational", to)
    BY <1>5 DEF StateChange, StartNodes
  <2>. HIDE DEF c, to
  <2>4. Keeps(r, b)
    BY <1>1, <2>2, SendEachKeeps, Values
  <2>. HIDE DEF b
  <2>5. b \in RecType
    BY <2>4 DEF Keeps
  <2>6. Keeps(b, v)
    BY <2>1, <2>5, PutMand
  <2>. HIDE DEF v
  <2>7. Entry(v, s)
    BY <2>4, <2>6, KeepsEntry
  <2>. QED
    BY <1>5, <2>2, <2>3, <2>7, StageInv
<1>. QED
  BY <1>2, <1>3, <1>4, <1>5 DEF Entry

-----------------------------------------------------------------------------
(* The end of an event: the kernel enters the next state only when no      *)
(* change of state is on its way to the user thread.                       *)
NextState(from, to) == \/ from = "PreOp1" /\ to = "PreOp2"
                       \/ from = "PreOp2" /\ to = "ReadyToOp"
                       \/ from = "ReadyToOp" /\ to = "Operational"

LEMMA KernelGoesInv ==
  ASSUME NEW r, Inv(r), ~r.informed, r.signal = 0, NEW to, NextState(r.mn, to)
  PROVE  LET done == [r EXCEPT !.informed = TRUE]
         IN  Inv(done) /\ Inv(KernelGoes(done, r.mn, to))
<1>. DEFINE done == [r EXCEPT !.informed = TRUE]
            e == KernelEvent("StateChange", 0, to, FALSE)
            a == [done EXCEPT !.kmn = to]
            v == Posted(a, e)
            q == r.k2u
<1>1. /\ r \in RecType /\ q \in Seq(KernelEvents) /\ Queued(r) /\ NodeEvents(r)
      /\ r.signal = Cardinality(Unscanned(r))
  BY Parts DEF Inv
<1>2. done \in RecType
  BY <1>1 DEF RecType
<1>3. /\ done.k2u = q /\ done.mn = r.mn /\ done.kmn = r.kmn /\ done.signal = 0
      /\ done.informed = TRUE /\ done.node = r.node
  BY <1>1 DEF RecType
<1>. HIDE DEF done
<1>4. Pending(done) = Pending(r) /\ Unscanned(done) = Unscanned(r) /\ NodeEvents(done)
  BY <1>1, <1>3 DEF Pending, Unscanned, NodeEvents
<1>5. \A i \in Pending(r) : r.k2u[i].nmt = "PreOp1" /\ Falls(r, i)
  BY <1>1 DEF Queued, Advances
<1>6. Inv(done)
  <2>1. Queued(done)
    BY <1>1, <1>3, <1>4, <1>5 DEF Queued, Falls
  <2>. QED
    BY <1>1, <1>2, <1>3, <1>4, <2>1 DEF Inv
<1>7. CASE r.kmn = r.mn
  <2>1. Pending(r) = {}
    BY <1>5, <1>7 DEF Falls
  <2>2. e \in KernelEvents /\ e.type = "StateChange" /\ e.nmt = to /\ to \in MnStates
    BY DEF KernelEvent, KernelEvents, MnStates, NextState
  <2>3. KernelGoes(done, r.mn, to) = v
    BY <1>3, <1>7 DEF KernelGoes
  <2>4. a \in RecType
    BY <1>2, <2>2 DEF RecType
  <2>5. /\ a.k2u = q /\ a.mn = r.mn /\ a.kmn = to /\ a.signal = 0 /\ a.informed = TRUE
        /\ a.node = r.node
    BY <1>2, <1>3 DEF RecType
  <2>. HIDE DEF a, e
  <2>6. v = [a EXCEPT !.k2u = Append(q, e)]
    BY <2>5 DEF Posted
  <2>7. /\ Append(q, e) \in Seq(KernelEvents) /\ DOMAIN q = 1 .. Len(q) /\ Len(q) \in Nat
        /\ DOMAIN Append(q, e) = 1 .. Len(q) + 1
        /\ \A i \in 1 .. Len(q) : Append(q, e)[i] = q[i]
        /\ Append(q, e)[Len(q) + 1] = e
    BY <1>1, <2>2, AppendFacts
  <2>8. v \in RecType
    BY <2>4, <2>6, <2>7 DEF RecType
  <2>9. /\ v.k2u = Append(q, e) /\ v.mn = r.mn /\ v.kmn = to /\ v.signal = 0 /\ v.informed = TRUE
        /\ v.node = r.node
    BY <2>4, <2>5, <2>6 DEF RecType
  <2>. HIDE DEF v
  <2>10. Pending(v) = {Len(q) + 1}
    <3>1. \A i \in 1 .. Len(q) : q[i].type # "StateChange"
      BY <2>1, <2>7 DEF Pending
    <3>. QED
      BY <2>2, <2>7, <2>9, <3>1 DEF Pending
  <2>11. Queued(v)
    <3>. DEFINE i == Len(q) + 1
    <3>1. v.k2u[i].nmt = to /\ to # "PreOp1" /\ to # "NotActive" /\ v.mn = Before(to)
      BY <2>2, <2>7, <2>9 DEF Before, NextState
    <3>2. i \in Int /\ Pending(v) = {i}
      BY <2>7, <2>10
    <3>. HIDE DEF i
    <3>3. Advances(v, i)
      BY <2>9, <3>1, <3>2 DEF Advances
    <3>. QED
      BY <3>1, <3>2, <3>3 DEF Queued
  <2>12. NodeEvents(v)
    BY <1>1, <2>2, <2>7, <2>9 DEF NodeEvents
  <2>13. Unscanned(v) = Unscanned(r)
    BY <2>9 DEF Unscanned
  <2>. QED
    BY <1>1, <1>6, <2>3, <2>8, <2>9, <2>11, <2>12, <2>13 DEF Inv, done
<1>8. CASE r.kmn # r.mn
  <2>1. KernelGoes(done, r.mn, to) = done
    BY <1>3, <1>8 DEF KernelGoes
  <2>. QED
    BY <1>6, <2>1 DEF done
<1>. QED
  BY <1>7, <1>8

LEMMA ProceedInv ==
  ASSUME NEW r, Inv(r)
  PROVE  Inv(Proceed(r))
<1>. DEFINE done == [r EXCEPT !.informed = TRUE]
<1>1. CASE r.informed \/ r.signal # 0 \/ r.mand # 0
  BY <1>1 DEF Proceed
<1>2. CASE ~r.informed /\ r.signal = 0 /\ ~(r.mand # 0)
  <2>1. CASE r.mn = "PreOp1"
    <3>1. Inv(KernelGoes(done, r.mn, "PreOp2"))
      BY <1>2, <2>1, KernelGoesInv DEF NextState
    <3>. QED
      BY <1>2, <2>1, <3>1 DEF Proceed
  <2>2. CASE r.mn = "PreOp2"
    <3>1. Inv(KernelGoes(done, r.mn, "ReadyToOp"))
      BY <1>2, <2>2, KernelGoesInv DEF NextState
    <3>. QED
      BY <1>2, <2>2, <3>1 DEF Proceed
  <2>3. CASE r.mn = "ReadyToOp"
    <3>1. Inv(KernelGoes(done, r.mn, "Operational"))
      BY <1>2, <2>3, KernelGoesInv DEF NextState
    <3>. QED
      BY <1>2, <2>3, <3>1 DEF Proceed
  <2>4. CASE r.mn \notin {"PreOp1", "PreOp2", "ReadyToOp"}
    <3>1. Proceed(r) = done
      BY <1>2, <2>4 DEF Proceed
    <3>2. Inv(done)
      <4>1. r \in RecType
        BY DEF Inv
      <4>2. done \in RecType
        BY <4>1 DEF RecType
      <4>3. /\ done.k2u = r.k2u /\ done.mn = r.mn /\ done.kmn = r.kmn /\ done.signal = r.signal
            /\ done.informed = TRUE /\ done.node = r.node
        BY <4>1 DEF RecType
      <4>. HIDE DEF done
      <4>4. Pending(done) = Pending(r) /\ Unscanned(done) = Unscanned(r)
        BY <4>3 DEF Pending, Unscanned
      <4>5. NodeEvents(done)
        BY <4>3 DEF NodeEvents, Inv
      <4>6. Queued(r)
        BY DEF Inv
      <4>7. Queued(done)
        BY <4>3, <4>4, <4>6 DEF Queued, Falls, Advances
      <4>. QED
        BY <4>2, <4>3, <4>4, <4>5, <4>7 DEF Inv
    <3>. QED
      BY <3>1, <3>2
  <2>. QED
    BY <2>1, <2>2, <2>3, <2>4
<1>. QED
  BY <1>1, <1>2

-----------------------------------------------------------------------------
(* The user thread takes the first event of a queue.                       *)
LEMMA TakeFacts ==
  ASSUME NEW S, NEW q \in Seq(S), q # <<>>
  PROVE  /\ Head(q) \in S /\ Head(q) = q[1] /\ Tail(q) \in Seq(S) /\ Len(q) \in Nat \ {0}
         /\ DOMAIN q = 1 .. Len(q) /\ DOMAIN Tail(q) = 1 .. Len(q) - 1
         /\ \A i \in 1 .. Len(q) - 1 : Tail(q)[i] = q[i + 1]
<1>1. Head(q) = q[1] /\ Len(q) \in Nat \ {0} /\ DOMAIN q = 1 .. Len(q) /\ q[1] \in S
  BY EmptySeq
<1>2. Tail(q) \in Seq(S) /\ Len(Tail(q)) = Len(q) - 1 /\ \A i \in 1 .. Len(q) - 1 : Tail(q)[i] = q[i + 1]
  BY HeadTailProperties
<1>. QED
  BY <1>1, <1>2

LEMMA TakenFacts ==
  ASSUME NEW r, Inv(r), r.k2u # <<>>
  PROVE  LET v == [r EXCEPT !.k2u = Tail(@)]
             e == Head(r.k2u)
         IN  /\ e \in KernelEvents
             /\ e.type = "StateChange" => Entry(v, e.nmt)
             /\ e.type # "StateChange" => Inv(v)
             /\ e.type \notin {"StateChange", "CmdSent"} => e.node \in CN
<1>. DEFINE q == r.k2u
            t == Tail(q)
            v == [r EXCEPT !.k2u = t]
            e == Head(q)
            len == Len(q)
<1>1. /\ r \in RecType /\ q \in Seq(KernelEvents) /\ Queued(r) /\ NodeEvents(r)
      /\ r.signal = Cardinality(Unscanned(r))
  BY Parts DEF Inv
<1>2. /\ e \in KernelEvents /\ e = q[1] /\ t \in Seq(KernelEvents) /\ len \in Nat \ {0}
      /\ DOMAIN q = 1 .. len /\ DOMAIN t = 1 .. len - 1
      /\ \A i \in 1 .. len - 1 : t[i] = q[i + 1]
  <2>. HIDE DEF q
  <2>. QED
    BY <1>1, TakeFacts DEF q
<1>3. v \in RecType
  <2>. HIDE DEF t
  <2>. QED
    BY <1>1, <1>2 DEF RecType
<1>4. /\ v.k2u = t /\ v.mn = r.mn /\ v.kmn = r.kmn /\ v.signal = r.signal
      /\ v.informed = r.informed /\ v.node = r.node
  BY <1>1 DEF RecType
<1>. HIDE DEF v, t, e, len
<1>5. 1 \in DOMAIN q /\ \A i \in DOMAIN t : i \in Nat /\ i + 1 \in DOMAIN q /\ t[i] = q[i + 1]
  BY <1>2
<1>6. NodeEvents(v) /\ (e.type \notin {"StateChange", "CmdSent"} => e.node \in CN)
  BY <1>1, <1>2, <1>4, <1>5 DEF NodeEvents
<1>7. Unscanned(v) = Unscanned(r)
  BY <1>4 DEF Unscanned
<1>8. ASSUME NEW i
      PROVE  i \in Pending(v) => /\ i \in Nat /\ i + 1 \in Pending(r)
                                 /\ v.k2u[i] = r.k2u[i + 1]
  BY <1>4, <1>5 DEF Pending
<1>9. ASSUME NEW j \in Pending(r), j # 1
      PROVE  j \in Nat /\ j > 1 /\ j - 1 \in Pending(v) /\ j - 1 + 1 = j
  <2>1. j \in Nat /\ j > 1 /\ j - 1 \in 1 .. len - 1 /\ j - 1 + 1 = j
    BY <1>2, <1>9 DEF Pending
  <2>2. t[j - 1] = q[j]
    BY <1>2, <2>1
  <2>. QED
    BY <1>2, <1>4, <1>9, <2>1, <2>2 DEF Pending
<1>10. Pending(r) \subseteq Nat
  BY <1>2 DEF Pending
<1>11. ASSUME e.type # "StateChange" PROVE Inv(v)
  <2>1. 1 \notin Pending(r)
    BY <1>2, <1>11 DEF Pending
  <2>2. ASSUME NEW i \in Pending(v)
        PROVE  IF v.k2u[i].nmt = "PreOp1" THEN Falls(v, i) ELSE Advances(v, i)
    <3>1. i \in Nat /\ i + 1 \in Pending(r) /\ v.k2u[i] = r.k2u[i + 1]
      BY <1>8
    <3>2. CASE v.k2u[i].nmt = "PreOp1"
      <4>1. Falls(r, i + 1)
        BY <1>1, <3>1, <3>2 DEF Queued
      <4>2. \A j \in Pending(v) : j <= i
        BY <1>8, <3>1, <4>1 DEF Falls
      <4>. QED
        BY <1>4, <3>2, <4>1, <4>2 DEF Falls
    <3>3. CASE v.k2u[i].nmt # "PreOp1"
      <4>1. Advances(r, i + 1)
        BY <1>1, <3>1, <3>3 DEF Queued
      <4>2. \A j \in Pending(v) : i <= j
        BY <1>8, <3>1, <4>1 DEF Advances
      <4>3. \/ v.kmn = v.k2u[i].nmt
            \/ \E j \in Pending(v) : v.k2u[j].nmt = "PreOp1"
        <5>1. CASE r.kmn = r.k2u[i + 1].nmt
          BY <1>4, <3>1, <5>1
        <5>2. CASE \E j \in Pending(r) : r.k2u[j].nmt = "PreOp1"
          <6>1. PICK j \in Pending(r) : r.k2u[j].nmt = "PreOp1"
            BY <5>2
          <6>2. j - 1 \in Pending(v) /\ j - 1 + 1 = j
            BY <1>9, <2>1
          <6>3. v.k2u[j - 1] = r.k2u[j]
            BY <1>8, <6>2
          <6>. QED
            BY <6>1, <6>2, <6>3
        <5>. QED
          BY <4>1, <5>1, <5>2 DEF Advances
      <4>. QED
        BY <1>4, <3>1, <3>3, <4>1, <4>2, <4>3 DEF Advances
    <3>. QED
      BY <3>2, <3>3
  <2>3. Pending(v) = {} => Pending(r) = {}
    BY <1>9, <2>1
  <2>4. Queued(v)
    BY <1>1, <1>4, <2>2, <2>3 DEF Queued
  <2>. QED
    BY <1>1, <1>3, <1>4, <1>6, <1>7, <2>4 DEF Inv
<1>12. ASSUME e.type = "StateChange" PROVE Entry(v, e.nmt)
  <2>1. 1 \in Pending(r) /\ r.k2u[1] = e
    BY <1>2, <1>5, <1>12 DEF Pending
  <2>2. CASE e.nmt = "PreOp1"
    <3>1. Falls(r, 1)
      BY <1>1, <2>1, <2>2 DEF Queued
    <3>2. Pending(v) = {}
      <4>1. ASSUME NEW i \in Pending(v) PROVE FALSE
        <5>1. i \in Nat /\ i + 1 \in Pending(r)
          BY <1>8
        <5>2. i + 1 <= 1 /\ i + 1 # 1
          <6>1. i # 0
            BY <1>2, <1>4 DEF Pending
          <6>. QED
            BY <3>1, <5>1, <6>1 DEF Falls
        <5>. QED
          BY <5>1, <5>2
      <4>. QED
        BY <4>1
    <3>. QED
      BY <1>1, <1>3, <1>4, <1>6, <1>7, <2>2, <3>1, <3>2 DEF Entry, Falls
  <2>3. CASE e.nmt # "PreOp1"
    <3>1. Advances(r, 1)
      BY <1>1, <2>1, <2>3 DEF Queued
    <3>2. e.nmt \in {"PreOp2", "ReadyToOp", "Operational"}
      BY <1>2, <2>1, <2>3, <3>1 DEF Advances, KernelEvents, MnStates
    <3>3. ASSUME NEW i \in Pending(v)
          PROVE  v.k2u[i].nmt = "PreOp1" /\ Falls(r, i + 1) /\ i \in Nat /\ i + 1 \in Pending(r)
      <4>1. i \in Nat /\ i + 1 \in Pending(r) /\ v.k2u[i] = r.k2u[i + 1] /\ i # 0
        <5>1. i # 0
          BY <1>2, <1>4 DEF Pending
        <5>. QED
          BY <1>8, <5>1
      <4>2. ~Advances(r, i + 1)
        BY <2>1, <4>1 DEF Advances
      <4>. QED
        BY <1>1, <4>1, <4>2 DEF Queued
    <3>4. ASSUME NEW i \in Pending(v), NEW j \in Pending(v) PROVE j <= i
      <4>1. i \in Nat /\ j \in Nat /\ j + 1 \in Pending(r) /\ Falls(r, i + 1)
        BY <3>3
      <4>. QED
        BY <4>1 DEF Falls
    <3>5. r.kmn = IF Pending(v) = {} THEN e.nmt ELSE "PreOp1"
      <4>1. CASE Pending(v) = {}
        <5>1. \A j \in Pending(r) : j = 1
          BY <1>9, <4>1
        <5>. QED
          BY <2>1, <2>3, <3>1, <4>1, <5>1 DEF Advances
      <4>2. CASE Pending(v) # {}
        BY <3>3, <4>2 DEF Falls
      <4>. QED
        BY <4>1, <4>2
    <3>. QED
      BY <1>1, <1>3, <1>4, <1>6, <1>7, <3>1, <3>2, <3>3, <3>4, <3>5 DEF Entry, Advances
  <2>. QED
    BY <2>2, <2>3
<1>. QED
  BY <1>2, <1>6, <1>11, <1>12 DEF v, e, t

LEMMA KernelEventInv ==
  ASSUME NEW r, NEW e \in KernelEvents,
         e.type = "StateChange" => Entry(r, e.nmt),
         e.type # "StateChange" => Inv(r),
         e.type \notin {"StateChange", "CmdSent"} => e.node \in CN
  PROVE  Inv(ProcessKernelEvent(r, e))
<1>1. /\ e.type \in {"StateChange", "NodeAdded", "CmdSent", "Heartbeat", "Ident", "Status"}
      /\ e.nmt \in CnStates /\ e.flag \in BOOLEAN
  BY DEF KernelEvents, CnStates
<1>2. CASE e.type = "StateChange"
  BY <1>2, StateChangeInv DEF ProcessKernelEvent
<1>3. CASE e.type = "NodeAdded"
  BY <1>3, NodeHandlersInv DEF ProcessKernelEvent
<1>4. CASE e.type = "CmdSent"
  BY <1>1, <1>4, NmtCmdSentInv DEF ProcessKernelEvent
<1>5. CASE e.type = "Heartbeat"
  <2>1. Inv(Heartbeat(r, e.node, e.nmt, e.flag))
    BY <1>1, <1>5, NodeHandlersInv
  <2>2. Inv(Proceed(Heartbeat(r, e.node, e.nmt, e.flag)))
    BY <2>1, ProceedInv
  <2>. QED
    BY <1>5, <2>2 DEF ProcessKernelEvent
<1>6. CASE e.type = "Ident"
  <2>. DEFINE r1 == [r EXCEPT !.ident = @ \ {e.node}]
              v == IF e.nmt = "NotActive" THEN NoIdentResponse(r1, e.node)
                   ELSE IdentResponse(r1, e.node, e.nmt, e.flag)
  <2>1. Inv(r) /\ e.node \in CN
    BY <1>6
  <2>2. Inv(r1)
    <3>1. r \in RecType
      BY <2>1 DEF Inv
    <3>2. Keeps(r, r1)
      BY <3>1 DEF RecType, Keeps, Unscanned
    <3>. QED
      BY <2>1, <3>2, KeepsInv
  <2>. HIDE DEF r1
  <2>3. Inv(v)
    BY <1>1, <2>1, <2>2, IdentResponseInv, NoIdentResponseInv
  <2>4. Inv(Proceed(v))
    <3>. HIDE DEF v
    <3>. QED
      BY <2>3, ProceedInv
  <2>. QED
    BY <1>6, <2>1, <2>4 DEF ProcessKernelEvent, r1
<1>7. CASE e.type = "Status"
  <2>. DEFINE r1 == [r EXCEPT !.status = @ \ {e.node}]
              v == IF e.nmt = "NotActive" THEN NoStatusResponse(r1, e.node)
                   ELSE StatusResponse(r1, e.node, e.nmt)
  <2>1. Inv(r) /\ e.node \in CN
    BY <1>7
  <2>2. Inv(r1)
    <3>1. r \in RecType
      BY <2>1 DEF Inv
    <3>2. Keeps(r, r1)
      BY <3>1 DEF RecType, Keeps, Unscanned
    <3>. QED
      BY <2>1, <3>2, KeepsInv
  <2>. HIDE DEF r1
  <2>3. Inv(v)
    BY <1>1, <2>1, <2>2, StatusResponseInv, NodeHandlersInv
  <2>4. Inv(Proceed(v))
    <3>. HIDE DEF v
    <3>. QED
      BY <2>3, ProceedInv
  <2>. QED
    BY <1>7, <2>1, <2>4 DEF ProcessKernelEvent, r1
<1>. QED
  BY <1>1, <1>2, <1>3, <1>4, <1>5, <1>6, <1>7

LEMMA UserEventInv ==
  ASSUME NEW r, Inv(r), NEW e \in UserEvents
  PROVE  Inv(ProcessUserEvent(r, e))
<1>1. e.type \in SrTimers \cup {"Longer"} \cup NodeCmds /\ e.node \in CN
  BY DEF UserEvents
<1>. DEFINE n == e.node
            v == CASE e.type = "IdentReq" -> RequestIdent(r, e.node)
                 [] e.type = "StatReq" -> RequestStatus(r, e.node)
                 [] e.type = "StateMon" -> TimerStateMon(r, e.node)
                 [] e.type = "Longer" -> TimerLonger(r, e.node)
                 [] e.type = "ConfErr" -> ConfigError(r, e.node)
                 [] e.type = "ConfRestored" -> ExecResetNode(r, e.node)
                 [] e.type = "ConfReset" -> ExecResetConf(r, e.node)
<1>2. /\ Inv(RequestIdent(r, n)) /\ Inv(RequestStatus(r, n)) /\ Inv(TimerStateMon(r, n))
      /\ Inv(TimerLonger(r, n)) /\ Inv(ConfigError(r, n)) /\ Inv(ExecResetNode(r, n))
      /\ Inv(ExecResetConf(r, n))
  BY <1>1, HelperInv, NodeHandlersInv
<1>3. Inv(v)
  BY <1>1, <1>2 DEF SrTimers, NodeCmds
<1>4. Inv(Proceed(v))
  <2>. HIDE DEF v
  <2>. QED
    BY <1>3, ProceedInv
<1>. QED
  BY <1>4 DEF ProcessUserEvent

-----------------------------------------------------------------------------
(* The actions.                                                            *)
NetType == [CN -> [nmt : CnStates, enabled : BOOLEAN, match : BOOLEAN]]
IInv == Inv(m) /\ cn \in NetType /\ faults \in 0 .. MaxFaults

LEMMA FaultTyped ==
  ASSUME NEW kind, NEW n, faults \in 0 .. MaxFaults, Fault(kind, n)
  PROVE  faults' \in 0 .. MaxFaults
BY FaultAssumption DEF Fault

LEMMA UserStep ==
  ASSUME IInv, UserServesK2U \/ UserServesUInt
  PROVE  IInv'
<1>1. CASE UserServesK2U
  <2>. DEFINE v == [m EXCEPT !.k2u = Tail(@)]
              e == Head(m.k2u)
  <2>1. /\ e \in KernelEvents
        /\ e.type = "StateChange" => Entry(v, e.nmt)
        /\ e.type # "StateChange" => Inv(v)
        /\ e.type \notin {"StateChange", "CmdSent"} => e.node \in CN
    BY <1>1, TakenFacts DEF IInv, UserServesK2U
  <2>2. m' = ProcessKernelEvent(v, e) /\ UNCHANGED <<cn, faults>>
    BY <1>1 DEF UserServesK2U
  <2>. HIDE DEF v, e
  <2>3. Inv(ProcessKernelEvent(v, e))
    BY <2>1, KernelEventInv
  <2>. QED
    BY <2>2, <2>3 DEF IInv
<1>2. CASE UserServesUInt
  <2>. DEFINE t == Tail(m.uint)
              v == [m EXCEPT !.uint = t]
              e == Head(m.uint)
  <2>1. m \in RecType /\ m.uint \in Seq(UserEvents) /\ m.uint # <<>>
    BY <1>2, Parts DEF IInv, Inv, UserServesUInt
  <2>2. e \in UserEvents /\ t \in Seq(UserEvents)
    BY <2>1, TakeFacts
  <2>3. m' = ProcessUserEvent(v, e) /\ UNCHANGED <<cn, faults>>
    BY <1>2 DEF UserServesUInt
  <2>. HIDE DEF t, e
  <2>4. Inv(v)
    BY <2>1, <2>2, PutUserQueue, KeepsInv DEF IInv
  <2>. HIDE DEF v
  <2>5. Inv(ProcessUserEvent(v, e))
    BY <2>2, <2>4, UserEventInv
  <2>. QED
    BY <2>3, <2>5 DEF IInv
<1>. QED
  BY <1>1, <1>2

LEMMA PutNodeAndQueue ==
  ASSUME NEW r, Inv(r), NEW n \in CN, NEW d, Alike(r.node[n], d), NEW q \in Seq(UserEvents)
  PROVE  Inv([r EXCEPT !.node[n] = d, !.uint = q])
<1>. DEFINE v == [r EXCEPT !.node[n] = d]
<1>1. r \in RecType
  BY DEF Inv
<1>2. Keeps(r, v)
  BY <1>1, PutNode
<1>3. v \in RecType
  BY <1>2 DEF Keeps
<1>4. [r EXCEPT !.node[n] = d, !.uint = q] = [v EXCEPT !.uint = q]
  OBVIOUS
<1>. HIDE DEF v
<1>. QED
  BY <1>2, <1>3, <1>4, PutUserQueue, KeepsInv

LEMMA UserEventTyped ==
  ASSUME NEW r, Inv(r), NEW n \in CN, NEW t \in SrTimers \cup {"Longer"} \cup NodeCmds
  PROVE  Append(r.uint, UserEvent(t, n)) \in Seq(UserEvents)
<1>1. UserEvent(t, n) \in UserEvents
  BY DEF UserEvent, UserEvents, CounterSize
<1>2. r.uint \in Seq(UserEvents)
  BY Parts DEF Inv
<1>. QED
  BY <1>1, <1>2

LEMMA SdoEndsInv ==
  ASSUME NEW r, Inv(r), NEW n \in CN, r.node[n].cfm # "Idle", NEW ok \in BOOLEAN
  PROVE  Inv(SdoEnds(r, n, ok))
<1>. DEFINE finish(cmd) == [r EXCEPT !.node[n].cfm = "Idle", !.uint = Append(@, UserEvent(cmd, n))]
            state(s) == [r EXCEPT !.node[n].cfm = s]
<1>1. r.node[n] \in NodeType /\ r.node[n].cfm \in CfmStates
  BY Parts, NodeParts DEF Inv
<1>2. ASSUME NEW cmd \in NodeCmds PROVE Inv(finish(cmd))
  <2>. DEFINE q == Append(r.uint, UserEvent(cmd, n))
              d == [r.node[n] EXCEPT !.cfm = "Idle"]
  <2>1. q \in Seq(UserEvents)
    BY UserEventTyped
  <2>2. Alike(r.node[n], d)
    BY <1>1 DEF Alike, NodeType, CfmStates
  <2>3. finish(cmd) = [r EXCEPT !.node[n] = d, !.uint = q]
    OBVIOUS
  <2>. HIDE DEF q, d
  <2>. QED
    BY <2>1, <2>2, <2>3, PutNodeAndQueue
<1>3. \A s \in CfmStates : Inv(state(s))
  BY PutInv
<1>4. \/ \E cmd \in NodeCmds : SdoEnds(r, n, ok) = finish(cmd)
      \/ \E s \in CfmStates : SdoEnds(r, n, ok) = state(s)
  <2>1. CASE r.node[n].cfm = "WaitRestore"
    BY <2>1 DEF SdoEnds, NodeCmds, CfmStates
  <2>2. CASE r.node[n].cfm = "Download"
    BY <2>2 DEF SdoEnds, NodeCmds, CfmStates
  <2>3. CASE r.node[n].cfm = "WaitStore"
    BY <2>3 DEF SdoEnds, NodeCmds, CfmStates
  <2>4. CASE r.node[n].cfm = "UpToDate"
    BY <2>4 DEF SdoEnds, NodeCmds, CfmStates
  <2>. QED
    BY <1>1, <2>1, <2>2, <2>3, <2>4 DEF CfmStates
<1>. QED
  BY <1>2, <1>3, <1>4

LEMMA SdoStep ==
  ASSUME IInv, NEW n \in CN, SdoTransferEnds(n)
  PROVE  IInv'
<1>1. PICK ok \in BOOLEAN :
        /\ m' = SdoEnds(m, n, ok)
        /\ cn' = [cn EXCEPT ![n].match =
                   CASE ok /\ m.node[n].cfm = "WaitRestore" -> FALSE
                     [] ok /\ m.node[n].cfm = "WaitStore" -> TRUE
                     [] OTHER -> @]
  BY DEF SdoTransferEnds
<1>2. Inv(m')
  BY <1>1, SdoEndsInv DEF SdoTransferEnds, IInv
<1>3. cn' \in NetType
  <2>1. PICK b : cn' = [cn EXCEPT ![n].match = b] /\ b \in BOOLEAN
    <3>1. cn[n].match \in BOOLEAN
      BY DEF IInv, NetType
    <3>. QED
      BY <1>1, <3>1
  <2>2. [cn[n] EXCEPT !.match = b] \in [nmt : CnStates, enabled : BOOLEAN, match : BOOLEAN]
    BY <2>1 DEF IInv, NetType
  <2>. QED
    BY <2>1, <2>2 DEF IInv, NetType
<1>. QED
  BY <1>2, <1>3 DEF IInv, SdoTransferEnds

-----------------------------------------------------------------------------
LEMMA GrantKeeps ==
  ASSUME NEW r \in RecType, Granted(r) \in Queues, r[Granted(r)] # <<>>
  PROVE  Keeps(r, Grant(r))
<1>. DEFINE q == Granted(r)
            x == NextQueue[q]
<1>1. x \in Queues
  BY DEF NextQueue, Queues
<1>2. CASE q = "iq"
  <2>. DEFINE t == Tail(r.iq)
  <2>1. t \in Seq(CN)
    BY <1>2, Parts, TakeFacts
  <2>2. Grant(r) = [r EXCEPT !.iq = t, !.turn = x]
    BY <1>2 DEF Grant
  <2>. HIDE DEF t, x
  <2>. QED
    BY <1>1, <2>1, <2>2 DEF Keeps, RecType, Unscanned
<1>3. CASE q = "sq"
  <2>. DEFINE t == Tail(r.sq)
  <2>1. t \in Seq(CN)
    BY <1>3, Parts, TakeFacts
  <2>2. Grant(r) = [r EXCEPT !.sq = t, !.turn = x]
    BY <1>3 DEF Grant
  <2>. HIDE DEF t, x
  <2>. QED
    BY <1>1, <2>1, <2>2 DEF Keeps, RecType, Unscanned
<1>4. CASE q = "tx"
  <2>. DEFINE t == Tail(r.tx)
  <2>1. t \in Seq(Commands)
    BY <1>4, Parts, TakeFacts
  <2>2. Grant(r) = [r EXCEPT !.tx = t, !.turn = x]
    BY <1>4 DEF Grant
  <2>. HIDE DEF t, x
  <2>. QED
    BY <1>1, <2>1, <2>2 DEF Keeps, RecType, Unscanned
<1>. QED
  BY <1>2, <1>3, <1>4 DEF Queues

LEMMA GrantedPosts ==
  ASSUME NEW r, Inv(r), Granted(r) \in Queues, r[Granted(r)] # <<>>, NEW e \in KernelEvents,
         e.type # "StateChange", e.type # "CmdSent" => e.node \in CN
  PROVE  Inv(Posted(Grant(r), e))
<1>1. Inv(Grant(r))
  BY GrantKeeps, KeepsInv DEF Inv
<1>. QED
  BY <1>1, PostedInv

LEMMA ServeStep ==
  ASSUME IInv, ServeIdent \/ ServeStatus
  PROVE  IInv'
<1>1. ASSUME NEW type \in {"Ident", "Status"}, NEW n \in CN, NEW s \in CnStates,
             Answer(type, n, s), Granted(m) \in Queues, m[Granted(m)] # <<>>
      PROVE  Inv(m')
  <2>. DEFINE flag == IF type = "Ident" THEN cn[n].match ELSE FALSE
              e == KernelEvent(type, n, s, flag)
  <2>1. flag \in BOOLEAN
    BY DEF IInv, NetType
  <2>2. e \in KernelEvents /\ e.type = type /\ e.node = n
    <3>. HIDE DEF flag
    <3>. QED
      BY <2>1 DEF KernelEvent, KernelEvents, CnStates
  <2>3. m' = Posted(Grant(m), e)
    BY <1>1 DEF Answer
  <2>. HIDE DEF e
  <2>. QED
    BY <1>1, <2>2, <2>3, GrantedPosts DEF IInv
<1>2. \A n \in CN : cn[n].nmt \in CnStates
  BY DEF IInv, NetType
<1>3. CASE ServeIdent
  <2>. DEFINE n == Head(m.iq)
  <2>1. n \in CN /\ Granted(m) \in Queues /\ m[Granted(m)] # <<>>
    <3>1. m.iq \in Seq(CN) /\ m.iq # <<>> /\ Granted(m) = "iq"
      BY <1>3, Parts DEF IInv, Inv, ServeIdent
    <3>. QED
      BY <3>1, TakeFacts DEF Queues
  <2>2. /\ Answer("Ident", n, cn[n].nmt) \/ Answer("Ident", n, "NotActive")
        /\ faults' = faults \/ Fault("LoseAnswer", n)
        /\ cn' = cn
    BY <1>3 DEF ServeIdent
  <2>. HIDE DEF n
  <2>3. Inv(m')
    BY <1>1, <1>2, <2>1, <2>2, Values
  <2>. QED
    BY <2>2, <2>3, FaultTyped DEF IInv
<1>4. CASE ServeStatus
  <2>. DEFINE n == Head(m.sq)
  <2>1. n \in CN /\ Granted(m) \in Queues /\ m[Granted(m)] # <<>>
    <3>1. m.sq \in Seq(CN) /\ m.sq # <<>> /\ Granted(m) = "sq"
      BY <1>4, Parts DEF IInv, Inv, ServeStatus
    <3>. QED
      BY <3>1, TakeFacts DEF Queues
  <2>2. /\ Answer("Status", n, cn[n].nmt) \/ Answer("Status", n, "NotActive")
        /\ faults' = faults \/ Fault("LoseAnswer", n)
        /\ cn' = cn
    BY <1>4 DEF ServeStatus
  <2>. HIDE DEF n
  <2>3. Inv(m')
    BY <1>1, <1>2, <2>1, <2>2, Values
  <2>. QED
    BY <2>2, <2>3, FaultTyped DEF IInv
<1>. QED
  BY <1>3, <1>4

LEMMA CommandStep ==
  ASSUME IInv, SendCommand
  PROVE  IInv'
<1>. DEFINE c == Head(m.tx)
            e == KernelEvent("CmdSent", c.to, Expected[c.cmd], FALSE)
<1>1. m.tx \in Seq(Commands) /\ m.tx # <<>> /\ Granted(m) = "tx"
  BY Parts DEF IInv, Inv, SendCommand
<1>2. c \in Commands
  BY <1>1, TakeFacts
<1>3. m' = Posted(Grant(m), e) /\ faults' = faults
      /\ cn' = [n \in CN |-> IF n \in Destinations(c.to) THEN Execute(cn[n], c.cmd) ELSE cn[n]]
  BY DEF SendCommand
<1>. HIDE DEF c
<1>4. e \in KernelEvents /\ e.type = "CmdSent"
  BY <1>2 DEF KernelEvent, KernelEvents, Commands, Expected, MnStates
<1>. HIDE DEF e
<1>5. Inv(m')
  BY <1>1, <1>3, <1>4, GrantedPosts DEF IInv, Queues
<1>6. cn' \in NetType
  <2>. DEFINE T == [nmt : CnStates, enabled : BOOLEAN, match : BOOLEAN]
  <2>1. ASSUME NEW d \in T PROVE Execute(d, c.cmd) \in T
    BY DEF Execute, CnStates, MnStates
  <2>2. \A n \in CN : cn[n] \in T
    BY DEF IInv, NetType
  <2>. QED
    BY <1>3, <2>1, <2>2 DEF NetType
<1>. QED
  BY <1>3, <1>5, <1>6 DEF IInv

LEMMA PresStep ==
  ASSUME IInv, NEW n \in CN, PresReceived(n) \/ PresLost(n)
  PROVE  IInv'
<1>1. m \in RecType /\ Inv(m) /\ cn[n].nmt \in CnStates /\ m.seen \in [CN -> CnStates]
      /\ m.kiso \in SUBSET CN
  BY Parts DEF IInv, Inv, NetType
<1>2. CASE PresReceived(n)
  <2>. DEFINE s == [m.seen EXCEPT ![n] = cn[n].nmt]
              v == [m EXCEPT !.seen = s]
              e == KernelEvent("Heartbeat", n, cn[n].nmt, FALSE)
  <2>1. s \in [CN -> CnStates]
    BY <1>1
  <2>2. m' = Posted(v, e) /\ UNCHANGED <<cn, faults>>
    BY <1>2 DEF PresReceived
  <2>3. e \in KernelEvents /\ e.type = "Heartbeat" /\ e.node = n
    BY <1>1 DEF KernelEvent, KernelEvents, CnStates
  <2>. HIDE DEF s, e
  <2>4. Keeps(m, v)
    BY <1>1, <2>1 DEF RecType, Keeps, Unscanned
  <2>5. Inv(v)
    BY <1>1, <2>4, KeepsInv
  <2>. HIDE DEF v
  <2>. QED
    BY <2>2, <2>3, <2>5, PostedInv DEF IInv
<1>3. CASE PresLost(n)
  <2>. DEFINE K == m.kiso \ {n}
              v == [m EXCEPT !.kiso = K]
              e == KernelEvent("Heartbeat", n, "NotActive", TRUE)
  <2>1. K \in SUBSET CN
    BY <1>1
  <2>2. m' = Posted(v, e) /\ UNCHANGED <<cn, faults>>
    BY <1>3 DEF PresLost
  <2>3. e \in KernelEvents /\ e.type = "Heartbeat" /\ e.node = n
    BY DEF KernelEvent, KernelEvents, MnStates
  <2>. HIDE DEF K, e
  <2>4. Keeps(m, v)
    BY <1>1, <2>1 DEF RecType, Keeps, Unscanned
  <2>5. Inv(v)
    BY <1>1, <2>4, KeepsInv
  <2>. HIDE DEF v
  <2>. QED
    BY <2>2, <2>3, <2>5, PostedInv DEF IInv
<1>. QED
  BY <1>2, <1>3

LEMMA TimerStep ==
  ASSUME IInv, NEW n \in CN, SrTimerFires(n) \/ LongerFires(n)
  PROVE  IInv'
<1>1. m \in RecType /\ Inv(m) /\ m.node[n] \in NodeType
  BY Parts DEF IInv, Inv
<1>2. CASE SrTimerFires(n)
  <2>. DEFINE d == [m.node[n] EXCEPT !.sr = "none"]
              q == Append(m.uint, UserEvent(m.node[n].sr, n))
  <2>1. Alike(m.node[n], d)
    BY <1>1 DEF Alike, NodeType
  <2>2. m.node[n].sr \in SrTimers
    BY <1>1, <1>2, NodeParts DEF SrTimerFires
  <2>3. q \in Seq(UserEvents)
    BY <1>1, <2>2, UserEventTyped
  <2>4. m' = [m EXCEPT !.node[n] = d, !.uint = q] /\ UNCHANGED <<cn, faults>>
    BY <1>2 DEF SrTimerFires
  <2>. HIDE DEF d, q
  <2>. QED
    BY <1>1, <2>1, <2>3, <2>4, PutNodeAndQueue DEF IInv
<1>3. CASE LongerFires(n)
  <2>. DEFINE d == [m.node[n] EXCEPT !.lo = "none"]
              q == Append(m.uint, UserEvent("Longer", n))
  <2>1. Alike(m.node[n], d)
    BY <1>1 DEF Alike, NodeType
  <2>2. q \in Seq(UserEvents)
    BY <1>1, UserEventTyped
  <2>3. m' = [m EXCEPT !.node[n] = d, !.uint = q] /\ cn' = cn
    BY <1>3 DEF LongerFires
  <2>4. faults' = faults \/ Fault("LateReady", n)
    BY <1>3 DEF LongerFires
  <2>. HIDE DEF d, q
  <2>. QED
    BY <1>1, <2>1, <2>2, <2>3, <2>4, PutNodeAndQueue, FaultTyped DEF IInv
<1>. QED
  BY <1>2, <1>3

LEMMA CnStep ==
  ASSUME IInv, NEW n \in CN,
         CnBoots(n) \/ CnPreOp2(n) \/ CnReady(n) \/ CnFallsBack(n) \/ Crash(n)
  PROVE  IInv'
<1>. DEFINE T == [nmt : CnStates, enabled : BOOLEAN, match : BOOLEAN]
<1>1. cn[n] \in T /\ cn \in [CN -> T]
  BY DEF IInv, NetType
<1>2. \A c \in T : CnMoves(n, c) => cn' \in NetType /\ m' = m /\ faults' = faults
  BY <1>1 DEF CnMoves, NetType
<1>3. \A s \in CnStates : \A b \in BOOLEAN :
         [cn[n] EXCEPT !.nmt = s] \in T /\ [cn[n] EXCEPT !.nmt = s, !.enabled = b] \in T
  BY <1>1
<1>4. CASE Crash(n)
  <2>. DEFINE c == [cn[n] EXCEPT !.nmt = "NotActive", !.enabled = FALSE]
  <2>1. c \in T
    BY <1>3, Values
  <2>2. cn' = [cn EXCEPT ![n] = c] /\ m' = m
    BY <1>4 DEF Crash
  <2>. HIDE DEF c
  <2>3. cn' \in NetType
    BY <1>1, <2>1, <2>2 DEF NetType
  <2>4. faults' \in 0 .. MaxFaults
    BY <1>4, FaultTyped DEF Crash, IInv
  <2>. QED
    BY <2>2, <2>3, <2>4 DEF IInv
<1>5. CASE CnBoots(n) \/ CnPreOp2(n) \/ CnReady(n) \/ CnFallsBack(n)
  <2>1. \E c \in T : CnMoves(n, c)
    BY <1>3, <1>5, Values DEF CnBoots, CnPreOp2, CnReady, CnFallsBack
  <2>. QED
    BY <1>2, <2>1 DEF IInv
<1>. QED
  BY <1>4, <1>5

(* A cycle error takes the kernel back to PreOp1, behind whatever change   *)
(* of state is still on its way to the user thread.                        *)
LEMMA CycleErrorStep ==
  ASSUME IInv, CycleError
  PROVE  IInv'
<1>. DEFINE e == KernelEvent("StateChange", 0, "PreOp1", FALSE)
            a == [m EXCEPT !.kmn = "PreOp1"]
            q == m.k2u
<1>1. /\ m \in RecType /\ q \in Seq(KernelEvents) /\ Queued(m) /\ NodeEvents(m)
      /\ m.signal = Cardinality(Unscanned(m))
  BY Parts DEF IInv, Inv
<1>2. m' = Posted(a, e) /\ m.kmn # "PreOp1" /\ cn' = cn
  BY DEF CycleError
<1>3. faults' \in 0 .. MaxFaults
  BY FaultTyped DEF CycleError, IInv
<1>4. a \in RecType
  BY <1>1 DEF RecType, MnStates
<1>5. /\ a.k2u = q /\ a.mn = m.mn /\ a.kmn = "PreOp1" /\ a.signal = m.signal
      /\ a.informed = m.informed /\ a.node = m.node
  BY <1>1 DEF RecType
<1>6. e \in KernelEvents /\ e.type = "StateChange" /\ e.nmt = "PreOp1"
  BY DEF KernelEvent, KernelEvents, MnStates
<1>. HIDE DEF a, e
<1>. DEFINE v == [a EXCEPT !.k2u = Append(q, e)]
<1>7. m' = v
  BY <1>2, <1>5 DEF Posted
<1>8. /\ Append(q, e) \in Seq(KernelEvents) /\ DOMAIN q = 1 .. Len(q) /\ Len(q) \in Nat
      /\ DOMAIN Append(q, e) = 1 .. Len(q) + 1
      /\ \A i \in 1 .. Len(q) : Append(q, e)[i] = q[i]
      /\ Append(q, e)[Len(q) + 1] = e
  BY <1>1, <1>6, AppendFacts
<1>9. v \in RecType
  BY <1>4, <1>8 DEF RecType
<1>10. /\ v.k2u = Append(q, e) /\ v.mn = m.mn /\ v.kmn = "PreOp1" /\ v.signal = m.signal
       /\ v.informed = m.informed /\ v.node = m.node
  BY <1>4, <1>5 DEF RecType
<1>. HIDE DEF v
<1>. DEFINE last == Len(q) + 1
<1>11. Pending(v) = Pending(m) \cup {last} /\ v.k2u[last].nmt = "PreOp1"
  BY <1>6, <1>8, <1>10 DEF Pending
<1>12. \A i \in Pending(m) : /\ v.k2u[i] = m.k2u[i] /\ i < last /\ i \in Nat
                             /\ m.k2u[i].nmt # "PreOp1" /\ Advances(m, i)
  BY <1>1, <1>2, <1>8, <1>10 DEF Pending, Queued, Falls
<1>13. last \in Nat
  BY <1>8
<1>. HIDE DEF last
<1>14. Falls(v, last)
  <2>1. v.mn = "PreOp1" => v.informed
    <3>1. Pending(m) = {} => m.mn # "PreOp1"
      BY <1>1, <1>2 DEF Queued
    <3>2. Pending(m) # {} => m.informed
      BY <1>12 DEF Advances
    <3>. QED
      BY <1>10, <3>1, <3>2
  <2>2. \A j \in Pending(v) : j <= last
    BY <1>11, <1>12, <1>13
  <2>. QED
    BY <1>10, <2>1, <2>2 DEF Falls
<1>15. ASSUME NEW i \in Pending(m) PROVE Advances(v, i) /\ v.k2u[i].nmt # "PreOp1"
  <2>1. Advances(m, i) /\ i < last /\ i \in Nat /\ v.k2u[i] = m.k2u[i] /\ m.k2u[i].nmt # "PreOp1"
    BY <1>12
  <2>2. \A j \in Pending(v) : i <= j
    BY <1>11, <1>13, <2>1 DEF Advances
  <2>3. \E j \in Pending(v) : v.k2u[j].nmt = "PreOp1"
    BY <1>11
  <2>. QED
    BY <1>10, <2>1, <2>2, <2>3 DEF Advances
<1>16. Queued(v)
  BY <1>11, <1>14, <1>15 DEF Queued
<1>17. NodeEvents(v)
  BY <1>1, <1>6, <1>8, <1>10 DEF NodeEvents
<1>18. Unscanned(v) = Unscanned(m)
  BY <1>10 DEF Unscanned
<1>19. Inv(v)
  BY <1>1, <1>9, <1>10, <1>16, <1>17, <1>18 DEF Inv
<1>. QED
  BY <1>2, <1>3, <1>7, <1>19 DEF IInv

LEMMA InitHolds == Init => IInv
<1>. SUFFICES ASSUME Init PROVE IInv
  OBVIOUS
<1>. DEFINE d == [state |-> "Unknown", flags |-> {}, exp |-> "NotActive",
                  cur |-> "NotActive", sr |-> "none", lo |-> "none",
                  cfm |-> "Idle", match |-> FALSE]
            e == KernelEvent("StateChange", 0, "PreOp1", FALSE)
            node == [n \in CN |-> d]
            seen == [n \in CN |-> "NotActive"]
<1>1. d \in NodeType /\ d.flags = {}
  BY DEF NodeType, NodeStates, CnStates, MnStates, CfmStates
<1>2. e \in KernelEvents /\ e.type = "StateChange" /\ e.nmt = "PreOp1"
  BY DEF KernelEvent, KernelEvents, MnStates
<1>3. m = [mn |-> "NotActive", kmn |-> "PreOp1", mand |-> 0, signal |-> 0, informed |-> FALSE,
           node |-> node, ident |-> {}, status |-> {}, iq |-> <<>>, sq |-> <<>>, tx |-> <<>>,
           turn |-> "tx", kiso |-> {}, seen |-> seen, uint |-> <<>>, k2u |-> <<e>>]
  BY DEF Init
<1>. HIDE DEF d, e
<1>4. node \in [CN -> NodeType] /\ \A n \in CN : node[n].flags = {}
  BY <1>1
<1>5. seen \in [CN -> CnStates]
  BY Values
<1>6. <<e>> \in Seq(KernelEvents) /\ DOMAIN <<e>> = {1} /\ <<e>>[1] = e
  BY <1>2
<1>. HIDE DEF node, seen
<1>. DEFINE q == <<e>>
<1>. HIDE DEF q
<1>7. m \in RecType
  <2>1. q \in Seq(KernelEvents) /\ <<>> \in Seq(CN) /\ <<>> \in Seq(Commands) /\ <<>> \in Seq(UserEvents)
    BY <1>6 DEF q
  <2>2. {} \in SUBSET CN /\ "tx" \in Queues /\ "NotActive" \in MnStates /\ "PreOp1" \in MnStates
        /\ 0 \in Int /\ FALSE \in BOOLEAN
    BY DEF Queues, MnStates
  <2>3. m = [mn |-> "NotActive", kmn |-> "PreOp1", mand |-> 0, signal |-> 0, informed |-> FALSE,
             node |-> node, ident |-> {}, status |-> {}, iq |-> <<>>, sq |-> <<>>, tx |-> <<>>,
             turn |-> "tx", kiso |-> {}, seen |-> seen, uint |-> <<>>, k2u |-> q]
    BY <1>3 DEF q
  <2>. QED
    BY <1>4, <1>5, <2>1, <2>2, <2>3 DEF RecType
<1>8. m.k2u = <<e>> /\ m.node = node /\ m.signal = 0 /\ m.kmn = "PreOp1" /\ m.mn = "NotActive"
  BY <1>3
<1>9. Pending(m) = {1} /\ m.k2u[1].nmt = "PreOp1"
  BY <1>2, <1>6, <1>8 DEF Pending
<1>10. Queued(m)
  BY <1>8, <1>9 DEF Queued, Falls
<1>11. NodeEvents(m)
  BY <1>2, <1>6, <1>8 DEF NodeEvents
<1>12. Unscanned(m) = {}
  BY <1>4, <1>8 DEF Unscanned
<1>13. m.signal = Cardinality(Unscanned(m))
  BY <1>8, <1>12, FS_EmptySet
<1>14. cn \in NetType
  BY DEF Init, NetType, CnStates, MnStates
<1>15. faults \in 0 .. MaxFaults
  BY FaultAssumption DEF Init
<1>. QED
  BY <1>7, <1>10, <1>11, <1>13, <1>14, <1>15 DEF IInv, Inv

LEMMA IInvHolds == Spec => []IInv
<1>1. IInv /\ [Next]_vars => IInv'
  <2>. SUFFICES ASSUME IInv, [Next]_vars PROVE IInv'
    OBVIOUS
  <2>1. CASE UNCHANGED vars
    BY <2>1 DEF vars, IInv
  <2>2. CASE UserServesK2U \/ UserServesUInt
    BY <2>2, UserStep
  <2>3. CASE ServeIdent \/ ServeStatus
    BY <2>3, ServeStep
  <2>4. CASE SendCommand
    BY <2>4, CommandStep
  <2>5. CASE CycleError
    BY <2>5, CycleErrorStep
  <2>6. ASSUME NEW n \in CN, SdoTransferEnds(n)
        PROVE  IInv'
    BY <2>6, SdoStep
  <2>7. ASSUME NEW n \in CN, PresReceived(n) \/ PresLost(n)
        PROVE  IInv'
    BY <2>7, PresStep
  <2>8. ASSUME NEW n \in CN, SrTimerFires(n) \/ LongerFires(n)
        PROVE  IInv'
    BY <2>8, TimerStep
  <2>9. ASSUME NEW n \in CN,
               CnBoots(n) \/ CnPreOp2(n) \/ CnReady(n) \/ CnFallsBack(n) \/ Crash(n)
        PROVE  IInv'
    BY <2>9, CnStep
  <2>. QED
    BY <2>1, <2>2, <2>3, <2>4, <2>5, <2>6, <2>7, <2>8, <2>9 DEF Next
<1>. QED
  BY <1>1, InitHolds, PTL DEF Spec

-----------------------------------------------------------------------------
(* The types, for every network and every delay of the user thread: no     *)
(* counter below zero, every request, command and event for a node that    *)
(* exists.                                                                 *)
THEOREM TypesHold == Spec => []TypeOK
<1>1. IInv => TypeOK
  <2>. SUFFICES ASSUME IInv PROVE TypeOK
    OBVIOUS
  <2>1. m \in RecType /\ m.signal = Cardinality(Unscanned(m)) /\ cn \in NetType /\ faults \in 0 .. MaxFaults
    BY DEF IInv, Inv
  <2>2. m.signal \in 0 .. Cardinality(CN)
    <3>1. Unscanned(m) \in SUBSET CN /\ CN \in SUBSET CN
      BY DEF Unscanned
    <3>2. Cardinality(Unscanned(m)) \in Nat /\ Cardinality(CN) \in Nat
          /\ Cardinality(Unscanned(m)) <= Cardinality(CN)
      BY <3>1, Counting
    <3>. QED
      BY <2>1, <3>2
  <2>3. DOMAIN NextQueue = Queues
    BY DEF NextQueue, Queues
  <2>. DEFINE k == Cardinality(CN)
  <2>. HIDE DEF k
  <2>4. m \in [mn : MnStates, kmn : MnStates, mand : Int, signal : 0 .. k, informed : BOOLEAN,
               node : [CN -> NodeType], ident : SUBSET CN, status : SUBSET CN,
               iq : Seq(CN), sq : Seq(CN), tx : Seq(Commands), turn : Queues,
               kiso : SUBSET CN, seen : [CN -> CnStates], uint : Seq(UserEvents),
               k2u : Seq(KernelEvents)]
    BY <2>1, <2>2 DEF RecType, k
  <2>. QED
    BY <2>1, <2>3, <2>4 DEF TypeOK, NetType, NodeType, UserEvents, KernelEvents, Commands, k
<1>. QED
  BY <1>1, IInvHolds, PTL

(* signalSlaveCount is the number of nodes not yet looked at, whatever     *)
(* comes late, fails or falls back to PreOp1 in between.                   *)
THEOREM SignalHolds == Spec => []SignalAgrees
<1>1. IInv => SignalAgrees
  BY DEF IInv, Inv, SignalAgrees, Unscanned, Has
<1>. QED
  BY <1>1, IInvHolds, PTL
=============================================================================
