------------------------------- MODULE NmtMnu -------------------------------
(***************************************************************************)
(* The boot-up of the controlled nodes by the managing node: nmtmnu.c with *)
(* the ident and status requests (identu.c, statusu.c), the configuration  *)
(* manager (cfmu.c), and what they use of the kernel part: the request     *)
(* queues, the list of isochronous nodes and the MN's NMT state.           *)
(*                                                                         *)
(* Everything the MN's user thread and the kernel keep is one record, m,   *)
(* which the handlers pass on and change; a handler is one step.  Events   *)
(* reach the user thread by two queues, k2u from the kernel, served first, *)
(* and uint, where its own timers and node commands go.  What the user     *)
(* thread asks of the kernel is done at once: the kernel thread has the    *)
(* higher priority.  The CNs, the network and the timers are environment.  *)
(*                                                                         *)
(* Left out: PRes chaining, redundancy, stopped nodes, resets asked for by *)
(* the user, the software version check, StartAllNodes and halting; and    *)
(* the check of the device type in cbIdentResponse (0x1F84 is zero, or     *)
(* what the node answers): a node of another type is taken for one that is *)
(* not active, reset and asked again.                                      *)
(***************************************************************************)
EXTENDS Integers, FiniteSets, SequencesExt

CONSTANTS CN,          \* node ids assigned in 0x1F81
          Mandatory,   \* ... with NMT_NODEASSIGN_MANDATORY_CN
          AsyncOnly,   \* ... with NMT_NODEASSIGN_ASYNCONLY_NODE
          Dated,       \* ... with a ConciseDCF and a configuration date (0x1F26, 0x1F27)
          Managed,     \* ... with a ConciseDCF
          Mismatch,    \* ... that may start with another configuration than expected
          Faulty,      \* CNs that faults may hit
          Faults,      \* kinds of faults
          MaxFaults,   \* bound: faults
          QueueBound   \* bound: events the user thread may be behind

ASSUME NodeAssumption == /\ CN \subseteq 1 .. 254
                         /\ Mandatory \subseteq CN /\ AsyncOnly \subseteq CN
                         /\ Dated \subseteq Managed /\ Managed \subseteq CN
                         /\ Mismatch \subseteq Dated /\ Faulty \subseteq CN
FaultKinds == {"Crash", "LoseAnswer", "CycleError", "LateReady"}
ASSUME FaultAssumption == /\ Faults \subseteq FaultKinds
                          /\ MaxFaults \in Nat /\ QueueBound \in Nat \ {0}

VARIABLES m, cn, faults
vars == <<m, cn, faults>>

Broadcast == 255   \* C_ADR_BROADCAST
Destinations(to) == IF to = Broadcast THEN CN ELSE {to}

CounterSize == 4   \* NMTMNU_NODE_FLAG_COUNT_STATREQ, _LONGER: two bits each

MnStates == {"NotActive", "PreOp1", "PreOp2", "ReadyToOp", "Operational"}
CnStates == MnStates
Rank == [s \in MnStates |->
           CASE s = "NotActive" -> 0 [] s = "PreOp1" -> 1 [] s = "PreOp2" -> 2
             [] s = "ReadyToOp" -> 3 [] s = "Operational" -> 4]
NodeStates == {"Unknown", "Identified", "SwOk", "ConfRestored", "ResetConf",
               "Configured", "ReadyToOp", "ComChecked", "Operational"}
Flags == {"ISOCHRON", "NOT_SCANNED", "NMT_CMD_ISSUED", "PREOP2_REACHED"}
SrTimers == {"IdentReq", "StatReq", "StateMon"}
CfmStates == {"Idle", "WaitRestore", "Download", "WaitStore", "UpToDate"}
NodeCmds == {"ConfErr", "ConfRestored", "ConfReset"}

AtLeast(s, t) == Rank[s] >= Rank[t]

(***************************************************************************)
(* Helpers: flags, timers, commands.  Starting a timer of a node counts    *)
(* its two-bit counter up; a timer event already posted keeps the counter  *)
(* it was started with.  Here the event carries their difference, age, and *)
(* for the properties what became of its timer since, old.                 *)
(***************************************************************************)
Has(r, n, f) == f \in r.node[n].flags
SetFlags(r, n, F) == [r EXCEPT !.node[n].flags = @ \cup F]
ClearFlags(r, n, F) == [r EXCEPT !.node[n].flags = @ \ F]

UserEvent(t, n) == [type |-> t, node |-> n, age |-> 0, old |-> "no"]
Modified(q, N, K) ==
  [i \in DOMAIN q |-> IF q[i].node \in N /\ q[i].type \in K
                      THEN [q[i] EXCEPT !.age = (@ + 1) % CounterSize, !.old = "modified"]
                      ELSE q[i]]
Deleted(q, N, K) ==
  [i \in DOMAIN q |-> IF q[i].node \in N /\ q[i].type \in K /\ q[i].old = "no"
                      THEN [q[i] EXCEPT !.old = "deleted"] ELSE q[i]]

StartSr(r, N, k) ==
  [r EXCEPT !.node = [n \in CN |-> IF n \in N THEN [@[n] EXCEPT !.sr = k] ELSE @[n]],
            !.uint = Modified(@, N, SrTimers)]
StartLonger(r, n, what) ==
  [r EXCEPT !.node[n].lo = what, !.uint = Modified(@, {n}, {"Longer"})]
DeleteLonger(r, n) ==
  [r EXCEPT !.node[n].lo = "none", !.uint = Deleted(@, {n}, {"Longer"})]

\* The state a node is expected in when a command has been sent.
Expected == [c \in {"ResetNode", "ResetConf", "EnableReadyToOp", "StartNode"} |->
               CASE c = "StartNode" -> "Operational" [] c = "EnableReadyToOp" -> "PreOp2"
                 [] OTHER -> "NotActive"]

\* nmtmnu_sendNmtCommandEx: a node to be reset leaves the isochronous phase at once.
Resets == {"ResetNode", "ResetConf"}
Send(r, to, cmd) ==
  [r EXCEPT !.tx = Append(@, [cmd |-> cmd, to |-> to]),
            !.kiso = IF cmd \in Resets THEN @ \ Destinations(to) ELSE @]
Ascending(N) ==
  CHOOSE s \in [1 .. Cardinality(N) -> N] : \A i, j \in DOMAIN s : i < j => s[i] < s[j]
SendEach(r, N, cmd) ==
  LET to == Ascending(N)
  IN  [r EXCEPT !.tx = @ \o [i \in DOMAIN to |-> [cmd |-> cmd, to |-> to[i]]]]

\* identu_requestIdentResponse, statusu_requestStatusResponse: one request at a time.
RequestIdent(r, n) ==
  IF n \in r.ident THEN r ELSE [r EXCEPT !.ident = @ \cup {n}, !.iq = Append(@, n)]
RequestStatus(r, n) ==
  IF n \in r.status THEN r ELSE [r EXCEPT !.status = @ \cup {n}, !.sq = Append(@, n)]

\* The kernel: the MN's NMT state, and a node added to the isochronous phase.
Posted(r, e) == [r EXCEPT !.k2u = Append(@, e)]
KernelEvent(t, n, s, x) == [type |-> t, node |-> n, nmt |-> s, flag |-> x]
KernelGoes(r, from, to) ==
  IF r.kmn # from THEN r
  ELSE Posted([r EXCEPT !.kmn = to], KernelEvent("StateChange", 0, to, FALSE))
AddNodeIsochronous(r, n) ==
  IF n \in r.kiso THEN r
  ELSE Posted([r EXCEPT !.kiso = @ \cup {n}, !.seen[n] = "NotActive"],
              KernelEvent("NodeAdded", n, "NotActive", FALSE))

\* What cfmu_processNodeEvent starts when a node's configuration is checked.
CheckConf(r, n) ==
  [r EXCEPT !.node[n].cfm =
     IF n \notin Managed \/ (n \in Dated /\ r.node[n].match) THEN "UpToDate" ELSE "WaitRestore"]

Counted(r, n) == IF n \in Mandatory THEN [r EXCEPT !.mand = @ - 1] ELSE r
ScannedAgain(r, n) ==   \* (a slip: the flag stays set)
  IF Has(r, n, "NOT_SCANNED") THEN [r EXCEPT !.signal = @ - 1] ELSE r
Scanned(r, n) ==
  IF Has(r, n, "NOT_SCANNED")
  THEN ClearFlags([r EXCEPT !.signal = @ - 1], n, {"NOT_SCANNED"}) ELSE r

(***************************************************************************)
(* nodeBootStep2, nodeCheckCom and checkNmtState.  The last says whether   *)
(* the caller may go on: <<record, "Ok" or "Reject">>.                     *)
(***************************************************************************)
NodeBootStep2(r, n) ==
  IF IF n \in AsyncOnly THEN r.node[n].cur = "PreOp2" ELSE Has(r, n, "ISOCHRON")
  THEN StartLonger(Send(r, n, "EnableReadyToOp"), n, "ReadyToOp")
  ELSE r

ReachPreOp2(r, n) ==
  LET r1 == SetFlags(r, n, {"PREOP2_REACHED"})
  IN  IF Has(r, n, "PREOP2_REACHED") THEN r
      ELSE IF n \notin AsyncOnly THEN AddNodeIsochronous(r1, n)
      ELSE IF r.node[n].state = "Configured" /\ AtLeast(r.mn, "PreOp2")
      THEN NodeBootStep2(r1, n) ELSE r1

ChecksCom(n) == n \notin AsyncOnly   \* timeoutCheckCom # 0
ReachReadyToOp(r, n) ==
  LET r1 == Counted([DeleteLonger(r, n) EXCEPT !.node[n].state = "ReadyToOp",
                                               !.node[n].exp = "ReadyToOp"], n)
      r2 == [r1 EXCEPT !.node[n].state = "ComChecked"]
  IN  IF ~AtLeast(r.mn, "ReadyToOp") THEN <<r1, "Ok">>
      ELSE IF ChecksCom(n) THEN <<StartLonger(r1, n, "CheckCom"), "Reject">>
      ELSE <<IF r.mn = "Operational" THEN Send(r2, n, "StartNode") ELSE r2, "Ok">>

\* ERROR_TREATMENT
WrongState(r, n) ==
  Send([Scanned(r, n) EXCEPT !.node[n].state = "Unknown"], n, "ResetNode")

\* 0x1F8E, and the configuration manager hears of a node that is not active.
UpdateCurrent(r, n, s) ==
  [r EXCEPT !.node[n].cur = s,
            !.node[n].cfm = IF s = "NotActive" /\ r.node[n].cur # s THEN "Idle" ELSE @]

CheckNmtState(r, n, s, error) ==
  LET d == r.node[n]
      update(res) == <<UpdateCurrent(res[1], n, s), res[2]>>
  IN  CASE d.state = "Unknown" \/ d.exp = "NotActive" -> update(<<r, "Reject">>)
        [] OTHER ->
      CASE d.exp = "PreOp2" /\ s = "PreOp2" -> update(<<ReachPreOp2(r, n), "Ok">>)
        [] d.exp = "PreOp2" /\ s = "ReadyToOp" -> update(ReachReadyToOp(r, n))
        [] d.state = "ComChecked" /\ s = "Operational" ->
             update(<<Counted([r EXCEPT !.node[n].state = "Operational"], n), "Ok">>)
        [] OTHER ->
             IF d.exp = s THEN update(<<r, "Ok">>)
             ELSE IF ~error /\ "NMT_CMD_ISSUED" \in d.flags THEN <<r, "Ok">>
             ELSE update(<<WrongState(r, n), "Reject">>)

(***************************************************************************)
(* The handlers of a node's internal events (processNodeEvent...).         *)
(***************************************************************************)
HoldsConfig(r, n) == r.node[n].state \in {"ResetConf", "ConfRestored"}

Configured(r, n) ==
  LET r1 == [r EXCEPT !.node[n].state = "Configured"]
  IN  IF r.node[n].state \notin {"SwOk", "ConfRestored", "ResetConf"} THEN r
      ELSE IF r.mn = "PreOp1" THEN Counted(r1, n) ELSE NodeBootStep2(r1, n)

Boot(r, n) ==
  CASE r.node[n].state = "Identified" -> CheckConf([r EXCEPT !.node[n].state = "SwOk"], n)
    [] r.node[n].state = "SwOk" -> CheckConf(r, n)
    [] r.node[n].state = "ConfRestored" -> [r EXCEPT !.node[n].cfm = "Download"]
    [] r.node[n].state = "ResetConf" -> Configured(r, n)
    [] OTHER -> r

IdentResponse(r, n, s, match) ==
  LET r1 == ClearFlags([r EXCEPT !.node[n].match = match,
                                 !.node[n].state = IF HoldsConfig(r, n) THEN @ ELSE "Identified"],
                       n, {"ISOCHRON", "NMT_CMD_ISSUED", "PREOP2_REACHED"})
      r2 == IF r.mn = "PreOp1" THEN [Scanned(r1, n) EXCEPT !.node[n].exp = "PreOp1"]
            ELSE [(IF s = "PreOp1"
                   THEN StartSr(SetFlags(r1, n, {"NMT_CMD_ISSUED"}), {n}, "StateMon")
                   ELSE r1) EXCEPT !.node[n].exp = "PreOp2"]
      checked == CheckNmtState(r2, n, s, FALSE)
      r3 == IF Has(checked[1], n, "NMT_CMD_ISSUED") THEN checked[1]
            ELSE RequestStatus(checked[1], n)
      r4 == IF HoldsConfig(r3, n) THEN r3 ELSE [r3 EXCEPT !.node[n].cfm = "Idle"]
  IN  IF checked[2] # "Ok" THEN checked[1] ELSE Boot(r4, n)

NoIdentResponseGivesUp(r, n) ==   \* (a slip: the node is not asked again)
  LET r1 == IF r.mn = "PreOp1" THEN Scanned(r, n) ELSE r
      r2 == [r1 EXCEPT !.node[n].state = IF HoldsConfig(r, n) THEN @ ELSE "Unknown"]
      r3 == CheckNmtState(r2, n, "NotActive", TRUE)[1]
  IN  IF AtLeast(r.mn, "PreOp2") THEN r3 ELSE RequestIdent(r3, n)
NoIdentResponse(r, n) ==
  LET r1 == IF r.mn = "PreOp1" THEN Scanned(r, n) ELSE r
      r2 == [r1 EXCEPT !.node[n].state = IF HoldsConfig(r, n) THEN @ ELSE "Unknown"]
      r3 == CheckNmtState(r2, n, "NotActive", TRUE)[1]
  IN  IF AtLeast(r.mn, "PreOp2") THEN StartSr(r3, {n}, "IdentReq") ELSE RequestIdent(r3, n)

StatusResponse(r, n, s) ==
  LET r1 == IF AtLeast(r.mn, "PreOp2") THEN Scanned(r, n) ELSE r
      checked == CheckNmtState(r1, n, s, FALSE)
      r2 == checked[1]
  IN  IF checked[2] # "Ok" THEN r2
      ELSE IF r.mn = "PreOp1" THEN RequestStatus(r2, n)
      ELSE IF ~Has(r2, n, "ISOCHRON") THEN StartSr(r2, {n}, "StatReq")
      ELSE r2

NoStatusResponse(r, n) == CheckNmtState(r, n, "NotActive", TRUE)[1]
Heartbeat(r, n, s, error) == CheckNmtState(r, n, s, error)[1]

ConfigError(r, n) ==
  IF r.node[n].state \in {"Identified", "SwOk", "ConfRestored"}
  THEN CheckNmtState(r, n, "NotActive", TRUE)[1] ELSE r

ExecResetNode(r, n) ==
  IF r.node[n].state \in {"Identified", "SwOk"}
  THEN Send([r EXCEPT !.node[n].state = "ConfRestored"], n, "ResetNode") ELSE r

ExecResetConf(r, n) ==
  IF r.node[n].state \in {"SwOk", "ConfRestored"}
  THEN Send([r EXCEPT !.node[n].state = "ResetConf"], n, "ResetConf") ELSE r

TimerStateMon(r, n) == RequestStatus(ClearFlags(r, n, {"NMT_CMD_ISSUED"}), n)

TimerLonger(r, n) ==
  LET r1 == Counted(Scanned([r EXCEPT !.node[n].state = "ComChecked"], n), n)
  IN  CASE r.node[n].state = "Configured" -> CheckNmtState(r, n, "NotActive", TRUE)[1]
        [] r.node[n].state = "ReadyToOp" ->
             IF r.mn = "ReadyToOp" THEN r1 ELSE Send(r1, n, "StartNode")
        [] OTHER -> r

NmtCmdSent(r, N, s) ==
  LET enable == {n \in N : s = "PreOp2" /\ r.node[n].exp = s}
      others == N \ enable
      node == [n \in CN |->
                 IF n \in enable THEN [r.node[n] EXCEPT !.flags = @ \cup {"NMT_CMD_ISSUED"}]
                 ELSE IF n \notin others THEN r.node[n]
                 ELSE IF s = "NotActive" THEN [r.node[n] EXCEPT !.exp = s]
                 ELSE [r.node[n] EXCEPT !.exp = s, !.flags = @ \cup {"NMT_CMD_ISSUED"}]]
  IN  StartSr([r EXCEPT !.node = node], others,
              IF s = "NotActive" THEN "IdentReq" ELSE "StateMon")

(***************************************************************************)
(* The MN enters a state (nmtmnu_cbNmtStateChange).                        *)
(***************************************************************************)
\* doPreop1 with startBootStep1: every request and timer is dropped, the DLL
\* starts the reduced cycle, and all CNs are reset.
DoPreOp1(r) ==
  LET node == [n \in CN |->
                 [r.node[n] EXCEPT !.state = "Unknown", !.sr = "none", !.lo = "none",
                    !.flags = (@ \ {"ISOCHRON"}) \cup {"NOT_SCANNED"}]]
  IN  Send([r EXCEPT !.mn = "PreOp1", !.node = node, !.informed = FALSE,
                     !.ident = {}, !.status = {}, !.iq = <<>>, !.sq = <<>>,
                     !.turn = "tx", !.kiso = {},
                     !.mand = Cardinality(Mandatory), !.signal = Cardinality(CN),
                     !.uint = Deleted(@, CN, SrTimers \cup {"Longer"})],
           Broadcast, "ResetNode")

\* The nodes in To are the ones the next stage waits for.
Stage(r, s, To) ==
  LET node == [n \in CN |-> IF n \in To THEN [r.node[n] EXCEPT !.flags = @ \cup {"NOT_SCANNED"}]
                            ELSE r.node[n]]
  IN  [r EXCEPT !.mn = s, !.informed = FALSE, !.signal = Cardinality(To), !.node = node]

StartBootStep2(r) ==
  LET all == {n \in CN : r.node[n].exp = "PreOp1"}
      to == {n \in all : r.node[n].state = "Configured"}
      node == [n \in CN |-> IF n \notin all THEN r.node[n]
                            ELSE [r.node[n] EXCEPT !.exp = "PreOp2",
                                                   !.flags = @ \cup {"NMT_CMD_ISSUED"}]]
  IN  Stage([StartSr([r EXCEPT !.node = node], all, "StateMon")
               EXCEPT !.mand = Cardinality(to \cap Mandatory)], "PreOp2", to)

StartCheckCom(r) ==
  LET to == {n \in CN : r.node[n].state = "ReadyToOp"}
      timed == {n \in to : ChecksCom(n)}
      node == [n \in CN |-> IF n \notin to THEN r.node[n]
                            ELSE IF n \in timed THEN [r.node[n] EXCEPT !.lo = "CheckCom"]
                            ELSE [r.node[n] EXCEPT !.state = "ComChecked"]]
  IN  Stage([r EXCEPT !.node = node, !.uint = Modified(@, timed, {"Longer"}),
                      !.mand = Cardinality(timed \cap Mandatory)], "ReadyToOp", to)

StartNodes(r) ==
  LET to == {n \in CN : r.node[n].state = "ComChecked"}
  IN  Stage([SendEach(r, to, "StartNode") EXCEPT !.mand = Cardinality(to \cap Mandatory)],
            "Operational", to)

StateChange(r, s) ==
  CASE s = "PreOp1" -> DoPreOp1(r) [] s = "PreOp2" -> StartBootStep2(r)
    [] s = "ReadyToOp" -> StartCheckCom(r) [] s = "Operational" -> StartNodes(r)

(***************************************************************************)
(* The user thread: one event of k2u, or when there is none of uint.       *)
(***************************************************************************)
\* The end of processInternalEvent: is the network ready for the next state?
Proceed(r) ==
  LET done == [r EXCEPT !.informed = TRUE]
  IN  IF r.informed \/ r.signal # 0 \/ r.mand # 0 THEN r
      ELSE CASE r.mn = "PreOp1" -> KernelGoes(done, "PreOp1", "PreOp2")
             [] r.mn = "PreOp2" -> KernelGoes(done, "PreOp2", "ReadyToOp")
             [] r.mn = "ReadyToOp" -> KernelGoes(done, "ReadyToOp", "Operational")
             [] OTHER -> done

\* cbNodeAdded
NodeAddedOnly(r, n) == SetFlags(r, n, {"ISOCHRON"})   \* (a slip: no boot step 2)
NodeAdded(r, n) ==
  LET r1 == SetFlags(r, n, {"ISOCHRON"})
  IN  IF r.node[n].state = "Configured" /\ AtLeast(r.mn, "PreOp2")
      THEN NodeBootStep2(r1, n) ELSE r1

\* An answer nobody waits for any more is dropped (identu.c, statusu.c).
ProcessKernelEvent(r, e) ==
  CASE e.type = "StateChange" -> StateChange(r, e.nmt)
    [] e.type = "NodeAdded" -> NodeAdded(r, e.node)
    [] e.type = "CmdSent" -> NmtCmdSent(r, Destinations(e.node), e.nmt)
    [] e.type = "Heartbeat" -> Proceed(Heartbeat(r, e.node, e.nmt, e.flag))
    [] e.type = "Ident" ->
         LET r1 == [r EXCEPT !.ident = @ \ {e.node}]
         IN  IF e.node \notin r.ident THEN r
             ELSE Proceed(IF e.nmt = "NotActive" THEN NoIdentResponse(r1, e.node)
                          ELSE IdentResponse(r1, e.node, e.nmt, e.flag))
    [] e.type = "Status" ->
         LET r1 == [r EXCEPT !.status = @ \ {e.node}]
         IN  IF e.node \notin r.status THEN r
             ELSE Proceed(IF e.nmt = "NotActive" THEN NoStatusResponse(r1, e.node)
                          ELSE StatusResponse(r1, e.node, e.nmt))

IsTimer(e) == e.type \in SrTimers \cup {"Longer"}
ProcessUserEvent(r, e) ==
  IF IsTimer(e) /\ e.age # 0 THEN r
  ELSE Proceed(CASE e.type = "IdentReq" -> RequestIdent(r, e.node)
                 [] e.type = "StatReq" -> RequestStatus(r, e.node)
                 [] e.type = "StateMon" -> TimerStateMon(r, e.node)
                 [] e.type = "Longer" -> TimerLonger(r, e.node)
                 [] e.type = "ConfErr" -> ConfigError(r, e.node)
                 [] e.type = "ConfRestored" -> ExecResetNode(r, e.node)
                 [] e.type = "ConfReset" -> ExecResetConf(r, e.node))

UserServesK2U ==
  /\ m.k2u # <<>>
  /\ m' = ProcessKernelEvent([m EXCEPT !.k2u = Tail(@)], Head(m.k2u))
  /\ UNCHANGED <<cn, faults>>

UserServesUInt ==
  /\ m.k2u = <<>> /\ m.uint # <<>>
  /\ m' = ProcessUserEvent([m EXCEPT !.uint = Tail(@)], Head(m.uint))
  /\ UNCHANGED <<cn, faults>>

(***************************************************************************)
(* An SDO transfer of the configuration manager ends (cbSdoCon).  A CN     *)
(* that is off does not answer; one that is there may refuse to restore    *)
(* its parameters.  Storing makes the configuration date match.            *)
(***************************************************************************)
SdoEnds(r, n, ok) ==
  LET finish(cmd) == [r EXCEPT !.node[n].cfm = "Idle", !.uint = Append(@, UserEvent(cmd, n))]
      state(s) == [r EXCEPT !.node[n].cfm = s]
  IN  CASE r.node[n].cfm = "WaitRestore" -> IF ok THEN finish("ConfRestored") ELSE state("Download")
        [] r.node[n].cfm = "Download" ->
             IF ~ok THEN finish("ConfErr")
             ELSE state(IF n \in Dated THEN "WaitStore" ELSE "UpToDate")
        [] r.node[n].cfm = "WaitStore" -> state("UpToDate")
        [] r.node[n].cfm = "UpToDate" -> finish(IF ok THEN "ConfReset" ELSE "ConfErr")

SdoTransferEnds(n) ==
  /\ m.node[n].cfm # "Idle" /\ Len(m.uint) < QueueBound
  /\ \E ok \in BOOLEAN :
       /\ ok => cn[n].nmt # "NotActive"
       /\ ~ok => cn[n].nmt = "NotActive" \/ m.node[n].cfm = "WaitRestore"
       /\ m' = SdoEnds(m, n, ok)
       /\ cn' = [cn EXCEPT ![n].match =
                   CASE ok /\ m.node[n].cfm = "WaitRestore" -> FALSE
                     [] ok /\ m.node[n].cfm = "WaitStore" -> TRUE
                     [] OTHER -> @]
  /\ UNCHANGED faults

(***************************************************************************)
(* The network: the MN's asynchronous phases and the frames of the CNs.    *)
(***************************************************************************)
Room == Len(m.k2u) < QueueBound
Fault(kind, n) == /\ kind \in Faults /\ n \in Faulty
                  /\ faults < MaxFaults /\ faults' = faults + 1

\* dllkcal_getSoaRequest: the queues of the kernel take turns.
NextQueue == [tx |-> "iq", iq |-> "sq", sq |-> "tx"]
Granted(r) ==
  LET second == NextQueue[r.turn]
  IN  CASE r[r.turn] # <<>> -> r.turn
        [] r[r.turn] = <<>> /\ r[second] # <<>> -> second
        [] OTHER -> NextQueue[second]
Grant(r) == LET q == Granted(r) IN [r EXCEPT ![q] = Tail(@), !.turn = NextQueue[q]]

Answer(type, n, s) ==
  m' = Posted(Grant(m),
              KernelEvent(type, n, s, IF type = "Ident" THEN cn[n].match ELSE FALSE))

ServeIdent ==
  /\ Room /\ m.iq # <<>> /\ Granted(m) = "iq"
  /\ \/ Answer("Ident", Head(m.iq), cn[Head(m.iq)].nmt) /\ UNCHANGED faults
     \/ Answer("Ident", Head(m.iq), "NotActive") /\ Fault("LoseAnswer", Head(m.iq))
  /\ UNCHANGED cn

ServeStatus ==
  /\ Room /\ m.sq # <<>> /\ Granted(m) = "sq"
  /\ \/ Answer("Status", Head(m.sq), cn[Head(m.sq)].nmt) /\ UNCHANGED faults
     \/ Answer("Status", Head(m.sq), "NotActive") /\ Fault("LoseAnswer", Head(m.sq))
  /\ UNCHANGED cn

\* A command is sent and executed; its transmission is reported.
Execute(c, cmd) ==
  CASE cmd \in Resets -> [c EXCEPT !.nmt = "NotActive", !.enabled = FALSE]
    [] cmd = "EnableReadyToOp" /\ c.nmt = "PreOp2" -> [c EXCEPT !.enabled = TRUE]
    [] cmd = "StartNode" /\ c.nmt = "ReadyToOp" -> [c EXCEPT !.nmt = "Operational"]
    [] OTHER -> c
SendCommand ==
  /\ Room /\ m.tx # <<>> /\ Granted(m) = "tx"
  /\ LET c == Head(m.tx) IN
     /\ m' = Posted(Grant(m),
                    KernelEvent("CmdSent", c.to, Expected[c.cmd], FALSE))
     /\ cn' = [n \in CN |-> IF n \in Destinations(c.to) THEN Execute(cn[n], c.cmd) ELSE cn[n]]
  /\ UNCHANGED faults

\* updateNode: a PRes with another NMT state than the one before.
Isochronous == {"PreOp2", "ReadyToOp", "Operational"}
PresReceived(n) ==
  /\ Room /\ n \in m.kiso /\ m.kmn # "PreOp1"
  /\ cn[n].nmt \in Isochronous /\ m.seen[n] # cn[n].nmt
  /\ m' = Posted([m EXCEPT !.seen[n] = cn[n].nmt],
                 KernelEvent("Heartbeat", n, cn[n].nmt, FALSE))
  /\ UNCHANGED <<cn, faults>>

\* The error handler's threshold for missing PRes is reached.
PresLost(n) ==
  /\ Room /\ n \in m.kiso /\ m.kmn # "PreOp1"
  /\ cn[n].nmt \notin Isochronous
  /\ m' = Posted([m EXCEPT !.kiso = @ \ {n}], KernelEvent("Heartbeat", n, "NotActive", TRUE))
  /\ UNCHANGED <<cn, faults>>

(***************************************************************************)
(* The timers of the user thread.  The delay before the state of a node is *)
(* monitored is long enough for it to follow the MN into PreOp2; the time  *)
(* to become ReadyToOp is too short only as a fault.                       *)
(***************************************************************************)
Commanded(n) == \E i \in DOMAIN m.tx : n \in Destinations(m.tx[i].to)
Settled(n) ==
  /\ ~Commanded(n) /\ n \notin Range(m.iq) \cup Range(m.sq)
  /\ n \in m.kiso => m.kmn = "PreOp1"
  /\ \A i \in DOMAIN m.k2u : m.k2u[i].type = "Ident" \/ m.k2u[i].node \notin {n, Broadcast}
Following(n) == cn[n].nmt = "PreOp1" /\ m.kmn # "PreOp1"
Ready(n) == cn[n].nmt = "PreOp2" /\ cn[n].enabled

SrTimerFires(n) ==
  /\ ~Commanded(n)
  /\ m.node[n].sr # "none" /\ Len(m.uint) < QueueBound
  /\ m.node[n].sr = "StateMon" => ~Following(n)
  /\ m' = [m EXCEPT !.node[n].sr = "none", !.uint = Append(@, UserEvent(m.node[n].sr, n))]
  /\ UNCHANGED <<cn, faults>>

EnablePending(n) ==
  \/ Ready(n) \/ \E i \in DOMAIN m.tx : n \in Destinations(m.tx[i].to)
  \/ cn[n].nmt = "ReadyToOp"
LongerFires(n) ==
  /\ m.node[n].lo # "none" /\ Len(m.uint) < QueueBound
  /\ IF m.node[n].lo = "ReadyToOp" /\ EnablePending(n)
     THEN Fault("LateReady", n) ELSE UNCHANGED faults
  /\ m' = [m EXCEPT !.node[n].lo = "none", !.uint = Append(@, UserEvent("Longer", n))]
  /\ UNCHANGED cn

(***************************************************************************)
(* The CNs, and the MN's cycle errors.                                     *)
(***************************************************************************)
CnMoves(n, c) == cn' = [cn EXCEPT ![n] = c] /\ UNCHANGED <<m, faults>>
CnBoots(n) ==
  cn[n].nmt = "NotActive" /\ Settled(n) /\ CnMoves(n, [cn[n] EXCEPT !.nmt = "PreOp1"])
CnPreOp2(n) == Following(n) /\ CnMoves(n, [cn[n] EXCEPT !.nmt = "PreOp2"])
CnReady(n) ==
  Ready(n) /\ CnMoves(n, [cn[n] EXCEPT !.nmt = "ReadyToOp", !.enabled = FALSE])
CnFallsBack(n) ==
  /\ cn[n].nmt \in Isochronous /\ m.kmn = "PreOp1"
  /\ CnMoves(n, [cn[n] EXCEPT !.nmt = "PreOp1", !.enabled = FALSE])

Crash(n) ==
  /\ cn[n].nmt # "NotActive" /\ Fault("Crash", n)
  /\ cn' = [cn EXCEPT ![n].nmt = "NotActive", ![n].enabled = FALSE]
  /\ UNCHANGED m

CycleError ==
  /\ Room /\ m.kmn # "PreOp1" /\ \E n \in Faulty : Fault("CycleError", n)
  /\ m' = Posted([m EXCEPT !.kmn = "PreOp1"], KernelEvent("StateChange", 0, "PreOp1", FALSE))
  /\ UNCHANGED cn

Init ==
  /\ m = [mn |-> "NotActive", kmn |-> "PreOp1", mand |-> 0, signal |-> 0, informed |-> FALSE,
          node |-> [n \in CN |-> [state |-> "Unknown", flags |-> {}, exp |-> "NotActive",
                                  cur |-> "NotActive", sr |-> "none", lo |-> "none",
                                  cfm |-> "Idle", match |-> FALSE]],
          ident |-> {}, status |-> {}, iq |-> <<>>, sq |-> <<>>, tx |-> <<>>,
          turn |-> "tx", kiso |-> {}, seen |-> [n \in CN |-> "NotActive"], uint |-> <<>>,
          k2u |-> <<KernelEvent("StateChange", 0, "PreOp1", FALSE)>>]
  /\ cn \in [CN -> [nmt : {"NotActive"}, enabled : {FALSE}, match : BOOLEAN]]
  /\ \A n \in CN \ Mismatch : cn[n].match
  /\ faults = 0

Next ==
  \/ UserServesK2U \/ UserServesUInt
  \/ ServeIdent \/ ServeStatus \/ SendCommand \/ CycleError
  \/ \E n \in CN : \/ SdoTransferEnds(n) \/ PresReceived(n) \/ PresLost(n)
                   \/ SrTimerFires(n) \/ LongerFires(n)
                   \/ CnBoots(n) \/ CnPreOp2(n) \/ CnReady(n) \/ CnFallsBack(n) \/ Crash(n)

Spec == Init /\ [][Next]_vars

\* Threads, timers, network and CNs go on; nobody is bound to fail.
Fairness ==
  /\ WF_vars(UserServesK2U) /\ SF_vars(UserServesUInt)
  /\ SF_vars(ServeIdent \/ ServeStatus \/ SendCommand)
  /\ \A n \in CN : /\ SF_vars(SdoTransferEnds(n)) /\ SF_vars(PresReceived(n))
                   /\ SF_vars(PresLost(n)) /\ SF_vars(SrTimerFires(n)) /\ SF_vars(LongerFires(n))
                   /\ SF_vars(CnBoots(n)) /\ WF_vars(CnPreOp2(n)) /\ WF_vars(CnReady(n))
                   /\ WF_vars(CnFallsBack(n))
FairSpec == Spec /\ Fairness

(***************************************************************************)
(* Properties.                                                             *)
(***************************************************************************)
\* Every part of the state stays in its range; in particular signalSlaveCount, an
\* unsigned counter in the code, is never decremented below zero.
TypeOK ==
  /\ m \in [mn : MnStates, kmn : MnStates, mand : Int, signal : 0 .. Cardinality(CN), informed : BOOLEAN,
            node : [CN -> [state : NodeStates, flags : SUBSET Flags, exp : CnStates,
                           cur : CnStates, sr : SrTimers \cup {"none"},
                           lo : {"none", "ReadyToOp", "CheckCom"}, cfm : CfmStates,
                           match : BOOLEAN]],
            ident : SUBSET CN, status : SUBSET CN, iq : Seq(CN), sq : Seq(CN),
            tx : Seq([cmd : DOMAIN Expected, to : CN \cup {Broadcast}]), turn : DOMAIN NextQueue,
            kiso : SUBSET CN,
            seen : [CN -> CnStates],
            uint : Seq([type : SrTimers \cup {"Longer"} \cup NodeCmds, node : CN,
                        age : 0 .. CounterSize - 1, old : {"no", "modified", "deleted"}]),
            k2u : Seq([type : {"StateChange", "NodeAdded", "CmdSent", "Heartbeat", "Ident",
                               "Status"},
                       node : CN \cup {0, Broadcast}, nmt : MnStates, flag : BOOLEAN])]
  /\ cn \in [CN -> [nmt : CnStates, enabled : BOOLEAN, match : BOOLEAN]]
  /\ faults \in 0 .. MaxFaults

\* signalSlaveCount is the number of nodes whose flag NOT_SCANNED is set, whichever of
\* identification, status, heartbeat, error and timer has cleared flags since the last
\* NMT state of the MN: it can only reach zero when every node has been looked at.
SignalAgrees == m.signal = Cardinality({n \in CN : Has(m, n, "NOT_SCANNED")})

\* What a node must have come through when the MN leaves a state for the next one.
Through == [s \in {"PreOp1", "PreOp2", "ReadyToOp", "Operational"} |->
              CASE s = "PreOp1" -> {"Configured", "ReadyToOp", "ComChecked", "Operational"}
                [] s = "PreOp2" -> {"ReadyToOp", "ComChecked", "Operational"}
                [] s = "ReadyToOp" -> {"ComChecked", "Operational"}
                [] OTHER -> {"Operational"}]
\* When the MN tells its application that a boot step is finished and goes on to the
\* next NMT state, every mandatory CN has come through that step.  The code does not
\* keep it (README, section 7): no run asks for it.
MandatoryFirst ==
  [][m'.informed /\ ~m.informed => \A n \in Mandatory : m'.node[n].state \in Through[m.mn]]_vars

\* Something the MN has under way that will look at the node again.
UnderWay(n) ==
  \/ n \in Range(m.iq) \cup Range(m.sq) \cup m.kiso
  \/ m.node[n].sr # "none" \/ m.node[n].lo # "none" \/ m.node[n].cfm # "Idle"
  \/ Commanded(n)
  \/ \E i \in DOMAIN m.uint : m.uint[i].node = n /\ (IsTimer(m.uint[i]) => m.uint[i].age = 0)
  \/ \E i \in DOMAIN m.k2u : m.k2u[i].node = n \/ m.k2u[i].type \in {"StateChange", "CmdSent"}
\* No node drops out of the boot-up: whatever was lost or came late, the MN has a
\* request, a timer, an SDO transfer or a command for it under way, or polls it in the
\* isochronous phase, so that a node that comes back is found.
NobodyForgotten == \A n \in CN : UnderWay(n)

\* An event of a timer that has been started anew since it was posted is discarded:
\* its two-bit counter has not come round to the same value while it was queued.  The
\* code does not keep it (README, section 7): no run asks for it.
OldTimersDiscarded ==
  \A i \in DOMAIN m.uint : m.uint[i].old = "modified" => m.uint[i].age # 0

Booted(n) == cn[n].nmt = "Operational" /\ m.node[n].state = "Operational"
\* Once nothing fails any more, the MN reaches Operational for good, with every node
\* that takes part in the isochronous phase operational, by the MN's own account too.
BootCompletes == <>[](m.kmn = "Operational" /\ \A n \in CN \ AsyncOnly : Booted(n))

\* nmtmnu.c:2274: an async-only node whose NMT state is PreOp2 gets the command
\* EnableReadyToOp, and so is operational in the end.
AsyncBoots == <>[](\A n \in AsyncOnly : Booted(n))
=============================================================================
