------------------------------ MODULE CnCycle -------------------------------
(***************************************************************************)
(* The cycle of a CN: the state machine of its data link layer             *)
(* (dllkstatemachine.c), the supervision of the SoC by frame sequence and  *)
(* by a timer, the threshold counters of the error handler (errhndk.c) and *)
(* the NMT state machine (NmtK) they act on.                               *)
(*                                                                         *)
(* The receive handler and the timer callback run at interrupt priority;   *)
(* what they report goes through the queue kint to the kernel event        *)
(* thread, which may lag behind.                                           *)
(*                                                                         *)
(* The MN sends SoC, PReq, SoA and sometimes an ASnd with an NMT command   *)
(* in every cycle; other nodes send PRes in between.  Any of these frames  *)
(* may be missing.  The timer, armed for one cycle and the SoC jitter      *)
(* tolerance, expires once in each cycle whose SoC is missing, anywhere    *)
(* between the SoC slot and the end of the cycle.                          *)
(***************************************************************************)
EXTENDS NmtK

CONSTANTS MultipleCycleCnt, \* 0, or the number of cycles between two PReqs
          SocThreshold,     \* 0x1C0B/3; 0 switches the counter off
          PreqThreshold,    \* 0x1C0D/3
          NmtCommands,      \* commands the MN sends to this node
          Lag               \* bound: events the kernel thread may be behind when a frame comes

ASSUME CycleAssumption == /\ MultipleCycleCnt \in Nat /\ SocThreshold \in Nat
                          /\ PreqThreshold \in Nat /\ Lag \in Nat \ {0}
                          /\ NmtCommands \subseteq Commands

VARIABLES
  nmt,         \* nmtkInstance_l; dllkInstance_g.nmtState follows it
  dll,         \* dllkInstance_g.dllState
  loss,        \* dllkInstance_g.lossSocStatus
  cycleCount,
  timer,       \* timerHdlCycle is armed
  kint,        \* kernel internal events
  socCnt, preqCnt,  \* threshold counters of the error handler
  socErr,      \* DLL_ERR_CN_LOSS_SOC in instance_l.dllErrorEvents
  slot,        \* what the MN sends next
  due,         \* the SoC is missing, the timer has not yet expired for it
  dead,        \* the MN is off: nothing arrives any more
  phase,       \* the MN's cycle in the multiplexed cycle: PReq at 0
  gotSoc,      \* history: SoC received in this cycle
  preqLost,    \* history: the last PReq sent to this node was not received
  reports,     \* history: reports of a lost SoC in this cycle
  quiet,       \* history: cycles begun since the last NMT state change, up to 2
  unreported   \* history: lost SoCs in a row without a report, up to 2
vars == <<nmt, dll, loss, cycleCount, timer, kint, socCnt, preqCnt, socErr, slot,
          due, dead, phase, gotSoc, preqLost, reports, quiet, unreported>>
errhnd  == <<socCnt, preqCnt, socErr>>
history == <<gotSoc, preqLost, reports, unreported>>

DllStates == {"GsInit", "WaitPreq", "WaitSoa", "WaitSoc"}
FullCycle == {"CsPreOp2", "CsReadyToOperate", "CsOperational"}
Isochronous == {"CsReadyToOperate", "CsOperational"}

(***************************************************************************)
(* dllkstatemachine_changeState: next state, supervision of the SoC and    *)
(* the error it reports.  A loss of SoA is reported to the error handler   *)
(* as well, but counted nowhere, and left out.                             *)
(***************************************************************************)
Go(s, l, e) == [dll |-> s, loss |-> l, err |-> e]
NoLoss == [logical |-> FALSE, consecutive |-> FALSE]

\* Two slips: a report by frame sequence leaves no mark; the timer never reports
\* what the frame sequence has reported before.
LossByEveryFrame(s) == Go(s, loss, IF loss.logical THEN "none" ELSE "LossSoc")
LossByFirstTimeout(s) == Go(s, [loss EXCEPT !.consecutive = TRUE],
                            IF ~loss.logical THEN "LossSoc" ELSE "none")

\* triggerLossOfSocEventByFrameSequence, triggerLossOfSocEventOnFrameTimeout
LossByFrame(s) == Go(s, [loss EXCEPT !.logical = TRUE],
                     IF loss.logical THEN "none" ELSE "LossSoc")
LossByTimeout(s) == Go(s, [loss EXCEPT !.consecutive = TRUE],
                       IF loss.consecutive \/ ~loss.logical THEN "LossSoc" ELSE "none")
Keep == Go(dll, loss, "none")

\* A slip: the multiplexed cycle is not looked at.
WaitPreqEveryCycle(ev) ==
  CASE ev = "CePreq" -> Go("WaitSoa", loss, "RecvdPreq")
    [] ev = "FrameTimeout" /\ nmt.state # "CsPreOp2" -> LossByTimeout("WaitSoc")
    [] ev = "CeSoa" -> Go("WaitSoc", loss,
                          IF nmt.state \in Isochronous THEN "LossPreq" ELSE "none")
    [] OTHER -> Keep
FullCycleWaitPreq(ev) ==
  CASE ev = "CePreq" -> Go("WaitSoa", loss, "RecvdPreq")
    [] ev = "FrameTimeout" /\ nmt.state # "CsPreOp2" -> LossByTimeout("WaitSoc")
    [] ev = "CeSoa" -> Go("WaitSoc", loss,
                          IF cycleCount = 0 /\ nmt.state \in Isochronous
                          THEN "LossPreq" ELSE "none")
    [] OTHER -> Keep
FullCycleWaitSoc(ev) ==
  CASE ev = "CeSoc" -> Go("WaitPreq", NoLoss, "none")
    [] ev = "FrameTimeout" /\ nmt.state # "CsPreOp2" -> LossByTimeout("WaitSoc")
    [] ev \in {"CePreq", "CePres"} -> LossByFrame("WaitSoa")
    [] ev = "CeSoa" /\ nmt.state = "CsPreOp2" -> Go("WaitSoc", loss, "LossSoc")
    [] ev = "CeSoa" /\ nmt.state # "CsPreOp2" -> LossByFrame("WaitSoc")
    [] OTHER -> Keep
\* A slip: a SoC after a missing SoA is not the start of a cycle.
WaitSoaIgnoresSoc(ev) ==
  CASE ev = "FrameTimeout" /\ nmt.state # "CsPreOp2" -> LossByTimeout("WaitSoc")
    [] ev = "CePreq" -> LossByFrame("WaitSoc")
    [] ev = "CeSoa"  -> Go("WaitSoc", loss, "none")
    [] OTHER -> Keep
FullCycleWaitSoa(ev) ==
  CASE ev = "FrameTimeout" /\ nmt.state # "CsPreOp2" -> LossByTimeout("WaitSoc")
    [] ev = "CePreq" -> LossByFrame("WaitSoc")
    [] ev = "CeSoa"  -> Go("WaitSoc", loss, "none")
    [] ev = "CeSoc"  -> Go("WaitPreq", loss, "none")
    [] OTHER -> Keep

StoppedWaitPreq(ev) ==
  CASE ev = "CePreq" -> Go("WaitSoa", loss, "none")
    [] ev = "FrameTimeout" -> LossByTimeout("WaitSoc")
    [] ev = "CeSoa" -> Go("WaitSoc", loss, "none")
    [] OTHER -> Keep
StoppedWaitSoc(ev) ==
  CASE ev = "CeSoc" -> Go("WaitSoa", loss, "none")
    [] ev \in {"CePreq", "CeSoa"} -> LossByFrame("WaitSoc")
    [] ev = "FrameTimeout" -> LossByTimeout("WaitSoc")
    [] OTHER -> Keep
StoppedWaitSoa(ev) ==
  CASE ev = "FrameTimeout" -> LossByTimeout("WaitSoc")
    [] ev = "CeSoa" -> Go("WaitSoc", loss, "none")
    [] OTHER -> Keep

ChangeState(ev) ==
  IF nmt.state \in FullCycle
  THEN CASE dll = "GsInit"   -> Go("WaitPreq", loss, "none")
         [] dll = "WaitPreq" -> FullCycleWaitPreq(ev)
         [] dll = "WaitSoc"  -> FullCycleWaitSoc(ev)
         [] dll = "WaitSoa"  -> FullCycleWaitSoa(ev)
  ELSE IF nmt.state = "CsStopped"
  THEN CASE dll = "GsInit"   -> Go("WaitSoa", loss, "none")
         [] dll = "WaitPreq" -> StoppedWaitPreq(ev)
         [] dll = "WaitSoc"  -> StoppedWaitSoc(ev)
         [] dll = "WaitSoa"  -> StoppedWaitSoa(ev)
  ELSE IF nmt.state \in {"CsNotActive", "CsPreOp1"} /\ ev = "CeSoc"
       THEN Go("WaitPreq", loss, "none")
       ELSE Go("GsInit", loss, "none")

\* The receive handler's part for every frame: the error first, then the
\* event for the NMT state machine (none for a PRes in the later states).
Posted(err, ev) ==
  (IF err = "none" THEN <<>> ELSE <<err>>) \o
  (IF ev \in {"none", "CeAsnd"} \/ (ev = "CePres" /\ nmt.state \notin {"CsNotActive", "CsPreOp1"})
   THEN <<>> ELSE <<ev>>)
Handle(ev, more) ==
  LET r == ChangeState(ev)
  IN  /\ dll' = r.dll /\ loss' = r.loss
      /\ kint' = kint \o more \o Posted(r.err, IF ev = "FrameTimeout" THEN "none" ELSE ev)
      /\ reports' = reports + (IF r.err = "LossSoc" THEN 1 ELSE 0)

(***************************************************************************)
(* The slots of the MN's cycle.                                            *)
(***************************************************************************)
\* A new cycle begins; the last one has ended without a report of its lost SoC?
NewCycle ==
  /\ quiet' = IF dll = "GsInit" THEN 0 ELSE IF quiet < 2 THEN quiet + 1 ELSE 2
  /\ phase' = IF MultipleCycleCnt = 0 THEN 0 ELSE (phase + 1) % MultipleCycleCnt
  /\ unreported' = IF gotSoc \/ reports > 0 \/ quiet < 2 \/ ~timer THEN 0
                   ELSE IF unreported < 2 THEN unreported + 1 ELSE 2

\* processReceivedSoc: count the cycle, arm the timer.
ReceiveSoc ==
  /\ slot = "Soc" /\ ~due /\ Len(kint) < Lag /\ ~dead
  /\ slot' = "Preq" /\ gotSoc' = TRUE /\ NewCycle
  /\ cycleCount' = IF nmt.state \in FullCycle \cup {"CsStopped"} /\ MultipleCycleCnt > 0
                   THEN (cycleCount + 1) % MultipleCycleCnt ELSE cycleCount
  /\ timer' = (timer \/ nmt.state # "CsNotActive")
  /\ LET r == ChangeState("CeSoc")
     IN  /\ dll' = r.dll /\ loss' = r.loss /\ kint' = kint \o Posted(r.err, "CeSoc")
         /\ reports' = IF r.err = "LossSoc" THEN 1 ELSE 0
  /\ UNCHANGED <<nmt, errhnd, due, dead, preqLost>>

LoseSoc ==
  /\ slot = "Soc" /\ ~due /\ Len(kint) < Lag
  /\ slot' = "Preq" /\ gotSoc' = FALSE /\ due' = timer /\ reports' = 0 /\ NewCycle
  /\ UNCHANGED <<nmt, dll, loss, cycleCount, timer, kint, errhnd, dead, preqLost>>

\* processReceivedPreq: the multiplexed cycle starts anew.
ReceivePreq ==
  /\ slot = "Preq" /\ phase = 0 /\ Len(kint) < Lag /\ ~dead
  /\ slot' = "Soa" /\ preqLost' = FALSE
  /\ cycleCount' = IF nmt.state = "CsNotActive" THEN cycleCount ELSE 0
  /\ Handle("CePreq", <<>>)
  /\ UNCHANGED <<nmt, timer, errhnd, due, dead, phase, gotSoc, quiet, unreported>>

ReceivePres ==
  /\ slot \in {"Preq", "Soa"} /\ Len(kint) < Lag /\ ~dead
  /\ Handle("CePres", <<>>)
  /\ UNCHANGED <<nmt, cycleCount, timer, errhnd, slot, due, dead, phase, gotSoc, preqLost,
                 quiet, unreported>>

ReceiveSoa ==
  /\ slot = "Soa" /\ Len(kint) < Lag /\ ~dead
  /\ slot' = "Asnd"
  /\ Handle("CeSoa", <<>>)
  /\ UNCHANGED <<nmt, cycleCount, timer, errhnd, due, dead, phase, gotSoc, preqLost, quiet,
                 unreported>>

\* An NMT command is forwarded before the state machine sees the frame.
ReceiveAsnd(c) ==
  /\ slot = "Asnd" /\ Len(kint) < Lag /\ ~dead
  /\ slot' = "Soc"
  /\ Handle("CeAsnd", <<c>>)
  /\ UNCHANGED <<nmt, cycleCount, timer, errhnd, due, dead, phase, gotSoc, preqLost, quiet,
                 unreported>>

Skip == [Preq |-> "Soa", Soa |-> "Asnd", Asnd |-> "Soc"]
LoseFrame ==
  /\ slot \in DOMAIN Skip
  /\ slot' = Skip[slot]
  /\ preqLost' = (preqLost \/ (slot = "Preq" /\ phase = 0))
  /\ UNCHANGED <<nmt, dll, loss, cycleCount, timer, kint, errhnd, due, dead, phase, gotSoc,
                 reports, unreported, quiet>>

\* A slip: the timer is not started again.
TimeoutOneShot ==
  /\ due /\ Len(kint) < Lag
  /\ due' = FALSE /\ timer' = FALSE
  /\ Handle("FrameTimeout", <<>>)
  /\ UNCHANGED <<nmt, cycleCount, errhnd, slot, dead, phase, gotSoc, preqLost, quiet,
                 unreported>>

\* cbCnTimer: the state machine, then the timer again for one cycle.
Timeout ==
  /\ due /\ Len(kint) < Lag
  /\ due' = FALSE
  /\ Handle("FrameTimeout", <<>>)
  /\ UNCHANGED <<nmt, cycleCount, timer, errhnd, slot, dead, phase, gotSoc, preqLost, quiet,
                 unreported>>

MnDies ==
  /\ ~dead /\ dead' = TRUE
  /\ UNCHANGED <<nmt, dll, loss, cycleCount, timer, kint, errhnd, slot, due, phase, history,
                 quiet>>

(***************************************************************************)
(* The kernel event thread: error handler and NMT state machine.           *)
(***************************************************************************)
\* A slip: the counter is not reset at the threshold.
CountedOn(cnt, threshold) == cnt + 8

\* handleCnLossSoc, handleCnLossPreq: eight points, at the threshold an NMT event.
Counted(cnt, threshold) == IF cnt + 8 >= threshold THEN 0 ELSE cnt + 8
Exceeds(cnt, threshold) == threshold > 0 /\ cnt + 8 >= threshold

HandleLossSoc ==
  /\ kint # <<>> /\ Head(kint) = "LossSoc"
  /\ socCnt' = IF SocThreshold = 0 THEN socCnt ELSE Counted(socCnt, SocThreshold)
  /\ socErr' = (socErr \/ SocThreshold > 0)
  /\ kint' = IF Exceeds(socCnt, SocThreshold)
             THEN Append(Tail(kint), "NmtCycleError") ELSE Tail(kint)
  /\ UNCHANGED <<nmt, dll, loss, cycleCount, timer, preqCnt, slot, due, dead,
                 phase, history, quiet>>

HandleLossPreq ==
  /\ kint # <<>> /\ Head(kint) = "LossPreq"
  /\ preqCnt' = IF PreqThreshold = 0 THEN preqCnt ELSE Counted(preqCnt, PreqThreshold)
  /\ kint' = IF Exceeds(preqCnt, PreqThreshold)
             THEN Append(Tail(kint), "NmtCycleError") ELSE Tail(kint)
  /\ UNCHANGED <<nmt, dll, loss, cycleCount, timer, socCnt, socErr, slot, due, dead,
                 phase, history, quiet>>

HandleCorrectPreq ==
  /\ kint # <<>> /\ Head(kint) = "RecvdPreq"
  /\ preqCnt' = IF preqCnt = 0 THEN 0 ELSE preqCnt - 1
  /\ kint' = Tail(kint)
  /\ UNCHANGED <<nmt, dll, loss, cycleCount, timer, socCnt, socErr, slot, due, dead,
                 phase, history, quiet>>

\* Entering PreOp1 deletes the timer; an SoA ends the cycle of the counters.
NmtStep(e) ==
  LET n == NmtkProcess(nmt, e)
      preOp1 == n.state = "CsPreOp1" /\ nmt.state # "CsPreOp1"
  IN  /\ nmt' = n
      /\ timer' = (timer /\ ~preOp1) /\ due' = (due /\ ~preOp1)
      /\ quiet' = IF n.state = nmt.state THEN quiet ELSE 0
      /\ unreported' = IF n.state = nmt.state THEN unreported ELSE 0
      /\ IF e = "CeSoa"
         THEN /\ socCnt' = IF socErr \/ socCnt = 0 THEN socCnt ELSE socCnt - 1
              /\ socErr' = FALSE
         ELSE UNCHANGED <<socCnt, socErr>>
      /\ UNCHANGED <<dll, loss, cycleCount, preqCnt, slot, dead, phase, gotSoc, preqLost, reports>>

HandleNmtEvent ==
  /\ kint # <<>> /\ Head(kint) \in NmtEvents
  /\ kint' = Tail(kint)
  /\ NmtStep(Head(kint))

\* The user part reports its application ready.
AppReady ==
  /\ kint = <<>> /\ nmt.state = "CsPreOp2" /\ ~nmt.app
  /\ NmtStep("EnterReadyToOperate") /\ UNCHANGED kint

\* The node has just gone on the network.
Init ==
  /\ nmt = [NmtkInit EXCEPT !.state = "CsNotActive"] /\ dll = "GsInit" /\ loss = NoLoss
  /\ cycleCount = 0 /\ timer = FALSE /\ kint = <<>>
  /\ socCnt = 0 /\ preqCnt = 0 /\ socErr = FALSE
  /\ slot = "Soc" /\ due = FALSE /\ dead = FALSE
  /\ phase = 0 /\ gotSoc = TRUE /\ preqLost = TRUE /\ reports = 0 /\ quiet = 0 /\ unreported = 0

Cycle  == ReceiveSoc \/ LoseSoc \/ ReceivePreq \/ ReceiveSoa \/ LoseFrame
          \/ (\E c \in NmtCommands : ReceiveAsnd(c))
Kernel == HandleLossSoc \/ HandleLossPreq \/ HandleCorrectPreq \/ HandleNmtEvent
Next ==
  \/ ReceiveSoc \/ LoseSoc \/ ReceivePreq \/ ReceivePres \/ ReceiveSoa \/ LoseFrame
  \/ \E c \in NmtCommands : ReceiveAsnd(c)
  \/ Timeout \/ MnDies
  \/ HandleLossSoc \/ HandleLossPreq \/ HandleCorrectPreq \/ HandleNmtEvent \/ AppReady

Spec == Init /\ [][Next]_vars
FairSpec == Spec /\ WF_vars(LoseSoc \/ LoseFrame) /\ WF_vars(Timeout) /\ WF_vars(Kernel)

-----------------------------------------------------------------------------
TypeOK ==
  /\ nmt \in NmtkType /\ dll \in DllStates
  /\ loss \in [logical : BOOLEAN, consecutive : BOOLEAN]
  /\ cycleCount \in Nat /\ (cycleCount = 0 \/ cycleCount < MultipleCycleCnt)
  /\ kint \in Seq(NmtEvents \cup {"LossSoc", "LossPreq", "RecvdPreq"})
  /\ Len(kint) <= Lag + 1
  /\ socCnt \in 0..SocThreshold /\ preqCnt \in 0..PreqThreshold
  /\ slot \in {"Soc", "Preq", "Soa", "Asnd"}
  /\ {timer, socErr, due, dead, gotSoc, preqLost} \subseteq BOOLEAN
  /\ reports \in Nat /\ quiet \in 0..2 /\ unreported \in 0..2

Steady == quiet = 2   \* the NMT state has not changed since the last cycle

(* While the NMT state does not change, a loss of SoC is reported only in  *)
(* a cycle whose SoC was not received.                                     *)
NoFalseLoss == Steady /\ reports > 0 => ~gotSoc

(* Each missing SoC is reported twice at most: once by the timer and once  *)
(* by the sequence of the frames.  This is how far the code departs from   *)
(* ReportedOncePerCycle below.                                             *)
TwiceAtMost == Steady => reports <= 2

(* Of two missing SoCs in a row at least one is reported.                  *)
MissesAtMostOne == nmt.state \in Isochronous => unreported <= 1

(* While the timer runs, a loss of PReq is reported only after the last    *)
(* PReq the MN sent to this node was not received: missing SoCs do not     *)
(* make the node expect a PReq in a cycle that is another node's.          *)
NoFalsePreqLoss ==
  [][Steady /\ timer /\ Len(kint') > Len(kint) /\ kint'[Len(kint) + 1] = "LossPreq"
     => preqLost]_vars

(* A node that takes part in the isochronous phase leaves it when the MN   *)
(* is gone.                                                                *)
SilenceDetected == (dead /\ timer /\ nmt.state \in Isochronous) ~> nmt.state \notin Isochronous

(* dllkstatemachine.c:899: "The loss of SoC event shall only be reported   *)
(* once per cycle to the error handler."  The code does not keep it when   *)
(* the timer comes before the first frame that shows the loss.             *)
ReportedOncePerCycle == Steady /\ nmt.state \in Isochronous => reports <= 1
=============================================================================
