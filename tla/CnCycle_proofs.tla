--------------------------- MODULE CnCycle_proofs ---------------------------
(***************************************************************************)
(* The supervision of the SoC, for every multiplexed cycle, threshold and  *)
(* lag of the kernel thread: a SoC that was received is never reported     *)
(* lost, one that is missing is reported twice at most, and of two in a    *)
(* row at least one is reported.                                           *)
(***************************************************************************)
EXTENDS CnCycle, TLAPS

CyclicStates == FullCycle \cup {"CsStopped"}

(* Where the state machine stands in a cycle whose SoC was received.       *)
InPlace ==
  /\ gotSoc => ~due
  /\ quiet >= 1 /\ gotSoc => reports = 0
  /\ quiet >= 1 /\ gotSoc /\ nmt.state \in CyclicStates /\ slot \in {"Preq", "Soa"}
       => dll \in {"WaitPreq", "WaitSoa"}
  /\ quiet >= 1 /\ gotSoc /\ nmt.state \in FullCycle /\ slot = "Preq" => dll = "WaitPreq"

(* Of the two reports of a missing SoC one leaves a mark, the other one    *)
(* uses up the timer or, in PreOp2, the SoA of the cycle.                  *)
MarkedReport   == IF loss.logical THEN 1 ELSE 0
UnmarkedReport == IF nmt.state = "CsPreOp2" THEN (IF slot \in {"Preq", "Soa"} THEN 0 ELSE 1)
                  ELSE (IF due THEN 0 ELSE 1)
ReportsBounded == quiet >= 1 => reports <= MarkedReport + UnmarkedReport

(* A cycle without SoC leaves its mark for the next one.                   *)
Started == quiet >= 1 /\ nmt.state \in CyclicStates => dll # "GsInit"
Marked ==
  /\ nmt.state \in Isochronous /\ quiet >= 1 /\ ~gotSoc /\ timer /\ ~due
       => loss.consecutive /\ (unreported = 1 => reports > 0)
  /\ nmt.state \in Isochronous /\ ~gotSoc /\ unreported = 1 => loss.consecutive

IInv == /\ TypeOK /\ InPlace /\ ReportsBounded /\ Started /\ Marked
        /\ MissesAtMostOne

-----------------------------------------------------------------------------
(* One event of the state machine of the data link layer.                  *)
DllEvents  == {"CeSoc", "CePreq", "CePres", "CeSoa", "CeAsnd", "FrameTimeout"}
ErrorTypes == {"none", "LossSoc", "LossPreq", "RecvdPreq"}
LossType   == [logical : BOOLEAN, consecutive : BOOLEAN]

(* What an outcome r of the state machine may be when ev was its event.    *)
ErrorFacts(ev, r) ==
  /\ r.err \in ErrorTypes
  /\ ev \in {"CeSoc", "CeAsnd"} => r.err = "none"
  /\ r.err = "LossSoc" /\ ev # "FrameTimeout"
       => (~loss.logical /\ r.loss.logical) \/ (ev = "CeSoa" /\ nmt.state = "CsPreOp2")
  /\ r.err = "LossSoc" /\ ev = "FrameTimeout" => nmt.state # "CsPreOp2"
  /\ nmt.state \notin CyclicStates => r.err = "none"

MarkFacts(ev, r) ==
  /\ r.loss \in LossType
  /\ ev # "CeSoc" => (loss.logical => r.loss.logical) /\ (loss.consecutive => r.loss.consecutive)
  /\ ev = "FrameTimeout" /\ nmt.state \in Isochronous /\ dll # "GsInit"
       => r.loss.consecutive /\ (loss.consecutive => r.err = "LossSoc")

\* With the SoC received the frames that follow it are no surprise.
Expected(ev) == /\ dll \in {"WaitPreq", "WaitSoa"} /\ ev \in {"CePreq", "CePres", "CeSoa"}
                /\ nmt.state \in FullCycle /\ ev = "CePreq" => dll = "WaitPreq"

PlaceFacts(ev, r) ==
  /\ r.dll \in DllStates
  /\ ev = "CeSoc" /\ nmt.state \in FullCycle => r.dll = "WaitPreq"
  /\ ev = "CeSoc" /\ nmt.state = "CsStopped" => r.dll \in {"WaitPreq", "WaitSoa"}
  /\ nmt.state \in CyclicStates => r.dll # "GsInit"
  /\ nmt.state \in CyclicStates /\ Expected(ev)
       => /\ r.err # "LossSoc"
          /\ ev # "CeSoa" => r.dll \in {"WaitPreq", "WaitSoa"}
          /\ ev = "CePres" => r.dll = dll

LEMMA ChangeFacts ==
  ASSUME dll \in DllStates, loss \in LossType, NEW ev \in DllEvents
  PROVE  /\ ErrorFacts(ev, ChangeState(ev))
         /\ MarkFacts(ev, ChangeState(ev))
         /\ PlaceFacts(ev, ChangeState(ev))
<1>. DEFINE r == ChangeState(ev)
            Result(s, l, e) == r.dll = s /\ r.loss = l /\ r.err = e
            Plain(s) == Result(s, loss, "none")
            ByFrame(s) == /\ r.dll = s /\ r.loss \in LossType /\ r.loss.logical
                          /\ loss.consecutive => r.loss.consecutive
                          /\ r.err \in {"none", "LossSoc"}
                          /\ loss.logical => r.err = "none"
            ByTimeout == /\ ev = "FrameTimeout" /\ nmt.state # "CsPreOp2"
                         /\ r.dll = "WaitSoc" /\ r.loss \in LossType /\ r.loss.consecutive
                         /\ loss.logical => r.loss.logical
                         /\ r.err \in {"none", "LossSoc"}
                         /\ loss.consecutive => r.err = "LossSoc"
<1>. SUFFICES ErrorFacts(ev, r) /\ MarkFacts(ev, r) /\ PlaceFacts(ev, r)
  OBVIOUS
<1>0. /\ "CsStopped" \notin FullCycle /\ "CsStopped" # "CsPreOp2"
      /\ CyclicStates = FullCycle \cup {"CsStopped"}
      /\ Isochronous = FullCycle \ {"CsPreOp2"}
      /\ "CsPreOp2" \in FullCycle
  BY DEF FullCycle, CyclicStates, Isochronous
<1>a. ASSUME NEW s, r = Go(s, loss, "none") PROVE Plain(s)
  BY <1>a DEF Go
<1>b. ASSUME NEW s, r = LossByFrame(s) PROVE ByFrame(s)
  <2>1. r = [dll |-> s, loss |-> [loss EXCEPT !.logical = TRUE],
             err |-> IF loss.logical THEN "none" ELSE "LossSoc"]
    BY <1>b DEF LossByFrame, Go
  <2>. HIDE DEF r
  <2>. QED
    BY <2>1 DEF LossType
<1>c. ASSUME r = LossByTimeout("WaitSoc"), ev = "FrameTimeout", nmt.state # "CsPreOp2"
      PROVE  ByTimeout
  <2>1. r = [dll |-> "WaitSoc", loss |-> [loss EXCEPT !.consecutive = TRUE],
             err |-> IF loss.consecutive \/ ~loss.logical THEN "LossSoc" ELSE "none"]
    BY <1>c DEF LossByTimeout, Go
  <2>. HIDE DEF r
  <2>2. /\ r.dll = "WaitSoc" /\ r.loss = [loss EXCEPT !.consecutive = TRUE]
        /\ r.err = IF loss.consecutive \/ ~loss.logical THEN "LossSoc" ELSE "none"
    BY <2>1
  <2>3. r.loss \in LossType /\ r.loss.consecutive /\ r.loss.logical = loss.logical
    BY <2>2 DEF LossType
  <2>. QED
    BY <1>c, <2>2, <2>3
<1>e. NoLoss \in LossType
  BY DEF NoLoss, LossType
<1>d. ASSUME r = Keep PROVE Plain(dll)
  BY <1>d DEF Keep, Go
<1>. HIDE DEF r
<1>. USE DEF DllStates, DllEvents, ErrorTypes
<1>1. CASE nmt.state \in FullCycle /\ dll = "GsInit"
  <2>2. Plain("WaitPreq")
    BY <1>0, <1>a, <1>1 DEF ChangeState, r, Go
  <2>3. ErrorFacts(ev, r)
    BY <1>0, <1>1, <2>2 DEF ErrorFacts
  <2>4. MarkFacts(ev, r)
    BY <1>0, <1>1, <2>2 DEF MarkFacts
  <2>5. PlaceFacts(ev, r)
    BY <1>0, <1>1, <2>2 DEF PlaceFacts, Expected
  <2>. QED
    BY <2>3, <2>4, <2>5
<1>2. CASE nmt.state \in FullCycle /\ dll = "WaitPreq"
  <2>1. r = FullCycleWaitPreq(ev)
    BY <1>0, <1>2 DEF ChangeState, r
  <2>2. \/ ev = "CePreq" /\ Result("WaitSoa", loss, "RecvdPreq")
        \/ ByTimeout
        \/ ev = "CeSoa" /\ Result("WaitSoc", loss, "LossPreq")
        \/ ev = "CeSoa" /\ Plain("WaitSoc")
        \/ ev \notin {"CePreq", "CeSoa"} /\ ~(ev = "FrameTimeout" /\ nmt.state # "CsPreOp2") /\ Plain(dll)
    BY <1>a, <1>b, <1>c, <1>d, <1>2, <2>1 DEF FullCycleWaitPreq, Go
  <2>3. ErrorFacts(ev, r)
    BY <1>0, <1>2, <2>2 DEF ErrorFacts
  <2>4. MarkFacts(ev, r)
    BY <1>0, <1>2, <2>2 DEF MarkFacts
  <2>5. PlaceFacts(ev, r)
    BY <1>0, <1>2, <2>2 DEF PlaceFacts, Expected
  <2>. QED
    BY <2>3, <2>4, <2>5
<1>3. CASE nmt.state \in FullCycle /\ dll = "WaitSoc"
  <2>1. r = FullCycleWaitSoc(ev)
    BY <1>0, <1>3 DEF ChangeState, r
  <2>2. \/ ev = "CeSoc" /\ Result("WaitPreq", NoLoss, "none")
        \/ ByTimeout
        \/ ev \in {"CePreq", "CePres"} /\ ByFrame("WaitSoa")
        \/ ev = "CeSoa" /\ nmt.state = "CsPreOp2" /\ Result("WaitSoc", loss, "LossSoc")
        \/ ev = "CeSoa" /\ ByFrame("WaitSoc")
        \/ ev \notin {"CeSoc", "CePreq", "CePres", "CeSoa"} /\ ~(ev = "FrameTimeout" /\ nmt.state # "CsPreOp2")
             /\ Plain(dll)
    BY <1>a, <1>b, <1>c, <1>d, <1>3, <2>1 DEF FullCycleWaitSoc, Go
  <2>3. ErrorFacts(ev, r)
    BY <1>0, <1>3, <2>2 DEF ErrorFacts
  <2>4. MarkFacts(ev, r)
    BY <1>0, <1>e, <1>3, <2>2 DEF MarkFacts
  <2>5. PlaceFacts(ev, r)
    BY <1>0, <1>3, <2>2 DEF PlaceFacts, Expected
  <2>. QED
    BY <2>3, <2>4, <2>5
<1>4. CASE nmt.state \in FullCycle /\ dll = "WaitSoa"
  <2>1. r = FullCycleWaitSoa(ev)
    BY <1>0, <1>4 DEF ChangeState, r
  <2>2. \/ ByTimeout
        \/ ev = "CePreq" /\ ByFrame("WaitSoc")
        \/ ev = "CeSoa" /\ Plain("WaitSoc")
        \/ ev = "CeSoc" /\ Plain("WaitPreq")
        \/ ev \notin {"CePreq", "CeSoa", "CeSoc"} /\ ~(ev = "FrameTimeout" /\ nmt.state # "CsPreOp2")
             /\ Plain(dll)
    BY <1>a, <1>b, <1>c, <1>d, <1>4, <2>1 DEF FullCycleWaitSoa, Go
  <2>3. ErrorFacts(ev, r)
    BY <1>0, <1>4, <2>2 DEF ErrorFacts
  <2>4. MarkFacts(ev, r)
    BY <1>0, <1>4, <2>2 DEF MarkFacts
  <2>5. PlaceFacts(ev, r)
    BY <1>0, <1>4, <2>2 DEF PlaceFacts, Expected
  <2>. QED
    BY <2>3, <2>4, <2>5
<1>5. CASE nmt.state = "CsStopped" /\ dll = "GsInit"
  <2>2. Plain("WaitSoa")
    BY <1>0, <1>a, <1>5 DEF ChangeState, r, Go
  <2>3. ErrorFacts(ev, r)
    BY <1>0, <1>5, <2>2 DEF ErrorFacts
  <2>4. MarkFacts(ev, r)
    BY <1>0, <1>5, <2>2 DEF MarkFacts
  <2>5. PlaceFacts(ev, r)
    BY <1>0, <1>5, <2>2 DEF PlaceFacts, Expected
  <2>. QED
    BY <2>3, <2>4, <2>5
<1>6. CASE nmt.state = "CsStopped" /\ dll = "WaitPreq"
  <2>1. r = StoppedWaitPreq(ev)
    BY <1>0, <1>6 DEF ChangeState, r
  <2>2. \/ ByTimeout
        \/ ev = "CePreq" /\ Plain("WaitSoa")
        \/ ev = "CeSoa" /\ Plain("WaitSoc")
        \/ ev \notin {"CePreq", "FrameTimeout", "CeSoa"} /\ Plain(dll)
    BY <1>0, <1>a, <1>b, <1>c, <1>d, <1>6, <2>1 DEF StoppedWaitPreq, Go
  <2>3. ErrorFacts(ev, r)
    BY <1>0, <1>6, <2>2 DEF ErrorFacts
  <2>4. MarkFacts(ev, r)
    BY <1>0, <1>6, <2>2 DEF MarkFacts
  <2>5. PlaceFacts(ev, r)
    BY <1>0, <1>6, <2>2 DEF PlaceFacts, Expected
  <2>. QED
    BY <2>3, <2>4, <2>5
<1>7. CASE nmt.state = "CsStopped" /\ dll = "WaitSoc"
  <2>1. r = StoppedWaitSoc(ev)
    BY <1>0, <1>7 DEF ChangeState, r
  <2>2. \/ ByTimeout
        \/ ev = "CeSoc" /\ Plain("WaitSoa")
        \/ ev \in {"CePreq", "CeSoa"} /\ ByFrame("WaitSoc")
        \/ ev \notin {"CeSoc", "CePreq", "CeSoa", "FrameTimeout"} /\ Plain(dll)
    BY <1>0, <1>a, <1>b, <1>c, <1>d, <1>7, <2>1 DEF StoppedWaitSoc, Go
  <2>3. ErrorFacts(ev, r)
    BY <1>0, <1>7, <2>2 DEF ErrorFacts
  <2>4. MarkFacts(ev, r)
    BY <1>0, <1>7, <2>2 DEF MarkFacts
  <2>5. PlaceFacts(ev, r)
    BY <1>0, <1>7, <2>2 DEF PlaceFacts, Expected
  <2>. QED
    BY <2>3, <2>4, <2>5
<1>8. CASE nmt.state = "CsStopped" /\ dll = "WaitSoa"
  <2>1. r = StoppedWaitSoa(ev)
    BY <1>0, <1>8 DEF ChangeState, r
  <2>2. \/ ByTimeout
        \/ ev = "CeSoa" /\ Plain("WaitSoc")
        \/ ev \notin {"FrameTimeout", "CeSoa"} /\ Plain(dll)
    BY <1>0, <1>a, <1>b, <1>c, <1>d, <1>8, <2>1 DEF StoppedWaitSoa, Go
  <2>3. ErrorFacts(ev, r)
    BY <1>0, <1>8, <2>2 DEF ErrorFacts
  <2>4. MarkFacts(ev, r)
    BY <1>0, <1>8, <2>2 DEF MarkFacts
  <2>5. PlaceFacts(ev, r)
    BY <1>0, <1>8, <2>2 DEF PlaceFacts, Expected
  <2>. QED
    BY <2>3, <2>4, <2>5
<1>9. CASE nmt.state \notin CyclicStates
  <2>2. \/ ev = "CeSoc" /\ Plain("WaitPreq")
        \/ Plain("GsInit")
    BY <1>0, <1>a, <1>9 DEF ChangeState, r, Go
  <2>3. ErrorFacts(ev, r)
    BY <1>0, <1>9, <2>2 DEF ErrorFacts
  <2>4. MarkFacts(ev, r)
    BY <1>0, <1>9, <2>2 DEF MarkFacts
  <2>5. PlaceFacts(ev, r)
    BY <1>0, <1>9, <2>2 DEF PlaceFacts, Expected
  <2>. QED
    BY <2>3, <2>4, <2>5
<1>. QED
  BY <1>0, <1>1, <1>2, <1>3, <1>4, <1>5, <1>6, <1>7, <1>8, <1>9

-----------------------------------------------------------------------------
(* What the receive handler and the timer leave in the queue.              *)
QueueEvents == NmtEvents \cup {"LossSoc", "LossPreq", "RecvdPreq"}

LEMMA PostedFacts ==
  ASSUME NEW err \in ErrorTypes, NEW ev \in Frames \cup {"none", "CeAsnd"}
  PROVE  /\ Posted(err, ev) \in Seq(QueueEvents) /\ Len(Posted(err, ev)) <= 2
         /\ err = "none" /\ ev = "CeAsnd" => Posted(err, ev) = <<>>
<1>1. ev \notin {"none", "CeAsnd"} => <<ev>> \in Seq(QueueEvents)
  BY DEF QueueEvents, NmtEvents
<1>2. err # "none" => <<err>> \in Seq(QueueEvents)
  BY DEF QueueEvents, ErrorTypes
<1>. QED
  BY <1>1, <1>2 DEF Posted

\* The outcome of a frame or a timeout, seen from the variables.
Outcome(ev, r) ==
  /\ ErrorFacts(ev, r) /\ MarkFacts(ev, r) /\ PlaceFacts(ev, r)
  /\ dll' = r.dll /\ loss' = r.loss

LEMMA HandleFacts ==
  ASSUME TypeOK, NEW ev \in DllEvents, NEW more \in Seq(QueueEvents), Handle(ev, more)
  PROVE  /\ \E r : /\ Outcome(ev, r)
                  /\ reports' = reports + (IF r.err = "LossSoc" THEN 1 ELSE 0)
         /\ kint' \in Seq(QueueEvents) /\ Len(kint') <= Len(kint) + Len(more) + 2
         /\ ev = "CeAsnd" => Len(kint') = Len(kint) + Len(more)
<1>. DEFINE r == ChangeState(ev)
            posted == Posted(r.err, IF ev = "FrameTimeout" THEN "none" ELSE ev)
<1>1. Outcome(ev, r) /\ reports' = reports + (IF r.err = "LossSoc" THEN 1 ELSE 0)
  BY ChangeFacts DEF TypeOK, LossType, Handle, Outcome
<1>2. r.err \in ErrorTypes /\ (ev = "CeAsnd" => r.err = "none")
  BY <1>1 DEF Outcome, ErrorFacts
<1>3. kint' = kint \o more \o posted
  BY DEF Handle
<1>. HIDE DEF r
<1>4. (IF ev = "FrameTimeout" THEN "none" ELSE ev) \in Frames \cup {"none", "CeAsnd"}
  BY DEF DllEvents, Frames
<1>5. /\ posted \in Seq(QueueEvents) /\ Len(posted) <= 2
      /\ ev = "CeAsnd" => posted = <<>>
  BY <1>2, <1>4, PostedFacts
<1>. HIDE DEF posted
<1>6. kint \in Seq(QueueEvents)
  BY DEF TypeOK, QueueEvents
<1>7. /\ kint' \in Seq(QueueEvents)
      /\ Len(kint') = Len(kint) + Len(more) + Len(posted)
  BY <1>3, <1>5, <1>6
<1>8. Len(posted) <= 2 /\ Len(posted) \in Nat /\ (ev = "CeAsnd" => Len(posted) = 0)
  BY <1>5
<1>9. Len(kint) \in Nat /\ Len(more) \in Nat
  BY <1>6
<1>10. Len(kint') <= Len(kint) + Len(more) + 2 /\ (ev = "CeAsnd" => Len(kint') = Len(kint) + Len(more))
  BY <1>7, <1>8, <1>9
<1>. QED
  BY <1>1, <1>7, <1>10

LEMMA ReceiveSocFacts ==
  ASSUME TypeOK, ReceiveSoc
  PROVE  /\ \E r : Outcome("CeSoc", r)
         /\ reports' = 0
         /\ kint' \in Seq(QueueEvents) /\ Len(kint') <= Len(kint) + 2
<1>. DEFINE r == ChangeState("CeSoc")
<1>0. "CeSoc" \in DllEvents /\ "CeSoc" \in Frames
  BY DEF DllEvents, Frames
<1>1. Outcome("CeSoc", r)
  BY <1>0, ChangeFacts DEF TypeOK, LossType, ReceiveSoc, Outcome
<1>2. r.err = "none" /\ r.err \in ErrorTypes
  BY <1>1 DEF Outcome, ErrorFacts
<1>3. kint' = kint \o Posted(r.err, "CeSoc") /\ reports' = IF r.err = "LossSoc" THEN 1 ELSE 0
  BY DEF ReceiveSoc
<1>. HIDE DEF r
<1>4. Posted(r.err, "CeSoc") \in Seq(QueueEvents) /\ Len(Posted(r.err, "CeSoc")) <= 2
  BY <1>0, <1>2, PostedFacts
<1>5. kint \in Seq(QueueEvents)
  BY DEF TypeOK, QueueEvents
<1>. QED
  BY <1>1, <1>2, <1>3, <1>4, <1>5

(* The NMT state machine stays within its type, whatever the event.        *)
LEMMA TargetType ==
  ASSUME NEW s \in NmtStates, NEW e
  PROVE  Target(s, e) \in NmtStates
<1>1. /\ \A x \in DOMAIN ResetStage : ResetStage[x] \in NmtStates
      /\ \A m \in AllMoves : m[3] \in NmtStates
  BY DEF ResetStage, AllMoves, Moves, MnMoves, NmtStates, Stages, Stage, CnStates, MnStates, Frames
<1>. QED
  BY <1>1 DEF Target, ResetTaken

LEMMA ProcessType ==
  ASSUME NEW n \in NmtkType, NEW e
  PROVE  NmtkProcess(n, e) \in NmtkType
<1>. DEFINE t == Target(n.state, e)
            app == n.app \/ e = "EnterReadyToOperate"
            enable == n.enable \/ e = "EnableReadyToOperate"
<1>1. t \in NmtStates
  BY TargetType DEF NmtkType
<1>2. /\ {"CsReadyToOperate"} \subseteq NmtStates
      /\ MnBuild => {"MsBasicEthernet", "MsPreOp1", "MsPreOp2"} \subseteq NmtStates
      /\ ~MnBuild => n.state \notin {"MsNotActive", "MsPreOp1"}
  BY DEF NmtkType, NmtStates, Stages, Stage, CnStates, MnStates
<1>3. app \in BOOLEAN /\ enable \in BOOLEAN
  BY Zenon
<1>. HIDE DEF t, app, enable
<1>4. CASE n.state = "CsPreOp2"
  <2>1. CsPreOp2(n, e) \in {[n EXCEPT !.state = t, !.enable = FALSE, !.app = FALSE],
                            [n EXCEPT !.state = "CsReadyToOperate", !.enable = FALSE, !.app = FALSE],
                            [n EXCEPT !.app = app, !.enable = enable],
                            [n EXCEPT !.state = t]}
    BY DEF CsPreOp2, PreOp2Handshake, t, app, enable
  <2>. QED
    BY <1>1, <1>2, <1>3, <1>4, <2>1 DEF NmtkProcess, NmtkType
<1>5. CASE n.state = "GsResetConfiguration"
  BY <1>1, <1>5 DEF NmtkProcess, ResetConfiguration, NmtkType, t
<1>6. CASE n.state = "MsNotActive"
  BY <1>1, <1>2, <1>6 DEF NmtkProcess, MsNotActive, NmtkType, t
<1>7. CASE n.state = "MsPreOp1"
  BY <1>1, <1>2, <1>7 DEF NmtkProcess, MsPreOp1, NmtkType, t
<1>8. CASE n.state \notin {"CsPreOp2", "GsResetConfiguration", "MsNotActive", "MsPreOp1"}
  BY <1>1, <1>8 DEF NmtkProcess, NmtkType, t
<1>. QED
  BY <1>4, <1>5, <1>6, <1>7, <1>8

(* What the NMT state machine does to the rest when its state changes.     *)
LEMMA NmtStepFacts ==
  ASSUME TypeOK, NEW e, NmtStep(e)
  PROVE  /\ nmt' \in NmtkType
         /\ nmt'.state # nmt.state => quiet' = 0 /\ unreported' = 0
         /\ nmt'.state = nmt.state => /\ quiet' = quiet /\ unreported' = unreported
                                     /\ timer' = timer /\ due' = due
         /\ due' => due
         /\ timer' \in BOOLEAN /\ due' \in BOOLEAN /\ socErr' \in BOOLEAN
         /\ socCnt' \in 0..SocThreshold
         /\ UNCHANGED <<dll, loss, cycleCount, preqCnt, slot, dead, phase, gotSoc, preqLost, reports>>
<1>. DEFINE n == NmtkProcess(nmt, e)
<1>1. n \in NmtkType
  BY ProcessType DEF TypeOK
<1>2. nmt' = n
  BY DEF NmtStep
<1>. HIDE DEF n
<1>3. /\ timer' \in BOOLEAN /\ due' \in BOOLEAN /\ (due' => due)
      /\ nmt'.state = nmt.state => timer' = timer /\ due' = due
  BY <1>2 DEF NmtStep, TypeOK, n
<1>4. socCnt' \in 0..SocThreshold /\ socErr' \in BOOLEAN
  <2>1. socCnt \in 0..SocThreshold /\ SocThreshold \in Nat
    BY CycleAssumption DEF TypeOK
  <2>2. socErr \in BOOLEAN
    BY DEF TypeOK
  <2>3. \/ socCnt' = socCnt
        \/ socCnt' = IF socErr \/ socCnt = 0 THEN socCnt ELSE socCnt - 1
    BY DEF NmtStep
  <2>4. socErr' = FALSE \/ socErr' = socErr
    BY DEF NmtStep
  <2>5. socCnt' \in 0..SocThreshold
    <3>1. CASE socErr \/ socCnt = 0
      BY <2>1, <2>3, <3>1
    <3>2. CASE ~(socErr \/ socCnt = 0)
      BY <2>1, <2>3, <3>2
    <3>. QED
      BY <3>1, <3>2
  <2>6. socErr' \in BOOLEAN
    BY <2>2, <2>4
  <2>. QED
    BY <2>5, <2>6
<1>5. /\ nmt'.state # nmt.state => quiet' = 0 /\ unreported' = 0
      /\ nmt'.state = nmt.state => quiet' = quiet /\ unreported' = unreported
      /\ UNCHANGED <<dll, loss, cycleCount, preqCnt, slot, dead, phase, gotSoc, preqLost, reports>>
  BY <1>2 DEF NmtStep, n
<1>. QED
  BY <1>1, <1>2, <1>3, <1>4, <1>5

-----------------------------------------------------------------------------
(* Every step preserves the types and the consents.                        *)
LEMMA ThreadTypes ==
  ASSUME TypeOK, HandleLossSoc \/ HandleLossPreq \/ HandleCorrectPreq
  PROVE  /\ socCnt' \in 0..SocThreshold /\ preqCnt' \in 0..PreqThreshold
         /\ socErr' \in BOOLEAN
         /\ kint' \in Seq(QueueEvents) /\ Len(kint') <= Lag + 1
<1>0. /\ SocThreshold \in Nat /\ PreqThreshold \in Nat
      /\ socCnt \in 0..SocThreshold /\ preqCnt \in 0..PreqThreshold
      /\ kint \in Seq(QueueEvents) /\ Len(kint) <= Lag + 1 /\ kint # <<>> /\ Lag \in Nat
  BY CycleAssumption DEF TypeOK, QueueEvents, HandleLossSoc, HandleLossPreq, HandleCorrectPreq
<1>1. Tail(kint) \in Seq(QueueEvents) /\ Len(Tail(kint)) = Len(kint) - 1
  BY <1>0
<1>2. "NmtCycleError" \in QueueEvents
  BY DEF QueueEvents, NmtEvents
<1>3. kint' \in {Tail(kint), Append(Tail(kint), "NmtCycleError")}
  BY DEF HandleLossSoc, HandleLossPreq, HandleCorrectPreq
<1>4. kint' \in Seq(QueueEvents) /\ Len(kint') <= Lag + 1
  BY <1>0, <1>1, <1>2, <1>3
<1>5. ASSUME NEW th \in Nat, NEW cnt \in 0..th, th # 0
      PROVE  Counted(cnt, th) \in 0..th
  BY <1>5 DEF Counted
<1>6. socErr \in BOOLEAN
  BY DEF TypeOK
<1>7. CASE HandleLossSoc
  <2>1. socCnt' = (IF SocThreshold = 0 THEN socCnt ELSE Counted(socCnt, SocThreshold))
        /\ preqCnt' = preqCnt
    BY <1>7 DEF HandleLossSoc
  <2>2. socErr' \in BOOLEAN
    BY <1>7 DEF HandleLossSoc
  <2>. QED
    BY <1>0, <1>4, <1>5, <2>1, <2>2
<1>8. CASE HandleLossPreq
  <2>1. preqCnt' = (IF PreqThreshold = 0 THEN preqCnt ELSE Counted(preqCnt, PreqThreshold))
        /\ socCnt' = socCnt /\ socErr' = socErr
    BY <1>8 DEF HandleLossPreq
  <2>. QED
    BY <1>0, <1>4, <1>5, <1>6, <2>1
<1>9. CASE HandleCorrectPreq
  <2>1. preqCnt' = (IF preqCnt = 0 THEN 0 ELSE preqCnt - 1)
        /\ socCnt' = socCnt /\ socErr' = socErr
    BY <1>9 DEF HandleCorrectPreq
  <2>. QED
    BY <1>0, <1>4, <1>6, <2>1
<1>. QED
  BY <1>7, <1>8, <1>9

LEMMA TypeStep ==
  ASSUME TypeOK, [Next]_vars
  PROVE  TypeOK'
<1>0. /\ MultipleCycleCnt \in Nat /\ SocThreshold \in Nat /\ PreqThreshold \in Nat
      /\ Lag \in Nat /\ NmtCommands \subseteq QueueEvents
  BY CycleAssumption DEF QueueEvents, NmtEvents
<1>1. kint \in Seq(QueueEvents) /\ Len(kint) \in Nat /\ Len(kint) <= Lag + 1
  BY DEF TypeOK, QueueEvents
<1>2. <<>> \in Seq(QueueEvents) /\ Len(<<>>) = 0
  OBVIOUS
<1>3. {"CeSoc", "CePreq", "CePres", "CeSoa", "CeAsnd", "FrameTimeout"} = DllEvents
  BY DEF DllEvents
<1>n. /\ quiet \in 0..2 /\ unreported \in 0..2 /\ reports \in Nat
      /\ gotSoc \in BOOLEAN /\ timer \in BOOLEAN
  BY DEF TypeOK
<1>c. ASSUME NewCycle PROVE quiet' \in 0..2 /\ unreported' \in 0..2
  <2>1. quiet' \in {0, 2, quiet + 1} /\ (quiet' = quiet + 1 => quiet < 2 \/ quiet' = 0)
    BY <1>c, <1>n DEF NewCycle
  <2>2. \/ unreported' \in {0, 2}
        \/ unreported' = unreported + 1 /\ unreported < 2
    BY <1>c, <1>n DEF NewCycle
  <2>. QED
    BY <1>n, <2>1, <2>2
<1>h. ASSUME NEW ev \in DllEvents, NEW more \in Seq(QueueEvents), Len(more) = 0, Handle(ev, more),
             Len(kint) < Lag
      PROVE  /\ dll' \in DllStates /\ loss' \in LossType /\ reports' \in Nat
             /\ kint' \in Seq(QueueEvents) /\ Len(kint') <= Lag + 1
  <2>1. PICK r : Outcome(ev, r) /\ reports' = reports + (IF r.err = "LossSoc" THEN 1 ELSE 0)
    BY <1>h, HandleFacts
  <2>2. kint' \in Seq(QueueEvents) /\ Len(kint') <= Len(kint) + 0 + 2
    BY <1>h, HandleFacts
  <2>3. dll' \in DllStates /\ loss' \in LossType
    BY <2>1 DEF Outcome, PlaceFacts, MarkFacts
  <2>4. reports' \in Nat
    BY <1>n, <2>1
  <2>5. Len(kint') \in Nat
    BY <2>2
  <2>. QED
    BY <1>0, <1>1, <1>h, <2>2, <2>3, <2>4, <2>5
<1>4. CASE ReceiveSoc
  <2>1. PICK r : Outcome("CeSoc", r)
    BY <1>4, ReceiveSocFacts
  <2>2. dll' \in DllStates /\ loss' \in LossType
    BY <2>1 DEF Outcome, PlaceFacts, MarkFacts
  <2>3. reports' = 0 /\ kint' \in Seq(QueueEvents) /\ Len(kint') <= Len(kint) + 2
    BY <1>4, ReceiveSocFacts
  <2>4. Len(kint) < Lag /\ Len(kint') \in Nat
    BY <1>4, <2>3 DEF ReceiveSoc
  <2>5. quiet' \in 0..2 /\ unreported' \in 0..2
    BY <1>4, <1>c DEF ReceiveSoc
  <2>6. cycleCount' \in Nat /\ (cycleCount' = 0 \/ cycleCount' < MultipleCycleCnt)
    BY <1>0, <1>4 DEF ReceiveSoc, TypeOK
  <2>7. /\ nmt' = nmt /\ slot' = "Preq" /\ gotSoc' = TRUE /\ timer' \in BOOLEAN
        /\ UNCHANGED <<errhnd, due, dead, preqLost>>
    BY <1>4 DEF ReceiveSoc
  <2>8. Len(kint') <= Lag + 1
    BY <1>0, <1>1, <2>3, <2>4
  <2>9. TypeOK'
    BY <2>2, <2>3, <2>5, <2>6, <2>7, <2>8 DEF TypeOK, LossType, QueueEvents, errhnd
  <2>. QED
    BY <2>7, <2>9
<1>5. CASE LoseSoc
  <2>1. quiet' \in 0..2 /\ unreported' \in 0..2
    BY <1>5, <1>c DEF LoseSoc
  <2>. QED
    BY <1>5, <1>n, <2>1 DEF LoseSoc, TypeOK, errhnd
<1>6. CASE ReceivePreq
  <2>1. /\ dll' \in DllStates /\ loss' \in LossType /\ reports' \in Nat
        /\ kint' \in Seq(QueueEvents) /\ Len(kint') <= Lag + 1
    BY <1>2, <1>3, <1>6, <1>h DEF ReceivePreq
  <2>2. cycleCount' \in Nat /\ (cycleCount' = 0 \/ cycleCount' < MultipleCycleCnt)
    BY <1>6 DEF ReceivePreq, TypeOK
  <2>. QED
    BY <1>6, <2>1, <2>2 DEF ReceivePreq, TypeOK, errhnd, LossType, QueueEvents
<1>7. CASE ReceivePres
  <2>1. /\ dll' \in DllStates /\ loss' \in LossType /\ reports' \in Nat
        /\ kint' \in Seq(QueueEvents) /\ Len(kint') <= Lag + 1
    BY <1>2, <1>3, <1>7, <1>h DEF ReceivePres
  <2>. QED
    BY <1>7, <2>1 DEF ReceivePres, TypeOK, errhnd, LossType, QueueEvents
<1>8. CASE ReceiveSoa
  <2>1. /\ dll' \in DllStates /\ loss' \in LossType /\ reports' \in Nat
        /\ kint' \in Seq(QueueEvents) /\ Len(kint') <= Lag + 1
    BY <1>2, <1>3, <1>8, <1>h DEF ReceiveSoa
  <2>. QED
    BY <1>8, <2>1 DEF ReceiveSoa, TypeOK, errhnd, LossType, QueueEvents
<1>9. ASSUME NEW c \in NmtCommands, ReceiveAsnd(c) PROVE TypeOK'
  <2>1. <<c>> \in Seq(QueueEvents) /\ Len(<<c>>) = 1
    BY <1>0
  <2>2. "CeAsnd" \in DllEvents /\ Handle("CeAsnd", <<c>>) /\ Len(kint) < Lag
    BY <1>9 DEF ReceiveAsnd, DllEvents
  <2>3. PICK r : Outcome("CeAsnd", r) /\ reports' = reports + (IF r.err = "LossSoc" THEN 1 ELSE 0)
    BY <2>1, <2>2, HandleFacts
  <2>4. kint' \in Seq(QueueEvents) /\ Len(kint') = Len(kint) + 1
    BY <2>1, <2>2, HandleFacts
  <2>5. dll' \in DllStates /\ loss' \in LossType
    BY <2>3 DEF Outcome, PlaceFacts, MarkFacts
  <2>6. reports' \in Nat
    BY <1>n, <2>3
  <2>7. Len(kint') <= Lag + 1
    BY <1>0, <1>1, <2>2, <2>4
  <2>. QED
    BY <1>9, <2>4, <2>5, <2>6, <2>7 DEF ReceiveAsnd, TypeOK, errhnd, LossType, QueueEvents
<1>10. CASE LoseFrame
  <2>1. slot' \in {"Preq", "Soa", "Asnd", "Soc"}
    BY <1>10 DEF LoseFrame, Skip
  <2>2. preqLost' \in BOOLEAN
    BY <1>10 DEF LoseFrame
  <2>. QED
    BY <1>10, <2>1, <2>2 DEF LoseFrame, TypeOK, errhnd
<1>11. CASE Timeout
  <2>1. /\ dll' \in DllStates /\ loss' \in LossType /\ reports' \in Nat
        /\ kint' \in Seq(QueueEvents) /\ Len(kint') <= Lag + 1
    BY <1>2, <1>3, <1>11, <1>h DEF Timeout
  <2>. QED
    BY <1>11, <2>1 DEF Timeout, TypeOK, errhnd, LossType, QueueEvents
<1>12. CASE MnDies
  <2>1. UNCHANGED <<nmt, dll, loss, cycleCount, timer, kint, socCnt, preqCnt, socErr, slot, due,
                    gotSoc, preqLost, reports, quiet, unreported>>
    BY <1>12 DEF MnDies, history, errhnd
  <2>2. dead' = TRUE
    BY <1>12 DEF MnDies
  <2>. QED
    BY <2>1, <2>2 DEF TypeOK
<1>13. CASE HandleLossSoc \/ HandleLossPreq \/ HandleCorrectPreq
  <2>1. UNCHANGED <<nmt, dll, loss, cycleCount, timer, slot, due, dead, phase, history, quiet>>
    BY <1>13 DEF HandleLossSoc, HandleLossPreq, HandleCorrectPreq
  <2>. QED
    BY <1>13, <2>1, ThreadTypes DEF TypeOK, history, QueueEvents
<1>14. ASSUME NEW e, NmtStep(e), kint' = kint \/ (kint # <<>> /\ kint' = Tail(kint))
       PROVE  TypeOK'
  <2>1. /\ nmt' \in NmtkType
        /\ timer' \in BOOLEAN /\ due' \in BOOLEAN /\ socErr' \in BOOLEAN
        /\ socCnt' \in 0..SocThreshold
        /\ UNCHANGED <<dll, loss, cycleCount, preqCnt, slot, dead, phase, gotSoc, preqLost, reports>>
    BY <1>14, NmtStepFacts
  <2>2. quiet' \in 0..2 /\ unreported' \in 0..2
    BY <1>14, <1>n DEF NmtStep
  <2>3. kint' \in Seq(QueueEvents) /\ Len(kint') <= Lag + 1
    BY <1>0, <1>1, <1>14
  <2>. QED
    BY <2>1, <2>2, <2>3 DEF TypeOK, QueueEvents
<1>15. CASE HandleNmtEvent
  BY <1>14, <1>15 DEF HandleNmtEvent
<1>16. CASE AppReady
  BY <1>14, <1>16 DEF AppReady
<1>17. CASE UNCHANGED vars
  BY <1>17 DEF vars, TypeOK
<1>. QED
  BY <1>4, <1>5, <1>6, <1>7, <1>8, <1>9, <1>10, <1>11, <1>12, <1>13, <1>15, <1>16, <1>17 DEF Next

-----------------------------------------------------------------------------
(* A frame or a timeout in a cycle: what the three kinds of facts say of   *)
(* the variables that the other conjuncts of the invariant relate.         *)
LEMMA FrameFacts ==
  ASSUME IInv, NEW ev \in DllEvents, NEW more \in Seq(QueueEvents), Handle(ev, more)
  PROVE  /\ reports' \in Nat /\ reports' >= reports /\ reports' <= reports + 1
         /\ ev = "CeAsnd" => reports' = reports
         /\ ev # "CeSoc" => (loss.logical => loss.logical') /\ (loss.consecutive => loss.consecutive')
         /\ reports' # reports /\ ev # "FrameTimeout"
              => (~loss.logical /\ loss.logical') \/ (ev = "CeSoa" /\ nmt.state = "CsPreOp2")
         /\ reports' # reports /\ ev = "FrameTimeout" => nmt.state # "CsPreOp2"
         /\ nmt.state \notin CyclicStates => reports' = reports
         /\ ev = "FrameTimeout" /\ nmt.state \in Isochronous /\ dll # "GsInit"
              => loss.consecutive' /\ (loss.consecutive => reports' = reports + 1)
         /\ nmt.state \in CyclicStates => dll' # "GsInit"
         /\ nmt.state \in CyclicStates /\ Expected(ev)
              => /\ reports' = reports
                 /\ ev # "CeSoa" => dll' \in {"WaitPreq", "WaitSoa"}
                 /\ ev = "CePres" => dll' = dll
<1>1. PICK r : Outcome(ev, r) /\ reports' = reports + (IF r.err = "LossSoc" THEN 1 ELSE 0)
  BY HandleFacts DEF IInv
<1>2. reports \in Nat
  BY DEF IInv, TypeOK
<1>3. reports' = (IF r.err = "LossSoc" THEN reports + 1 ELSE reports)
  BY <1>1, <1>2
<1>4. dll' = r.dll /\ loss' = r.loss
  BY <1>1 DEF Outcome
<1>5. ErrorFacts(ev, r)
  BY <1>1 DEF Outcome
<1>6. MarkFacts(ev, r)
  BY <1>1 DEF Outcome
<1>7. PlaceFacts(ev, r)
  BY <1>1 DEF Outcome
<1>8. /\ reports' \in Nat /\ reports' >= reports /\ reports' <= reports + 1
      /\ reports' # reports <=> r.err = "LossSoc"
      /\ reports' = reports + 1 <=> r.err = "LossSoc"
  BY <1>2, <1>3
<1>. QED
  BY <1>4, <1>5, <1>6, <1>7, <1>8 DEF ErrorFacts, MarkFacts, PlaceFacts

(* Which frame a step handles, if it handles one.                          *)
HandlesFrame(ev) ==
  /\ Handle(ev, <<>>) \/ (ev = "CeAsnd" /\ \E c \in NmtCommands : Handle(ev, <<c>>))
  /\ UNCHANGED <<nmt, timer, gotSoc, quiet, unreported>>
  /\ \/ ev = "CePreq" /\ slot = "Preq" /\ slot' = "Soa" /\ due' = due
     \/ ev = "CePres" /\ slot \in {"Preq", "Soa"} /\ slot' = slot /\ due' = due
     \/ ev = "CeSoa" /\ slot = "Soa" /\ slot' = "Asnd" /\ due' = due
     \/ ev = "CeAsnd" /\ slot = "Asnd" /\ slot' = "Soc" /\ due' = due
     \/ ev = "FrameTimeout" /\ slot' = slot /\ due /\ due' = FALSE

(* Steps that leave alone all the invariant speaks of but the place in the *)
(* cycle.                                                                  *)
Aside == /\ UNCHANGED <<nmt, dll, loss, timer, due, gotSoc, reports, quiet, unreported>>
         /\ slot' = slot \/ (slot \in DOMAIN Skip /\ slot' = Skip[slot])

LEMMA Kinds ==
  ASSUME IInv, [Next]_vars
  PROVE  \/ ReceiveSoc \/ LoseSoc \/ Aside
         \/ \E ev \in DllEvents \ {"CeSoc"} : HandlesFrame(ev)
         \/ \E e \in QueueEvents : NmtStep(e)
<1>1. CASE ReceivePreq
  <2>1. HandlesFrame("CePreq")
    BY <1>1 DEF ReceivePreq, HandlesFrame
  <2>. QED
    BY <2>1 DEF DllEvents
<1>2. CASE ReceivePres
  <2>1. HandlesFrame("CePres")
    BY <1>2 DEF ReceivePres, HandlesFrame
  <2>. QED
    BY <2>1 DEF DllEvents
<1>3. CASE ReceiveSoa
  <2>1. HandlesFrame("CeSoa")
    BY <1>3 DEF ReceiveSoa, HandlesFrame
  <2>. QED
    BY <2>1 DEF DllEvents
<1>4. CASE \E c \in NmtCommands : ReceiveAsnd(c)
  <2>1. HandlesFrame("CeAsnd")
    BY <1>4 DEF ReceiveAsnd, HandlesFrame
  <2>. QED
    BY <2>1 DEF DllEvents
<1>5. CASE Timeout
  <2>1. HandlesFrame("FrameTimeout")
    BY <1>5 DEF Timeout, HandlesFrame
  <2>. QED
    BY <2>1 DEF DllEvents
<1>6. CASE LoseFrame \/ MnDies \/ HandleLossSoc \/ HandleLossPreq \/ HandleCorrectPreq
           \/ UNCHANGED vars
  BY <1>6 DEF LoseFrame, MnDies, HandleLossSoc, HandleLossPreq, HandleCorrectPreq, vars, Aside, history
<1>7. CASE HandleNmtEvent
  BY <1>7 DEF HandleNmtEvent, QueueEvents
<1>8. CASE AppReady
  <2>1. "EnterReadyToOperate" \in QueueEvents
    BY DEF QueueEvents, NmtEvents, UserEvents
  <2>. QED
    BY <1>8, <2>1 DEF AppReady
<1>. QED
  BY <1>1, <1>2, <1>3, <1>4, <1>5, <1>6, <1>7, <1>8 DEF Next

-----------------------------------------------------------------------------
(* The remaining conjuncts, step by step.                                  *)
LEMMA SocStep ==
  ASSUME IInv, ReceiveSoc
  PROVE  InPlace' /\ ReportsBounded' /\ Started' /\ Marked' /\ MissesAtMostOne'
<1>1. PICK r : Outcome("CeSoc", r)
  BY ReceiveSocFacts DEF IInv
<1>2. /\ reports' = 0 /\ gotSoc' = TRUE /\ slot' = "Preq" /\ nmt' = nmt
      /\ due' = due /\ ~due
  BY ReceiveSocFacts DEF ReceiveSoc, IInv
<1>3. /\ nmt.state \in FullCycle => dll' = "WaitPreq"
      /\ nmt.state = "CsStopped" => dll' \in {"WaitPreq", "WaitSoa"}
  BY <1>1 DEF Outcome, PlaceFacts
<1>4. InPlace' /\ Started'
  BY <1>2, <1>3 DEF InPlace, Started, CyclicStates
<1>5. ReportsBounded'
  BY <1>2 DEF ReportsBounded, MarkedReport, UnmarkedReport
<1>6. Marked'
  BY <1>2 DEF Marked
<1>7. MissesAtMostOne'
  <2>1. SUFFICES ASSUME nmt.state \in Isochronous PROVE unreported' <= 1
    BY <1>2 DEF MissesAtMostOne
  <2>2. unreported \in 0..2 /\ unreported <= 1
    BY <2>1 DEF IInv, TypeOK, MissesAtMostOne
  <2>3. CASE gotSoc \/ reports > 0 \/ quiet < 2 \/ ~timer
    BY <2>3 DEF ReceiveSoc, NewCycle
  <2>4. CASE ~(gotSoc \/ reports > 0 \/ quiet < 2 \/ ~timer)
    <3>1. unreported # 1
      BY <1>2, <2>1, <2>4 DEF IInv, TypeOK, Marked
    <3>2. unreported' = IF unreported < 2 THEN unreported + 1 ELSE 2
      BY <2>4 DEF ReceiveSoc, NewCycle
    <3>. QED
      BY <2>2, <3>1, <3>2
  <2>. QED
    BY <2>3, <2>4
<1>. QED
  BY <1>4, <1>5, <1>6, <1>7

LEMMA LoseSocStep ==
  ASSUME IInv, LoseSoc
  PROVE  InPlace' /\ ReportsBounded' /\ Started' /\ Marked' /\ MissesAtMostOne'
<1>1. /\ reports' = 0 /\ gotSoc' = FALSE /\ slot' = "Preq" /\ due' = timer /\ ~due
      /\ UNCHANGED <<nmt, dll, loss, timer>>
  BY DEF LoseSoc
<1>2. InPlace'
  BY <1>1 DEF InPlace
<1>3. Started'
  <2>1. quiet' >= 1 => dll # "GsInit"
    BY DEF LoseSoc, NewCycle
  <2>. QED
    BY <1>1, <2>1 DEF Started
<1>4. ReportsBounded'
  BY <1>1 DEF ReportsBounded, MarkedReport, UnmarkedReport
<1>5. ASSUME nmt.state \in Isochronous
      PROVE  unreported' <= 1 /\ (unreported' = 1 => loss.consecutive)
  <2>2. unreported \in 0..2 /\ unreported <= 1
    BY <1>5 DEF IInv, TypeOK, MissesAtMostOne
  <2>3. CASE gotSoc \/ reports > 0 \/ quiet < 2 \/ ~timer
    BY <2>3 DEF LoseSoc, NewCycle
  <2>4. CASE ~(gotSoc \/ reports > 0 \/ quiet < 2 \/ ~timer)
    <3>1. unreported # 1 /\ loss.consecutive
      BY <1>1, <1>5, <2>4 DEF IInv, TypeOK, Marked
    <3>2. unreported' = IF unreported < 2 THEN unreported + 1 ELSE 2
      BY <2>4 DEF LoseSoc, NewCycle
    <3>. QED
      BY <2>2, <3>1, <3>2
  <2>. QED
    BY <2>3, <2>4
<1>6. Marked'
  BY <1>1, <1>5 DEF Marked
<1>7. MissesAtMostOne'
  BY <1>1, <1>5 DEF MissesAtMostOne
<1>. QED
  BY <1>2, <1>3, <1>4, <1>6, <1>7

LEMMA FrameStep ==
  ASSUME IInv, NEW ev \in DllEvents \ {"CeSoc"}, HandlesFrame(ev)
  PROVE  InPlace' /\ ReportsBounded' /\ Started' /\ Marked' /\ MissesAtMostOne'
<1>1. PICK more \in Seq(QueueEvents) : Handle(ev, more)
  <2>1. <<>> \in Seq(QueueEvents) /\ \A c \in NmtCommands : <<c>> \in Seq(QueueEvents)
    BY CycleAssumption DEF QueueEvents, NmtEvents
  <2>. QED
    BY <2>1 DEF HandlesFrame
<1>. DEFINE kept == UNCHANGED <<nmt, timer, gotSoc, quiet, unreported>>
<1>2. kept
  BY DEF HandlesFrame
<1>3. /\ reports \in Nat /\ quiet \in 0..2 /\ unreported \in 0..2
      /\ loss.logical \in BOOLEAN
  BY DEF IInv, TypeOK
<1>a. /\ reports' \in Nat /\ reports' >= reports /\ reports' <= reports + 1
      /\ ev = "CeAsnd" => reports' = reports
      /\ (loss.logical => loss.logical') /\ (loss.consecutive => loss.consecutive')
      /\ reports' # reports /\ ev # "FrameTimeout"
           => (~loss.logical /\ loss.logical') \/ (ev = "CeSoa" /\ nmt.state = "CsPreOp2")
      /\ reports' # reports /\ ev = "FrameTimeout" => nmt.state # "CsPreOp2"
      /\ nmt.state \notin CyclicStates => reports' = reports
      /\ ev = "FrameTimeout" /\ nmt.state \in Isochronous /\ dll # "GsInit"
           => loss.consecutive' /\ (loss.consecutive => reports' = reports + 1)
      /\ nmt.state \in CyclicStates => dll' # "GsInit"
      /\ nmt.state \in CyclicStates /\ Expected(ev)
           => /\ reports' = reports
              /\ ev # "CeSoa" => dll' \in {"WaitPreq", "WaitSoa"}
              /\ ev = "CePres" => dll' = dll
  BY <1>1, FrameFacts
<1>r. reports \in Nat /\ reports' \in Nat /\ reports' >= reports /\ reports' <= reports + 1
  BY <1>3, <1>a
<1>4. CASE ev = "FrameTimeout"
  <2>1. slot' = slot /\ due /\ due' = FALSE
    BY <1>4 DEF HandlesFrame
  <2>2. InPlace'
    BY <1>2, <2>1 DEF IInv, InPlace
  <2>3. Started'
    BY <1>2, <1>a DEF Started
  <2>4. ReportsBounded'
    <3>1. SUFFICES ASSUME quiet >= 1,
                          NEW m, NEW n, m = MarkedReport, n = MarkedReport',
                          NEW u, NEW v, u = UnmarkedReport, v = UnmarkedReport'
                   PROVE  reports' <= n + v
      BY <1>2 DEF ReportsBounded
    <3>2. reports <= m + u
      BY <3>1 DEF IInv, ReportsBounded
    <3>3. m \in 0..1 /\ n \in 0..1 /\ n >= m
      BY <1>a, <3>1 DEF MarkedReport
    <3>4. CASE nmt.state = "CsPreOp2"
      <4>1. reports' = reports
        BY <1>4, <1>a, <3>4
      <4>2. u \in 0..1 /\ v = u
        BY <1>2, <2>1, <3>1, <3>4 DEF UnmarkedReport
      <4>. QED
        BY <1>r, <3>2, <3>3, <4>1, <4>2
    <3>5. CASE nmt.state # "CsPreOp2"
      <4>1. u = 0 /\ v = 1
        BY <1>2, <2>1, <3>1, <3>5 DEF UnmarkedReport
      <4>. QED
        BY <1>r, <3>2, <3>3, <4>1
    <3>. QED
      BY <3>4, <3>5
  <2>5. Marked'
    <3>1. ASSUME nmt.state \in Isochronous, quiet >= 1, ~gotSoc
          PROVE  loss.consecutive' /\ (unreported = 1 => reports' > 0)
      <4>1. dll # "GsInit"
        BY <3>1 DEF IInv, Started, CyclicStates, FullCycle, Isochronous
      <4>2. unreported = 1 => loss.consecutive
        BY <3>1 DEF IInv, Marked
      <4>3. reports + 1 > 0
        BY <1>3
      <4>. QED
        BY <1>4, <1>a, <3>1, <4>1, <4>2, <4>3
    <3>2. nmt.state \in Isochronous /\ ~gotSoc /\ unreported = 1 => loss.consecutive'
      BY <1>a DEF IInv, Marked
    <3>. QED
      BY <1>2, <3>1, <3>2 DEF Marked
  <2>6. MissesAtMostOne'
    BY <1>2 DEF IInv, MissesAtMostOne
  <2>. QED
    BY <2>2, <2>3, <2>4, <2>5, <2>6
<1>5. CASE ev # "FrameTimeout"
  <2>1. /\ due' = due
        /\ \/ ev = "CePreq" /\ slot = "Preq" /\ slot' = "Soa"
           \/ ev = "CePres" /\ slot \in {"Preq", "Soa"} /\ slot' = slot
           \/ ev = "CeSoa" /\ slot = "Soa" /\ slot' = "Asnd"
           \/ ev = "CeAsnd" /\ slot = "Asnd" /\ slot' = "Soc"
    BY <1>5 DEF HandlesFrame
  <2>2. InPlace'
    <3>1. (gotSoc => ~due)'
      BY <1>2, <2>1 DEF IInv, InPlace
    <3>2. SUFFICES ASSUME quiet >= 1, gotSoc
          PROVE  /\ reports' = 0
                 /\ nmt.state \in CyclicStates /\ slot' \in {"Preq", "Soa"}
                      => dll' \in {"WaitPreq", "WaitSoa"}
                 /\ nmt.state \in FullCycle /\ slot' = "Preq" => dll' = "WaitPreq"
      BY <1>2, <3>1 DEF InPlace
    <3>3. /\ reports = 0
          /\ nmt.state \in CyclicStates /\ slot \in {"Preq", "Soa"}
               => dll \in {"WaitPreq", "WaitSoa"}
          /\ nmt.state \in FullCycle /\ slot = "Preq" => dll = "WaitPreq"
      BY <3>2 DEF IInv, InPlace
    <3>4. CASE ev = "CeAsnd"
      BY <1>a, <2>1, <3>3, <3>4
    <3>6. CASE ev # "CeAsnd" /\ nmt.state \in CyclicStates /\ slot \in {"Preq", "Soa"}
      <4>1. Expected(ev)
        BY <2>1, <3>3, <3>6 DEF Expected
      <4>. QED
        BY <1>a, <2>1, <3>3, <3>6, <4>1
    <3>7. CASE nmt.state \notin CyclicStates
      BY <1>a, <3>3, <3>7 DEF CyclicStates
    <3>. QED
      BY <2>1, <3>4, <3>6, <3>7
  <2>3. Started'
    BY <1>2, <1>a DEF Started
  <2>4. ReportsBounded'
    <3>1. SUFFICES ASSUME quiet >= 1,
                          NEW m, NEW n, m = MarkedReport, n = MarkedReport',
                          NEW u, NEW v, u = UnmarkedReport, v = UnmarkedReport'
                   PROVE  reports' <= n + v
      BY <1>2 DEF ReportsBounded
    <3>2. reports <= m + u
      BY <3>1 DEF IInv, ReportsBounded
    <3>3. /\ m \in 0..1 /\ n \in 0..1 /\ n >= m
          /\ ~loss.logical /\ loss.logical' => n = m + 1
      BY <1>a, <3>1 DEF MarkedReport
    <3>4. /\ u \in 0..1 /\ v \in 0..1 /\ v >= u
          /\ ev = "CeSoa" /\ nmt.state = "CsPreOp2" => v = u + 1
      BY <1>2, <2>1, <3>1 DEF UnmarkedReport
    <3>. QED
      <4>1. \/ reports' = reports
            \/ n = m + 1
            \/ v = u + 1
        BY <1>5, <1>a, <3>3, <3>4
      <4>. QED
        BY <1>r, <3>2, <3>3, <3>4, <4>1
  <2>5. Marked'
    <3>1. ASSUME nmt.state \in Isochronous, quiet >= 1, ~gotSoc, timer, ~due
          PROVE  loss.consecutive' /\ (unreported = 1 => reports' > 0)
      BY <1>3, <1>a, <3>1 DEF IInv, Marked
    <3>2. nmt.state \in Isochronous /\ ~gotSoc /\ unreported = 1 => loss.consecutive'
      BY <1>a DEF IInv, Marked
    <3>. QED
      BY <1>2, <2>1, <3>1, <3>2 DEF Marked
  <2>6. MissesAtMostOne'
    BY <1>2 DEF IInv, MissesAtMostOne
  <2>. QED
    BY <2>2, <2>3, <2>4, <2>5, <2>6
<1>. QED
  BY <1>4, <1>5

LEMMA AsideStep ==
  ASSUME IInv, Aside
  PROVE  InPlace' /\ ReportsBounded' /\ Started' /\ Marked' /\ MissesAtMostOne'
<1>1. UNCHANGED <<nmt, dll, loss, timer, due, gotSoc, reports, quiet, unreported>>
  BY DEF Aside
<1>2. \/ slot' = slot
      \/ slot = "Preq" /\ slot' = "Soa"
      \/ slot = "Soa" /\ slot' = "Asnd"
      \/ slot = "Asnd" /\ slot' = "Soc"
  BY DEF Aside, Skip
<1>3. InPlace' /\ Started' /\ Marked' /\ MissesAtMostOne'
  BY <1>1, <1>2 DEF IInv, InPlace, Started, Marked, MissesAtMostOne
<1>4. ReportsBounded'
  <2>1. SUFFICES ASSUME quiet >= 1,
                        NEW m, m = MarkedReport, m = MarkedReport',
                        NEW u, NEW v, u = UnmarkedReport, v = UnmarkedReport'
                 PROVE  reports <= m + v
    BY <1>1 DEF ReportsBounded, MarkedReport
  <2>2. reports <= m + u /\ reports \in Nat
    BY <2>1 DEF IInv, TypeOK, ReportsBounded
  <2>3. u \in 0..1 /\ v \in 0..1 /\ v >= u
    BY <1>1, <1>2, <2>1 DEF UnmarkedReport
  <2>4. m \in 0..1
    BY <2>1 DEF MarkedReport
  <2>. QED
    BY <2>2, <2>3, <2>4
<1>. QED
  BY <1>3, <1>4

LEMMA NmtStepStep ==
  ASSUME IInv, NEW e \in QueueEvents, NmtStep(e)
  PROVE  InPlace' /\ ReportsBounded' /\ Started' /\ Marked' /\ MissesAtMostOne'
<1>1. /\ nmt'.state # nmt.state => quiet' = 0 /\ unreported' = 0
      /\ nmt'.state = nmt.state => /\ quiet' = quiet /\ unreported' = unreported
                                  /\ timer' = timer /\ due' = due
      /\ due' => due
      /\ UNCHANGED <<dll, loss, slot, gotSoc, reports>>
  BY NmtStepFacts DEF IInv
<1>2. CASE nmt'.state # nmt.state
  <2>1. quiet' = 0 /\ unreported' = 0
    BY <1>1, <1>2
  <2>. QED
    BY <1>1, <2>1 DEF IInv, InPlace, ReportsBounded, Started, Marked, MissesAtMostOne
<1>3. CASE nmt'.state = nmt.state
  <2>1. /\ quiet' = quiet /\ unreported' = unreported /\ timer' = timer /\ due' = due
        /\ UNCHANGED <<dll, loss, slot, gotSoc, reports>>
    BY <1>1, <1>3
  <2>2. InPlace' /\ Started' /\ Marked' /\ MissesAtMostOne'
    BY <1>3, <2>1 DEF IInv, InPlace, Started, Marked, MissesAtMostOne
  <2>3. ReportsBounded'
    BY <1>3, <2>1 DEF IInv, ReportsBounded, MarkedReport, UnmarkedReport
  <2>. QED
    BY <2>2, <2>3
<1>. QED
  BY <1>2, <1>3

-----------------------------------------------------------------------------
LEMMA InitIInv == Init => IInv
<1>. SUFFICES ASSUME Init PROVE IInv
  OBVIOUS
<1>1. nmt \in NmtkType /\ nmt.state = "CsNotActive"
  <2>1. nmt = [state |-> "CsNotActive", enable |-> FALSE, app |-> FALSE,
               wait |-> FALSE, ident |-> FALSE, frozen |-> FALSE]
    BY DEF Init, NmtkInit
  <2>2. "CsNotActive" \in NmtStates
    BY DEF NmtStates, CnStates
  <2>. QED
    BY <2>1, <2>2 DEF NmtkType
<1>2. TypeOK
  <2>1. dll \in DllStates /\ loss \in [logical : BOOLEAN, consecutive : BOOLEAN]
    BY DEF Init, NoLoss, DllStates
  <2>2. /\ kint \in Seq(NmtEvents \cup {"LossSoc", "LossPreq", "RecvdPreq"})
        /\ Len(kint) = 0 /\ Lag \in Nat
    BY CycleAssumption DEF Init
  <2>3. socCnt \in 0..SocThreshold /\ preqCnt \in 0..PreqThreshold
    BY CycleAssumption DEF Init
  <2>4. {timer, socErr, due, dead, gotSoc, preqLost} \subseteq BOOLEAN
    BY DEF Init
  <2>5. /\ cycleCount = 0 /\ slot = "Soc" /\ reports = 0 /\ quiet = 0 /\ unreported = 0
    BY DEF Init
  <2>. QED
    BY <1>1, <2>1, <2>2, <2>3, <2>4, <2>5 DEF TypeOK
<1>. QED
  BY <1>1, <1>2 DEF Init, IInv, InPlace, ReportsBounded, Started, Marked, MissesAtMostOne, Isochronous

LEMMA NextIInv == IInv /\ [Next]_vars => IInv'
<1>. SUFFICES ASSUME IInv, [Next]_vars PROVE IInv'
  OBVIOUS
<1>1. TypeOK'
  BY TypeStep DEF IInv
<1>2. InPlace' /\ ReportsBounded' /\ Started' /\ Marked' /\ MissesAtMostOne'
  BY Kinds, SocStep, LoseSocStep, AsideStep, FrameStep, NmtStepStep
<1>. QED
  BY <1>1, <1>2 DEF IInv

(* The invariant: the types, and how reports, marks and the place in the   *)
(* cycle go together.                                                      *)
THEOREM CycleInvariant == Spec => []IInv
BY InitIInv, NextIInv, PTL DEF Spec

(* dllkInstance_g, the counters of the error handler and the queue keep    *)
(* their types; the queue never holds more than Lag + 1 events.            *)
THEOREM CycleTypes == Spec => []TypeOK
<1>1. IInv => TypeOK
  BY DEF IInv
<1>. QED
  BY <1>1, CycleInvariant, PTL

(* The data link layer reports no loss of SoC in a cycle whose SoC it has  *)
(* received while the NMT state stands, whatever frames are lost           *)
(* (dllkstatemachine.c).                                                   *)
THEOREM NoLossIsInvented == Spec => []NoFalseLoss
<1>1. IInv => NoFalseLoss
  BY DEF IInv, InPlace, NoFalseLoss, Steady, TypeOK
<1>. QED
  BY <1>1, CycleInvariant, PTL

(* A missing SoC is reported twice at most, once by a frame that comes out *)
(* of order and once by the timer.                                         *)
THEOREM ALossIsReportedTwiceAtMost == Spec => []TwiceAtMost
<1>1. ASSUME IInv, quiet = 2, NEW m, m = MarkedReport, NEW u, u = UnmarkedReport
      PROVE  reports <= 2
  <2>1. reports <= m + u /\ reports \in Nat
    BY <1>1 DEF IInv, TypeOK, ReportsBounded
  <2>2. m \in 0..1 /\ u \in 0..1
    BY <1>1 DEF MarkedReport, UnmarkedReport
  <2>. QED
    BY <2>1, <2>2
<1>2. IInv => TwiceAtMost
  BY <1>1 DEF TwiceAtMost, Steady
<1>. QED
  BY <1>2, CycleInvariant, PTL

(* Of two missing SoCs in a row the error handler hears of at least one:   *)
(* the mark of the first (lossSocStatus) makes the timer report the second.*)
THEOREM OneOfTwoLossesIsReported == Spec => []MissesAtMostOne
<1>1. IInv => MissesAtMostOne
  BY DEF IInv
<1>. QED
  BY <1>1, CycleInvariant, PTL

-----------------------------------------------------------------------------
(* The loss of PReq.  In CnCycle a PReq of this node is due in phase 0.    *)
(* Once one was received, cycleCount lags behind the phase, since a SoC    *)
(* may be missing, but never runs ahead of it; so it comes round to zero   *)
(* only with the phase, and a SoC that leaves the state machine waiting    *)
(* for a PReq with cycleCount at zero belongs to a cycle with a PReq.      *)
Arriving == QueueEvents \ {"EnterCsNotActive"}
PreqDue  == slot = "Preq" /\ phase = 0
PhaseType == /\ phase \in Nat /\ (phase = 0 \/ phase < MultipleCycleCnt)
             /\ cycleCount \in Nat /\ kint \in Seq(Arriving)
Lagging == /\ nmt.state = "CsNotActive" => cycleCount = 0
           /\ ~preqLost /\ ~PreqDue => cycleCount <= phase
(* A PReq the state machine waits for since an earlier NMT state is        *)
(* forgotten at the latest when the timer expires.                         *)
Awaited == nmt.state \in Isochronous /\ quiet >= 1 /\ timer /\ dll = "WaitPreq"
             /\ ~preqLost /\ ~PreqDue
           => cycleCount >= 1 \/ (quiet = 1 /\ due)
PreqInv == IInv /\ PhaseType /\ Lagging /\ Awaited

(* Only a SoC makes the state machine wait for a PReq, and a loss of it is *)
(* reported only there.                                                    *)
WaitFacts(ev, r) ==
  /\ nmt.state \in Isochronous /\ dll # "GsInit" /\ ev # "CeSoc" /\ r.dll = "WaitPreq"
       => dll = "WaitPreq" /\ ev \notin {"CePreq", "CeSoa", "FrameTimeout"}
  /\ r.err = "LossPreq" => /\ ev = "CeSoa" /\ nmt.state \in Isochronous
                           /\ dll = "WaitPreq" /\ cycleCount = 0

LEMMA WaitHolds ==
  ASSUME dll \in DllStates, NEW ev \in DllEvents
  PROVE  WaitFacts(ev, ChangeState(ev))
<1>. DEFINE r == ChangeState(ev)
<1>. SUFFICES WaitFacts(ev, r)
  OBVIOUS
<1>0. /\ "CsStopped" \notin FullCycle /\ Isochronous = FullCycle \ {"CsPreOp2"}
  BY DEF FullCycle, Isochronous
<1>a. \A s, l, e : Go(s, l, e).dll = s /\ Go(s, l, e).err = e
  BY DEF Go
<1>b. \A s : LossByFrame(s).dll = s /\ LossByFrame(s).err # "LossPreq"
  BY DEF LossByFrame, Go
<1>c. \A s : LossByTimeout(s).dll = s /\ LossByTimeout(s).err # "LossPreq"
  BY DEF LossByTimeout, Go
<1>d. Keep.dll = dll /\ Keep.err = "none"
  BY DEF Keep, Go
<1>. HIDE DEF r
<1>1. CASE nmt.state \in FullCycle /\ dll = "GsInit"
  <2>1. r = Go("WaitPreq", loss, "none")
    BY <1>1 DEF ChangeState, r
  <2>. QED
    BY <1>1, <1>a, <2>1 DEF WaitFacts
<1>2. CASE nmt.state \in FullCycle /\ dll = "WaitPreq"
  <2>1. r = FullCycleWaitPreq(ev)
    BY <1>2 DEF ChangeState, r
  <2>2. /\ r.dll = "WaitPreq" => ev \notin {"CePreq", "CeSoa"} /\ (ev = "FrameTimeout" => nmt.state = "CsPreOp2")
        /\ r.err = "LossPreq" => ev = "CeSoa" /\ cycleCount = 0 /\ nmt.state \in Isochronous
    BY <1>2, <1>a, <1>c, <1>d, <2>1 DEF FullCycleWaitPreq
  <2>. QED
    BY <1>0, <1>2, <2>2 DEF WaitFacts
<1>3. CASE nmt.state \in FullCycle /\ dll = "WaitSoc"
  <2>1. r = FullCycleWaitSoc(ev)
    BY <1>3 DEF ChangeState, r
  <2>2. (r.dll = "WaitPreq" => ev = "CeSoc") /\ r.err # "LossPreq"
    BY <1>3, <1>a, <1>b, <1>c, <1>d, <2>1 DEF FullCycleWaitSoc
  <2>. QED
    BY <2>2 DEF WaitFacts
<1>4. CASE nmt.state \in FullCycle /\ dll = "WaitSoa"
  <2>1. r = FullCycleWaitSoa(ev)
    BY <1>4 DEF ChangeState, r
  <2>2. (r.dll = "WaitPreq" => ev = "CeSoc") /\ r.err # "LossPreq"
    BY <1>4, <1>a, <1>b, <1>c, <1>d, <2>1 DEF FullCycleWaitSoa
  <2>. QED
    BY <2>2 DEF WaitFacts
<1>5. CASE nmt.state \notin FullCycle
  <2>1. r.err # "LossPreq"
    <3>1. CASE nmt.state = "CsStopped" /\ dll = "WaitPreq"
      <4>1. r = StoppedWaitPreq(ev)
        BY <1>5, <3>1 DEF ChangeState, r
      <4>. QED
        BY <1>a, <1>b, <1>c, <1>d, <4>1 DEF StoppedWaitPreq
    <3>2. CASE nmt.state = "CsStopped" /\ dll = "WaitSoc"
      <4>1. r = StoppedWaitSoc(ev)
        BY <1>5, <3>2 DEF ChangeState, r
      <4>. QED
        BY <1>a, <1>b, <1>c, <1>d, <4>1 DEF StoppedWaitSoc
    <3>3. CASE nmt.state = "CsStopped" /\ dll = "WaitSoa"
      <4>1. r = StoppedWaitSoa(ev)
        BY <1>5, <3>3 DEF ChangeState, r
      <4>. QED
        BY <1>a, <1>b, <1>c, <1>d, <4>1 DEF StoppedWaitSoa
    <3>4. CASE nmt.state = "CsStopped" /\ dll = "GsInit"
      BY <1>5, <1>a, <3>4 DEF ChangeState, r
    <3>5. CASE nmt.state # "CsStopped"
      BY <1>5, <1>a, <3>5 DEF ChangeState, r
    <3>. QED
      BY <3>1, <3>2, <3>3, <3>4, <3>5 DEF DllStates
  <2>. QED
    BY <1>0, <1>5, <2>1 DEF WaitFacts
<1>. QED
  BY <1>1, <1>2, <1>3, <1>4, <1>5 DEF DllStates

LEMMA ArrivingIs ==
  /\ Frames \cup Commands \cup {"LossSoc", "LossPreq", "RecvdPreq", "NmtCycleError"} \subseteq Arriving
  /\ Arriving \subseteq QueueEvents
BY DEF Arriving, QueueEvents, NmtEvents, Frames, Commands

LEMMA PostedArrives ==
  ASSUME NEW err \in ErrorTypes, NEW ev \in Frames \cup {"none", "CeAsnd"}
  PROVE  Posted(err, ev) \in Seq(Arriving)
<1>1. ev \notin {"none", "CeAsnd"} => <<ev>> \in Seq(Arriving)
  BY ArrivingIs
<1>2. err # "none" => <<err>> \in Seq(Arriving)
  BY ArrivingIs DEF ErrorTypes
<1>. QED
  BY <1>1, <1>2 DEF Posted

(* A frame or a timeout, as far as it concerns the PReq.                   *)
LEMMA FrameWaits ==
  ASSUME PreqInv, NEW ev \in DllEvents, NEW more \in Seq(Arriving), Handle(ev, more)
  PROVE  /\ kint' \in Seq(Arriving)
         /\ nmt.state \in Isochronous /\ dll # "GsInit" /\ ev # "CeSoc" /\ dll' = "WaitPreq"
              => dll = "WaitPreq" /\ ev \notin {"CePreq", "CeSoa", "FrameTimeout"}
         /\ more = <<>> /\ kint'[Len(kint) + 1] = "LossPreq" /\ Len(kint') > Len(kint)
              => /\ ev = "CeSoa" /\ nmt.state \in Isochronous
                 /\ dll = "WaitPreq" /\ cycleCount = 0
<1>. DEFINE r == ChangeState(ev)
            sent == IF ev = "FrameTimeout" THEN "none" ELSE ev
<1>0. dll \in DllStates /\ loss \in LossType /\ kint \in Seq(Arriving)
  BY DEF PreqInv, IInv, TypeOK, LossType, PhaseType
<1>1. WaitFacts(ev, r) /\ r.err \in ErrorTypes
  BY <1>0, WaitHolds, ChangeFacts DEF ErrorFacts
<1>2. dll' = r.dll /\ kint' = kint \o more \o Posted(r.err, sent)
  BY DEF Handle
<1>. HIDE DEF r
<1>3. sent \in Frames \cup {"none", "CeAsnd"} /\ sent # "LossPreq"
  BY DEF DllEvents, Frames
<1>. HIDE DEF sent
<1>4. Posted(r.err, sent) \in Seq(Arriving)
  BY <1>1, <1>3, PostedArrives
<1>5. kint' \in Seq(Arriving)
  BY <1>0, <1>2, <1>4
<1>6. ASSUME more = <<>>, kint'[Len(kint) + 1] = "LossPreq", Len(kint') > Len(kint)
      PROVE  r.err = "LossPreq"
  <2>. DEFINE p == Posted(r.err, sent)
  <2>0. p \in Seq(Arriving) /\ kint' = kint \o p
    BY <1>0, <1>2, <1>4, <1>6
  <2>1. p # <<>> /\ p[1] = "LossPreq"
    <3>. HIDE DEF p
    <3>1. Len(kint') = Len(kint) + Len(p) /\ Len(p) \in Nat /\ Len(kint) \in Nat
      BY <1>0, <2>0
    <3>2. Len(p) >= 1
      BY <1>6, <3>1
    <3>3. kint'[Len(kint) + 1] = p[1]
      BY <1>0, <2>0, <3>1, <3>2
    <3>. QED
      BY <1>6, <3>2, <3>3
  <2>2. CASE r.err = "none"
    <3>1. p = <<>> \/ p = <<sent>>
      BY <2>2 DEF Posted
    <3>. HIDE DEF p
    <3>. QED
      BY <1>3, <2>1, <3>1
  <2>3. CASE r.err # "none"
    <3>1. p = <<r.err>> \o <<>> \/ p = <<r.err>> \o <<sent>>
      BY <2>3 DEF Posted
    <3>. HIDE DEF p
    <3>2. p[1] = r.err
      BY <3>1
    <3>. QED
      BY <2>1, <3>2
  <2>. QED
    BY <2>2, <2>3
<1>. QED
  BY <1>1, <1>2, <1>5, <1>6 DEF WaitFacts

LEMMA SocAwaited ==
  ASSUME PreqInv, ReceiveSoc
  PROVE  PhaseType' /\ Lagging' /\ Awaited'
<1>0. /\ phase \in Nat /\ (phase = 0 \/ phase < MultipleCycleCnt) /\ MultipleCycleCnt \in Nat
      /\ cycleCount \in Nat /\ (cycleCount = 0 \/ cycleCount < MultipleCycleCnt)
      /\ kint \in Seq(Arriving) /\ dll \in DllStates /\ loss \in LossType
  BY CycleAssumption DEF PreqInv, PhaseType, IInv, TypeOK, LossType
<1>1. /\ slot = "Soc" /\ slot' = "Preq" /\ nmt' = nmt /\ preqLost' = preqLost
      /\ phase' = IF MultipleCycleCnt = 0 THEN 0 ELSE (phase + 1) % MultipleCycleCnt
      /\ cycleCount' = IF nmt.state \in FullCycle \cup {"CsStopped"} /\ MultipleCycleCnt > 0
                       THEN (cycleCount + 1) % MultipleCycleCnt ELSE cycleCount
  BY DEF ReceiveSoc, NewCycle
<1>2. phase' \in Nat /\ (phase' = 0 \/ (phase' = phase + 1 /\ phase' < MultipleCycleCnt))
  BY <1>0, <1>1
<1>3. cycleCount' \in Nat
  BY <1>0, <1>1
<1>4. kint' \in Seq(Arriving)
  <2>. DEFINE r == ChangeState("CeSoc")
  <2>1. r.err \in ErrorTypes /\ kint' = kint \o Posted(r.err, "CeSoc")
    BY <1>0, ChangeFacts DEF ErrorFacts, DllEvents, ReceiveSoc
  <2>. HIDE DEF r
  <2>2. "CeSoc" \in Frames
    BY DEF Frames
  <2>3. Posted(r.err, "CeSoc") \in Seq(Arriving)
    BY <2>1, <2>2, PostedArrives
  <2>. QED
    BY <1>0, <2>1, <2>3
<1>5. ASSUME ~preqLost, ~(phase' = 0)
      PROVE  /\ cycleCount' <= phase'
             /\ nmt.state \in FullCycle => cycleCount' >= 1
  <2>1. cycleCount <= phase /\ phase' = phase + 1 /\ phase' < MultipleCycleCnt
    BY <1>1, <1>2, <1>5 DEF PreqInv, Lagging, PreqDue
  <2>2. (cycleCount + 1) % MultipleCycleCnt = cycleCount + 1
    BY <1>0, <2>1
  <2>. QED
    BY <1>0, <1>1, <2>1, <2>2
<1>6. Lagging'
  <2>1. nmt.state = "CsNotActive" => cycleCount' = 0
    BY <1>1 DEF PreqInv, Lagging, FullCycle
  <2>. QED
    BY <1>1, <1>5, <2>1 DEF Lagging, PreqDue
<1>7. Awaited'
  BY <1>1, <1>5 DEF Awaited, PreqDue, Isochronous, FullCycle
<1>. QED
  BY <1>2, <1>3, <1>4, <1>6, <1>7 DEF PhaseType

LEMMA LoseSocAwaited ==
  ASSUME PreqInv, LoseSoc
  PROVE  PhaseType' /\ Lagging' /\ Awaited'
<1>0. /\ phase \in Nat /\ (phase = 0 \/ phase < MultipleCycleCnt) /\ MultipleCycleCnt \in Nat
      /\ cycleCount \in Nat /\ quiet \in 0 .. 2 /\ kint \in Seq(Arriving)
  BY CycleAssumption DEF PreqInv, PhaseType, IInv, TypeOK
<1>1. /\ slot = "Soc" /\ slot' = "Preq" /\ UNCHANGED <<nmt, preqLost, cycleCount, kint, dll, timer>>
      /\ due' = timer /\ ~due
      /\ phase' = IF MultipleCycleCnt = 0 THEN 0 ELSE (phase + 1) % MultipleCycleCnt
      /\ quiet' = IF dll = "GsInit" THEN 0 ELSE IF quiet < 2 THEN quiet + 1 ELSE 2
  BY DEF LoseSoc, NewCycle
<1>2. phase' \in Nat /\ (phase' = 0 \/ (phase' = phase + 1 /\ phase' < MultipleCycleCnt))
  BY <1>0, <1>1
<1>3. PhaseType'
  BY <1>0, <1>1, <1>2 DEF PhaseType
<1>4. Lagging'
  BY <1>0, <1>1, <1>2 DEF PreqInv, Lagging, PreqDue
<1>5. Awaited'
  <2>1. SUFFICES ASSUME nmt.state \in Isochronous, quiet' >= 1, timer, dll = "WaitPreq", ~preqLost
                 PROVE  cycleCount >= 1 \/ (quiet' = 1 /\ due')
    BY <1>1 DEF Awaited
  <2>2. CASE quiet = 0
    BY <1>1, <2>1, <2>2
  <2>3. CASE quiet # 0
    <3>1. quiet >= 1 /\ ~PreqDue
      BY <1>0, <1>1, <2>3 DEF PreqDue
    <3>. QED
      BY <1>1, <2>1, <3>1 DEF PreqInv, Awaited
  <2>. QED
    BY <2>2, <2>3
<1>. QED
  BY <1>3, <1>4, <1>5

(* What a frame's handler leaves alone, by the frame.                      *)
PreqKept(ev) ==
  /\ UNCHANGED <<nmt, timer, phase, quiet>>
  /\ \/ /\ ev = "CePreq" /\ slot = "Preq" /\ phase = 0 /\ slot' = "Soa" /\ due' = due
        /\ preqLost' = FALSE
        /\ cycleCount' = IF nmt.state = "CsNotActive" THEN cycleCount ELSE 0
     \/ /\ ev \in {"CePres", "CeSoa", "CeAsnd"} /\ due' = due
        /\ UNCHANGED <<preqLost, cycleCount>>
        /\ (ev = "CePres" /\ slot' = slot) \/ (slot # "Preq" /\ slot' # "Preq")
     \/ /\ ev = "FrameTimeout" /\ slot' = slot /\ due' = FALSE
        /\ UNCHANGED <<preqLost, cycleCount>>
  /\ \E more \in Seq(Arriving) :
        /\ Handle(ev, more)
        /\ more = <<>> \/ \E c \in NmtCommands : more = <<c>>

LEMMA FrameAwaited ==
  ASSUME PreqInv, NEW ev \in DllEvents \ {"CeSoc"}, PreqKept(ev)
  PROVE  PhaseType' /\ Lagging' /\ Awaited'
<1>0. /\ phase \in Nat /\ (phase = 0 \/ phase < MultipleCycleCnt)
      /\ cycleCount \in Nat /\ UNCHANGED <<nmt, timer, phase, quiet>>
  BY DEF PreqInv, PhaseType, PreqKept
<1>1. /\ kint' \in Seq(Arriving)
      /\ nmt.state \in Isochronous /\ dll # "GsInit" /\ dll' = "WaitPreq"
           => dll = "WaitPreq" /\ ev \notin {"CePreq", "CeSoa", "FrameTimeout"}
  BY FrameWaits DEF PreqKept
<1>2. cycleCount' \in Nat
  BY <1>0 DEF PreqKept
<1>3. PhaseType'
  BY <1>0, <1>1, <1>2 DEF PhaseType
<1>4. Lagging'
  <2>1. CASE ev = "CePreq"
    <3>1. cycleCount' = 0
      BY <2>1 DEF PreqKept, PreqInv, Lagging
    <3>. QED
      BY <1>0, <3>1 DEF Lagging
  <2>2. CASE ev # "CePreq"
    <3>1. UNCHANGED <<preqLost, cycleCount>> /\ (PreqDue' <=> PreqDue)
      BY <1>0, <2>2 DEF PreqKept, PreqDue
    <3>. QED
      BY <1>0, <3>1 DEF PreqInv, Lagging
  <2>. QED
    BY <2>1, <2>2
<1>5. Awaited'
  <2>1. SUFFICES ASSUME nmt.state \in Isochronous, quiet >= 1, timer, dll' = "WaitPreq",
                        ~preqLost', ~PreqDue'
                 PROVE  cycleCount' >= 1 \/ (quiet = 1 /\ due')
    BY <1>0 DEF Awaited
  <2>2. dll # "GsInit"
    BY <2>1 DEF PreqInv, IInv, Started, CyclicStates, Isochronous, FullCycle
  <2>3. dll = "WaitPreq" /\ ev \notin {"CePreq", "CeSoa", "FrameTimeout"}
    BY <1>1, <2>1, <2>2
  <2>4. UNCHANGED <<preqLost, cycleCount, due>> /\ (PreqDue' <=> PreqDue)
    BY <1>0, <2>3 DEF PreqKept, PreqDue
  <2>. QED
    BY <2>1, <2>3, <2>4 DEF PreqInv, Awaited
<1>. QED
  BY <1>3, <1>4, <1>5

LEMMA LoseFrameAwaited ==
  ASSUME PreqInv, LoseFrame
  PROVE  PhaseType' /\ Lagging' /\ Awaited'
<1>1. /\ UNCHANGED <<nmt, dll, cycleCount, timer, kint, due, phase, quiet>>
      /\ ~preqLost' => ~preqLost /\ ~PreqDue
  BY DEF LoseFrame, PreqDue
<1>. QED
  BY <1>1 DEF PreqInv, PhaseType, Lagging, Awaited

(* Only the initialisation leads to NotActive.                             *)
LEMMA IntoNotActive ==
  ASSUME NEW e \in QueueEvents, e # "EnterCsNotActive",
         NmtkProcess(nmt, e).state = "CsNotActive", nmt \in NmtkType
  PROVE  nmt.state = "CsNotActive"
<1>1. \A m \in AllMoves : m[3] = "CsNotActive" => m[2] = "EnterCsNotActive"
  BY DEF AllMoves, Moves, MnMoves
<1>2. \A x \in DOMAIN ResetStage : ResetStage[x] # "CsNotActive"
  BY DEF ResetStage
<1>3. ASSUME NEW s, Target(s, e) = "CsNotActive" PROVE s = "CsNotActive"
  <2>1. CASE ResetTaken(s, e)
    BY <1>2, <1>3, <2>1 DEF ResetTaken, Target
  <2>2. CASE ~ResetTaken(s, e) /\ \E m \in AllMoves : m[1] = s /\ m[2] = e
    <3>. DEFINE m == CHOOSE x \in AllMoves : x[1] = s /\ x[2] = e
    <3>1. m \in AllMoves /\ m[1] = s /\ m[2] = e /\ Target(s, e) = m[3]
      BY <2>2 DEF Target
    <3>. HIDE DEF m
    <3>. QED
      BY <1>1, <1>3, <3>1
  <2>3. CASE ~ResetTaken(s, e) /\ ~ \E m \in AllMoves : m[1] = s /\ m[2] = e
    BY <1>3, <2>3 DEF Target
  <2>. QED
    BY <2>1, <2>2, <2>3
<1>4. \/ NmtkProcess(nmt, e).state \in {Target(nmt.state, e), nmt.state}
      \/ NmtkProcess(nmt, e).state \in {"CsReadyToOperate", "MsBasicEthernet", "MsPreOp1", "MsPreOp2"}
  BY DEF NmtkProcess, CsPreOp2, PreOp2Handshake, ResetConfiguration, MsNotActive, MsPreOp1, NmtkType
<1>. QED
  BY <1>3, <1>4

LEMMA NmtAwaited ==
  ASSUME PreqInv, NEW e \in QueueEvents, e # "EnterCsNotActive", NmtStep(e),
         kint' \in Seq(Arriving)
  PROVE  PhaseType' /\ Lagging' /\ Awaited'
<1>1. /\ nmt'.state # nmt.state => quiet' = 0
      /\ nmt'.state = nmt.state => quiet' = quiet /\ timer' = timer /\ due' = due
      /\ UNCHANGED <<dll, cycleCount, slot, phase, preqLost>>
  BY NmtStepFacts DEF PreqInv, IInv
<1>2. nmt'.state = "CsNotActive" => nmt.state = "CsNotActive"
  BY IntoNotActive DEF NmtStep, PreqInv, IInv, TypeOK
<1>3. PhaseType' /\ Lagging'
  BY <1>1, <1>2 DEF PreqInv, PhaseType, Lagging, PreqDue
<1>4. CASE nmt'.state # nmt.state
  <2>1. ~(quiet' >= 1)
    BY <1>1, <1>4
  <2>2. Awaited'
    BY <2>1 DEF Awaited
  <2>. QED
    BY <1>3, <2>2
<1>5. CASE nmt'.state = nmt.state
  <2>1. UNCHANGED <<quiet, timer, due, dll, cycleCount, slot, phase, preqLost>>
    BY <1>1, <1>5
  <2>2. Awaited'
    BY <1>5, <2>1 DEF PreqInv, Awaited, PreqDue
  <2>. QED
    BY <1>3, <2>2
<1>. QED
  BY <1>4, <1>5

LEMMA ThreadAwaited ==
  ASSUME PreqInv, HandleLossSoc \/ HandleLossPreq \/ HandleCorrectPreq
  PROVE  PhaseType' /\ Lagging' /\ Awaited'
<1>1. UNCHANGED <<nmt, dll, cycleCount, timer, slot, due, phase, preqLost, quiet>>
  BY DEF HandleLossSoc, HandleLossPreq, HandleCorrectPreq, history
<1>2. kint \in Seq(Arriving) /\ kint # <<>>
  BY DEF PreqInv, PhaseType, HandleLossSoc, HandleLossPreq, HandleCorrectPreq
<1>3. kint' \in {Tail(kint), Append(Tail(kint), "NmtCycleError")}
  BY DEF HandleLossSoc, HandleLossPreq, HandleCorrectPreq
<1>4. kint' \in Seq(Arriving)
  BY <1>2, <1>3, ArrivingIs
<1>. QED
  BY <1>1, <1>4 DEF PreqInv, PhaseType, Lagging, Awaited, PreqDue

LEMMA PreqKinds ==
  ASSUME Next
  PROVE  \/ ReceiveSoc \/ LoseSoc \/ LoseFrame \/ MnDies
         \/ \E ev \in DllEvents \ {"CeSoc"} : PreqKept(ev)
         \/ HandleLossSoc \/ HandleLossPreq \/ HandleCorrectPreq \/ HandleNmtEvent \/ AppReady
<1>0. <<>> \in Seq(Arriving) /\ \A c \in NmtCommands : <<c>> \in Seq(Arriving)
  BY CycleAssumption, ArrivingIs
<1>1. CASE ReceivePreq
  <2>1. PreqKept("CePreq")
    BY <1>0, <1>1 DEF ReceivePreq, PreqKept
  <2>. QED
    BY <2>1 DEF DllEvents
<1>2. CASE ReceivePres
  <2>1. PreqKept("CePres")
    BY <1>0, <1>2 DEF ReceivePres, PreqKept
  <2>. QED
    BY <2>1 DEF DllEvents
<1>3. CASE ReceiveSoa
  <2>1. PreqKept("CeSoa")
    BY <1>0, <1>3 DEF ReceiveSoa, PreqKept
  <2>. QED
    BY <2>1 DEF DllEvents
<1>4. CASE \E c \in NmtCommands : ReceiveAsnd(c)
  <2>1. PreqKept("CeAsnd")
    BY <1>0, <1>4 DEF ReceiveAsnd, PreqKept
  <2>. QED
    BY <2>1 DEF DllEvents
<1>5. CASE Timeout
  <2>1. PreqKept("FrameTimeout")
    BY <1>0, <1>5 DEF Timeout, PreqKept
  <2>. QED
    BY <2>1 DEF DllEvents
<1>. QED
  BY <1>1, <1>2, <1>3, <1>4, <1>5 DEF Next

LEMMA PreqHolds == Spec => []PreqInv
<1>1. Init => PreqInv
  <2>1. ASSUME Init PROVE PhaseType /\ Lagging /\ Awaited
    BY <2>1 DEF Init, PhaseType, Lagging, Awaited
  <2>. QED
    BY <2>1, InitIInv DEF PreqInv
<1>2. PreqInv /\ [Next]_vars => PreqInv'
  <2>. SUFFICES ASSUME PreqInv, [Next]_vars PROVE PhaseType' /\ Lagging' /\ Awaited'
    BY NextIInv DEF PreqInv
  <2>1. CASE UNCHANGED vars
    BY <2>1 DEF vars, PreqInv, PhaseType, Lagging, Awaited, PreqDue
  <2>2. CASE ReceiveSoc
    BY <2>2, SocAwaited
  <2>3. CASE LoseSoc
    BY <2>3, LoseSocAwaited
  <2>4. CASE LoseFrame
    BY <2>4, LoseFrameAwaited
  <2>5. CASE MnDies
    BY <2>5 DEF MnDies, history, PreqInv, PhaseType, Lagging, Awaited, PreqDue
  <2>6. CASE \E ev \in DllEvents \ {"CeSoc"} : PreqKept(ev)
    BY <2>6, FrameAwaited
  <2>7. CASE HandleLossSoc \/ HandleLossPreq \/ HandleCorrectPreq
    BY <2>7, ThreadAwaited
  <2>8. CASE HandleNmtEvent
    <3>1. kint \in Seq(Arriving) /\ kint # <<>>
      BY <2>8 DEF HandleNmtEvent, PreqInv, PhaseType
    <3>2. Head(kint) \in Arriving /\ Tail(kint) \in Seq(Arriving)
      BY <3>1
    <3>. QED
      BY <2>8, <3>2, NmtAwaited DEF HandleNmtEvent, Arriving
  <2>9. CASE AppReady
    <3>1. "EnterReadyToOperate" \in QueueEvents
      BY DEF QueueEvents, NmtEvents, UserEvents
    <3>2. kint' \in Seq(Arriving)
      BY <2>9 DEF AppReady, PreqInv, PhaseType
    <3>. QED
      BY <2>9, <3>1, <3>2, NmtAwaited DEF AppReady
  <2>. QED
    BY <2>1, <2>2, <2>3, <2>4, <2>5, <2>6, <2>7, <2>8, <2>9, PreqKinds
<1>. QED
  BY <1>1, <1>2, PTL DEF Spec

(* While its timer runs, the node reports a loss of PReq only if the MN    *)
(* sent it a PReq that did not arrive, whatever SoCs are missing in the    *)
(* multiplexed cycle (processCsFullCycleDllWaitPreq, cycleCount).          *)
THEOREM NoPreqLossIsInvented == Spec => NoFalsePreqLoss
<1>. DEFINE Told == Len(kint') > Len(kint) /\ kint'[Len(kint) + 1] = "LossPreq"
<1>1. ASSUME PreqInv, Next, Steady, timer, Told PROVE preqLost
  <2>0. kint \in Seq(Arriving) /\ Len(kint) \in Nat
    BY <1>1 DEF PreqInv, PhaseType
  <2>1. CASE ReceiveSoc
    <3>. DEFINE r == ChangeState("CeSoc")
    <3>1. r.err = "none" /\ kint' = kint \o Posted(r.err, "CeSoc")
      BY <1>1, <2>1, ChangeFacts
         DEF ErrorFacts, DllEvents, ReceiveSoc, PreqInv, IInv, TypeOK, LossType
    <3>. HIDE DEF r
    <3>2. Posted(r.err, "CeSoc") = <<"CeSoc">>
      BY <3>1 DEF Posted
    <3>. QED
      BY <1>1, <2>0, <3>1, <3>2
  <2>2. CASE \E ev \in DllEvents \ {"CeSoc"} : PreqKept(ev)
    <3>1. PICK ev \in DllEvents \ {"CeSoc"} : PreqKept(ev)
      BY <2>2
    <3>2. PICK more \in Seq(Arriving) :
             /\ Handle(ev, more)
             /\ more = <<>> \/ \E c \in NmtCommands : more = <<c>>
      BY <3>1 DEF PreqKept
    <3>3. CASE more = <<>>
      <4>1. ev = "CeSoa" /\ nmt.state \in Isochronous /\ dll = "WaitPreq" /\ cycleCount = 0
        BY <1>1, <3>2, <3>3, FrameWaits
      <4>2. ~PreqDue
        BY <3>1, <4>1 DEF PreqKept, PreqDue
      <4>. QED
        BY <1>1, <4>1, <4>2 DEF PreqInv, Awaited, Steady
    <3>4. ASSUME NEW c \in NmtCommands, more = <<c>> PROVE FALSE
      <4>1. c # "LossPreq"
        BY CycleAssumption DEF Commands
      <4>. DEFINE p == Posted(ChangeState(ev).err, IF ev = "FrameTimeout" THEN "none" ELSE ev)
      <4>2. kint' = kint \o <<c>> \o p
        BY <3>2, <3>4 DEF Handle
      <4>3. p \in Seq(Arriving)
        <5>1. ChangeState(ev).err \in ErrorTypes
          BY <1>1, ChangeFacts DEF ErrorFacts, PreqInv, IInv, TypeOK, LossType
        <5>. QED
          BY <5>1, PostedArrives DEF DllEvents, Frames
      <4>. HIDE DEF p
      <4>4. c \in Arriving
        BY CycleAssumption, ArrivingIs
      <4>5. kint'[Len(kint) + 1] = c
        BY <2>0, <4>2, <4>3, <4>4
      <4>. QED
        BY <1>1, <4>1, <4>5
    <3>. QED
      BY <3>2, <3>3, <3>4
  <2>3. CASE LoseSoc \/ LoseFrame \/ MnDies \/ AppReady
    <3>1. kint' = kint
      BY <2>3 DEF LoseSoc, LoseFrame, MnDies, AppReady
    <3>. QED
      BY <1>1, <2>0, <3>1
  <2>4. CASE HandleLossSoc \/ HandleLossPreq \/ HandleCorrectPreq \/ HandleNmtEvent
    <3>1. kint # <<>> /\ kint' \in {Tail(kint), Append(Tail(kint), "NmtCycleError")}
      BY <2>4 DEF HandleLossSoc, HandleLossPreq, HandleCorrectPreq, HandleNmtEvent
    <3>. QED
      BY <1>1, <2>0, <3>1, ArrivingIs
  <2>. QED
    BY <1>1, <2>1, <2>2, <2>3, <2>4, PreqKinds
<1>2. PreqInv /\ [Next]_vars => [Steady /\ timer /\ Told => preqLost]_vars
  BY <1>1
<1>. QED
  BY <1>2, PreqHolds, PTL DEF Spec, NoFalsePreqLoss
=============================================================================
