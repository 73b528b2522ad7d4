-------------------------- MODULE NmtLocal_proofs ---------------------------
(***************************************************************************)
(* ReadyNeedsBoth holds for every choice of the constants: whatever events *)
(* are posted, lost or delayed, a consent that has reached the kernel in   *)
(* an earlier visit of PreOp2 is never counted (when it was posted the     *)
(* property does not say).  So do TypeOK, in particular the sizes of the   *)
(* queues, and NoStaleFrames: the queue of kernel events is empty when the *)
(* node leaves the initialisation.  And so do StageByStage and             *)
(* WaitsInNotActive: no event or timer of an earlier visit of a state      *)
(* takes the node out of it, not even after events are lost and the user   *)
(* part has answered their error events by CriticalError.                  *)
(***************************************************************************)
EXTENDS NmtLocal, TLAPS

-----------------------------------------------------------------------------
(* First what an event does to the NMT state machine of the kernel part,   *)
(* in every state and in every build.                                      *)

(* Where the moves of the table lead: no stage but the last one leads out  *)
(* of the initialisation, and PreOp2 is left by two events only.           *)
LEMMA MoveFacts ==
  ASSUME NEW m \in AllMoves
  PROVE  /\ m[3] \in NmtStates
         /\ m[1] \in Stages \ {"GsResetConfiguration"} => m[3] \in Stages
         /\ m[1] = "CsPreOp2" => /\ m[2] \in {"StopNode", "NmtCycleError"}
                                 /\ m[3] # "CsReadyToOperate"
<1>1. CASE m \in Moves
  BY <1>1 DEF Moves, NmtStates, Stages, Stage, CnStates, Frames
<1>2. CASE MnBuild /\ m \in MnMoves
  BY <1>2 DEF MnMoves, NmtStates, Stages, Stage, CnStates, MnStates
<1>. QED
  BY <1>1, <1>2 DEF AllMoves

LEMMA ResetFacts ==
  ASSUME NEW e \in DOMAIN ResetStage
  PROVE  ResetStage[e] \in Stages
BY DEF ResetStage, Stages, Stage

LEMMA TargetFacts ==
  ASSUME NEW s \in NmtStates, NEW e
  PROVE  /\ Target(s, e) \in NmtStates
         /\ s \in Stages \ {"GsResetConfiguration"} => Target(s, e) \in Stages
         /\ s = "CsPreOp2" /\ e \notin {"StopNode", "NmtCycleError"}
              => Target(s, e) \in Stages \cup {s}
         /\ s = "CsPreOp2" => Target(s, e) # "CsReadyToOperate"
<1>0. Stages \subseteq NmtStates /\ "CsReadyToOperate" \notin Stages
  BY DEF NmtStates, Stages, Stage
<1>1. CASE ResetTaken(s, e)
  BY <1>0, <1>1, ResetFacts DEF ResetTaken, Target
<1>2. CASE ~ResetTaken(s, e) /\ \E m \in AllMoves : m[1] = s /\ m[2] = e
  <2>. DEFINE m == CHOOSE x \in AllMoves : x[1] = s /\ x[2] = e
  <2>1. m \in AllMoves /\ m[1] = s /\ m[2] = e
    BY <1>2
  <2>2. Target(s, e) = m[3]
    BY <1>2 DEF Target
  <2>. QED
    BY <2>1, <2>2, MoveFacts
<1>3. CASE ~ResetTaken(s, e) /\ ~ \E m \in AllMoves : m[1] = s /\ m[2] = e
  BY <1>3 DEF Target
<1>. QED
  BY <1>1, <1>2, <1>3

-----------------------------------------------------------------------------
(* What one event does to the state and to the two consents.               *)
Consents(n) == /\ n.app => n.state \in Stages \/ n.state = "CsPreOp2"
               /\ n.enable => n.state \in Stages \/ n.state = "CsPreOp2"

LEMMA ProcessFacts ==
  ASSUME NEW n \in NmtkType, NEW e, Consents(n)
  PROVE  LET r == NmtkProcess(n, e) IN
         /\ r \in NmtkType
         /\ Consents(r)
         /\ r.app /\ r.state = "CsPreOp2"
              => n.state = "CsPreOp2" /\ (n.app \/ e = "EnterReadyToOperate")
         /\ r.enable /\ r.state = "CsPreOp2"
              => n.state = "CsPreOp2" /\ (n.enable \/ e = "EnableReadyToOperate")
         /\ n.state = "CsPreOp2" /\ r.state = "CsReadyToOperate"
              => \/ n.enable /\ e = "EnterReadyToOperate"
                 \/ n.app /\ e = "EnableReadyToOperate"
<1>. DEFINE t == Target(n.state, e)
<1>0. /\ n = [state |-> n.state, enable |-> n.enable, app |-> n.app, wait |-> n.wait,
              ident |-> n.ident, frozen |-> n.frozen]
      /\ n.state \in NmtStates
      /\ n.enable \in BOOLEAN /\ n.app \in BOOLEAN /\ n.wait \in BOOLEAN
      /\ n.ident \in BOOLEAN /\ n.frozen \in BOOLEAN
  BY DEF NmtkType
<1>1. /\ t \in NmtStates
      /\ n.state \in Stages \ {"GsResetConfiguration"} => t \in Stages
      /\ n.state = "CsPreOp2" /\ e \notin {"StopNode", "NmtCycleError"}
           => t \in Stages \cup {"CsPreOp2"}
      /\ n.state = "CsPreOp2" => t # "CsReadyToOperate"
  BY <1>0, TargetFacts
<1>2. "CsReadyToOperate" \notin Stages /\ "CsPreOp2" \notin Stages
      /\ "CsReadyToOperate" \in NmtStates
  BY DEF Stages, Stage, NmtStates, CnStates
<1>3. CASE n.state = "CsPreOp2"
  <2>0. NmtkProcess(n, e) = CsPreOp2(n, e)
    BY <1>3 DEF NmtkProcess
  <2>1. CASE e \in {"StopNode", "NmtCycleError"}
    <3>1. NmtkProcess(n, e) = [n EXCEPT !.state = t, !.enable = FALSE, !.app = FALSE]
      BY <2>0, <2>1 DEF CsPreOp2
    <3>2. /\ NmtkProcess(n, e) \in NmtkType
          /\ NmtkProcess(n, e).app = FALSE /\ NmtkProcess(n, e).enable = FALSE
      BY <1>0, <1>1, <3>1 DEF NmtkType
    <3>. QED
      BY <1>0, <1>1, <1>3, <3>1, <3>2 DEF Consents, NmtkType
  <2>2. CASE e \in {"EnterReadyToOperate", "EnableReadyToOperate"}
    <3>0. NmtkProcess(n, e) = PreOp2Handshake(n, e)
      BY <2>0, <2>2 DEF CsPreOp2
    <3>1. CASE e = "EnterReadyToOperate" /\ n.enable = TRUE
      BY <1>0, <1>2, <1>3, <3>0, <3>1 DEF PreOp2Handshake, NmtkType, Consents
    <3>2. CASE e = "EnterReadyToOperate" /\ n.enable = FALSE
      <4>1. NmtkProcess(n, e) = [n EXCEPT !.app = TRUE, !.enable = FALSE]
        BY <1>0, <3>0, <3>2 DEF PreOp2Handshake
      <4>. QED
        BY <1>0, <1>2, <1>3, <3>2, <4>1 DEF NmtkType, Consents
    <3>3. CASE e = "EnableReadyToOperate" /\ n.app = TRUE
      BY <1>0, <1>2, <1>3, <3>0, <3>3 DEF PreOp2Handshake, NmtkType, Consents
    <3>4. CASE e = "EnableReadyToOperate" /\ n.app = FALSE
      <4>1. NmtkProcess(n, e) = [n EXCEPT !.app = FALSE, !.enable = TRUE]
        BY <1>0, <3>0, <3>4 DEF PreOp2Handshake
      <4>. QED
        BY <1>0, <1>2, <1>3, <3>4, <4>1 DEF NmtkType, Consents
    <3>. QED
      BY <1>0, <2>2, <3>1, <3>2, <3>3, <3>4
  <2>3. CASE e \notin {"StopNode", "NmtCycleError", "EnterReadyToOperate", "EnableReadyToOperate"}
    <3>1. NmtkProcess(n, e) = [n EXCEPT !.state = t]
      BY <2>0, <2>3 DEF CsPreOp2
    <3>. QED
      BY <1>0, <1>1, <1>2, <1>3, <2>3, <3>1 DEF NmtkType, Consents
  <2>. QED
    BY <2>1, <2>2, <2>3
<1>4. CASE n.state = "GsResetConfiguration"
  BY <1>0, <1>1, <1>4 DEF NmtkProcess, ResetConfiguration, NmtkType, Consents
<1>5. CASE n.state = "MsNotActive"
  <2>1. {"MsBasicEthernet", "MsPreOp1"} \subseteq NmtStates
        /\ "MsBasicEthernet" # "CsPreOp2" /\ "MsPreOp1" # "CsPreOp2"
        /\ "MsNotActive" \notin Stages
    BY <1>0, <1>5 DEF NmtStates, Stages, Stage, CnStates, MnStates
  <2>. DEFINE r == NmtkProcess(n, e)
  <2>2. \/ r = [n EXCEPT !.frozen = TRUE]
        \/ r = [n EXCEPT !.state = "MsBasicEthernet"]
        \/ r = [n EXCEPT !.state = "MsPreOp1", !.wait = FALSE, !.ident = FALSE]
        \/ r = [n EXCEPT !.state = t]
    BY <1>5 DEF NmtkProcess, MsNotActive
  <2>3. n.app = FALSE /\ n.enable = FALSE
    BY <1>0, <1>5, <2>1 DEF Consents
  <2>4. r \in NmtkType /\ r.app = FALSE /\ r.enable = FALSE
    BY <1>0, <1>1, <2>1, <2>2, <2>3 DEF NmtkType
  <2>. QED
    BY <1>5, <2>4 DEF Consents
<1>6. CASE n.state = "MsPreOp1"
  <2>1. "MsPreOp2" \in NmtStates /\ "MsPreOp1" \notin Stages
    BY <1>0, <1>6 DEF NmtStates, Stages, Stage, CnStates, MnStates
  <2>. DEFINE r == NmtkProcess(n, e)
  <2>2. \/ r = [n EXCEPT !.state = "MsPreOp2"]
        \/ r = [n EXCEPT !.ident = TRUE]
        \/ r = [n EXCEPT !.wait = TRUE]
        \/ r = [n EXCEPT !.state = t]
    BY <1>6 DEF NmtkProcess, MsPreOp1
  <2>3. n.app = FALSE /\ n.enable = FALSE
    BY <1>0, <1>6, <2>1 DEF Consents
  <2>4. r \in NmtkType /\ r.app = FALSE /\ r.enable = FALSE
    BY <1>0, <1>1, <2>1, <2>2, <2>3 DEF NmtkType
  <2>. QED
    BY <1>6, <2>4 DEF Consents
<1>7. CASE n.state \notin {"CsPreOp2", "GsResetConfiguration", "MsNotActive", "MsPreOp1"}
  BY <1>0, <1>1, <1>2, <1>7 DEF NmtkProcess, NmtkType, Consents
<1>. QED
  BY <1>3, <1>4, <1>5, <1>6, <1>7

-----------------------------------------------------------------------------
(* The consents are set in PreOp2, by events served in this visit, or left *)
(* over while the node runs through the initialisation again, whose last   *)
(* stage clears them.                                                      *)
FlagsJustified ==
  /\ nmt.app => \/ nmt.state \in Stages
                \/ nmt.state = "CsPreOp2" /\ "EnterReadyToOperate" \in visit
  /\ nmt.enable => \/ nmt.state \in Stages
                   \/ nmt.state = "CsPreOp2" /\ "EnableReadyToOperate" \in visit
IInv == nmt \in NmtkType /\ FlagsJustified

-----------------------------------------------------------------------------
(* One event handled by the kernel keeps the invariant, and when it takes  *)
(* a CN to ReadyToOperate both consents are in the history of the visit.   *)
Ready == {"EnterReadyToOperate", "EnableReadyToOperate"}
ReadyStep == nmt.state = "CsPreOp2" /\ nmt'.state = "CsReadyToOperate" => Ready \subseteq before'

LEMMA HandleKeeps ==
  ASSUME IInv, NEW e, NEW q, KernelHandle(e, q)
  PROVE  IInv' /\ ReadyStep
<1>. DEFINE seen == visit \cup ({e} \cap Conditions)
            r == NmtkProcess(nmt, e)
<1>0. nmt \in NmtkType /\ Consents(nmt)
  BY DEF IInv, FlagsJustified, Consents
<1>1. CASE e = TimeSync
  BY <1>1 DEF KernelHandle, IInv, FlagsJustified, ReadyStep, Conditions, TimeSync
<1>2. CASE e # TimeSync
  <2>1. nmt' = r
    BY <1>2 DEF KernelHandle
  <2>2. /\ r.state = nmt.state => visit' = seen
        /\ r.state # nmt.state => visit' = {} /\ before' = seen
    BY <1>2 DEF KernelHandle
  <2>3. /\ r \in NmtkType
        /\ Consents(r)
        /\ r.app /\ r.state = "CsPreOp2"
             => nmt.state = "CsPreOp2" /\ (nmt.app \/ e = "EnterReadyToOperate")
        /\ r.enable /\ r.state = "CsPreOp2"
             => nmt.state = "CsPreOp2" /\ (nmt.enable \/ e = "EnableReadyToOperate")
        /\ nmt.state = "CsPreOp2" /\ r.state = "CsReadyToOperate"
             => \/ nmt.enable /\ e = "EnterReadyToOperate"
                \/ nmt.app /\ e = "EnableReadyToOperate"
    BY <1>0, ProcessFacts
  <2>4. "CsPreOp2" \notin Stages
    BY DEF Stages, Stage
  <2>5. nmt.state = "CsPreOp2" /\ nmt.app => "EnterReadyToOperate" \in visit
    BY <2>4 DEF IInv, FlagsJustified
  <2>6. nmt.state = "CsPreOp2" /\ nmt.enable => "EnableReadyToOperate" \in visit
    BY <2>4 DEF IInv, FlagsJustified
  <2>7. r.app => r.state \in Stages
                 \/ (r.state = "CsPreOp2" /\ "EnterReadyToOperate" \in visit')
    <3>. SUFFICES ASSUME r.app, r.state = "CsPreOp2" PROVE "EnterReadyToOperate" \in visit'
      BY <2>3 DEF Consents
    <3>1. nmt.state = "CsPreOp2" /\ (nmt.app \/ e = "EnterReadyToOperate")
      BY <2>3, Zenon
    <3>2. visit' = seen
      BY <2>2, <3>1
    <3>3. CASE nmt.app
      <4>1. "EnterReadyToOperate" \in visit
        BY <2>5, <3>1, <3>3, Zenon
      <4>. QED
        BY <3>2, <4>1
    <3>4. CASE e = "EnterReadyToOperate"
      BY <3>2, <3>4 DEF Conditions
    <3>. QED
      BY <3>1, <3>3, <3>4
  <2>8. r.enable => r.state \in Stages
                    \/ (r.state = "CsPreOp2" /\ "EnableReadyToOperate" \in visit')
    <3>. SUFFICES ASSUME r.enable, r.state = "CsPreOp2" PROVE "EnableReadyToOperate" \in visit'
      BY <2>3 DEF Consents
    <3>1. nmt.state = "CsPreOp2" /\ (nmt.enable \/ e = "EnableReadyToOperate")
      BY <2>3, Zenon
    <3>2. visit' = seen
      BY <2>2, <3>1
    <3>3. CASE nmt.enable
      <4>1. "EnableReadyToOperate" \in visit
        BY <2>6, <3>1, <3>3, Zenon
      <4>. QED
        BY <3>2, <4>1
    <3>4. CASE e = "EnableReadyToOperate"
      BY <3>2, <3>4 DEF Conditions
    <3>. QED
      BY <3>1, <3>3, <3>4
  <2>9. ReadyStep
    BY <2>1, <2>2, <2>3, <2>5, <2>6 DEF ReadyStep, Ready, Conditions
  <2>. QED
    BY <2>1, <2>3, <2>7, <2>8, <2>9 DEF IInv, FlagsJustified
<1>. QED
  BY <1>1, <1>2

LEMMA StepKeeps ==
  ASSUME IInv, [Next]_vars
  PROVE  IInv' /\ ReadyStep
<1>. "CsPreOp2" # "CsReadyToOperate"
  OBVIOUS
<1>1. CASE KernelServesKInt
  BY <1>1, HandleKeeps DEF KernelServesKInt
<1>2. CASE KernelServesU2K
  BY <1>2, HandleKeeps DEF KernelServesU2K
<1>3. CASE UNCHANGED <<nmt, visit>>
  BY <1>3 DEF IInv, FlagsJustified, ReadyStep
<1>4. CASE KernelPicksU2K
  BY <1>3, <1>4 DEF KernelPicksU2K, nmtk
<1>5. CASE KernelReports \/ UserTakes \/ UserTakesError \/ UserAnswersError \/ UserPosts
  BY <1>3, <1>5 DEF KernelReports, UserTakes, UserTakesError, UserAnswersError, UserPosts, nmtk
<1>6. CASE TimerFires \/ BootStepEnds
  BY <1>3, <1>6 DEF TimerFires, BootStepEnds, nmtk
<1>7. CASE \E e \in RxEvents : Receive(e)
  BY <1>3, <1>7 DEF Receive, nmtk
<1>8. CASE \E e \in AppEvents : AppPosts(e)
  BY <1>3, <1>8 DEF AppPosts, nmtk
<1>9. CASE UNCHANGED vars
  BY <1>3, <1>9 DEF vars
<1>. QED
  BY <1>1, <1>2, <1>4, <1>5, <1>6, <1>7, <1>8, <1>9 DEF Next

(* The inductive invariant: the consents the kernel holds in PreOp2 have   *)
(* reached it in this visit.                                               *)
THEOREM SpecFlagsJustified == Spec => []IInv
<1>1. Init => IInv
  <2>. SUFFICES ASSUME Init PROVE IInv
    OBVIOUS
  <2>1. nmt = NmtkInit
    BY DEF Init
  <2>2. "GsOff" \in Stages /\ Stages \subseteq NmtStates
    BY DEF Stages, Stage, NmtStates
  <2>. QED
    BY <2>1, <2>2 DEF NmtkInit, IInv, FlagsJustified, NmtkType
<1>2. IInv /\ [Next]_vars => IInv'
  BY StepKeeps
<1>. QED
  BY <1>1, <1>2, PTL DEF Spec

(* NMT_CT5/CT6 for every choice of the constants.                          *)
THEOREM SpecReadyNeedsBoth == Spec => ReadyNeedsBoth
<1>1. IInv /\ [Next]_vars => ReadyStep
  BY StepKeeps
<1>2. [][ReadyStep]_vars => ReadyNeedsBoth
  <2>1. ReadyStep <=> (nmt.state = "CsPreOp2" /\ nmt'.state = "CsReadyToOperate"
                       => {"EnterReadyToOperate", "EnableReadyToOperate"} \subseteq before')
    BY DEF ReadyStep, Ready
  <2>. QED
    BY <2>1, PTL DEF ReadyNeedsBoth
<1>. QED
  BY <1>1, <1>2, SpecFlagsJustified, PTL DEF Spec

-----------------------------------------------------------------------------
(* Types.  What the kernel takes from its queues, and what the environment *)
(* posts to them, are events it knows.                                     *)
KIntEvents == Frames \cup Commands \cup {"NmtCycleError", TimeSync}
                \cup (DOMAIN ResetStage \ {"SwitchOff", "CriticalError"})

LEMMA EventFacts ==
  /\ RxEvents \subseteq KIntEvents /\ AppEvents \subseteq NmtEvents
  /\ KIntEvents \subseteq NmtEvents \cup {TimeSync} /\ TimeSync \in KIntEvents
  /\ \A s \in DOMAIN BootStepEvent : BootStepEvent[s] \in NmtEvents
  /\ \A s \in NmtStates : /\ FollowUp[s] \in NmtEvents \cup {"none"}
                          /\ StartsTimer[s] \in {"none", "TimerBasicEthernet", "TimerMsPreOp1",
                                                 "TimerMsPreOp2"}
<1>1. RxEvents \subseteq KIntEvents
  BY EventAssumption DEF KIntEvents
<1>2. AppEvents \subseteq NmtEvents
  BY EventAssumption DEF NmtEvents, ResetStage, UserEvents
<1>3. KIntEvents \subseteq NmtEvents \cup {TimeSync} /\ TimeSync \in KIntEvents
  BY DEF KIntEvents, NmtEvents
<1>4. \A s \in DOMAIN BootStepEvent : BootStepEvent[s] \in NmtEvents
  BY DEF BootStepEvent, NmtEvents, UserEvents
<1>5. ASSUME NEW s \in NmtStates
      PROVE  FollowUp[s] \in {"EnterResetApp", "EnterResetCom", "EnterResetConfig",
                             "EnterCsNotActive", "EnterMsNotActive", "EnterReadyToOperate",
                             "TimerMsPreOp2", "none"}
  BY <1>5 DEF FollowUp
<1>6. ASSUME NEW s \in NmtStates
      PROVE  StartsTimer[s] \in {"none", "TimerBasicEthernet", "TimerMsPreOp1", "TimerMsPreOp2"}
  BY <1>6 DEF StartsTimer
<1>7. {"EnterResetApp", "EnterResetCom", "EnterResetConfig", "EnterCsNotActive",
       "EnterMsNotActive", "EnterReadyToOperate", "TimerMsPreOp2"} \subseteq NmtEvents
  BY DEF NmtEvents, UserEvents
<1>. QED
  BY <1>1, <1>2, <1>3, <1>4, <1>5, <1>6, <1>7

LEMMA PostFacts ==
  ASSUME NEW S, NEW q \in Seq(S), NEW e \in S, Len(q) <= QueueSize
  PROVE  Post(q, e) \in Seq(S) /\ Len(Post(q, e)) <= QueueSize /\ (q # <<>> => Post(q, e) # <<>>)
<1>1. QueueSize \in Nat /\ Len(q) \in Nat
  BY QueueAssumption
<1>2. CASE HasRoom(q)
  BY <1>1, <1>2 DEF Post, HasRoom
<1>3. CASE ~HasRoom(q)
  BY <1>1, <1>3 DEF Post
<1>. QED
  BY <1>2, <1>3

(* The queue of the kernel events holds nothing an initialisation could    *)
(* be left with, the data link layer is in initialisation when the state   *)
(* machine is, and from the moment the kernel thread has turned to u2k     *)
(* nothing comes into an empty kint while the node initialises.            *)
KernelInv ==
  /\ kint \in Seq(KIntEvents)
  /\ nmt.state \in Stages => dllNmt \in Stages
  /\ picked /\ nmt.state \in Stages => kint = <<>>
KInv == TypeOK /\ Consents(nmt) /\ KernelInv

\* Which way out of the initialisation there is.
LEMMA LeavingFacts ==
  ASSUME NEW n \in NmtkType, NEW e, Consents(n), n.state \in Stages,
         NmtkProcess(n, e).state \notin Stages
  PROVE  /\ e \notin KIntEvents
         /\ NmtkProcess(n, e).state \notin ControlsTimeSync
<1>. DEFINE t == Target(n.state, e)
<1>1. n.state \in NmtStates /\ n = [n EXCEPT !.state = n.state]
  BY DEF NmtkType
<1>2. {"CsPreOp2", "MsNotActive", "MsPreOp1"} \cap Stages = {}
  BY DEF Stages, Stage
<1>3. NmtkProcess(n, e).state = t
  <2>1. CASE n.state = "GsResetConfiguration"
    <3>1. NmtkProcess(n, e) = ResetConfiguration(n, e)
      BY <1>2, <2>1 DEF NmtkProcess
    <3>. QED
      BY <3>1 DEF ResetConfiguration, NmtkType
  <2>2. CASE n.state # "GsResetConfiguration"
    <3>1. NmtkProcess(n, e) = [n EXCEPT !.state = Target(@, e)]
      BY <1>2, <2>2 DEF NmtkProcess
    <3>. QED
      BY <3>1 DEF NmtkType
  <2>. QED
    BY <2>1, <2>2
<1>4. n.state = "GsResetConfiguration"
  BY <1>1, <1>3, TargetFacts
<1>5. ~ResetTaken(n.state, e) /\ \E m \in AllMoves : m[1] = n.state /\ m[2] = e
  BY <1>3, <1>4, ResetFacts DEF Target, ResetTaken
<1>6. PICK m \in AllMoves : m[1] = n.state /\ m[2] = e /\ t = m[3]
  <2>. DEFINE m == CHOOSE x \in AllMoves : x[1] = n.state /\ x[2] = e
  <2>1. m \in AllMoves /\ m[1] = n.state /\ m[2] = e
    BY <1>5
  <2>2. t = m[3]
    BY <1>5 DEF Target
  <2>. QED
    BY <2>1, <2>2
<1>7. \/ e = "EnterCsNotActive" /\ t = "CsNotActive"
      \/ e = "EnterMsNotActive" /\ t = "MsNotActive"
  <2>1. \A x \in Moves : x[1] = "GsResetConfiguration"
                         => x[2] = "EnterCsNotActive" /\ x[3] = "CsNotActive"
    BY DEF Moves, Frames
  <2>2. \A x \in MnMoves : x[1] = "GsResetConfiguration"
                           => x[2] = "EnterMsNotActive" /\ x[3] = "MsNotActive"
    BY DEF MnMoves, MnStates
  <2>. QED
    BY <1>4, <1>6, <2>1, <2>2 DEF AllMoves
<1>8. "EnterCsNotActive" \notin KIntEvents /\ "EnterMsNotActive" \notin KIntEvents
  BY DEF KIntEvents, Frames, Commands, ResetStage, TimeSync
<1>. QED
  BY <1>3, <1>7, <1>8 DEF ControlsTimeSync

\* What the user part is told.
Told == NmtStates \cup {Error}

LEMMA ErrorIsNoState == Error \notin NmtStates /\ "none" \notin NmtStates /\ Error # "none"
BY DEF Error, NmtStates, Stages, Stage, CnStates, MnStates

LEMMA HandleTypes ==
  ASSUME TypeOK, Consents(nmt), nmt.state \in Stages => dllNmt \in Stages,
         NEW e, NEW q \in Seq(KIntEvents), Len(q) <= QueueSize, KernelHandle(e, q)
  PROVE  /\ nmt' \in NmtkType /\ Consents(nmt')
         /\ dllNmt' \in NmtStates /\ (nmt'.state \in Stages => dllNmt' \in Stages)
         /\ kint' \in Seq(KIntEvents) /\ Len(kint') <= QueueSize
         /\ k2u' \in Seq(Told) /\ Len(k2u') <= QueueSize
         /\ visit' \subseteq Conditions /\ before' \subseteq Conditions
         /\ failed' \in BOOLEAN
         /\ nmt.state \in Stages /\ nmt'.state \notin Stages => e \notin KIntEvents /\ kint' = q
<1>. DEFINE n == IF e = TimeSync THEN nmt ELSE NmtkProcess(nmt, e)
            seen == visit \cup ({e} \cap Conditions)
<1>1. nmt \in NmtkType /\ NmtkProcess(nmt, e) \in NmtkType /\ Consents(NmtkProcess(nmt, e))
  BY ProcessFacts DEF TypeOK
<1>2. nmt' = n /\ n \in NmtkType /\ Consents(n) /\ n.state \in NmtStates
  BY <1>1 DEF KernelHandle, NmtkType
<1>3. nmt.state \in Stages /\ n.state \notin Stages => e \notin KIntEvents /\ n.state \notin ControlsTimeSync
  BY <1>1, LeavingFacts
<1>4. k2u \in Seq(Told) /\ Len(k2u) <= QueueSize /\ dllNmt \in NmtStates /\ failed \in BOOLEAN
      /\ visit \subseteq Conditions /\ before \subseteq Conditions
  BY DEF TypeOK, Told
<1>5. Post(q, TimeSync) \in Seq(KIntEvents) /\ Len(Post(q, TimeSync)) <= QueueSize
  BY EventFacts, PostFacts
<1>6. Post(k2u, n.state) \in Seq(Told) /\ Len(Post(k2u, n.state)) <= QueueSize
  <2>1. n.state \in Told
    BY <1>2 DEF Told
  <2>. QED
    BY <1>4, <2>1, PostFacts
<1>7. CASE n.state = nmt.state
  <2>1. kint' = q /\ visit' = seen /\ UNCHANGED <<dllNmt, k2u, before, failed>>
    BY <1>7 DEF KernelHandle
  <2>. QED
    BY <1>2, <1>4, <1>7, <2>1
<1>8. CASE n.state # nmt.state
  <2>1. visit' = {} /\ before' = seen
    BY <1>8 DEF KernelHandle
  <2>2. kint' = IF n.state \in ControlsTimeSync THEN Post(q, TimeSync) ELSE q
    BY <1>8 DEF KernelHandle
  <2>3. /\ dllNmt' = IF DllFollows(n.state, q) THEN n.state ELSE dllNmt
        /\ k2u' = IF DllFollows(n.state, q) THEN Post(k2u, n.state) ELSE k2u
    BY <1>8 DEF KernelHandle
  <2>4. n.state \in Stages => DllFollows(n.state, q)
    BY DEF DllFollows, ControlsTimeSync, Stages, Stage
  <2>5. failed' \in BOOLEAN
    BY <1>8 DEF KernelHandle
  <2>. HIDE DEF n
  <2>. QED
    BY <1>2, <1>3, <1>4, <1>5, <1>6, <2>1, <2>2, <2>3, <2>4, <2>5
<1>. QED
  BY <1>7, <1>8

FreshStep == nmt.state \in Stages /\ nmt'.state \notin Stages => kint' = <<>>

LEMMA KernelStepTypes ==
  ASSUME KInv, KernelServesKInt \/ KernelPicksU2K \/ KernelServesU2K \/ KernelReports
  PROVE  KInv' /\ FreshStep
<1>0. /\ kint \in Seq(KIntEvents) /\ Len(kint) <= QueueSize /\ QueueSize \in Nat
      /\ u2k \in Seq(NmtEvents) /\ Len(u2k) <= QueueSize
      /\ nmt.state \in Stages => dllNmt \in Stages
      /\ picked \in BOOLEAN /\ ~(picked /\ failed)
      /\ k2u \in Seq(Told) /\ Len(k2u) <= QueueSize
  BY QueueAssumption DEF KInv, KernelInv, TypeOK, Told
<1>1. kint' \in Seq(KIntEvents) => kint' \in Seq(NmtEvents \cup {TimeSync})
  BY EventFacts
<1>2. CASE KernelServesKInt
  <2>1. /\ ~picked /\ kint # <<>> /\ KernelHandle(Head(kint), Tail(kint))
        /\ UNCHANGED <<u2k, picked, local, handling, timer, informed, uint, ending, rx, app>>
    BY <1>2 DEF KernelServesKInt, user, env
  <2>2. Head(kint) \in KIntEvents /\ Tail(kint) \in Seq(KIntEvents) /\ Len(Tail(kint)) <= QueueSize
    BY <1>0, <2>1
  <2>3. /\ nmt' \in NmtkType /\ Consents(nmt')
        /\ dllNmt' \in NmtStates /\ (nmt'.state \in Stages => dllNmt' \in Stages)
        /\ kint' \in Seq(KIntEvents) /\ Len(kint') <= QueueSize
        /\ k2u' \in Seq(Told) /\ Len(k2u') <= QueueSize
        /\ visit' \subseteq Conditions /\ before' \subseteq Conditions
        /\ failed' \in BOOLEAN
        /\ ~(nmt.state \in Stages /\ nmt'.state \notin Stages)
    BY <1>0, <2>1, <2>2, HandleTypes DEF KInv
  <2>. QED
    BY <1>1, <2>1, <2>3 DEF KInv, TypeOK, KernelInv, FreshStep, Told
<1>3. CASE KernelPicksU2K
  <2>1. /\ ~picked /\ ~failed /\ kint = <<>> /\ u2k # <<>> /\ picked' = TRUE
        /\ UNCHANGED <<nmt, dllNmt, k2u, visit, before, failed, kint, u2k, local, handling, timer,
                       informed, uint, ending, rx, app>>
    BY <1>3 DEF KernelPicksU2K, nmtk, user, env
  <2>. QED
    BY <2>1 DEF KInv, TypeOK, KernelInv, FreshStep
<1>4. CASE KernelServesU2K
  <2>1. /\ picked /\ picked' = FALSE /\ KernelHandle(Head(u2k), kint) /\ u2k' = Tail(u2k)
        /\ UNCHANGED <<local, handling, timer, informed, uint, ending, rx, app>>
    BY <1>4 DEF KernelServesU2K, user, env
  <2>2. u2k' \in Seq(NmtEvents) /\ Len(u2k') <= QueueSize
    <3>1. u2k # <<>>
      BY <2>1 DEF KInv, TypeOK
    <3>. QED
      BY <1>0, <2>1, <3>1
  <2>3. /\ nmt' \in NmtkType /\ Consents(nmt')
        /\ dllNmt' \in NmtStates /\ (nmt'.state \in Stages => dllNmt' \in Stages)
        /\ kint' \in Seq(KIntEvents) /\ Len(kint') <= QueueSize
        /\ k2u' \in Seq(Told) /\ Len(k2u') <= QueueSize
        /\ visit' \subseteq Conditions /\ before' \subseteq Conditions
        /\ failed' \in BOOLEAN
        /\ nmt.state \in Stages /\ nmt'.state \notin Stages => kint' = kint
    BY <1>0, <2>1, HandleTypes DEF KInv
  <2>4. FreshStep
    BY <2>1, <2>3 DEF KInv, KernelInv, FreshStep
  <2>. QED
    BY <1>1, <2>1, <2>2, <2>3, <2>4 DEF KInv, TypeOK, KernelInv, Told
<1>5. CASE KernelReports
  <2>1. /\ failed /\ failed' = FALSE /\ k2u' = Post(k2u, Error)
        /\ UNCHANGED <<nmt, dllNmt, visit, before, picked, kint, u2k, local, handling, timer,
                       informed, uint, ending, rx, app>>
    BY <1>5 DEF KernelReports, nmtk, user, env
  <2>2. k2u' \in Seq(Told) /\ Len(k2u') <= QueueSize
    <3>1. Error \in Told
      BY DEF Told
    <3>. QED
      BY <1>0, <2>1, <3>1, PostFacts
  <2>. QED
    BY <1>0, <2>1, <2>2 DEF KInv, TypeOK, KernelInv, FreshStep, Told
<1>. QED
  BY <1>2, <1>3, <1>4, <1>5

\* The other steps leave the state machine alone.
LEMMA OtherStepTypes ==
  ASSUME KInv, \/ UserTakes \/ UserTakesError \/ UserAnswersError \/ UserPosts
               \/ TimerFires \/ BootStepEnds
               \/ \E e \in RxEvents : Receive(e)
               \/ \E e \in AppEvents : AppPosts(e)
               \/ UNCHANGED vars
  PROVE  KInv' /\ UNCHANGED nmt
<1>0. /\ QueueSize \in Nat /\ MaxRx \in Nat /\ MaxApp \in Nat
      /\ u2k \in Seq(NmtEvents) /\ Len(u2k) <= QueueSize
      /\ k2u \in Seq(Told) /\ Len(k2u) <= QueueSize
      /\ kint \in Seq(KIntEvents) /\ Len(kint) <= QueueSize
      /\ handling \in Told \cup {"none"} /\ "none" \notin NmtStates
      /\ uint \in 0..QueueSize
  BY QueueAssumption, BoundAssumption, ErrorIsNoState DEF KInv, KernelInv, TypeOK, Told
<1>1. ASSUME NEW e \in NmtEvents
      PROVE  /\ Post(u2k, e) \in Seq(NmtEvents) /\ Len(Post(u2k, e)) <= QueueSize
             /\ u2k # <<>> => Post(u2k, e) # <<>>
  BY <1>0, PostFacts
<1>e. ASSUME NEW ok, ErrorUnless(ok) PROVE uint' \in 0..QueueSize
  BY <1>0, <1>e DEF ErrorUnless
<1>p. Post(k2u, Error) \in Seq(NmtStates \cup {Error}) /\ Len(Post(k2u, Error)) <= QueueSize
  BY <1>0, PostFacts DEF Told
<1>2. CASE UserTakes
  <2>1. /\ k2u # <<>> /\ Head(k2u) # Error /\ timer' = "none" /\ local' = Head(k2u)
        /\ k2u' = Tail(k2u) /\ handling' \in {Head(k2u), "none"}
        /\ UNCHANGED <<nmt, dllNmt, picked, failed, visit, before, kint, u2k, ending, rx, app>>
    BY <1>2 DEF UserTakes, nmtk, thread, env
  <2>2. informed' \in BOOLEAN
    BY <1>2 DEF UserTakes
  <2>3. Head(k2u) \in NmtStates /\ Tail(k2u) \in Seq(NmtStates \cup {Error})
        /\ Len(Tail(k2u)) <= QueueSize
    BY <1>0, <2>1 DEF Told
  <2>4. uint' \in 0..QueueSize
    BY <1>0, <1>2, <1>e DEF UserTakes
  <2>. QED
    BY <2>1, <2>2, <2>3, <2>4 DEF KInv, TypeOK, KernelInv
<1>9. CASE UserTakesError
  <2>1. /\ handling' = Error
        /\ UNCHANGED <<nmt, dllNmt, picked, failed, visit, before, kint, u2k, local, timer,
                       informed, ending, rx, app>>
    BY <1>9 DEF UserTakesError, nmtk, thread, env
  <2>2. k2u' \in Seq(NmtStates \cup {Error}) /\ Len(k2u') <= QueueSize /\ uint' \in 0..QueueSize
    <3>1. \/ k2u # <<>> /\ k2u' = Tail(k2u) /\ uint' = uint
          \/ uint > 0 /\ uint' = uint - 1 /\ k2u' = k2u
      BY <1>9 DEF UserTakesError
    <3>2. CASE k2u # <<>> /\ k2u' = Tail(k2u) /\ uint' = uint
      BY <1>0, <3>2 DEF Told
    <3>3. CASE uint > 0 /\ uint' = uint - 1 /\ k2u' = k2u
      <4>1. uint' \in 0..QueueSize
        BY <1>0, <3>3
      <4>. QED
        BY <1>0, <3>3, <4>1 DEF Told
    <3>. QED
      BY <3>1, <3>2, <3>3
  <2>. QED
    BY <2>1, <2>2 DEF KInv, TypeOK, KernelInv
<1>10. CASE UserAnswersError
  <2>1. /\ handling' = "none" /\ ending' = TRUE /\ u2k' = Post(u2k, "CriticalError")
        /\ UNCHANGED <<nmt, dllNmt, picked, failed, visit, before, kint, k2u, uint, local, timer,
                       informed, rx, app>>
    BY <1>10 DEF UserAnswersError, nmtk, thread
  <2>2. "CriticalError" \in NmtEvents
    BY DEF NmtEvents, ResetStage
  <2>. QED
    BY <1>1, <2>1, <2>2 DEF KInv, TypeOK, KernelInv
<1>3. CASE UserPosts
  <2>1. /\ handling \in NmtStates /\ handling' = "none"
        /\ timer' \in {timer, StartsTimer[handling]}
        /\ u2k' = IF FollowUp[handling] = "none" THEN u2k ELSE Post(u2k, FollowUp[handling])
        /\ UNCHANGED <<nmt, dllNmt, k2u, picked, failed, visit, before, kint, local, informed,
                       ending, rx, app>>
    BY <1>3 DEF UserPosts, nmtk, thread, env
  <2>2. FollowUp[handling] \in NmtEvents \cup {"none"}
        /\ timer' \in {"none", "TimerBasicEthernet", "TimerMsPreOp1", "TimerMsPreOp2"}
    BY <2>1, EventFacts DEF KInv, TypeOK
  <2>3. /\ u2k' \in Seq(NmtEvents) /\ Len(u2k') <= QueueSize
        /\ u2k # <<>> => u2k' # <<>>
    BY <1>0, <1>1, <2>1, <2>2
  <2>4. uint' \in 0..QueueSize
    BY <1>0, <1>3, <1>e DEF UserPosts
  <2>. QED
    BY <2>1, <2>2, <2>3, <2>4 DEF KInv, TypeOK, KernelInv
<1>4. CASE TimerFires
  <2>1. /\ timer # "none" /\ timer' = "none" /\ u2k' = Post(u2k, timer)
        /\ UNCHANGED <<nmt, dllNmt, k2u, picked, failed, visit, before, kint, local, handling,
                       informed, uint, ending, rx, app>>
    BY <1>4 DEF TimerFires, nmtk, thread, env
  <2>2. timer \in NmtEvents
    BY <2>1 DEF KInv, TypeOK, NmtEvents, UserEvents
  <2>. QED
    BY <1>1, <2>1, <2>2 DEF KInv, TypeOK, KernelInv
<1>5. CASE BootStepEnds
  <2>1. /\ local \in DOMAIN BootStepEvent /\ informed' = TRUE
        /\ u2k' = Post(u2k, BootStepEvent[local]) /\ ErrorUnless(HasRoom(u2k))
        /\ UNCHANGED <<nmt, dllNmt, k2u, picked, failed, visit, before, kint, local, handling,
                       timer, ending, rx, app>>
    BY <1>5 DEF BootStepEnds, nmtk, thread, env
  <2>2. BootStepEvent[local] \in NmtEvents
    BY <2>1, EventFacts
  <2>3. uint' \in 0..QueueSize
    BY <1>e, <2>1
  <2>. QED
    BY <1>1, <2>1, <2>2, <2>3 DEF KInv, TypeOK, KernelInv
<1>6. ASSUME NEW e \in RxEvents, Receive(e) PROVE KInv' /\ UNCHANGED nmt
  <2>1. /\ rx < MaxRx /\ dllNmt \notin Stages /\ kint' = Post(kint, e) /\ rx' = rx + 1
        /\ k2u' \in {k2u, Post(k2u, Error)}
        /\ UNCHANGED <<nmt, dllNmt, picked, failed, visit, before, u2k, local, handling, timer,
                       informed, uint, ending, app>>
    BY <1>6 DEF Receive, nmtk, thread, user
  <2>2. kint' \in Seq(KIntEvents) /\ Len(kint') <= QueueSize
    BY <1>0, <2>1, EventFacts, PostFacts
  <2>3. kint' \in Seq(NmtEvents \cup {TimeSync})
    BY <2>2, EventFacts
  <2>4. rx' \in 0..MaxRx
    BY <1>0, <2>1 DEF KInv, TypeOK
  <2>5. k2u' \in Seq(NmtStates \cup {Error}) /\ Len(k2u') <= QueueSize
    BY <1>0, <1>p, <2>1 DEF Told
  <2>6. nmt.state \notin Stages
    BY <2>1 DEF KInv, KernelInv
  <2>. QED
    BY <2>1, <2>2, <2>3, <2>4, <2>5, <2>6 DEF KInv, TypeOK, KernelInv
<1>7. ASSUME NEW e \in AppEvents, AppPosts(e) PROVE KInv' /\ UNCHANGED nmt
  <2>1. /\ app < MaxApp /\ u2k' = Post(u2k, e) /\ app' = app + 1
        /\ UNCHANGED <<nmt, dllNmt, k2u, picked, failed, visit, before, kint, local, handling,
                       timer, informed, uint, rx>>
    BY <1>7 DEF AppPosts, nmtk, thread, user
  <2>2. /\ u2k' \in Seq(NmtEvents) /\ Len(u2k') <= QueueSize
        /\ u2k # <<>> => u2k' # <<>>
    BY <1>1, <2>1, EventFacts
  <2>3. app' \in 0..MaxApp
    BY <1>0, <2>1 DEF KInv, TypeOK
  <2>4. ending' \in BOOLEAN
    BY <1>7 DEF AppPosts
  <2>. QED
    BY <2>1, <2>2, <2>3, <2>4 DEF KInv, TypeOK, KernelInv
<1>8. CASE UNCHANGED vars
  BY <1>8 DEF vars, KInv, TypeOK, KernelInv
<1>. QED
  BY <1>2, <1>3, <1>4, <1>5, <1>6, <1>7, <1>8, <1>9, <1>10

LEMMA KInvStep ==
  ASSUME KInv, [Next]_vars
  PROVE  KInv' /\ FreshStep
<1>1. CASE KernelServesKInt \/ KernelPicksU2K \/ KernelServesU2K \/ KernelReports
  BY <1>1, KernelStepTypes
<1>2. CASE ~(KernelServesKInt \/ KernelPicksU2K \/ KernelServesU2K \/ KernelReports)
  <2>1. KInv' /\ UNCHANGED nmt
    BY <1>2, OtherStepTypes DEF Next
  <2>. QED
    BY <2>1 DEF FreshStep
<1>. QED
  BY <1>1, <1>2

(* The invariant behind the two theorems below: the kernel's queue holds   *)
(* what the receive handler and the kernel itself post, and nothing when   *)
(* the kernel thread has turned to u2k in the initialisation; the data     *)
(* link layer follows the kernel into the initialisation.                  *)
THEOREM SpecKInv == Spec => []KInv
<1>1. Init => KInv
  <2>. SUFFICES ASSUME Init PROVE KInv
    OBVIOUS
  <2>1. nmt = [state |-> "GsOff", enable |-> FALSE, app |-> FALSE,
               wait |-> FALSE, ident |-> FALSE, frozen |-> FALSE]
    BY DEF Init, NmtkInit
  <2>2. "GsOff" \in Stages /\ Stages \subseteq NmtStates
    BY DEF Stages, Stage, NmtStates
  <2>3. nmt \in NmtkType /\ Consents(nmt)
    BY <2>1, <2>2 DEF NmtkType, Consents
  <2>4. u2k \in Seq(NmtEvents) /\ Len(u2k) <= QueueSize
    BY QueueAssumption DEF Init, NmtEvents, ResetStage
  <2>5. /\ kint = <<>> /\ k2u = <<>> /\ Len(kint) <= QueueSize /\ Len(k2u) <= QueueSize
        /\ rx \in 0..MaxRx /\ app \in 0..MaxApp /\ uint \in 0..QueueSize
    BY QueueAssumption, BoundAssumption DEF Init
  <2>6. TypeOK
    <3>1. /\ {picked, failed, informed, ending} \subseteq BOOLEAN
          /\ (picked => u2k # <<>>) /\ ~(picked /\ failed)
      BY DEF Init
    <3>2. /\ kint \in Seq(NmtEvents \cup {TimeSync}) /\ Len(kint) <= QueueSize
          /\ k2u \in Seq(NmtStates \cup {Error}) /\ Len(k2u) <= QueueSize
      BY <2>5
    <3>3. dllNmt \in NmtStates /\ local \in NmtStates /\ handling = "none" /\ timer = "none"
          /\ visit = {} /\ before = {}
      BY <2>2 DEF Init
    <3>. QED
      BY <2>3, <2>4, <2>5, <3>1, <3>2, <3>3 DEF TypeOK
  <2>. QED
    BY <2>2, <2>3, <2>5, <2>6 DEF Init, KInv, KernelInv
<1>2. KInv /\ [Next]_vars => KInv'
  BY KInvStep
<1>. QED
  BY <1>1, <1>2, PTL DEF Spec

(* The instances of kernel, data link layer and user part keep their types *)
(* and no queue ever holds more than its size, whatever is posted.         *)
THEOREM SpecTypeOK == Spec => []TypeOK
<1>1. KInv => TypeOK
  BY DEF KInv
<1>. QED
  BY <1>1, SpecKInv, PTL

(* A frame or an error from before a reset has no effect after it, for     *)
(* every size of the queues and whatever is received or asked for: the     *)
(* kernel thread drains kint first, and the data link layer takes nothing  *)
(* in while the node initialises.                                          *)
THEOREM SpecNoStaleFrames == Spec => NoStaleFrames
<1>1. KInv /\ [Next]_vars => FreshStep
  BY KInvStep
<1>2. [][FreshStep]_vars => NoStaleFrames
  <2>1. FreshStep <=> (nmt.state \in Stages /\ nmt'.state \notin Stages => kint' = <<>>)
    BY DEF FreshStep
  <2>. QED
    BY <2>1, PTL DEF NoStaleFrames
<1>. QED
  BY <1>1, <1>2, SpecKInv, PTL DEF Spec

-----------------------------------------------------------------------------
(* The initialisation and its follow-up events.  For each stage there is   *)
(* one event that leaves it forward, and the user part posts it when it    *)
(* has been told of the stage.  On its way from the kernel (k2u), through  *)
(* the handler (handling) and back (u2k), what is under way belongs to     *)
(* stages that come earlier and earlier, and all of it to later stages     *)
(* than the present one, but for the last: a reset adds a lower stage at   *)
(* the end, and only the event of the present stage leads forward.         *)
Place(s) == CASE s = "GsInitialising" -> 1 [] s = "GsResetApplication" -> 2
              [] s = "GsResetCommunication" -> 3 [] s = "GsResetConfiguration" -> 4
              [] OTHER -> 0
Leaves(e) == CASE e = "EnterResetApp" -> 1 [] e = "EnterResetCom" -> 2
               [] e = "EnterResetConfig" -> 3
               [] e \in {"EnterCsNotActive", "EnterMsNotActive"} -> 4
               [] OTHER -> 0
Height(s) == IF s \in Stages THEN Place(s) ELSE 5
NotActive == {"CsNotActive", "MsNotActive"}
Waits     == {"TimerBasicEthernet", "TimerMsPreOp1"}
Onward    == {"CsBasicEthernet", "MsBasicEthernet", "MsPreOp1"}
OffEvents == {"SwitchOff", "CriticalError"}
Fatal     == {"SwReset"} \cup OffEvents
Idle      == {"none", Error}   \* the user part works on no state change

LEMMA Heights ==
  /\ Place("none") = 0 /\ Place("GsOff") = 0 /\ Height("GsOff") = 0
  /\ \A s : /\ Place(s) \in 0..4 /\ Height(s) \in 0..5
            /\ s \in Stages \ {"GsOff"} <=> Place(s) > 0
            /\ s \in Stages \ {"GsOff"} => Height(s) = Place(s) /\ Stage[s] = Place(s)
            /\ s \notin Stages => Height(s) = 5
            /\ s \in Stages => Height(s) < 5 /\ Stage[s] = Height(s)
            /\ Height(s) = 0 => s = "GsOff"
  /\ \A s, t : Place(s) > 0 /\ Place(s) = Place(t) => s = t
  /\ \A e : /\ Leaves(e) \in 0..4
            /\ e \in Waits \cup Fatal => Leaves(e) = 0
  /\ NotActive \cap Stages = {} /\ Waits \cap Fatal = {}
  /\ Idle \cap (Stages \cup NotActive) = {} /\ \A h \in Idle : Place(h) = 0
<1>1. Stages = {"GsOff", "GsInitialising", "GsResetApplication", "GsResetCommunication",
                "GsResetConfiguration"}
  BY DEF Stages, Stage
<1>2. /\ Stage["GsOff"] = 0 /\ Stage["GsInitialising"] = 1 /\ Stage["GsResetApplication"] = 2
      /\ Stage["GsResetCommunication"] = 3 /\ Stage["GsResetConfiguration"] = 4
  BY DEF Stage
<1>3. \A s : Place(s) \in 0..4 /\ (s \in Stages \ {"GsOff"} <=> Place(s) > 0)
  BY <1>1 DEF Place
<1>4. Place("none") = 0 /\ Place("GsOff") = 0
  BY DEF Place
<1>5. \A s \in Stages : Stage[s] = Place(s)
  BY <1>1, <1>2 DEF Place
<1>6. \A s, t : Place(s) > 0 /\ Place(s) = Place(t) => s = t
  BY DEF Place
<1>7. \A e : Leaves(e) \in 0..4 /\ (e \in Waits \cup Fatal => Leaves(e) = 0)
  BY DEF Leaves, Waits, Fatal, OffEvents
<1>8. \A s : /\ s \in Stages => Height(s) = Place(s)
             /\ s \notin Stages => Height(s) = 5
  BY DEF Height
<1>9. NotActive \cap Stages = {} /\ Waits \cap Fatal = {} /\ Idle \cap (Stages \cup NotActive) = {}
  BY <1>1 DEF NotActive, Waits, Fatal, OffEvents, Idle, Error
<1>10. \A h \in Idle : Place(h) = 0
  BY <1>3, <1>9
<1>. HIDE DEF Place, Height, Leaves
<1>. QED
  BY <1>1, <1>3, <1>4, <1>5, <1>6, <1>7, <1>8, <1>9, <1>10

(* What an event may do to the state of the kernel.                        *)
MoveKind(s, e, t) ==
  \/ t = s
  \/ /\ t \in Stages /\ Height(t) < Height(s)
     /\ t = "GsOff" => e \in OffEvents
  \/ s = "GsOff" /\ t = "GsInitialising" /\ e = "SwReset"
  \/ /\ Place(s) > 0 /\ Leaves(e) = Place(s) /\ Height(t) = Place(s) + 1
     /\ t \in Stages \cup NotActive /\ t # "GsOff"
  \/ /\ s \notin Stages /\ t \notin Stages \cup NotActive
     /\ s \in NotActive /\ t \in Onward => e \in Waits

LEMMA MoveKinds ==
  ASSUME NEW n \in NmtkType, NEW e
  PROVE  MoveKind(n.state, e, NmtkProcess(n, e).state)
<1>0. /\ Height("GsOff") = 0 /\ Height("GsInitialising") = 1 /\ Height("GsResetApplication") = 2
      /\ Height("GsResetCommunication") = 3 /\ Height("GsResetConfiguration") = 4
  BY DEF Height, Place, Stages, Stage
<1>s. Stages = {"GsOff", "GsInitialising", "GsResetApplication", "GsResetCommunication",
                "GsResetConfiguration"}
  BY DEF Stages, Stage
<1>h. \A s : s \notin Stages => Height(s) = 5
  BY DEF Height
<1>1. ASSUME NEW m \in AllMoves PROVE MoveKind(m[1], m[2], m[3])
  <2>1. ASSUME NEW a, NEW b, NEW c, a \notin Stages, c \notin Stages \cup NotActive,
               a \notin NotActive \/ c \notin Onward
        PROVE  MoveKind(a, b, c)
    BY <2>1 DEF MoveKind
  <2>2. /\ MoveKind("GsOff", "SwReset", "GsInitialising")
        /\ MoveKind("GsInitialising", "EnterResetApp", "GsResetApplication")
        /\ MoveKind("GsResetApplication", "EnterResetCom", "GsResetCommunication")
        /\ MoveKind("GsResetCommunication", "EnterResetConfig", "GsResetConfiguration")
    BY <1>0, <1>s DEF MoveKind, Place, Leaves
  <2>3. /\ MoveKind("GsResetConfiguration", "EnterCsNotActive", "CsNotActive")
        /\ MoveKind("GsResetConfiguration", "EnterMsNotActive", "MsNotActive")
    BY <1>0, <1>s, <1>h DEF MoveKind, Place, Leaves, NotActive
  <2>4. MoveKind("CsNotActive", "TimerBasicEthernet", "CsBasicEthernet")
    BY <1>s DEF MoveKind, Waits, NotActive
  <2>5. \A s, b : s \notin Stages => MoveKind(s, b, "GsResetCommunication")
    BY <1>0, <1>s, <1>h DEF MoveKind
  <2>6. CASE m \in Moves
    BY <2>1, <2>2, <2>3, <2>4, <2>6, <1>s DEF Moves, NotActive, Onward
  <2>7. CASE m \in MnMoves
    BY <2>1, <2>3, <2>5, <2>7, <1>s DEF MnMoves, NotActive, Onward, MnStates
  <2>. QED
    BY <2>6, <2>7 DEF AllMoves
<1>2. ASSUME NEW s \in NmtStates PROVE MoveKind(s, e, Target(s, e))
  <2>1. CASE ResetTaken(s, e)
    <3>1. Target(s, e) = ResetStage[e] /\ e \in DOMAIN ResetStage
      BY <2>1 DEF Target, ResetTaken
    <3>2. ResetStage[e] \in Stages /\ (ResetStage[e] = "GsOff" => e \in OffEvents)
      BY <3>1 DEF ResetStage, Stages, Stage, OffEvents
    <3>3. s \in Stages => Stage[ResetStage[e]] < Stage[s]
      BY <2>1 DEF ResetTaken
    <3>4. Height(ResetStage[e]) < Height(s)
      BY <3>2, <3>3, Heights
    <3>. QED
      BY <3>1, <3>2, <3>4 DEF MoveKind
  <2>2. CASE ~ResetTaken(s, e) /\ \E m \in AllMoves : m[1] = s /\ m[2] = e
    <3>. DEFINE m == CHOOSE x \in AllMoves : x[1] = s /\ x[2] = e
    <3>1. m \in AllMoves /\ m[1] = s /\ m[2] = e /\ Target(s, e) = m[3]
      BY <2>2 DEF Target
    <3>. HIDE DEF m
    <3>. QED
      BY <1>1, <3>1
  <2>3. CASE ~ResetTaken(s, e) /\ ~ \E m \in AllMoves : m[1] = s /\ m[2] = e
    BY <2>3 DEF Target, MoveKind
  <2>. QED
    BY <2>1, <2>2, <2>3
<1>3. n.state \in NmtStates
  BY DEF NmtkType
<1>4. \/ NmtkProcess(n, e).state \in {Target(n.state, e), n.state}
      \/ n.state = "CsPreOp2" /\ NmtkProcess(n, e).state = "CsReadyToOperate"
      \/ n.state = "MsNotActive" /\ e \in Waits
           /\ NmtkProcess(n, e).state \in {"MsBasicEthernet", "MsPreOp1"}
      \/ n.state = "MsPreOp1" /\ NmtkProcess(n, e).state = "MsPreOp2"
  BY DEF NmtkProcess, CsPreOp2, PreOp2Handshake, ResetConfiguration, MsNotActive, MsPreOp1,
         NmtkType, Waits
<1>. QED
  BY <1>2, <1>3, <1>4, <1>s DEF MoveKind, NotActive, Onward

-----------------------------------------------------------------------------
(* The invariant, in the kernel's state s, the queues u (u2k), k (k2u) and *)
(* q (kint), what h the user part works on, its state l, its timer t and   *)
(* whether w the node is going to end.  Error events may stand anywhere in *)
(* k2u; the user part takes them for nothing of the initialisation.        *)
OnlyErrors(k) == \A j \in 1..Len(k) : k[j] = Error
Behind(k, i)  == \A j \in 1..Len(k) : i < j => k[j] = Error
CaughtUp(s, h, k, l) == l = s /\ OnlyErrors(k) /\ h \in Idle
NoStage(h, k) == Place(h) = 0 /\ \A j \in 1..Len(k) : Place(k[j]) = 0
NoLeave(u)    == \A j \in 1..Len(u) : Leaves(u[j]) = 0

\* What is under way, oldest first, belongs to lower and lower stages.
Ordered(s, u, h, k) ==
  /\ \A i \in 1..Len(u) : Leaves(u[i]) > 0 =>
       /\ Leaves(u[i]) >= Height(s)
       /\ \A j \in 1..Len(u) : i < j => Leaves(u[j]) < Leaves(u[i])
       /\ Place(h) < Leaves(u[i])
       /\ \A j \in 1..Len(k) : Place(k[j]) < Leaves(u[i])
  /\ Place(h) > 0 => /\ Place(h) >= Height(s)
                     /\ \A j \in 1..Len(k) : Place(k[j]) < Place(h)
  /\ \A i \in 1..Len(k) : Place(k[i]) > 0 =>
       /\ Place(k[i]) >= Height(s)
       /\ Place(k[i]) = Height(s) => Behind(k, i)
       /\ \A j \in 1..Len(k) : i < j => Place(k[j]) < Place(k[i])

\* Only the last of it may belong to the present visit.
Matched(s, u, h, k, l) ==
  /\ h \notin Idle => l = h
  /\ Place(h) > 0 /\ Place(h) = Height(s) => OnlyErrors(k)
  /\ \A i \in 1..Len(u) : Leaves(u[i]) > 0 /\ Leaves(u[i]) = Height(s) => CaughtUp(s, h, k, l)

\* While a stage is under way the user part knows of stages only.
StagesOrErrors(k) == \A j \in 1..Len(k) : k[j] \in Stages \cup {Error}
InStages(u, h, k, l) ==
  /\ \A i \in 1..Len(u) : Leaves(u[i]) > 0 => l \in Stages /\ StagesOrErrors(k)
  /\ Place(h) > 0 => l \in Stages /\ StagesOrErrors(k)
  /\ \A i, j \in 1..Len(k) : i < j /\ Place(k[i]) > 0 => k[j] \in Stages \cup {Error}

\* Switched off, the node starts again only when nothing is under way.
Off(s, u, h, k, q, w) ==
  /\ \A i \in 1..Len(u) : u[i] \in OffEvents =>
       w /\ \A j \in 1..Len(u) : i < j => u[j] # "SwReset"
  /\ s = "GsOff" =>
       /\ ~w => NoStage(h, k) /\ NoLeave(u)
       /\ \A i \in 1..Len(u) : u[i] = "SwReset" => NoStage(h, k) /\ NoLeave(u)
       /\ q # <<>> => NoStage(h, k) /\ NoLeave(u)

\* The timer of NotActive, running or run out, belongs to the present visit.
Waiting(s, u, h, k, l, t) ==
  /\ t \in Waits => l \in NotActive /\ h \in Idle
  /\ s \in NotActive =>
       /\ t \in Waits => CaughtUp(s, h, k, l)
       /\ h \in NotActive => h = s /\ OnlyErrors(k)
       /\ \A i \in 1..Len(k) : k[i] \in NotActive => k[i] = s /\ Behind(k, i)
       /\ \A i \in 1..Len(u) : u[i] \in Waits => CaughtUp(s, h, k, l)
  /\ \A i, j \in 1..Len(u) : i < j /\ Leaves(u[i]) > 0 => u[j] \notin Waits

Flow(s, u, h, k, q, l, t, w) ==
  /\ Ordered(s, u, h, k) /\ Matched(s, u, h, k, l) /\ InStages(u, h, k, l)
  /\ Off(s, u, h, k, q, w) /\ Waiting(s, u, h, k, l, t)

FlowInv == Flow(nmt.state, u2k, handling, k2u, kint, local, timer, ending)

\* The parts of a queue behind its head, and a queue an event was posted to.
LEMMA TailParts ==
  ASSUME NEW S, NEW q \in Seq(S), q # <<>>
  PROVE  /\ Tail(q) \in Seq(S) /\ Len(q) \in Nat /\ Len(q) > 0 /\ Head(q) = q[1]
         /\ Len(Tail(q)) \in Nat /\ Len(Tail(q)) = Len(q) - 1
         /\ \A i \in 1..Len(Tail(q)) : i + 1 \in 1..Len(q) /\ Tail(q)[i] = q[i + 1]
  OBVIOUS

LEMMA PostParts ==
  ASSUME NEW S, NEW q \in Seq(S), NEW e \in S, NEW r, r \in {q, Append(q, e)}
  PROVE  /\ r \in Seq(S) /\ Len(r) \in Nat /\ Len(q) \in Nat
         /\ Len(r) \in {Len(q), Len(q) + 1}
         /\ \A i \in 1..Len(r) : \/ i \in 1..Len(q) /\ r[i] = q[i]
                                 \/ i = Len(q) + 1 /\ i = Len(r) /\ r[i] = e
<1>1. Len(q) \in Nat
  OBVIOUS
<1>2. CASE r = q
  BY <1>1, <1>2
<1>3. CASE r = Append(q, e)
  <2>1. Len(r) = Len(q) + 1 /\ r \in Seq(S)
    BY <1>3
  <2>2. \A i \in 1..Len(r) : r[i] = IF i <= Len(q) THEN q[i] ELSE e
    BY <1>3, <2>1
  <2>. QED
    BY <1>1, <2>1, <2>2
<1>. QED
  BY <1>2, <1>3

LEMMA PostCases == \A q, e : Post(q, e) \in {q, Append(q, e)}
  BY DEF Post

\* What is served leaves the rest as it is.
LEMMA FlowServed ==
  ASSUME NEW s, NEW u \in Seq(NmtEvents), NEW h, NEW k \in Seq(Told), NEW q, NEW q2, NEW l,
         NEW t, NEW w, Flow(s, u, h, k, q, l, t, w), q2 # <<>> => q # <<>>
  PROVE  /\ Flow(s, u, h, k, q2, l, t, w)
         /\ u # <<>> => Flow(s, Tail(u), h, k, q2, l, t, w)
<1>1. Flow(s, u, h, k, q2, l, t, w)
  BY DEF Flow, Off
<1>2. ASSUME u # <<>> PROVE Flow(s, Tail(u), h, k, q2, l, t, w)
  <2>. DEFINE v == Tail(u)
  <2>1. /\ Len(u) \in Nat /\ Len(v) \in Nat
        /\ \A i \in 1..Len(v) : i + 1 \in 1..Len(u) /\ v[i] = u[i + 1]
    BY <1>2, TailParts
  <2>. HIDE DEF v
  <2>2. \A i, j \in 1..Len(v) : /\ i < j => i + 1 < j + 1
                                /\ j # i => j + 1 # i + 1
    BY <2>1
  <2>3. Ordered(s, v, h, k)
    BY <1>1, <2>1, <2>2 DEF Flow, Ordered
  <2>4. Matched(s, v, h, k, l)
    BY <1>1, <2>1 DEF Flow, Matched
  <2>5. InStages(v, h, k, l)
    BY <1>1, <2>1 DEF Flow, InStages
  <2>6. Off(s, v, h, k, q2, w)
    <3>1. Off(s, u, h, k, q2, w)
      BY <1>1 DEF Flow
    <3>2. \A i \in 1..Len(v) : v[i] \in OffEvents =>
            w /\ \A j \in 1..Len(v) : i < j => v[j] # "SwReset"
      BY <2>1, <2>2, <3>1 DEF Off
    <3>3. NoLeave(u) => NoLeave(v)
      BY <2>1 DEF NoLeave
    <3>4. s = "GsOff" =>
            /\ ~w => NoStage(h, k) /\ NoLeave(v)
            /\ \A i \in 1..Len(v) : v[i] = "SwReset" => NoStage(h, k) /\ NoLeave(v)
            /\ q2 # <<>> => NoStage(h, k) /\ NoLeave(v)
      BY <2>1, <3>1, <3>3 DEF Off
    <3>. QED
      BY <3>2, <3>4 DEF Off
  <2>7. Waiting(s, v, h, k, l, t)
    BY <1>1, <2>1, <2>2 DEF Flow, Waiting
  <2>. QED
    BY <2>3, <2>4, <2>5, <2>6, <2>7 DEF Flow, v
<1>. QED
  BY <1>1, <1>2

(* What is known of an event e the kernel serves, u being what remains in  *)
(* u2k.                                                                    *)
Fits(s, e, u, h, k, l, w) ==
  /\ e \in OffEvents => w /\ \A j \in 1..Len(u) : u[j] # "SwReset"
  /\ e = "SwReset" /\ s = "GsOff" => NoStage(h, k) /\ NoLeave(u)
  /\ Leaves(e) > 0 /\ Leaves(e) = Height(s) =>
       /\ CaughtUp(s, h, k, l)
       /\ \A j \in 1..Len(u) : Leaves(u[j]) < Leaves(e) /\ u[j] \notin Waits
  /\ e \in Waits /\ s \in NotActive => CaughtUp(s, h, k, l)

LEMMA KIntFits ==
  ASSUME NEW s, NEW u, NEW h, NEW k, NEW q, NEW l, NEW t, NEW w,
         Flow(s, u, h, k, q, l, t, w), q # <<>>, NEW e \in KIntEvents
  PROVE  Fits(s, e, u, h, k, l, w)
<1>1. Leaves(e) = 0 /\ e \notin Waits \cup OffEvents
  BY DEF KIntEvents, Leaves, Waits, OffEvents, Frames, Commands, ResetStage, TimeSync
<1>. QED
  BY <1>1 DEF Flow, Off, Fits

LEMMA HeadFits ==
  ASSUME NEW s, NEW u \in Seq(NmtEvents), NEW h, NEW k, NEW q, NEW l, NEW t, NEW w,
         Flow(s, u, h, k, q, l, t, w), u # <<>>
  PROVE  Fits(s, Head(u), Tail(u), h, k, l, w)
<1>. DEFINE v == Tail(u)
            e == Head(u)
<1>1. /\ Len(u) \in Nat /\ Len(v) \in Nat /\ Len(u) > 0 /\ e = u[1]
      /\ \A i \in 1..Len(v) : i + 1 \in 1..Len(u) /\ v[i] = u[i + 1]
  BY TailParts
<1>2. 1 \in 1..Len(u) /\ \A i \in 1..Len(v) : 1 < i + 1 /\ i + 1 # 1
  BY <1>1
<1>3. \A x : Leaves(x) \in Nat
  BY Heights
<1>. HIDE DEF v, e
<1>5. e \in OffEvents => w /\ \A j \in 1..Len(v) : v[j] # "SwReset"
  <2>1. u[1] \in OffEvents => w /\ \A j \in 1..Len(u) : 1 < j => u[j] # "SwReset"
    BY <1>2 DEF Flow, Off
  <2>. QED
    BY <1>1, <1>2, <2>1
<1>6. e = "SwReset" /\ s = "GsOff" => NoStage(h, k) /\ NoLeave(v)
  <2>. SUFFICES ASSUME e = "SwReset", s = "GsOff" PROVE NoStage(h, k) /\ NoLeave(v)
    OBVIOUS
  <2>1. NoStage(h, k) /\ NoLeave(u)
    BY <1>1, <1>2 DEF Flow, Off
  <2>. QED
    BY <1>1, <2>1 DEF NoLeave
<1>7. Leaves(e) > 0 /\ Leaves(e) = Height(s) =>
        /\ CaughtUp(s, h, k, l)
        /\ \A j \in 1..Len(v) : Leaves(v[j]) < Leaves(e) /\ v[j] \notin Waits
  <2>1. Leaves(u[1]) > 0 /\ Leaves(u[1]) = Height(s) => CaughtUp(s, h, k, l)
    BY <1>2 DEF Flow, Matched
  <2>2. Leaves(u[1]) > 0 => \A j \in 1..Len(u) : 1 < j => Leaves(u[j]) < Leaves(u[1])
    BY <1>2 DEF Flow, Ordered
  <2>3. Leaves(u[1]) > 0 => \A j \in 1..Len(u) : 1 < j => u[j] \notin Waits
    BY <1>2 DEF Flow, Waiting
  <2>. QED
    BY <1>1, <1>2, <2>1, <2>2, <2>3
<1>8. e \in Waits /\ s \in NotActive => CaughtUp(s, h, k, l)
  BY <1>1, <1>2 DEF Flow, Waiting
<1>. QED
  BY <1>5, <1>6, <1>7, <1>8 DEF Fits, v, e

\* Told of a lower stage: a reset, or the start of a node that was off.
LEMMA FlowResets ==
  ASSUME NEW s, NEW u, NEW h, NEW k \in Seq(Told), NEW q, NEW l, NEW t, NEW w,
         Flow(s, u, h, k, q, l, t, w), NEW e, Fits(s, e, u, h, k, l, w),
         NEW s2 \in NmtStates, s2 \in Stages, Height(s2) < Height(s),
         s2 = "GsOff" => e \in OffEvents,
         NEW k2, k2 \in {k, Append(k, s2)},
         NEW q2, s2 = "GsOff" /\ s \in Stages => q2 = <<>>
  PROVE  Flow(s2, u, h, k2, q2, l, t, w)
<1>1. /\ Len(k) \in Nat /\ Len(k2) \in Nat
      /\ Len(k2) \in {Len(k), Len(k) + 1}
      /\ \A i \in 1..Len(k2) : \/ i \in 1..Len(k) /\ k2[i] = k[i]
                               \/ i = Len(k) + 1 /\ i = Len(k2) /\ k2[i] = s2
  BY PostParts DEF Told
<1>2. /\ \A x : Leaves(x) \in Nat /\ Place(x) \in Nat /\ Height(x) \in Nat
      /\ Place(s2) <= Height(s2) /\ s2 \notin NotActive
      /\ Place(s2) > 0 <=> s2 # "GsOff"
  BY Heights
<1>3. \A i, j \in 1..Len(k2) : i < j => i \in 1..Len(k) /\ k2[i] = k[i]
  BY <1>1
<1>. HIDE DEF Flow
<1>4. Ordered(s, u, h, k) /\ Matched(s, u, h, k, l) /\ InStages(u, h, k, l)
      /\ Off(s, u, h, k, q, w) /\ Waiting(s, u, h, k, l, t)
  BY DEF Flow
<1>5. Ordered(s2, u, h, k2)
  <2>1. \A i \in 1..Len(u) : Leaves(u[i]) > 0 =>
           /\ Leaves(u[i]) >= Height(s2)
           /\ \A j \in 1..Len(u) : i < j => Leaves(u[j]) < Leaves(u[i])
           /\ Place(h) < Leaves(u[i])
           /\ \A j \in 1..Len(k2) : Place(k2[j]) < Leaves(u[i])
    <3>. SUFFICES ASSUME NEW i \in 1..Len(u), Leaves(u[i]) > 0
                  PROVE  /\ Leaves(u[i]) >= Height(s2)
                         /\ \A j \in 1..Len(u) : i < j => Leaves(u[j]) < Leaves(u[i])
                         /\ Place(h) < Leaves(u[i])
                         /\ \A j \in 1..Len(k2) : Place(k2[j]) < Leaves(u[i])
      OBVIOUS
    <3>1. /\ Leaves(u[i]) >= Height(s)
          /\ \A j \in 1..Len(u) : i < j => Leaves(u[j]) < Leaves(u[i])
          /\ Place(h) < Leaves(u[i])
          /\ \A j \in 1..Len(k) : Place(k[j]) < Leaves(u[i])
      BY <1>4 DEF Ordered
    <3>2. /\ Leaves(u[i]) \in Nat /\ Height(s) \in Nat /\ Height(s2) \in Nat
          /\ Place(s2) \in Nat /\ Place(s2) <= Height(s2)
      BY <1>2
    <3>3. Place(s2) < Leaves(u[i]) /\ Leaves(u[i]) >= Height(s2)
      BY <3>1, <3>2
    <3>. QED
      BY <1>1, <3>1, <3>3
  <2>2. Place(h) > 0 => /\ Place(h) >= Height(s2)
                        /\ \A j \in 1..Len(k2) : Place(k2[j]) < Place(h)
    <3>. SUFFICES ASSUME Place(h) > 0
                  PROVE  /\ Place(h) >= Height(s2)
                         /\ \A j \in 1..Len(k2) : Place(k2[j]) < Place(h)
      OBVIOUS
    <3>1. Place(h) >= Height(s) /\ \A j \in 1..Len(k) : Place(k[j]) < Place(h)
      BY <1>4 DEF Ordered
    <3>2. Place(s2) < Place(h) /\ Place(h) >= Height(s2)
      <4>1. /\ Place(h) \in Nat /\ Height(s) \in Nat /\ Height(s2) \in Nat
            /\ Place(s2) \in Nat /\ Place(s2) <= Height(s2)
        BY <1>2
      <4>. QED
        BY <3>1, <4>1
    <3>. QED
      BY <1>1, <3>1, <3>2
  <2>3. ASSUME NEW i \in 1..Len(k2), Place(k2[i]) > 0
        PROVE  /\ Place(k2[i]) >= Height(s2)
               /\ Place(k2[i]) = Height(s2) => Behind(k2, i)
               /\ \A j \in 1..Len(k2) : i < j => Place(k2[j]) < Place(k2[i])
    <3>0. Place(k2[i]) \in Nat /\ Height(s) \in Nat /\ Height(s2) \in Nat /\ Place(s2) \in Nat
      BY <1>2
    <3>1. CASE i \in 1..Len(k) /\ k2[i] = k[i]
      <4>1. Place(k[i]) >= Height(s)
        BY <1>4, <2>3, <3>1 DEF Ordered
      <4>2. ASSUME NEW j \in 1..Len(k2), i < j PROVE Place(k2[j]) < Place(k2[i])
        <5>1. CASE j \in 1..Len(k) /\ k2[j] = k[j]
          BY <1>4, <2>3, <3>1, <4>2, <5>1 DEF Ordered
        <5>2. CASE k2[j] = s2
          BY <1>2, <3>0, <3>1, <4>1, <5>2
        <5>. QED
          BY <1>1, <5>1, <5>2
      <4>. QED
        BY <3>0, <3>1, <4>1, <4>2
    <3>2. CASE i = Len(k) + 1 /\ i = Len(k2) /\ k2[i] = s2
      <4>1. Place(s2) = Height(s2)
        BY <2>3, <3>2, Heights
      <4>. QED
        BY <1>1, <3>0, <3>2, <4>1 DEF Behind
    <3>. QED
      BY <1>1, <3>1, <3>2
  <2>. QED
    BY <2>1, <2>2, <2>3 DEF Ordered
<1>6. Matched(s2, u, h, k2, l)
  <2>1. Place(h) > 0 => Place(h) # Height(s2)
    BY <1>2, <1>4 DEF Ordered
  <2>2. \A i \in 1..Len(u) : Leaves(u[i]) > 0 => Leaves(u[i]) # Height(s2)
    BY <1>2, <1>4 DEF Ordered
  <2>. QED
    BY <1>4, <2>1, <2>2 DEF Matched
<1>7. InStages(u, h, k2, l)
  <2>1. StagesOrErrors(k) => StagesOrErrors(k2)
    BY <1>1 DEF StagesOrErrors
  <2>2. \A i, j \in 1..Len(k2) : i < j /\ Place(k2[i]) > 0 => k2[j] \in Stages \cup {Error}
    BY <1>1, <1>3, <1>4 DEF InStages
  <2>. QED
    BY <1>4, <2>1, <2>2 DEF InStages
<1>8. Off(s2, u, h, k2, q2, w)
  <2>1. CASE s2 # "GsOff"
    BY <1>4, <2>1 DEF Off
  <2>2. CASE s2 = "GsOff"
    <3>1. w /\ \A j \in 1..Len(u) : u[j] # "SwReset"
      BY <2>2 DEF Fits
    <3>2. q2 # <<>> => NoStage(h, k2) /\ NoLeave(u)
      <4>. SUFFICES ASSUME q2 # <<>> PROVE NoStage(h, k2) /\ NoLeave(u)
        OBVIOUS
      <4>1. Height(s) = 5 /\ \A x : Leaves(x) \in 0..4 /\ Place(x) \in 0..4
        BY <2>2, Heights
      <4>2. Place(h) = 0
        BY <1>4, <4>1 DEF Ordered
      <4>3. \A i \in 1..Len(k) : Place(k[i]) = 0
        BY <1>4, <4>1 DEF Ordered
      <4>4. NoLeave(u)
        BY <1>4, <4>1 DEF Ordered, NoLeave
      <4>5. Place(s2) = 0
        BY <2>2, Heights
      <4>. QED
        BY <1>1, <4>2, <4>3, <4>4, <4>5 DEF NoStage
    <3>. QED
      BY <1>4, <3>1, <3>2 DEF Off
  <2>. QED
    BY <2>1, <2>2
<1>9. Waiting(s2, u, h, k2, l, t)
  BY <1>2, <1>4 DEF Waiting
<1>. QED
  BY <1>5, <1>6, <1>7, <1>8, <1>9 DEF Flow

LEMMA FlowStarts ==
  ASSUME NEW u, NEW h, NEW k \in Seq(Told), NEW q, NEW l, NEW t, NEW w,
         Flow("GsOff", u, h, k, q, l, t, w), Fits("GsOff", "SwReset", u, h, k, l, w),
         "GsInitialising" \in NmtStates,
         NEW k2, k2 \in {k, Append(k, "GsInitialising")}, NEW q2
  PROVE  Flow("GsInitialising", u, h, k2, q2, l, t, w)
<1>. DEFINE s == "GsOff"
            s2 == "GsInitialising"
<1>1. /\ Len(k) \in Nat /\ Len(k2) \in Nat
      /\ \A i \in 1..Len(k2) : \/ i \in 1..Len(k) /\ k2[i] = k[i]
                               \/ i = Len(k) + 1 /\ i = Len(k2) /\ k2[i] = s2
  BY PostParts DEF Told
<1>2. \A i, j \in 1..Len(k2) : i < j => i \in 1..Len(k) /\ k2[i] = k[i]
  BY <1>1
<1>3. /\ Place(h) = 0 /\ \A j \in 1..Len(k) : Place(k[j]) = 0
      /\ \A j \in 1..Len(u) : Leaves(u[j]) = 0
  BY DEF Fits, NoStage, NoLeave
<1>4. Place(s2) = 1 /\ Height(s2) = 1 /\ s2 \notin NotActive /\ s2 # "GsOff"
  BY DEF Place, Height, Stages, Stage, NotActive
<1>5. Ordered(s, u, h, k) /\ Matched(s, u, h, k, l) /\ InStages(u, h, k, l)
      /\ Off(s, u, h, k, q, w) /\ Waiting(s, u, h, k, l, t)
  BY DEF Flow
<1>. HIDE DEF s, s2, Flow
<1>6. Ordered(s2, u, h, k2)
  BY <1>1, <1>2, <1>3, <1>4 DEF Ordered, Behind
<1>7. Matched(s2, u, h, k2, l)
  BY <1>3, <1>5 DEF Matched
<1>8. InStages(u, h, k2, l)
  BY <1>2, <1>3 DEF InStages
<1>9. Off(s2, u, h, k2, q2, w)
  BY <1>4, <1>5 DEF Off
<1>10. Waiting(s2, u, h, k2, l, t)
  BY <1>4, <1>5 DEF Waiting
<1>. QED
  BY <1>6, <1>7, <1>8, <1>9, <1>10 DEF Flow, s2

\* A stage left forward: nothing else is under way.
LEMMA FlowForward ==
  ASSUME NEW s, NEW u, NEW h, NEW k \in Seq(Told), NEW q, NEW l, NEW t, NEW w,
         Flow(s, u, h, k, q, l, t, w), NEW e, Fits(s, e, u, h, k, l, w),
         Place(s) > 0, Leaves(e) = Place(s),
         NEW s2 \in NmtStates, s2 \in Stages \cup NotActive, s2 # "GsOff",
         Height(s2) = Place(s) + 1,
         NEW k2, k2 \in {k, Append(k, s2)}, NEW q2
  PROVE  Flow(s2, u, h, k2, q2, l, t, w) /\ CaughtUp(s, h, k, l)
<1>1. s \in Stages /\ Height(s) = Place(s) /\ \A x : Leaves(x) \in Nat /\ Place(x) \in Nat
  BY Heights
<1>2. /\ l = s /\ h \in Idle /\ \A j \in 1..Len(k) : k[j] = Error
      /\ \A j \in 1..Len(u) : Leaves(u[j]) < Leaves(e) /\ u[j] \notin Waits
  BY <1>1 DEF Fits, CaughtUp, OnlyErrors
<1>3. Ordered(s, u, h, k) /\ Off(s, u, h, k, q, w) /\ Waiting(s, u, h, k, l, t)
  BY DEF Flow
<1>4. \A j \in 1..Len(u) : Leaves(u[j]) = 0
  BY <1>1, <1>2, <1>3 DEF Ordered
<1>k. /\ Len(k) \in Nat /\ Len(k2) \in Nat
      /\ \A i \in 1..Len(k2) : \/ i \in 1..Len(k) /\ k2[i] = k[i]
                               \/ i = Len(k) + 1 /\ i = Len(k2) /\ k2[i] = s2
  BY PostParts DEF Told
<1>5. \A j \in 1..Len(k2) : \/ k2[j] = Error
                            \/ j = Len(k2) /\ k2[j] = s2
  BY <1>2, <1>k
<1>o. Place(Error) = 0 /\ Error \notin NotActive
  BY Heights DEF Idle
<1>6. Place(h) = 0 /\ h \notin NotActive /\ l \notin NotActive
  BY <1>1, <1>2, Heights
<1>7. \A j \in 1..Len(k2) : Place(k2[j]) > 0 => /\ Place(k2[j]) = Height(s2)
                                               /\ j = Len(k2)
  BY <1>5, <1>o, Heights
<1>b. \A j \in 1..Len(k2) : j = Len(k2) => Behind(k2, j)
  BY <1>k DEF Behind
<1>8. Ordered(s2, u, h, k2)
  <2>1. \A j \in 1..Len(k2) : Place(k2[j]) > 0 =>
          /\ Place(k2[j]) >= Height(s2) /\ Behind(k2, j)
          /\ \A i \in 1..Len(k2) : j < i => Place(k2[i]) < Place(k2[j])
    BY <1>1, <1>k, <1>7, <1>b
  <2>. QED
    BY <1>4, <1>6, <2>1 DEF Ordered
<1>9. Matched(s2, u, h, k2, l)
  BY <1>2, <1>4, <1>6 DEF Matched
<1>10. InStages(u, h, k2, l)
  BY <1>4, <1>k, <1>6, <1>7 DEF InStages
<1>11. Off(s2, u, h, k2, q2, w)
  BY <1>3 DEF Off
<1>12. Waiting(s2, u, h, k2, l, t)
  <2>1. t \notin Waits
    BY <1>3, <1>6 DEF Waiting
  <2>. QED
    BY <1>2, <1>4, <1>5, <1>6, <1>o, <1>b, <2>1 DEF Waiting
<1>. QED
  BY <1>2, <1>8, <1>9, <1>10, <1>11, <1>12 DEF Flow, CaughtUp, OnlyErrors

\* On the network nothing of the initialisation is under way.
LEMMA FlowOutside ==
  ASSUME NEW s, NEW u, NEW h, NEW k \in Seq(Told), NEW q, NEW l, NEW t, NEW w,
         Flow(s, u, h, k, q, l, t, w), s \notin Stages,
         NEW s2 \in NmtStates, s2 \notin Stages \cup NotActive,
         NEW k2, k2 \in {k, Append(k, s2)}, NEW q2
  PROVE  Flow(s2, u, h, k2, q2, l, t, w)
<1>1. /\ Len(k) \in Nat /\ Len(k2) \in Nat
      /\ \A i \in 1..Len(k2) : \/ i \in 1..Len(k) /\ k2[i] = k[i]
                               \/ i = Len(k) + 1 /\ i = Len(k2) /\ k2[i] = s2
  BY PostParts DEF Told
<1>2. \A i, j \in 1..Len(k2) : i < j => i \in 1..Len(k) /\ k2[i] = k[i]
  BY <1>1
<1>3. Height(s) = 5 /\ Place(s2) = 0 /\ s2 # "GsOff"
      /\ \A x : Leaves(x) \in 0..4 /\ Place(x) \in 0..4
  BY Heights
<1>4. Ordered(s, u, h, k) /\ Matched(s, u, h, k, l) /\ Off(s, u, h, k, q, w)
      /\ Waiting(s, u, h, k, l, t)
  BY DEF Flow
<1>5. /\ Place(h) = 0 /\ \A j \in 1..Len(k) : Place(k[j]) = 0
      /\ \A j \in 1..Len(u) : Leaves(u[j]) = 0
  BY <1>3, <1>4 DEF Ordered
<1>6. \A j \in 1..Len(k2) : Place(k2[j]) = 0
  BY <1>1, <1>3, <1>5
<1>7. Ordered(s2, u, h, k2)
  BY <1>5, <1>6 DEF Ordered
<1>8. Matched(s2, u, h, k2, l)
  BY <1>4, <1>5 DEF Matched
<1>9. InStages(u, h, k2, l)
  BY <1>5, <1>6 DEF InStages
<1>10. Off(s2, u, h, k2, q2, w)
  BY <1>3, <1>4 DEF Off
<1>11. Waiting(s2, u, h, k2, l, t)
  BY <1>4, <1>5 DEF Waiting
<1>. QED
  BY <1>7, <1>8, <1>9, <1>10, <1>11 DEF Flow

\* One event handled by the kernel, u being what remains in u2k.
StageStep == Forward /\ nmt'.state # nmt.state => UserCaughtUp
WaitStep  == nmt.state \in NotActive /\ nmt'.state \in Onward => UserCaughtUp

LEMMA HandleFlow ==
  ASSUME nmt \in NmtkType, nmt' \in NmtkType, k2u \in Seq(Told),
         NEW e, NEW q, KernelHandle(e, q), NEW u,
         Flow(nmt.state, u, handling, k2u, kint, local, timer, ending),
         Fits(nmt.state, e, u, handling, k2u, local, ending),
         q # <<>> => kint # <<>>,
         e \in OffEvents /\ nmt.state \in Stages => q = <<>>
  PROVE  /\ Flow(nmt'.state, u, handling, k2u', kint', local, timer, ending)
         /\ StageStep /\ WaitStep
<1>. DEFINE s == nmt.state
            s2 == nmt'.state
<1>1. MoveKind(s, e, s2)
  <2>1. CASE e = TimeSync
    BY <2>1 DEF KernelHandle, MoveKind
  <2>2. CASE e # TimeSync
    <3>1. nmt' = NmtkProcess(nmt, e)
      BY <2>2 DEF KernelHandle
    <3>. QED
      BY <3>1, MoveKinds
  <2>. QED
    BY <2>1, <2>2
<1>2. /\ s \in NmtStates /\ s2 \in NmtStates
      /\ CaughtUp(s, handling, k2u, local) <=> UserCaughtUp
  <2>1. DOMAIN k2u = 1..Len(k2u)
    OBVIOUS
  <2>. QED
    BY <2>1 DEF NmtkType, CaughtUp, UserCaughtUp, OnlyErrors, Idle
<1>f. /\ Flow(s, u, handling, k2u, kint, local, timer, ending)
      /\ Fits(s, e, u, handling, k2u, local, ending)
  OBVIOUS
<1>3. /\ k2u' \in {k2u, Append(k2u, s2)}
      /\ s2 \in Stages => kint' = q
      /\ s2 = s => k2u' = k2u /\ kint' = q
  <2>1. Post(k2u, s2) \in {k2u, Append(k2u, s2)}
    BY PostCases
  <2>2. s2 \in Stages => s2 \notin ControlsTimeSync
    BY DEF Stages, Stage, ControlsTimeSync
  <2>3. CASE s2 = s
    BY <2>3 DEF KernelHandle
  <2>4. CASE s2 # s
    <3>1. /\ kint' = IF s2 \in ControlsTimeSync THEN Post(q, TimeSync) ELSE q
          /\ k2u' = IF DllFollows(s2, q) THEN Post(k2u, s2) ELSE k2u
      BY <2>4 DEF KernelHandle
    <3>. HIDE DEF s, s2
    <3>. QED
      BY <2>1, <2>2, <2>4, <3>1
  <2>. QED
    BY <2>3, <2>4
<1>4. /\ s \in Stages \ {"GsOff"} <=> Place(s) > 0
      /\ s \in Stages => Stage[s] = Height(s) /\ Height(s) \in Nat
      /\ s2 \in Stages => Stage[s2] = Height(s2) /\ Height(s2) \in Nat
      /\ NotActive \cap Stages = {}
  BY Heights
<1>5. Onward \cap Stages = {} /\ Onward \cap NotActive = {}
  BY DEF Onward, NotActive, Stages, Stage
<1>6. CASE s2 = s
  <2>1. Flow(s2, u, handling, k2u', kint', local, timer, ending)
    <3>1. q # <<>> => kint # <<>>
      OBVIOUS
    <3>. HIDE DEF Flow
    <3>2. Flow(s, u, handling, k2u, q, local, timer, ending)
      BY <3>1 DEF Flow, Off
    <3>. QED
      BY <1>3, <1>6, <3>2
  <2>. QED
    BY <1>5, <1>6, <2>1 DEF StageStep, WaitStep
<1>7. CASE s2 \in Stages /\ Height(s2) < Height(s) /\ (s2 = "GsOff" => e \in OffEvents)
  <2>1. s2 = "GsOff" /\ s \in Stages => kint' = <<>>
    BY <1>3, <1>7
  <2>2. Flow(s2, u, handling, k2u', kint', local, timer, ending)
    <3>. HIDE DEF s, s2, Flow, Fits
    <3>. QED
      BY <1>f, <1>2, <1>3, <1>7, <2>1, FlowResets
  <2>3. ~Forward
    BY <1>4, <1>7 DEF Forward
  <2>. QED
    BY <1>5, <1>7, <2>2, <2>3 DEF StageStep, WaitStep
<1>8. CASE s = "GsOff" /\ s2 = "GsInitialising" /\ e = "SwReset"
  <2>1. Flow(s2, u, handling, k2u', kint', local, timer, ending)
    <3>1. "GsInitialising" \in NmtStates /\ k2u' \in {k2u, Append(k2u, "GsInitialising")}
      BY <1>2, <1>3, <1>8
    <3>2. /\ Flow("GsOff", u, handling, k2u, kint, local, timer, ending)
          /\ Fits("GsOff", "SwReset", u, handling, k2u, local, ending)
      BY <1>8
    <3>3. Flow("GsInitialising", u, handling, k2u', kint', local, timer, ending)
      <4>. HIDE DEF Flow, Fits
      <4>. QED
        BY <3>1, <3>2, FlowStarts
    <3>. QED
      BY <1>8, <3>3
  <2>2. s \notin NotActive /\ ~Forward
    BY <1>8 DEF NotActive, Forward
  <2>. QED
    BY <2>1, <2>2 DEF StageStep, WaitStep
<1>9. CASE /\ Place(s) > 0 /\ Leaves(e) = Place(s) /\ Height(s2) = Place(s) + 1
           /\ s2 \in Stages \cup NotActive /\ s2 # "GsOff"
  <2>1. /\ Flow(s2, u, handling, k2u', kint', local, timer, ending)
        /\ CaughtUp(s, handling, k2u, local)
    <3>. HIDE DEF s, s2, Flow, Fits
    <3>. QED
      BY <1>f, <1>2, <1>3, <1>9, FlowForward
  <2>. QED
    BY <1>2, <2>1 DEF StageStep, WaitStep
<1>10. CASE /\ s \notin Stages /\ s2 \notin Stages \cup NotActive
            /\ s \in NotActive /\ s2 \in Onward => e \in Waits
  <2>1. Flow(s2, u, handling, k2u', kint', local, timer, ending)
    <3>. HIDE DEF s, s2, Flow, Fits
    <3>. QED
      BY <1>f, <1>2, <1>3, <1>10, FlowOutside
  <2>2. StageStep
    BY <1>10 DEF StageStep, Forward
  <2>3. WaitStep
    BY <1>2, <1>10 DEF WaitStep, Fits
  <2>. QED
    BY <2>1, <2>2, <2>3
<1>. QED
  BY <1>1, <1>6, <1>7, <1>8, <1>9, <1>10 DEF MoveKind

(* The user part takes a state change: the callback may end the handling   *)
(* at once.                                                                *)
LEMMA FlowTaken ==
  ASSUME NEW s, NEW u, NEW k \in Seq(Told), k # <<>>, Head(k) # Error,
         NEW q, NEW l, NEW t, NEW w,
         Flow(s, u, "none", k, q, l, t, w), NEW h2, h2 \in {Head(k), "none"}
  PROVE  Flow(s, u, h2, Tail(k), q, Head(k), "none", w)
<1>. DEFINE v == Tail(k)
            g == Head(k)
<1>1. /\ Len(k) \in Nat /\ Len(v) \in Nat /\ Len(k) > 0 /\ Len(v) = Len(k) - 1 /\ g = k[1]
      /\ \A i \in 1..Len(v) : i + 1 \in 1..Len(k) /\ v[i] = k[i + 1]
      /\ v \in Seq(Told)
  BY TailParts
<1>g. h2 \in {g, "none"} /\ g # Error
  OBVIOUS
<1>. HIDE DEF v, g
<1>2. 1 \in 1..Len(k) /\ \A i \in 1..Len(v) : 1 < i + 1 /\ i + 1 # 1
  BY <1>1
<1>3. \A i, j \in 1..Len(v) : (i < j => i + 1 < j + 1) /\ (j # i => j + 1 # i + 1)
  BY <1>1
<1>4. \A i \in 1..Len(v) : Behind(k, i + 1) => Behind(v, i)
  BY <1>1, <1>3 DEF Behind
<1>5. Behind(k, 1) => OnlyErrors(v)
  BY <1>1, <1>2 DEF Behind, OnlyErrors
<1>6. /\ Place("none") = 0 /\ "none" \notin NotActive /\ "none" \notin Waits /\ "none" \in Idle
      /\ \A x : Leaves(x) \in Nat /\ Place(x) \in Nat /\ Height(x) \in Nat
      /\ \A x : Place(x) > 0 => x \in Stages
  BY Heights DEF Waits, Idle
<1>7. /\ Ordered(s, u, "none", k) /\ Matched(s, u, "none", k, l) /\ InStages(u, "none", k, l)
      /\ Off(s, u, "none", k, q, w) /\ Waiting(s, u, "none", k, l, t)
  BY DEF Flow
<1>8. h2 = g \/ h2 = "none"
  BY <1>g
<1>9. \A i \in 1..Len(u) : Leaves(u[i]) > 0 => Leaves(u[i]) # Height(s)
  BY <1>1, <1>2, <1>7, <1>g DEF Matched, CaughtUp, OnlyErrors
<1>. HIDE DEF Flow
<1>10. Ordered(s, u, h2, v)
  <2>1. \A i \in 1..Len(u) : Leaves(u[i]) > 0 =>
          /\ Leaves(u[i]) >= Height(s)
          /\ \A j \in 1..Len(u) : i < j => Leaves(u[j]) < Leaves(u[i])
          /\ Place(h2) < Leaves(u[i])
          /\ \A j \in 1..Len(v) : Place(v[j]) < Leaves(u[i])
    BY <1>1, <1>2, <1>6, <1>7, <1>8 DEF Ordered
  <2>2. Place(h2) > 0 => /\ Place(h2) >= Height(s)
                         /\ \A j \in 1..Len(v) : Place(v[j]) < Place(h2)
    BY <1>1, <1>2, <1>6, <1>7, <1>8 DEF Ordered
  <2>3. \A i \in 1..Len(v) : Place(v[i]) > 0 =>
          /\ Place(v[i]) >= Height(s)
          /\ Place(v[i]) = Height(s) => Behind(v, i)
          /\ \A j \in 1..Len(v) : i < j => Place(v[j]) < Place(v[i])
    BY <1>1, <1>3, <1>4, <1>7 DEF Ordered
  <2>. QED
    BY <2>1, <2>2, <2>3 DEF Ordered
<1>11. Matched(s, u, h2, v, g)
  <2>1. h2 \notin Idle => g = h2
    BY <1>6, <1>8
  <2>2. Place(h2) > 0 /\ Place(h2) = Height(s) => OnlyErrors(v)
    <3>1. Place(g) > 0 /\ Place(g) = Height(s) => Behind(k, 1)
      BY <1>1, <1>2, <1>7 DEF Ordered
    <3>. QED
      BY <1>5, <1>6, <1>8, <3>1
  <2>. QED
    BY <1>9, <2>1, <2>2 DEF Matched
<1>12. InStages(u, h2, v, g)
  <2>0. StagesOrErrors(k) => g \in Stages /\ StagesOrErrors(v)
    BY <1>1, <1>2, <1>g DEF StagesOrErrors
  <2>1. \A i \in 1..Len(u) : Leaves(u[i]) > 0 => g \in Stages /\ StagesOrErrors(v)
    BY <1>7, <2>0 DEF InStages
  <2>2. Place(h2) > 0 => g \in Stages /\ StagesOrErrors(v)
    <3>. SUFFICES ASSUME Place(h2) > 0 PROVE g \in Stages /\ StagesOrErrors(v)
      OBVIOUS
    <3>1. h2 = g /\ g \in Stages
      BY <1>6, <1>8
    <3>2. \A j \in 1..Len(k) : 1 < j => k[j] \in Stages \cup {Error}
      BY <1>1, <1>2, <1>7, <3>1 DEF InStages
    <3>. QED
      BY <1>1, <1>2, <3>1, <3>2 DEF StagesOrErrors
  <2>3. \A i, j \in 1..Len(v) : i < j /\ Place(v[i]) > 0 => v[j] \in Stages \cup {Error}
    BY <1>1, <1>3, <1>7 DEF InStages
  <2>. QED
    BY <2>1, <2>2, <2>3 DEF InStages
<1>13. Off(s, u, h2, v, q, w)
  <2>1. NoStage("none", k) => NoStage(h2, v)
    <3>. SUFFICES ASSUME \A j \in 1..Len(k) : Place(k[j]) = 0 PROVE NoStage(h2, v)
      BY DEF NoStage
    <3>1. Place(h2) = 0
      BY <1>1, <1>2, <1>6, <1>8
    <3>2. \A j \in 1..Len(v) : Place(v[j]) = 0
      BY <1>1
    <3>. QED
      BY <3>1, <3>2 DEF NoStage
  <2>. QED
    BY <1>7, <2>1 DEF Off
<1>14. Waiting(s, u, h2, v, g, "none")
  <2>0. s \in NotActive => ~CaughtUp(s, "none", k, l)
    BY <1>1, <1>2, <1>g DEF CaughtUp, OnlyErrors
  <2>1. s \in NotActive =>
          /\ h2 \in NotActive => h2 = s /\ OnlyErrors(v)
          /\ \A i \in 1..Len(v) : v[i] \in NotActive => v[i] = s /\ Behind(v, i)
          /\ \A i \in 1..Len(u) : u[i] \notin Waits
    BY <1>1, <1>2, <1>4, <1>5, <1>6, <1>7, <1>8, <2>0 DEF Waiting
  <2>2. \A i, j \in 1..Len(u) : i < j /\ Leaves(u[i]) > 0 => u[j] \notin Waits
    BY <1>7 DEF Waiting
  <2>. QED
    BY <1>6, <2>1, <2>2 DEF Waiting
<1>. QED
  BY <1>10, <1>11, <1>12, <1>13, <1>14 DEF Flow, v, g

(* Error events change nothing of it: one is posted to k2u, ...            *)
LEMMA FlowReported ==
  ASSUME NEW s, NEW u, NEW h, NEW k \in Seq(Told), NEW q, NEW l, NEW t, NEW w,
         Flow(s, u, h, k, q, l, t, w), NEW k2, k2 \in {k, Append(k, Error)}
  PROVE  Flow(s, u, h, k2, q, l, t, w)
<1>1. /\ Len(k) \in Nat /\ Len(k2) \in Nat
      /\ \A i \in 1..Len(k2) : \/ i \in 1..Len(k) /\ k2[i] = k[i]
                               \/ i = Len(k) + 1 /\ i = Len(k2) /\ k2[i] = Error
  BY PostParts DEF Told
<1>2. /\ Place(Error) = 0 /\ Error \notin NotActive
      /\ \A x : Leaves(x) \in Nat /\ Place(x) \in Nat /\ Height(x) \in Nat
  BY Heights DEF Idle
<1>3. /\ OnlyErrors(k) => OnlyErrors(k2)
      /\ StagesOrErrors(k) => StagesOrErrors(k2)
      /\ NoStage(h, k) => NoStage(h, k2)
      /\ CaughtUp(s, h, k, l) => CaughtUp(s, h, k2, l)
  BY <1>1, <1>2 DEF OnlyErrors, StagesOrErrors, NoStage, CaughtUp
<1>4. \A i \in 1..Len(k2) : k2[i] # Error =>
        i \in 1..Len(k) /\ k2[i] = k[i] /\ (Behind(k, i) => Behind(k2, i))
  BY <1>1 DEF Behind
<1>5. /\ Ordered(s, u, h, k) /\ Matched(s, u, h, k, l) /\ InStages(u, h, k, l)
      /\ Off(s, u, h, k, q, w) /\ Waiting(s, u, h, k, l, t)
  BY DEF Flow
<1>. HIDE DEF Flow
<1>6. Ordered(s, u, h, k2)
  <2>1. \A i \in 1..Len(u) : Leaves(u[i]) > 0 =>
          /\ Leaves(u[i]) >= Height(s)
          /\ \A j \in 1..Len(u) : i < j => Leaves(u[j]) < Leaves(u[i])
          /\ Place(h) < Leaves(u[i])
          /\ \A j \in 1..Len(k2) : Place(k2[j]) < Leaves(u[i])
    BY <1>1, <1>2, <1>5 DEF Ordered
  <2>2. Place(h) > 0 => /\ Place(h) >= Height(s)
                        /\ \A j \in 1..Len(k2) : Place(k2[j]) < Place(h)
    BY <1>1, <1>2, <1>5 DEF Ordered
  <2>3. ASSUME NEW i \in 1..Len(k2), Place(k2[i]) > 0
        PROVE  /\ Place(k2[i]) >= Height(s)
               /\ Place(k2[i]) = Height(s) => Behind(k2, i)
               /\ \A j \in 1..Len(k2) : i < j => Place(k2[j]) < Place(k2[i])
    <3>1. i \in 1..Len(k) /\ k2[i] = k[i] /\ (Behind(k, i) => Behind(k2, i))
      BY <1>2, <1>4, <2>3
    <3>2. /\ Place(k[i]) >= Height(s)
          /\ Place(k[i]) = Height(s) => Behind(k, i)
          /\ \A j \in 1..Len(k) : i < j => Place(k[j]) < Place(k[i])
      BY <1>5, <2>3, <3>1 DEF Ordered
    <3>. QED
      BY <1>1, <1>2, <2>3, <3>1, <3>2
  <2>. QED
    BY <2>1, <2>2, <2>3 DEF Ordered
<1>7. Matched(s, u, h, k2, l)
  BY <1>3, <1>5 DEF Matched
<1>8. InStages(u, h, k2, l)
  <2>1. \A i, j \in 1..Len(k2) : i < j /\ Place(k2[i]) > 0 => k2[j] \in Stages \cup {Error}
    BY <1>1, <1>2, <1>5 DEF InStages
  <2>. QED
    BY <1>3, <1>5, <2>1 DEF InStages
<1>9. Off(s, u, h, k2, q, w)
  BY <1>3, <1>5 DEF Off
<1>10. Waiting(s, u, h, k2, l, t)
  BY <1>2, <1>3, <1>4, <1>5 DEF Waiting
<1>. QED
  BY <1>6, <1>7, <1>8, <1>9, <1>10 DEF Flow

(* ... the user part takes one from there, ...                             *)
LEMMA FlowErrorTaken ==
  ASSUME NEW s, NEW u, NEW h, NEW k \in Seq(Told), k # <<>>, Head(k) = Error,
         NEW q, NEW l, NEW t, NEW w, Flow(s, u, h, k, q, l, t, w)
  PROVE  Flow(s, u, h, Tail(k), q, l, t, w)
<1>. DEFINE v == Tail(k)
<1>1. /\ Len(k) \in Nat /\ Len(v) \in Nat
      /\ \A i \in 1..Len(v) : i + 1 \in 1..Len(k) /\ v[i] = k[i + 1]
  BY TailParts
<1>. HIDE DEF v
<1>2. \A i, j \in 1..Len(v) : i < j => i + 1 < j + 1
  BY <1>1
<1>3. /\ OnlyErrors(k) => OnlyErrors(v)
      /\ StagesOrErrors(k) => StagesOrErrors(v)
      /\ NoStage(h, k) => NoStage(h, v)
      /\ CaughtUp(s, h, k, l) => CaughtUp(s, h, v, l)
  BY <1>1 DEF OnlyErrors, StagesOrErrors, NoStage, CaughtUp
<1>4. \A i \in 1..Len(v) : Behind(k, i + 1) => Behind(v, i)
  BY <1>1, <1>2 DEF Behind
<1>5. /\ Ordered(s, u, h, k) /\ Matched(s, u, h, k, l) /\ InStages(u, h, k, l)
      /\ Off(s, u, h, k, q, w) /\ Waiting(s, u, h, k, l, t)
  BY DEF Flow
<1>. HIDE DEF Flow
<1>6. Ordered(s, u, h, v)
  BY <1>1, <1>2, <1>4, <1>5 DEF Ordered
<1>7. Matched(s, u, h, v, l)
  BY <1>3, <1>5 DEF Matched
<1>8. InStages(u, h, v, l)
  BY <1>1, <1>2, <1>3, <1>5 DEF InStages
<1>9. Off(s, u, h, v, q, w)
  BY <1>3, <1>5 DEF Off
<1>10. Waiting(s, u, h, v, l, t)
  BY <1>1, <1>3, <1>4, <1>5 DEF Waiting
<1>. QED
  BY <1>6, <1>7, <1>8, <1>9, <1>10 DEF Flow, v

(* ... and works on it.                                                    *)
LEMMA FlowErrorHandled ==
  ASSUME NEW s, NEW u, NEW h \in Idle, NEW k, NEW q, NEW l, NEW t, NEW w,
         Flow(s, u, h, k, q, l, t, w), NEW h2 \in Idle
  PROVE  Flow(s, u, h2, k, q, l, t, w)
<1>1. Place(h) = 0 /\ Place(h2) = 0 /\ h2 \notin NotActive
  BY Heights
<1>2. /\ Ordered(s, u, h, k) /\ Matched(s, u, h, k, l) /\ InStages(u, h, k, l)
      /\ Off(s, u, h, k, q, w) /\ Waiting(s, u, h, k, l, t)
  BY DEF Flow
<1>3. CaughtUp(s, h, k, l) => CaughtUp(s, h2, k, l)
  BY DEF CaughtUp
<1>4. Ordered(s, u, h2, k)
  BY <1>1, <1>2 DEF Ordered
<1>5. Matched(s, u, h2, k, l)
  BY <1>1, <1>2, <1>3 DEF Matched
<1>6. InStages(u, h2, k, l)
  BY <1>1, <1>2 DEF InStages
<1>7. Off(s, u, h2, k, q, w)
  BY <1>1, <1>2 DEF Off, NoStage
<1>8. Waiting(s, u, h2, k, l, t)
  BY <1>1, <1>2, <1>3 DEF Waiting
<1>. QED
  BY <1>4, <1>5, <1>6, <1>7, <1>8 DEF Flow

(* It posts the follow-up event of the state it was told of, unless the    *)
(* queue is full, and may start the timer of NotActive.                    *)
LEMMA FlowFollowedUp ==
  ASSUME NEW s, NEW u \in Seq(NmtEvents), NEW h, NEW k, NEW q, NEW l, NEW t, NEW w,
         Flow(s, u, h, k, q, l, t, w), h \notin Idle,
         NEW e \in NmtEvents, Leaves(e) = Place(h), e \notin Waits \cup Fatal,
         NEW v, v \in {u, Append(u, e)},
         NEW t2, t2 \in Waits => t2 = t \/ h \in NotActive
  PROVE  Flow(s, v, "none", k, q, l, t2, w)
<1>1. /\ Len(u) \in Nat /\ Len(v) \in Nat
      /\ \A i \in 1..Len(v) : \/ i \in 1..Len(u) /\ v[i] = u[i]
                              \/ i = Len(u) + 1 /\ i = Len(v) /\ v[i] = e
  BY PostParts
<1>2. \A i, j \in 1..Len(v) : i < j => i \in 1..Len(u) /\ v[i] = u[i]
  BY <1>1
<1>3. /\ Place("none") = 0 /\ "none" \notin NotActive /\ "none" \in Idle
      /\ \A x : Leaves(x) \in Nat /\ Place(x) \in Nat /\ Height(x) \in Nat
  BY Heights DEF Idle
<1>4. /\ Ordered(s, u, h, k) /\ Matched(s, u, h, k, l) /\ InStages(u, h, k, l)
      /\ Off(s, u, h, k, q, w) /\ Waiting(s, u, h, k, l, t)
  BY DEF Flow
<1>5. l = h
  BY <1>4 DEF Matched
<1>6. \A i \in 1..Len(v) : v[i] \in Waits \cup Fatal => i \in 1..Len(u) /\ v[i] = u[i]
  BY <1>1
<1>. HIDE DEF Flow
<1>7. Ordered(s, v, "none", k)
  <2>1. ASSUME NEW i \in 1..Len(v), Leaves(v[i]) > 0
        PROVE  /\ Leaves(v[i]) >= Height(s)
               /\ \A j \in 1..Len(v) : i < j => Leaves(v[j]) < Leaves(v[i])
               /\ \A j \in 1..Len(k) : Place(k[j]) < Leaves(v[i])
    <3>1. CASE i \in 1..Len(u) /\ v[i] = u[i]
      <4>1. \A j \in 1..Len(u) : i < j => Leaves(u[j]) < Leaves(u[i])
        BY <1>4, <2>1, <3>1 DEF Ordered
      <4>2. /\ Leaves(u[i]) >= Height(s) /\ Place(h) < Leaves(u[i])
            /\ \A j \in 1..Len(k) : Place(k[j]) < Leaves(u[i])
        BY <1>4, <2>1, <3>1 DEF Ordered
      <4>. QED
        BY <1>1, <3>1, <4>1, <4>2
    <3>2. CASE i = Len(u) + 1 /\ i = Len(v) /\ v[i] = e
      <4>1. Place(h) >= Height(s) /\ \A j \in 1..Len(k) : Place(k[j]) < Place(h)
        BY <1>4, <2>1, <3>2 DEF Ordered
      <4>. QED
        BY <1>1, <3>2, <4>1
    <3>. QED
      BY <1>1, <3>1, <3>2
  <2>2. \A i \in 1..Len(k) : Place(k[i]) > 0 =>
          /\ Place(k[i]) >= Height(s)
          /\ Place(k[i]) = Height(s) => Behind(k, i)
          /\ \A j \in 1..Len(k) : i < j => Place(k[j]) < Place(k[i])
    BY <1>4 DEF Ordered
  <2>3. ~(Place("none") > 0)
        /\ \A i \in 1..Len(v) : Leaves(v[i]) > 0 => Place("none") < Leaves(v[i])
    BY <1>3
  <2>. QED
    BY <2>1, <2>2, <2>3 DEF Ordered
<1>8. Matched(s, v, "none", k, l)
  <2>1. ASSUME NEW i \in 1..Len(v), Leaves(v[i]) > 0, Leaves(v[i]) = Height(s)
        PROVE  CaughtUp(s, "none", k, l)
    <3>1. CASE i \in 1..Len(u) /\ v[i] = u[i]
      BY <1>4, <2>1, <3>1 DEF Matched, CaughtUp
    <3>2. CASE v[i] = e
      <4>1. OnlyErrors(k)
        BY <1>4, <2>1, <3>2 DEF Matched
      <4>2. Height(s) = Place(h) /\ Place(h) \in 1..4
        BY <2>1, <3>2, Heights
      <4>3. s \in Stages \ {"GsOff"} /\ Height(s) = Place(s)
        <5>1. s \in Stages
          BY <4>2, Heights
        <5>2. s # "GsOff"
          BY <4>2, Heights
        <5>. QED
          BY <5>1, <5>2, Heights
      <4>4. s = h
        BY <4>2, <4>3, Heights
      <4>. QED
        BY <1>3, <1>5, <4>1, <4>4 DEF CaughtUp
    <3>. QED
      BY <1>1, <3>1, <3>2
  <2>. QED
    BY <1>3, <2>1 DEF Matched
<1>9. InStages(v, "none", k, l)
  <2>1. \A i \in 1..Len(v) : Leaves(v[i]) > 0 => l \in Stages /\ StagesOrErrors(k)
    BY <1>1, <1>4 DEF InStages
  <2>. QED
    BY <1>3, <1>4, <2>1 DEF InStages
<1>10. Off(s, v, "none", k, q, w)
  <2>1. \A i \in 1..Len(v) : v[i] \in OffEvents =>
          w /\ \A j \in 1..Len(v) : i < j => v[j] # "SwReset"
    <3>1. \A i \in 1..Len(u) : u[i] \in OffEvents =>
            w /\ \A j \in 1..Len(u) : i < j => u[j] # "SwReset"
      BY <1>4 DEF Off
    <3>. QED
      BY <1>6, <3>1 DEF Fatal
  <2>2. NoStage(h, k) /\ NoLeave(u) => NoStage("none", k) /\ NoLeave(v)
    BY <1>1, <1>3 DEF NoStage, NoLeave
  <2>3. \A i \in 1..Len(v) : v[i] = "SwReset" => i \in 1..Len(u) /\ u[i] = "SwReset"
    BY <1>6 DEF Fatal
  <2>. QED
    BY <1>4, <2>1, <2>2, <2>3 DEF Off
<1>11. Waiting(s, v, "none", k, l, t2)
  <2>1. t2 \in Waits => h \in NotActive
    BY <1>4 DEF Waiting
  <2>2. s \in NotActive => /\ t2 \in Waits => CaughtUp(s, "none", k, l)
                           /\ \A i \in 1..Len(k) : k[i] \in NotActive => k[i] = s /\ Behind(k, i)
                           /\ \A i \in 1..Len(v) : v[i] \notin Waits
    BY <1>3, <1>4, <1>5, <1>6, <2>1 DEF Waiting, CaughtUp, NotActive, Idle, Error
  <2>3. \A i, j \in 1..Len(v) : i < j /\ Leaves(v[i]) > 0 => v[j] \notin Waits
    BY <1>2, <1>4, <1>6 DEF Waiting
  <2>. QED
    BY <1>3, <1>5, <2>1, <2>2, <2>3 DEF Waiting
<1>. QED
  BY <1>7, <1>8, <1>9, <1>10, <1>11 DEF Flow

(* What the timer, nmtmnu and the application post leads out of no stage.  *)
LEMMA FlowPosted ==
  ASSUME NEW s, NEW u \in Seq(NmtEvents), NEW h, NEW k, NEW q, NEW l, NEW t, NEW w,
         Flow(s, u, h, k, q, l, t, w),
         NEW e \in NmtEvents, Leaves(e) = 0, e \in Waits => e = t,
         NEW v, v \in {u, Append(u, e)},
         NEW t2, t2 \in {t, "none"},
         NEW w2, w => w2, e \in OffEvents => w2, e = "SwReset" => ~w
  PROVE  Flow(s, v, h, k, q, l, t2, w2)
<1>1. /\ Len(u) \in Nat /\ Len(v) \in Nat
      /\ \A i \in 1..Len(v) : \/ i \in 1..Len(u) /\ v[i] = u[i]
                              \/ i = Len(u) + 1 /\ i = Len(v) /\ v[i] = e
  BY PostParts
<1>2. \A i, j \in 1..Len(v) : i < j => i \in 1..Len(u) /\ v[i] = u[i]
  BY <1>1
<1>3. "none" \notin Waits /\ NotActive \cap Stages = {}
  BY Heights DEF Waits
<1>4. /\ Ordered(s, u, h, k) /\ Matched(s, u, h, k, l) /\ InStages(u, h, k, l)
      /\ Off(s, u, h, k, q, w) /\ Waiting(s, u, h, k, l, t)
  BY DEF Flow
<1>5. \A i \in 1..Len(v) : Leaves(v[i]) > 0 => i \in 1..Len(u) /\ v[i] = u[i]
  BY <1>1
<1>. HIDE DEF Flow
<1>6. Ordered(s, v, h, k)
  <2>1. ASSUME NEW i \in 1..Len(v), Leaves(v[i]) > 0
        PROVE  /\ Leaves(v[i]) >= Height(s)
               /\ \A j \in 1..Len(v) : i < j => Leaves(v[j]) < Leaves(v[i])
               /\ Place(h) < Leaves(v[i])
               /\ \A j \in 1..Len(k) : Place(k[j]) < Leaves(v[i])
    <3>1. i \in 1..Len(u) /\ v[i] = u[i]
      BY <1>5, <2>1
    <3>2. /\ Leaves(u[i]) >= Height(s) /\ Place(h) < Leaves(u[i])
          /\ \A j \in 1..Len(k) : Place(k[j]) < Leaves(u[i])
          /\ \A j \in 1..Len(u) : i < j => Leaves(u[j]) < Leaves(u[i])
      BY <1>4, <2>1, <3>1 DEF Ordered
    <3>. QED
      BY <1>1, <2>1, <3>1, <3>2
  <2>2. /\ Place(h) > 0 => /\ Place(h) >= Height(s)
                           /\ \A j \in 1..Len(k) : Place(k[j]) < Place(h)
        /\ \A i \in 1..Len(k) : Place(k[i]) > 0 =>
             /\ Place(k[i]) >= Height(s)
             /\ Place(k[i]) = Height(s) => Behind(k, i)
             /\ \A j \in 1..Len(k) : i < j => Place(k[j]) < Place(k[i])
    BY <1>4 DEF Ordered
  <2>. QED
    BY <2>1, <2>2 DEF Ordered
<1>7. Matched(s, v, h, k, l)
  BY <1>4, <1>5 DEF Matched
<1>8. InStages(v, h, k, l)
  BY <1>4, <1>5 DEF InStages
<1>9. Off(s, v, h, k, q, w2)
  <2>1. \A i \in 1..Len(u) : u[i] \in OffEvents =>
          w /\ \A j \in 1..Len(u) : i < j => u[j] # "SwReset"
    BY <1>4 DEF Off
  <2>2. ASSUME NEW i \in 1..Len(v), v[i] \in OffEvents
        PROVE  w2 /\ \A j \in 1..Len(v) : i < j => v[j] # "SwReset"
    <3>1. CASE i \in 1..Len(u) /\ v[i] = u[i]
      BY <1>1, <2>1, <2>2, <3>1
    <3>2. CASE i = Len(u) + 1 /\ i = Len(v) /\ v[i] = e
      BY <1>1, <2>2, <3>2
    <3>. QED
      BY <1>1, <3>1, <3>2
  <2>3. NoLeave(u) => NoLeave(v)
    BY <1>1 DEF NoLeave
  <2>4. ASSUME s = "GsOff"
        PROVE  /\ ~w2 => NoStage(h, k) /\ NoLeave(v)
               /\ \A i \in 1..Len(v) : v[i] = "SwReset" => NoStage(h, k) /\ NoLeave(v)
               /\ q # <<>> => NoStage(h, k) /\ NoLeave(v)
    <3>1. /\ ~w => NoStage(h, k) /\ NoLeave(u)
          /\ \A i \in 1..Len(u) : u[i] = "SwReset" => NoStage(h, k) /\ NoLeave(u)
          /\ q # <<>> => NoStage(h, k) /\ NoLeave(u)
      BY <1>4, <2>4 DEF Off
    <3>2. \A i \in 1..Len(v) : v[i] = "SwReset" => ~w \/ (i \in 1..Len(u) /\ u[i] = "SwReset")
      BY <1>1
    <3>. QED
      BY <2>3, <3>1, <3>2
  <2>. QED
    BY <2>2, <2>4 DEF Off
<1>10. Waiting(s, v, h, k, l, t2)
  <2>1. /\ t \in Waits => l \in NotActive /\ h \in Idle
        /\ s \in NotActive /\ t \in Waits => CaughtUp(s, h, k, l)
    BY <1>4 DEF Waiting
  <2>2. /\ t2 \in Waits => t \in Waits
        /\ \A i \in 1..Len(v) : v[i] \in Waits => t \in Waits \/ (i \in 1..Len(u) /\ v[i] = u[i])
    BY <1>1, <1>3
  <2>3. s \in NotActive =>
          /\ t2 \in Waits => CaughtUp(s, h, k, l)
          /\ h \in NotActive => h = s /\ OnlyErrors(k)
          /\ \A i \in 1..Len(k) : k[i] \in NotActive => k[i] = s /\ Behind(k, i)
          /\ \A i \in 1..Len(v) : v[i] \in Waits => CaughtUp(s, h, k, l)
    BY <1>4, <2>1, <2>2 DEF Waiting
  <2>4. ASSUME NEW i \in 1..Len(v), NEW j \in 1..Len(v), i < j, Leaves(v[i]) > 0
        PROVE  v[j] \notin Waits
    <3>1. i \in 1..Len(u) /\ v[i] = u[i]
      BY <1>2, <2>4
    <3>2. l \in Stages /\ t \notin Waits
      BY <1>3, <1>4, <2>1, <2>4, <3>1 DEF InStages
    <3>3. v[j] \in Waits => j \in 1..Len(u) /\ v[j] = u[j]
      BY <2>2, <3>2
    <3>. QED
      BY <1>4, <2>4, <3>1, <3>3 DEF Waiting
  <2>. QED
    BY <2>1, <2>2, <2>3, <2>4 DEF Waiting
<1>. QED
  BY <1>6, <1>7, <1>8, <1>9, <1>10 DEF Flow

\* What the user part, its timer, nmtmnu and the application post.
LEMMA FollowUps ==
  ASSUME NEW s \in NmtStates
  PROVE  /\ \E e \in NmtEvents : /\ Leaves(e) = Place(s) /\ e \notin Waits \cup Fatal
                                 /\ FollowUp[s] \in {"none", e}
         /\ StartsTimer[s] \in Waits => s \in NotActive
<1>1. /\ {"EnterResetApp", "EnterResetCom", "EnterResetConfig", "EnterCsNotActive",
          "EnterMsNotActive", "EnterReadyToOperate", "TimerMsPreOp2"} \subseteq NmtEvents
      /\ {"EnterResetApp", "EnterResetCom", "EnterResetConfig", "EnterCsNotActive",
          "EnterMsNotActive", "EnterReadyToOperate", "TimerMsPreOp2"} \cap (Waits \cup Fatal) = {}
  BY DEF NmtEvents, UserEvents, Waits, Fatal, OffEvents
<1>2. /\ Leaves("EnterResetApp") = 1 /\ Leaves("EnterResetCom") = 2
      /\ Leaves("EnterResetConfig") = 3 /\ Leaves("EnterCsNotActive") = 4
      /\ Leaves("EnterMsNotActive") = 4 /\ Leaves("EnterReadyToOperate") = 0
      /\ Leaves("TimerMsPreOp2") = 0
  BY DEF Leaves
<1>3. StartsTimer[s] \in Waits => s \in NotActive
  BY DEF StartsTimer, Waits, NotActive
<1>4. CASE s = "GsInitialising"
  <2>1. Place(s) = 1 /\ FollowUp[s] = "EnterResetApp"
    BY <1>4 DEF Place, FollowUp
  <2>. QED
    BY <1>1, <1>2, <1>3, <2>1
<1>5. CASE s = "GsResetApplication"
  <2>1. Place(s) = 2 /\ FollowUp[s] = "EnterResetCom"
    BY <1>5 DEF Place, FollowUp
  <2>. QED
    BY <1>1, <1>2, <1>3, <2>1
<1>6. CASE s = "GsResetCommunication"
  <2>1. Place(s) = 3 /\ FollowUp[s] = "EnterResetConfig"
    BY <1>6 DEF Place, FollowUp
  <2>. QED
    BY <1>1, <1>2, <1>3, <2>1
<1>7. CASE s = "GsResetConfiguration"
  <2>1. Place(s) = 4 /\ FollowUp[s] \in {"EnterCsNotActive", "EnterMsNotActive", "none"}
    BY <1>7 DEF Place, FollowUp
  <2>. QED
    BY <1>1, <1>2, <1>3, <2>1
<1>8. CASE s \notin {"GsInitialising", "GsResetApplication", "GsResetCommunication",
                     "GsResetConfiguration"}
  <2>1. Place(s) = 0
    BY <1>8 DEF Place
  <2>2. FollowUp[s] \in {"EnterReadyToOperate", "TimerMsPreOp2", "none"}
    BY <1>8 DEF FollowUp
  <2>. QED
    BY <1>1, <1>2, <1>3, <2>1, <2>2
<1>. QED
  BY <1>4, <1>5, <1>6, <1>7, <1>8

LEMMA OtherPosts ==
  /\ \A e \in AppEvents : e \in NmtEvents /\ Leaves(e) = 0 /\ e \notin Waits
  /\ \A e \in {"TimerBasicEthernet", "TimerMsPreOp1", "TimerMsPreOp2"} :
       e \in NmtEvents /\ Leaves(e) = 0 /\ e \notin Fatal
  /\ \A s \in DOMAIN BootStepEvent : /\ BootStepEvent[s] \in NmtEvents
                                     /\ Leaves(BootStepEvent[s]) = 0
                                     /\ BootStepEvent[s] \notin Fatal \cup Waits
<1>1. \A e \in {"SwReset", "SwitchOff", "ResetNode", "ResetCom", "ResetConfig",
                "EnterReadyToOperate", "TimerBasicEthernet", "TimerMsPreOp1", "TimerMsPreOp2",
                "AllMandatoryCNIdent", "EnterMsOperational"} :
        e \in NmtEvents /\ Leaves(e) = 0 /\ e # "CriticalError"
  BY DEF NmtEvents, UserEvents, ResetStage, Leaves
<1>2. \A e \in AppEvents : e \notin Waits
  BY EventAssumption DEF Waits
<1>3. \A s \in DOMAIN BootStepEvent :
        BootStepEvent[s] \in {"AllMandatoryCNIdent", "EnterReadyToOperate", "EnterMsOperational"}
  BY DEF BootStepEvent
<1>. QED
  BY <1>1, <1>2, <1>3, EventAssumption DEF Waits, Fatal, OffEvents

LEMMA KernelFlow ==
  ASSUME KInv, KInv', FlowInv, KernelServesKInt \/ KernelServesU2K
  PROVE  FlowInv' /\ StageStep /\ WaitStep
<1>0. /\ nmt \in NmtkType /\ nmt' \in NmtkType /\ k2u \in Seq(Told)
      /\ u2k \in Seq(NmtEvents) /\ kint \in Seq(KIntEvents)
  BY DEF KInv, TypeOK, KernelInv, Told
<1>. DEFINE Now(u, q) == Flow(nmt.state, u, handling, k2u, q, local, timer, ending)
            Then(u)   == Flow(nmt'.state, u, handling, k2u', kint', local, timer, ending)
<1>1. Now(u2k, kint)
  BY DEF FlowInv
<1>2. CASE KernelServesKInt
  <2>1. /\ kint # <<>> /\ KernelHandle(Head(kint), Tail(kint))
        /\ UNCHANGED <<u2k, local, handling, timer, ending>>
    BY <1>2 DEF KernelServesKInt, user, env
  <2>2. Head(kint) \in KIntEvents
    BY <1>0, <2>1
  <2>3. Fits(nmt.state, Head(kint), u2k, handling, k2u, local, ending)
    <3>. HIDE DEF Flow, Fits, KIntEvents
    <3>. QED
      BY <1>1, <2>1, <2>2, KIntFits
  <2>4. Head(kint) \notin OffEvents
    BY <2>2 DEF KIntEvents, Frames, Commands, TimeSync, OffEvents
  <2>5. Then(u2k) /\ StageStep /\ WaitStep
    <3>. HIDE DEF Flow, Fits, StageStep, WaitStep
    <3>. QED
      BY <1>0, <1>1, <2>1, <2>3, <2>4, HandleFlow
  <2>. QED
    BY <2>1, <2>5 DEF FlowInv
<1>3. CASE KernelServesU2K
  <2>1. /\ picked /\ KernelHandle(Head(u2k), kint) /\ u2k' = Tail(u2k)
        /\ UNCHANGED <<local, handling, timer, ending>>
    BY <1>3 DEF KernelServesU2K, user, env
  <2>2. u2k # <<>> /\ (nmt.state \in Stages => kint = <<>>)
    BY <2>1 DEF KInv, TypeOK, KernelInv
  <2>3. Fits(nmt.state, Head(u2k), Tail(u2k), handling, k2u, local, ending)
    <3>. HIDE DEF Flow, Fits
    <3>. QED
      BY <1>0, <1>1, <2>2, HeadFits
  <2>4. Now(Tail(u2k), kint)
    <3>. HIDE DEF Flow
    <3>. QED
      BY <1>0, <1>1, <2>2, FlowServed
  <2>5. Then(Tail(u2k)) /\ StageStep /\ WaitStep
    <3>. HIDE DEF Flow, Fits, StageStep, WaitStep
    <3>. QED
      BY <1>0, <2>1, <2>2, <2>3, <2>4, HandleFlow
  <2>. QED
    BY <2>1, <2>5 DEF FlowInv
<1>. QED
  BY <1>2, <1>3

LEMMA OtherFlow ==
  ASSUME KInv, FlowInv,
         \/ KernelPicksU2K \/ KernelReports
         \/ UserTakes \/ UserTakesError \/ UserAnswersError \/ UserPosts
         \/ TimerFires \/ BootStepEnds
         \/ \E e \in RxEvents : Receive(e)
         \/ \E e \in AppEvents : AppPosts(e)
         \/ UNCHANGED vars
  PROVE  FlowInv' /\ UNCHANGED nmt
<1>0. /\ u2k \in Seq(NmtEvents) /\ k2u \in Seq(Told) /\ ending \in BOOLEAN
      /\ timer \in {"none", "TimerBasicEthernet", "TimerMsPreOp1", "TimerMsPreOp2"}
  BY DEF KInv, TypeOK, Told
<1>1. Flow(nmt.state, u2k, handling, k2u, kint, local, timer, ending)
  BY DEF FlowInv
<1>i. "none" \in Idle /\ Error \in Idle /\ Idle \cap NmtStates = {}
  BY ErrorIsNoState DEF Idle
<1>. DEFINE Same == UNCHANGED <<nmt, u2k, handling, k2u, kint, local, timer, ending>>
<1>2. CASE Same
  BY <1>1, <1>2 DEF FlowInv
<1>3. CASE KernelPicksU2K
  BY <1>2, <1>3 DEF KernelPicksU2K, nmtk, user, env
<1>11. CASE KernelReports
  <2>1. /\ k2u' = Post(k2u, Error)
        /\ UNCHANGED <<nmt, u2k, handling, kint, local, timer, ending>>
    BY <1>11 DEF KernelReports, nmtk, user, env
  <2>2. k2u' \in {k2u, Append(k2u, Error)}
    BY <2>1, PostCases
  <2>3. Flow(nmt.state, u2k, handling, k2u', kint, local, timer, ending)
    <3>. HIDE DEF Flow
    <3>. QED
      BY <1>0, <1>1, <2>2, FlowReported
  <2>. QED
    BY <2>1, <2>3 DEF FlowInv
<1>4. CASE UserTakes
  <2>1. /\ handling = "none" /\ k2u # <<>> /\ Head(k2u) # Error /\ timer' = "none"
        /\ local' = Head(k2u) /\ k2u' = Tail(k2u) /\ handling' \in {Head(k2u), "none"}
        /\ UNCHANGED <<nmt, u2k, kint, ending>>
    BY <1>4 DEF UserTakes, nmtk, env
  <2>2. Flow(nmt.state, u2k, "none", k2u, kint, local, timer, ending)
    BY <1>1, <2>1
  <2>3. Flow(nmt.state, u2k, handling', Tail(k2u), kint, Head(k2u), "none", ending)
    <3>. HIDE DEF Flow
    <3>. QED
      BY <1>0, <2>1, <2>2, FlowTaken
  <2>. QED
    BY <2>1, <2>3 DEF FlowInv
<1>12. CASE UserTakesError
  <2>1. /\ handling = "none" /\ handling' = Error
        /\ \/ k2u # <<>> /\ Head(k2u) = Error /\ k2u' = Tail(k2u)
           \/ k2u' = k2u
        /\ UNCHANGED <<nmt, u2k, kint, local, timer, ending>>
    BY <1>12 DEF UserTakesError, nmtk, env
  <2>2. Flow(nmt.state, u2k, Error, k2u, kint, local, timer, ending)
    <3>. HIDE DEF Flow
    <3>. QED
      BY <1>1, <1>i, <2>1, FlowErrorHandled
  <2>3. Flow(nmt.state, u2k, Error, k2u', kint, local, timer, ending)
    <3>. HIDE DEF Flow
    <3>. QED
      BY <1>0, <2>1, <2>2, FlowErrorTaken
  <2>. QED
    BY <2>1, <2>3 DEF FlowInv
<1>13. CASE UserAnswersError
  <2>1. /\ handling = Error /\ handling' = "none" /\ u2k' = Post(u2k, "CriticalError")
        /\ ending' = TRUE
        /\ UNCHANGED <<nmt, k2u, kint, local, timer>>
    BY <1>13 DEF UserAnswersError, nmtk
  <2>2. Flow(nmt.state, u2k, "none", k2u, kint, local, timer, ending)
    <3>. HIDE DEF Flow
    <3>. QED
      BY <1>1, <1>i, <2>1, FlowErrorHandled
  <2>. DEFINE e == "CriticalError"
  <2>3. /\ e \in NmtEvents /\ Leaves(e) = 0 /\ e \notin Waits /\ e # "SwReset"
    BY Heights DEF NmtEvents, ResetStage, Waits, Fatal, OffEvents
  <2>4. u2k' \in {u2k, Append(u2k, e)}
    BY <2>1, PostCases
  <2>a. /\ ending => ending'
        /\ e \in OffEvents => ending'
        /\ timer \in {timer, "none"}
    BY <2>1
  <2>5. Flow(nmt.state, u2k', "none", k2u, kint, local, timer, ending')
    <3>. HIDE DEF Flow, e
    <3>. QED
      BY <1>0, <2>2, <2>3, <2>4, <2>a, FlowPosted
  <2>. QED
    BY <2>1, <2>5 DEF FlowInv
<1>5. CASE UserPosts
  <2>1. /\ handling \in NmtStates /\ handling' = "none"
        /\ timer' = IF StartsTimer[handling] = "none" THEN timer ELSE StartsTimer[handling]
        /\ u2k' = IF FollowUp[handling] = "none" THEN u2k ELSE Post(u2k, FollowUp[handling])
        /\ UNCHANGED <<nmt, k2u, kint, local, ending>>
    BY <1>5 DEF UserPosts, nmtk, env
  <2>2. PICK e \in NmtEvents : /\ Leaves(e) = Place(handling) /\ e \notin Waits \cup Fatal
                               /\ FollowUp[handling] \in {"none", e}
    BY <2>1, FollowUps
  <2>3. u2k' \in {u2k, Append(u2k, e)}
    BY <2>1, <2>2, PostCases
  <2>4. timer' \in Waits => timer' = timer \/ handling \in NotActive
    BY <2>1, FollowUps
  <2>5. handling \notin Idle
    BY <1>i, <2>1
  <2>6. Flow(nmt.state, u2k', "none", k2u, kint, local, timer', ending)
    <3>. HIDE DEF Flow
    <3>. QED
      BY <1>0, <1>1, <2>1, <2>2, <2>3, <2>4, <2>5, FlowFollowedUp
  <2>. QED
    BY <2>1, <2>6 DEF FlowInv
<1>6. CASE TimerFires
  <2>1. /\ timer # "none" /\ timer' = "none" /\ u2k' = Post(u2k, timer)
        /\ UNCHANGED <<nmt, handling, k2u, kint, local, ending>>
    BY <1>6 DEF TimerFires, nmtk, env
  <2>2. timer \in NmtEvents /\ Leaves(timer) = 0 /\ timer \notin OffEvents /\ timer # "SwReset"
    BY <1>0, <2>1, OtherPosts DEF Fatal
  <2>3. u2k' \in {u2k, Append(u2k, timer)} /\ timer' \in {timer, "none"}
    BY <2>1, PostCases
  <2>4. Flow(nmt.state, u2k', handling, k2u, kint, local, timer', ending)
    <3>. HIDE DEF Flow
    <3>. QED
      BY <1>0, <1>1, <2>2, <2>3, FlowPosted
  <2>. QED
    BY <2>1, <2>4 DEF FlowInv
<1>7. CASE BootStepEnds
  <2>1. /\ local \in DOMAIN BootStepEvent /\ u2k' = Post(u2k, BootStepEvent[local])
        /\ UNCHANGED <<nmt, handling, k2u, kint, local, timer, ending>>
    BY <1>7 DEF BootStepEnds, nmtk, env
  <2>. DEFINE e == BootStepEvent[local]
  <2>2. e \in NmtEvents /\ Leaves(e) = 0 /\ e \notin Waits /\ e \notin OffEvents /\ e # "SwReset"
    BY <2>1, OtherPosts DEF Fatal
  <2>3. u2k' \in {u2k, Append(u2k, e)}
    BY <2>1, PostCases
  <2>4. Flow(nmt.state, u2k', handling, k2u, kint, local, timer, ending)
    <3>. HIDE DEF Flow, e
    <3>. QED
      BY <1>0, <1>1, <2>2, <2>3, FlowPosted
  <2>. QED
    BY <2>1, <2>4 DEF FlowInv
<1>8. ASSUME NEW e \in RxEvents, Receive(e) PROVE FlowInv' /\ UNCHANGED nmt
  <2>1. /\ dllNmt \notin Stages /\ k2u' \in {k2u, Post(k2u, Error)}
        /\ UNCHANGED <<nmt, u2k, handling, local, timer, ending>>
    BY <1>8 DEF Receive, nmtk, user
  <2>2. nmt.state # "GsOff"
    BY <2>1 DEF KInv, KernelInv, Stages, Stage
  <2>3. Flow(nmt.state, u2k, handling, k2u, kint', local, timer, ending)
    BY <1>1, <2>2 DEF Flow, Off
  <2>4. k2u' \in {k2u, Append(k2u, Error)}
    BY <2>1, PostCases
  <2>5. Flow(nmt.state, u2k, handling, k2u', kint', local, timer, ending)
    <3>. HIDE DEF Flow
    <3>. QED
      BY <1>0, <2>3, <2>4, FlowReported
  <2>. QED
    BY <2>1, <2>5 DEF FlowInv
<1>9. ASSUME NEW e \in AppEvents, AppPosts(e) PROVE FlowInv' /\ UNCHANGED nmt
  <2>1. /\ e = "SwReset" => ~ending
        /\ ending' = (ending \/ e = "SwitchOff") /\ u2k' = Post(u2k, e)
        /\ UNCHANGED <<nmt, handling, k2u, kint, local, timer>>
    BY <1>9 DEF AppPosts, nmtk, user
  <2>2. e \in NmtEvents /\ Leaves(e) = 0 /\ e \notin Waits
    BY OtherPosts, Zenon
  <2>o. e \in OffEvents => e = "SwitchOff"
    BY EventAssumption DEF OffEvents
  <2>3. u2k' \in {u2k, Append(u2k, e)}
    BY <2>1, PostCases
  <2>a. /\ ending => ending'
        /\ e \in OffEvents => ending'
        /\ e \in Waits => e = timer
        /\ timer \in {timer, "none"}
    BY <2>1, <2>2, <2>o
  <2>4. Flow(nmt.state, u2k', handling, k2u, kint, local, timer, ending')
    <3>. HIDE DEF Flow
    <3>. QED
      BY <1>0, <1>1, <2>1, <2>2, <2>3, <2>a, FlowPosted
  <2>. QED
    BY <2>1, <2>4 DEF FlowInv
<1>10. CASE UNCHANGED vars
  BY <1>2, <1>10 DEF vars
<1>. QED
  BY <1>3, <1>4, <1>5, <1>6, <1>7, <1>8, <1>9, <1>10, <1>11, <1>12, <1>13

LEMMA FlowStep ==
  ASSUME KInv, KInv', FlowInv, [Next]_vars
  PROVE  FlowInv' /\ StageStep /\ WaitStep
<1>1. CASE KernelServesKInt \/ KernelServesU2K
  BY <1>1, KernelFlow
<1>2. CASE ~(KernelServesKInt \/ KernelServesU2K)
  <2>1. FlowInv' /\ UNCHANGED nmt
    BY <1>2, OtherFlow DEF Next
  <2>2. NotActive \cap Onward = {}
    BY DEF NotActive, Onward
  <2>. QED
    BY <2>1, <2>2 DEF StageStep, WaitStep
<1>. QED
  BY <1>1, <1>2

(* The invariant behind the two theorems below, for every size of the      *)
(* queues and whatever is posted, lost or delayed.                         *)
THEOREM SpecFlowInv == Spec => []FlowInv
<1>1. Init => FlowInv
  <2>. SUFFICES ASSUME Init PROVE FlowInv
    OBVIOUS
  <2>1. /\ nmt.state = "GsOff" /\ kint = <<>> /\ u2k = <<"SwReset">> /\ k2u = <<>>
        /\ handling = "none" /\ timer = "none" /\ local = "GsOff"
    BY DEF Init, NmtkInit
  <2>2. Len(u2k) = 1 /\ u2k[1] = "SwReset" /\ Len(k2u) = 0 /\ 1..0 = {}
    BY <2>1
  <2>3. /\ Leaves("SwReset") = 0 /\ Place("none") = 0 /\ "none" \notin NotActive
        /\ "SwReset" \notin Waits \cup OffEvents /\ "none" \notin Waits /\ "GsOff" \notin NotActive
        /\ "none" \in Idle
    BY Heights DEF Waits, NotActive, Idle, Fatal, OffEvents
  <2>4. \A i \in 1..Len(u2k) : i = 1
    BY <2>2
  <2>5. Ordered(nmt.state, u2k, handling, k2u)
    BY <2>1, <2>2, <2>3, <2>4 DEF Ordered
  <2>6. Matched(nmt.state, u2k, handling, k2u, local)
    BY <2>1, <2>2, <2>3, <2>4 DEF Matched
  <2>7. InStages(u2k, handling, k2u, local)
    BY <2>1, <2>2, <2>3, <2>4 DEF InStages
  <2>8. Off(nmt.state, u2k, handling, k2u, kint, ending)
    BY <2>1, <2>2, <2>3, <2>4 DEF Off, NoStage, NoLeave
  <2>9. Waiting(nmt.state, u2k, handling, k2u, local, timer)
    BY <2>1, <2>2, <2>3, <2>4 DEF Waiting
  <2>. QED
    BY <2>5, <2>6, <2>7, <2>8, <2>9 DEF FlowInv, Flow
<1>2. KInv /\ KInv' /\ FlowInv /\ [Next]_vars => FlowInv'
  BY FlowStep
<1>. QED
  BY <1>1, <1>2, SpecKInv, PTL DEF Spec

(* Each stage of the initialisation is left forward only when the user     *)
(* part has finished its work for this very visit of the stage.            *)
THEOREM SpecStageByStage == Spec => StageByStage
<1>1. KInv /\ KInv' /\ FlowInv /\ [Next]_vars => StageStep
  BY FlowStep
<1>2. [][StageStep]_vars => StageByStage
  <2>1. StageStep <=> (Forward /\ nmt'.state # nmt.state => UserCaughtUp)
    BY DEF StageStep
  <2>. QED
    BY <2>1, PTL DEF StageByStage
<1>. QED
  BY <1>1, <1>2, SpecKInv, SpecFlowInv, PTL DEF Spec

(* NotActive is left for Basic Ethernet or PreOp1 of the MN only when the  *)
(* timer started in this very visit has run out.                           *)
THEOREM SpecWaitsInNotActive == Spec => WaitsInNotActive
<1>1. KInv /\ KInv' /\ FlowInv /\ [Next]_vars => WaitStep
  BY FlowStep
<1>2. [][WaitStep]_vars => WaitsInNotActive
  <2>1. WaitStep <=>
          (nmt.state \in {"CsNotActive", "MsNotActive"}
             /\ nmt'.state \in {"CsBasicEthernet", "MsBasicEthernet", "MsPreOp1"}
           => UserCaughtUp)
    BY DEF WaitStep, NotActive, Onward
  <2>. QED
    BY <2>1, PTL DEF WaitsInNotActive
<1>. QED
  BY <1>1, <1>2, SpecKInv, SpecFlowInv, PTL DEF Spec
=============================================================================
