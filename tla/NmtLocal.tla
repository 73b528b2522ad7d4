------------------------------ MODULE NmtLocal ------------------------------
(***************************************************************************)
(* Network management inside one node: the kernel state machine (NmtK),    *)
(* its copy in the data link layer, and the user part nmtu.c that drives   *)
(* the initialisation from the other side of three event queues:           *)
(*   kint  kernel internal events, filled by received frames, the error    *)
(*         handler and the DLL itself; served before                       *)
(*   u2k   events of the user part, its timer and the application;         *)
(*   k2u   state changes on their way to the user part.                    *)
(*   uint  error events the user part posts to itself, served last.        *)
(* The queues are ring buffers of limited size: an event posted to a full  *)
(* one is lost.  When a handler of the kernel or of the user part fails    *)
(* for that, its event loop posts an error event, if there is room for it, *)
(* and the user part answers an error event with CriticalError, which      *)
(* switches the node off, if there is room for that.                       *)
(*                                                                         *)
(* The kernel event thread, the user event thread, the timer thread, the   *)
(* receive handler and the application interleave freely.  A kernel        *)
(* handler is one step, and so is the receive handler: both run at         *)
(* interrupt or real-time priority and are not delayed while user and      *)
(* kernel threads exchange several events.                                 *)
(***************************************************************************)
EXTENDS NmtK

CONSTANTS IsMn,        \* the node id is 240: this node shall be MN
          BasicTime,   \* 0x1F99 # 0, or bit 13 of 0x1F80: Basic Ethernet enabled
          WaitPreOp1,  \* 0x1F89/3 # 0: the MN stays in PreOp1 for some time
          QueueSize,   \* events a queue holds
          RxEvents,    \* what frames and the error handler post
          AppEvents,   \* what the application posts
          Refuses,     \* states for which the state change callback fails or rejects
          MaxRx,       \* bound: events posted by frames and errors
          MaxApp       \* bound: events posted by the application

ASSUME RoleAssumption == /\ IsMn \in BOOLEAN /\ BasicTime \in BOOLEAN
                         /\ WaitPreOp1 \in BOOLEAN
ASSUME QueueAssumption == QueueSize \in Nat \ {0}
\* What switches the node off comes from the user part: the application's SwitchOff, and
\* CriticalError, which the user part posts for an error event.
ASSUME EventAssumption ==
  /\ RxEvents \subseteq Frames \cup Commands \cup {"NmtCycleError"}
                          \cup (DOMAIN ResetStage \ {"SwitchOff", "CriticalError"})
  /\ AppEvents \subseteq {"SwReset", "SwitchOff", "ResetNode", "ResetCom", "ResetConfig",
                          "EnterReadyToOperate"}
  /\ Refuses \subseteq NmtStates
ASSUME BoundAssumption == MaxRx \in Nat /\ MaxApp \in Nat

VARIABLES
  nmt,       \* nmtkInstance_l
  dllNmt,    \* dllkInstance_g.nmtState
  kint, u2k, k2u,
  uint,      \* number of error events in the user part's queue to itself
  failed,    \* the kernel thread's event has failed and is yet to be reported
  picked,    \* the kernel thread found kint empty and is about to serve u2k
  local,     \* nmtuInstance_g.localNmtState
  handling,  \* the state change or the error the user thread is working on, or "none"
  timer,     \* the event nmtu's timer will post, or "none"
  informed,  \* NMTMNU_FLAG_APP_INFORMED
  ending,    \* the application has asked for SwitchOff or was told of a critical error
  rx, app,   \* how much of the bounds is used
  visit,     \* history: transition conditions met since nmt.state was entered
  before     \* history: the same for the state visited before
vars == <<nmt, dllNmt, kint, u2k, k2u, uint, failed, picked, local, handling, timer,
          informed, ending, rx, app, visit, before>>
nmtk   == <<nmt, dllNmt, visit, before>>
thread == <<failed, picked>>
user   == <<local, handling, timer, informed, uint>>
env    == <<ending, rx, app>>

\* The events whose arrival the history records.
Conditions == {"EnterReadyToOperate", "EnableReadyToOperate",
               "AllMandatoryCNIdent", "TimerMsPreOp2"}
TimeSync == "TimesynckControl"   \* goes to the time synchronisation, not to nmtk
Error    == "Error"              \* an error event, for processUserEvent

\* (a slip: the size of the queue is not checked)
PostUnbounded(q, e) == Append(q, e)
HasRoom(q) == Len(q) < QueueSize
Post(q, e) == IF HasRoom(q) THEN Append(q, e) ELSE q
\* An error event of the user part to itself, unless all is well.
ErrorUnless(ok) == uint' = IF ok \/ uint = QueueSize THEN uint ELSE uint + 1

(***************************************************************************)
(* The kernel event thread.  nmtk_process lets the DLL follow the state    *)
(* change before it tells the user part.  Entering PreOp1 or               *)
(* ReadyToOperate the DLL posts to kint; when that fails it keeps its old  *)
(* state and the user part is not told.  Either failure is reported by an  *)
(* error event, before the thread takes the next event.                    *)
(***************************************************************************)
ControlsTimeSync == {"CsPreOp1", "CsReadyToOperate", "MsPreOp1", "MsReadyToOperate"}
DllFollows(s, q) == s \in ControlsTimeSync => HasRoom(q)

\* (a slip: a reset during the initialisation is not reported)
KernelHandleQuietReset(e, q) ==
  LET n == IF e = TimeSync THEN nmt ELSE NmtkProcess(nmt, e)
      reset == /\ {n.state, nmt.state} \subseteq Stages
               /\ Stage[n.state] < Stage[nmt.state]
  IN  /\ nmt' = n /\ UNCHANGED <<visit, before, failed>>
      /\ kint' = IF n.state \in ControlsTimeSync THEN Post(q, TimeSync) ELSE q
      /\ dllNmt' = n.state
      /\ k2u' = IF n.state = nmt.state \/ reset THEN k2u ELSE Post(k2u, n.state)

KernelHandle(e, q) ==
  LET n == IF e = TimeSync THEN nmt ELSE NmtkProcess(nmt, e)
      seen == visit \cup ({e} \cap Conditions)
      follows == DllFollows(n.state, q)
  IN  /\ nmt' = n
      /\ IF n.state = nmt.state
         THEN kint' = q /\ visit' = seen /\ UNCHANGED <<dllNmt, k2u, before, failed>>
         ELSE /\ visit' = {} /\ before' = seen
              /\ kint' = IF n.state \in ControlsTimeSync THEN Post(q, TimeSync) ELSE q
              /\ dllNmt' = IF follows THEN n.state ELSE dllNmt
              /\ k2u' = IF follows THEN Post(k2u, n.state) ELSE k2u
              /\ failed' = ~(follows /\ HasRoom(k2u))

\* Kernel internal events first; only when there are none, one from u2k.
KernelServesKInt ==
  /\ ~picked /\ ~failed /\ kint # <<>>
  /\ KernelHandle(Head(kint), Tail(kint))
  /\ UNCHANGED <<u2k, picked, user, env>>

\* (a slip: events of the user part do not wait)
KernelPicksU2KAnyTime ==
  /\ ~picked /\ ~failed /\ u2k # <<>>
  /\ picked' = TRUE
  /\ UNCHANGED <<nmtk, failed, k2u, kint, u2k, user, env>>

KernelPicksU2K ==
  /\ ~picked /\ ~failed /\ kint = <<>> /\ u2k # <<>>
  /\ picked' = TRUE
  /\ UNCHANGED <<nmtk, failed, k2u, kint, u2k, user, env>>

KernelServesU2K ==
  /\ picked
  /\ picked' = FALSE
  /\ KernelHandle(Head(u2k), kint)
  /\ u2k' = Tail(u2k)
  /\ UNCHANGED <<user, env>>

\* eventk_process: whether the error event is lost too is not looked at.
KernelReports ==
  /\ failed /\ failed' = FALSE
  /\ k2u' = Post(k2u, Error)
  /\ UNCHANGED <<nmtk, picked, kint, u2k, user, env>>

(***************************************************************************)
(* The user event thread: nmtu_processEvent.  Callback first, then the     *)
(* follow-up of the state.  A callback that rejects suppresses the         *)
(* follow-up; so does one that fails, which is an error besides.           *)
(***************************************************************************)
\* (a slip: the timer of the old state goes on)
UserTakesKeepsTimer ==
  /\ handling = "none" /\ k2u # <<>> /\ Head(k2u) # Error
  /\ local' = Head(k2u) /\ k2u' = Tail(k2u) /\ handling' = Head(k2u)
  /\ UNCHANGED <<nmtk, thread, kint, u2k, uint, env, timer, informed>>

UserTakes ==
  /\ handling = "none" /\ k2u # <<>> /\ Head(k2u) # Error
  /\ timer' = "none"
  /\ local' = Head(k2u) /\ k2u' = Tail(k2u)
  /\ informed' = (informed /\ Head(k2u) \notin {"MsPreOp1", "MsPreOp2", "MsReadyToOperate"})
  /\ \/ handling' = Head(k2u) /\ uint' = uint
     \/ /\ handling' = "none" /\ Head(k2u) \in Refuses
        /\ \E rejects \in BOOLEAN : ErrorUnless(rejects)
  /\ UNCHANGED <<nmtk, thread, kint, u2k, env>>

\* processUserEvent of an error event, of the kernel (first) or of the user part itself.
UserTakesError ==
  /\ handling = "none" /\ handling' = Error
  /\ \/ k2u # <<>> /\ Head(k2u) = Error /\ k2u' = Tail(k2u) /\ uint' = uint
     \/ k2u = <<>> /\ uint > 0 /\ uint' = uint - 1 /\ k2u' = k2u
  /\ UNCHANGED <<nmtk, thread, kint, u2k, local, timer, informed, env>>

UserAnswersError ==
  /\ handling = Error /\ handling' = "none"
  /\ u2k' = Post(u2k, "CriticalError")
  /\ ending' = TRUE
  /\ UNCHANGED <<nmtk, thread, k2u, kint, uint, local, timer, informed, rx, app>>

\* What processGeneralStateChange and the CN and MN functions post ...
FollowUp ==
  [s \in NmtStates |->
     CASE s = "GsInitialising"       -> "EnterResetApp"
       [] s = "GsResetApplication"   -> "EnterResetCom"
       [] s = "GsResetCommunication" -> "EnterResetConfig"
       [] s = "GsResetConfiguration" /\ ~IsMn -> "EnterCsNotActive"
       [] s = "GsResetConfiguration" /\ IsMn /\ MnBuild -> "EnterMsNotActive"
       [] s = "CsPreOp2"             -> "EnterReadyToOperate"
       [] s = "MsPreOp1" /\ ~WaitPreOp1 -> "TimerMsPreOp2"
       [] OTHER -> "none"]
\* ... and the timer they start.
StartsTimer ==
  [s \in NmtStates |->
     CASE s = "CsNotActive" /\ BasicTime  -> "TimerBasicEthernet"
       [] s = "MsNotActive" /\ BasicTime  -> "TimerBasicEthernet"
       [] s = "MsNotActive" /\ ~BasicTime -> "TimerMsPreOp1"
       [] s = "MsPreOp1" /\ WaitPreOp1    -> "TimerMsPreOp2"
       [] OTHER -> "none"]

UserPosts ==
  /\ handling \in NmtStates
  /\ handling' = "none"
  /\ timer' = IF StartsTimer[handling] = "none" THEN timer ELSE StartsTimer[handling]
  /\ IF FollowUp[handling] = "none"
     THEN UNCHANGED <<u2k, uint>>
     ELSE u2k' = Post(u2k, FollowUp[handling]) /\ ErrorUnless(HasRoom(u2k))
  /\ UNCHANGED <<nmtk, thread, k2u, kint, local, informed, env>>

\* The timer thread posts to the same queue; it does not wait for a handler, and a timer
\* event that finds no room is lost without an error.
TimerFires ==
  /\ timer # "none"
  /\ timer' = "none" /\ u2k' = Post(u2k, timer)
  /\ UNCHANGED <<nmtk, thread, k2u, kint, local, handling, informed, uint, env>>

\* nmtmnu reports the end of a boot step once, by the state the user part knows.
BootStepEvent == [MsPreOp1 |-> "AllMandatoryCNIdent", MsPreOp2 |-> "EnterReadyToOperate",
                  MsReadyToOperate |-> "EnterMsOperational"]
BootStepEnds ==
  /\ handling = "none" /\ local \in DOMAIN BootStepEvent /\ ~informed
  /\ informed' = TRUE /\ u2k' = Post(u2k, BootStepEvent[local])
  /\ ErrorUnless(HasRoom(u2k))
  /\ UNCHANGED <<nmtk, thread, k2u, kint, local, handling, timer, env>>

\* The environment.  Nothing is received while the DLL is in initialisation.  A frame
\* whose event finds no room makes the receive handler post an error event; for what the
\* error handler posts, that depends on which of its own events found no room.
SilentlyLost == {"NmtCycleError", "InternComError"}
Receive(e) ==
  /\ rx < MaxRx /\ dllNmt \notin Stages
  /\ kint' = Post(kint, e) /\ rx' = rx + 1
  /\ \/ k2u' = k2u /\ (HasRoom(kint) \/ e \in SilentlyLost)
     \/ k2u' = Post(k2u, Error) /\ ~HasRoom(kint)
  /\ UNCHANGED <<nmtk, thread, u2k, user, ending, app>>

\* The application gets the result of a post that fails, no error event.  It does not start
\* the node again once it has asked for SwitchOff or was told of a critical error: the
\* programs ask for SwReset when they begin, and end when they are told GsOff.
AppPosts(e) ==
  /\ app < MaxApp
  /\ e = "SwReset" => ~ending
  /\ ending' = (ending \/ e = "SwitchOff")
  /\ e = "EnterReadyToOperate" => local \in {"CsPreOp2", "MsPreOp2"} /\ local \in Refuses
  /\ u2k' = Post(u2k, e) /\ app' = app + 1
  /\ UNCHANGED <<nmtk, thread, k2u, kint, user, rx>>

Init ==
  /\ nmt = NmtkInit /\ dllNmt = "GsOff" /\ local = "GsOff"
  /\ kint = <<>> /\ u2k = <<"SwReset">> /\ k2u = <<>>
  /\ uint = 0 /\ failed = FALSE /\ picked = FALSE
  /\ handling = "none" /\ timer = "none" /\ informed = FALSE
  /\ ending = FALSE /\ rx = 0 /\ app = 0 /\ visit = {} /\ before = {}

Kernel == KernelServesKInt \/ KernelPicksU2K \/ KernelServesU2K \/ KernelReports
User   == UserTakes \/ UserTakesError \/ UserAnswersError \/ UserPosts
Next ==
  \/ KernelServesKInt \/ KernelPicksU2K \/ KernelServesU2K \/ KernelReports
  \/ UserTakes \/ UserTakesError \/ UserAnswersError \/ UserPosts
  \/ TimerFires \/ BootStepEnds
  \/ \E e \in RxEvents : Receive(e)
  \/ \E e \in AppEvents : AppPosts(e)

Spec == Init /\ [][Next]_vars
FairSpec == Spec /\ WF_vars(Kernel) /\ WF_vars(User) /\ WF_vars(TimerFires)

-----------------------------------------------------------------------------
TypeOK ==
  /\ nmt \in NmtkType /\ dllNmt \in NmtStates /\ local \in NmtStates
  /\ kint \in Seq(NmtEvents \cup {TimeSync}) /\ Len(kint) <= QueueSize
  /\ u2k \in Seq(NmtEvents) /\ Len(u2k) <= QueueSize
  /\ k2u \in Seq(NmtStates \cup {Error}) /\ Len(k2u) <= QueueSize
  /\ uint \in 0..QueueSize
  /\ {picked, failed, informed, ending} \subseteq BOOLEAN
  /\ (picked => u2k # <<>>) /\ ~(picked /\ failed)
  /\ handling \in NmtStates \cup {"none", Error}
  /\ timer \in {"none", "TimerBasicEthernet", "TimerMsPreOp1", "TimerMsPreOp2"}
  /\ rx \in 0..MaxRx /\ app \in 0..MaxApp
  /\ visit \subseteq Conditions /\ before \subseteq Conditions

(* Each stage of the initialisation is left forward only when the user     *)
(* part has finished its work for this very visit of the stage: no         *)
(* follow-up event of an earlier visit, delayed in u2k behind a reset,     *)
(* takes the kernel further.                                               *)
UserCaughtUp == /\ local = nmt.state /\ handling \in {"none", Error}
                /\ \A i \in DOMAIN k2u : k2u[i] = Error
Forward == /\ nmt.state \in Stages \ {"GsOff"}
           /\ nmt'.state \in Stages => Stage[nmt'.state] > Stage[nmt.state]
StageByStage == [][Forward /\ nmt'.state # nmt.state => UserCaughtUp]_vars

(* A timer of an earlier visit of NotActive does not put the node into     *)
(* Basic Ethernet or make it MN: the wait for frames is never cut short.   *)
WaitsInNotActive ==
  [][nmt.state \in {"CsNotActive", "MsNotActive"}
       /\ nmt'.state \in {"CsBasicEthernet", "MsBasicEthernet", "MsPreOp1"}
     => UserCaughtUp]_vars

(* A frame or an error from before a reset has no effect after it: when    *)
(* the kernel goes back on the network, the queue of kernel events is      *)
(* empty.                                                                  *)
NoStaleFrames ==
  [][nmt.state \in Stages /\ nmt'.state \notin Stages => kint' = <<>>]_vars

(* NMT_CT5/CT6: a CN becomes ReadyToOperate only when since it entered     *)
(* PreOp2 an event of the application and one of the MN have both reached  *)
(* the kernel: the flag one of them has set in an earlier visit does not   *)
(* count.  When the events were posted it does not say: next property.     *)
ReadyNeedsBoth ==
  [][nmt.state = "CsPreOp2" /\ nmt'.state = "CsReadyToOperate"
     => {"EnterReadyToOperate", "EnableReadyToOperate"} \subseteq before']_vars

(* The user part has agreed to this very visit of PreOp2.  The code does   *)
(* not keep it: an EnterReadyToOperate that waits in u2k while frames take *)
(* the kernel out of PreOp2 and back counts in the new visit (README,      *)
(* section 7); no run asks for it.                                         *)
ReadyIsMeant ==
  [][nmt.state = "CsPreOp2" /\ nmt'.state = "CsReadyToOperate" => UserCaughtUp]_vars

(* ReadyNeedsBoth for the MN, as the comments at nmt.h:191 and nmtk.c:1375 put   *)
(* it: PreOp2 is entered when in this visit of PreOp1 the residence time   *)
(* has elapsed and all mandatory CNs have been identified.  The code does  *)
(* not keep it (README, section 7): no run asks for it.                    *)
PreOp2NeedsBoth ==
  [][nmt.state = "MsPreOp1" /\ nmt'.state = "MsPreOp2"
     => {"AllMandatoryCNIdent", "TimerMsPreOp2"} \subseteq before']_vars

(* When no event is lost, every initialisation comes to its end: the node  *)
(* is switched off or goes on the network.                                 *)
Initialising == nmt.state \in Stages \ {"GsOff"}
Boots == Initialising ~> ~Initialising

(* And the user part learns of every change in the end.                    *)
UserCatchesUp == <>[](local = nmt.state /\ dllNmt = nmt.state)
=============================================================================
