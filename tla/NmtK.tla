-------------------------------- MODULE NmtK --------------------------------
(***************************************************************************)
(* The NMT state machine of the kernel part, stack/src/kernel/nmt/nmtk.c,  *)
(* in a build with or without MN support and without redundancy.  A pure   *)
(* description: NmtkProcess(n, e) is what nmtkInstance_l becomes when the  *)
(* state n gets the event e.                                               *)
(***************************************************************************)
EXTENDS Integers, Sequences, FiniteSets

CONSTANT MnBuild     \* CONFIG_INCLUDE_NMT_MN

ASSUME MnBuildAssumption == MnBuild \in BOOLEAN

\* The initialisation runs through these states, in this order.
Stage == [GsOff |-> 0, GsInitialising |-> 1, GsResetApplication |-> 2,
          GsResetCommunication |-> 3, GsResetConfiguration |-> 4]
Stages     == DOMAIN Stage
CnStates   == {"CsNotActive", "CsPreOp1", "CsPreOp2", "CsReadyToOperate",
               "CsOperational", "CsStopped", "CsBasicEthernet"}
MnStates   == {"MsNotActive", "MsPreOp1", "MsPreOp2", "MsReadyToOperate",
               "MsOperational", "MsBasicEthernet"}
NmtStates  == Stages \cup CnStates \cup (IF MnBuild THEN MnStates ELSE {})

\* The stage a command or an error takes the node back to.
ResetStage == [SwitchOff |-> "GsOff", CriticalError |-> "GsOff",
               SwReset |-> "GsInitialising", ResetNode |-> "GsResetApplication",
               ResetCom |-> "GsResetCommunication",
               InternComError |-> "GsResetCommunication",
               ResetConfig |-> "GsResetConfiguration"]

Frames     == {"CeSoc", "CePreq", "CePres", "CeSoa"}
Commands   == {"StartNode", "StopNode", "EnterPreOp2", "EnableReadyToOperate"}
UserEvents == {"EnterResetApp", "EnterResetCom", "EnterResetConfig",
               "EnterCsNotActive", "EnterMsNotActive", "TimerBasicEthernet",
               "TimerMsPreOp1", "TimerMsPreOp2", "AllMandatoryCNIdent",
               "EnterReadyToOperate", "EnterMsOperational"}
NmtEvents  == DOMAIN ResetStage \cup Frames \cup Commands \cup UserEvents
                \cup {"NmtCycleError"}

\* Moves that depend on the state and the event alone.
Moves ==
  {<<"GsOff", "SwReset", "GsInitialising">>,
   <<"GsInitialising", "EnterResetApp", "GsResetApplication">>,
   <<"GsResetApplication", "EnterResetCom", "GsResetCommunication">>,
   <<"GsResetCommunication", "EnterResetConfig", "GsResetConfiguration">>,
   <<"GsResetConfiguration", "EnterCsNotActive", "CsNotActive">>,
   <<"CsNotActive", "CeSoc", "CsPreOp1">>, <<"CsNotActive", "CeSoa", "CsPreOp1">>,
   <<"CsNotActive", "TimerBasicEthernet", "CsBasicEthernet">>,
   <<"CsPreOp1", "CeSoc", "CsPreOp2">>,
   <<"CsReadyToOperate", "StartNode", "CsOperational">>,
   <<"CsOperational", "EnterPreOp2", "CsPreOp2">>,
   <<"CsStopped", "EnterPreOp2", "CsPreOp2">>}
  \cup {<<s, "StopNode", "CsStopped">> :
          s \in {"CsPreOp2", "CsReadyToOperate", "CsOperational"}}
  \cup {<<s, "NmtCycleError", "CsPreOp1">> :
          s \in {"CsPreOp2", "CsReadyToOperate", "CsOperational", "CsStopped"}}
  \cup {<<"CsBasicEthernet", e, "CsPreOp1">> : e \in Frames}
MnMoves ==
  {<<"GsResetConfiguration", "EnterMsNotActive", "MsNotActive">>,
   <<"MsPreOp2", "EnterReadyToOperate", "MsReadyToOperate">>,
   <<"MsReadyToOperate", "EnterMsOperational", "MsOperational">>}
  \cup {<<s, "NmtCycleError", "MsPreOp1">> :
          s \in {"MsPreOp2", "MsReadyToOperate", "MsOperational"}}
  \cup {<<s, e, "GsResetCommunication">> :   \* another MN is on the network
          s \in MnStates \ {"MsNotActive"}, e \in {"CeSoc", "CeSoa"}}
\* (a slip: the configuration stage is skipped)
AllMovesSkipConfiguration ==
  Moves \cup MnMoves
    \cup {<<"GsResetCommunication", "EnterCsNotActive", "CsNotActive">>,
          <<"GsResetCommunication", "EnterMsNotActive", "MsNotActive">>}
AllMoves == Moves \cup (IF MnBuild THEN MnMoves ELSE {})

\* A reset event is taken wherever it leads back; ResetCommunication because
\* of an internal error only out of the states behind the initialisation.
ResetTaken(s, e) ==
  /\ e \in DOMAIN ResetStage
  /\ s \in Stages => /\ Stage[ResetStage[e]] < Stage[s]
                     /\ e # "InternComError"

Target(s, e) ==
  IF ResetTaken(s, e) THEN ResetStage[e]
  ELSE IF \E m \in AllMoves : m[1] = s /\ m[2] = e
       THEN (CHOOSE m \in AllMoves : m[1] = s /\ m[2] = e)[3]
       ELSE s

(* tNmtkInstance: enable and app are fEnableReadyToOperate and             *)
(* fAppReadyToOperate, wait and ident fTimerMsPreOp2 and                   *)
(* fAllMandatoryCNIdent.                                                   *)
NmtkInit == [state |-> "GsOff", enable |-> FALSE, app |-> FALSE,
             wait |-> FALSE, ident |-> FALSE, frozen |-> FALSE]

\* PreOp2 -> ReadyToOperate takes the consent of the application and of the MN.
PreOp2Handshake(n, e) ==
  IF \/ e = "EnterReadyToOperate" /\ n.enable
     \/ e = "EnableReadyToOperate" /\ n.app
  THEN [n EXCEPT !.state = "CsReadyToOperate", !.enable = FALSE, !.app = FALSE]
  ELSE [n EXCEPT !.app = @ \/ e = "EnterReadyToOperate",
                 !.enable = @ \/ e = "EnableReadyToOperate"]

\* (a slip: the consents survive)
CsPreOp2KeepsFlags(n, e) ==
  IF e \in {"EnterReadyToOperate", "EnableReadyToOperate"}
  THEN PreOp2Handshake(n, e) ELSE [n EXCEPT !.state = Target(@, e)]

CsPreOp2(n, e) ==
  IF e \in {"StopNode", "NmtCycleError"}
  THEN [n EXCEPT !.state = Target(@, e), !.enable = FALSE, !.app = FALSE]
  ELSE IF e \in {"EnterReadyToOperate", "EnableReadyToOperate"}
       THEN PreOp2Handshake(n, e)
       ELSE [n EXCEPT !.state = Target(@, e)]

\* Any event clears the flags; a CN asked to be MN freezes.
ResetConfiguration(n, e) ==
  [n EXCEPT !.state = Target(@, e), !.enable = FALSE, !.app = FALSE,
            !.frozen = ~MnBuild /\ e = "EnterMsNotActive"]

MsNotActive(n, e) ==
  IF e \in {"CeSoc", "CeSoa"} THEN [n EXCEPT !.frozen = TRUE]
  ELSE IF e = "TimerBasicEthernet" /\ ~n.frozen THEN [n EXCEPT !.state = "MsBasicEthernet"]
  ELSE IF e = "TimerMsPreOp1" /\ ~n.frozen
       THEN [n EXCEPT !.state = "MsPreOp1", !.wait = FALSE, !.ident = FALSE]
       ELSE [n EXCEPT !.state = Target(@, e)]

\* PreOp1 -> PreOp2 on the MN takes the waiting time and all mandatory CNs.
MsPreOp1(n, e) ==
  IF e = "AllMandatoryCNIdent"
  THEN IF n.wait THEN [n EXCEPT !.state = "MsPreOp2"] ELSE [n EXCEPT !.ident = TRUE]
  ELSE IF e = "TimerMsPreOp2"
  THEN IF n.ident THEN [n EXCEPT !.state = "MsPreOp2"] ELSE [n EXCEPT !.wait = TRUE]
  ELSE [n EXCEPT !.state = Target(@, e)]

NmtkProcess(n, e) ==
  IF n.state = "CsPreOp2" THEN CsPreOp2(n, e)
  ELSE IF n.state = "GsResetConfiguration" THEN ResetConfiguration(n, e)
  ELSE IF n.state = "MsNotActive" THEN MsNotActive(n, e)
  ELSE IF n.state = "MsPreOp1" THEN MsPreOp1(n, e)
  ELSE [n EXCEPT !.state = Target(@, e)]

NmtkType == [state : NmtStates, enable : BOOLEAN, app : BOOLEAN,
             wait : BOOLEAN, ident : BOOLEAN, frozen : BOOLEAN]
=============================================================================
