------------------------------- MODULE CacApp -------------------------------
(***************************************************************************)
(* The control application: the operator's console on the managing node    *)
(* (apps/OBC_MN) orders general states (EG) or drives valves by hand; the  *)
(* board of a controlled node (apps/CAC_CN) moves its valves one after the *)
(* other as the table of the state says, or as the operator says.  On both *)
(* nodes the main loop shares its variables, without a lock, with          *)
(* processSync, which the stack calls in its own thread once per cycle.    *)
(* The clock is taken to run evenly: that CLOCK_REALTIME is set while a    *)
(* timer runs is left out.                                                 *)
(***************************************************************************)
EXTENDS Integers, Sequences, FiniteSets

CONSTANTS Valves,    \* valves of the board that are active: numbers in 1..Last
          Last,      \* MAX_VALVES, which is nbValuesCN_In too
          Initial,   \* etatInitial of the valves
          Keyed,     \* those the console has a key for
          EGs,       \* liaisonEGEtat.csv as the operator steps through it
          Tables,    \* general state -> its table, for the files there are
          Manual,    \* infoStateToManualMode
          MaxKeys,   \* bound: keys pressed
          MaxFail    \* bound: GPIO calls that fail

States == {EGs[i] : i \in DOMAIN EGs}
\* The dependencies the range test of isDependanceActive lets through.
Reach  == 1..(Last - 1)
\* What a file may say: any value, and valves of other boards (numbers beyond
\* Last) among those a valve depends on; those within reach are active.
Table  == {t \in [target : [Valves -> Int], deps : [Valves -> Seq(Nat)], delay : [Valves -> Nat]] :
             \A v \in Valves : \A i \in DOMAIN t.deps[v] :
               t.deps[v][i] \in Reach => t.deps[v][i] \in Valves}
ASSUME CacAssumption ==
  /\ Last \in Nat /\ Valves \subseteq 1..Last /\ Valves # {} /\ Initial \in [Valves -> 0..1]
  /\ Keyed \subseteq Valves
  /\ EGs \in Seq(Nat \ {0, Manual}) /\ EGs # << >> /\ Manual \in Nat \ {0} /\ MaxKeys \in Nat /\ MaxFail \in Nat
  /\ DOMAIN Tables \subseteq States
  /\ \A e \in DOMAIN Tables : Tables[e] \in Table

Delays == {Tables[e].delay[v] : e \in DOMAIN Tables, v \in Valves}
ASSUME DelayAssumption == \E m \in Delays : \A d \in Delays : d <= m
Cap == CHOOSE m \in {d + 1 : d \in Delays} : \A d \in Delays : d < m
Off == [v \in Valves |-> 0]
\* refreshCSV clears the table before it reads the file.
Cleared == [target |-> Off, deps |-> [v \in Valves |-> << >>], delay |-> Off]

VARIABLES
  mn,      \* OBC: mode, eg and valve (values_Out_MN_l), cmptEG, and the order
           \* setEGToManualMode is about to write (0: none)
  mnPi,    \* OBC: in_MN_array; sending: processSync is between its two parts
  pdo,     \* the last PDO on the network
  cnPi,    \* CAC: in_CN_array
  word,    \* CAC: values_In_CN_l, the general state
  words,   \* CAC: values_In_CN_l, the valves
  sync,    \* CAC: where processSync is: "fetch" or "copy"
  EG, mode, table,
  line,    \* the GPIO lines of the valves
  timer,   \* ticks since a started timer began, -1: timerStarted is false
  pc, at,  \* where the main loop is; the valve it verifies when pc = "valves"
  still,   \* history: ticks since the valve moved or the state was taken
  keys, fails   \* what the bounds have left
mnVars == <<mn, mnPi, pdo, keys>>
cnSync == <<cnPi, word, words, sync>>
board  == <<EG, mode, table, line, timer, pc, at, still, fails>>
vars   == <<mnVars, cnSync, board>>

-----------------------------------------------------------------------------
(* The operator.                                                           *)

MayPress == keys > 0 /\ mn.next = 0

changeEG ==
  /\ MayPress /\ keys' = keys - 1
  /\ mn' = [mn EXCEPT !.eg = EGs[(mn.count % Len(EGs)) + 1], !.count = (@ + 1) % Len(EGs)]
  /\ UNCHANGED <<mnPi, pdo, cnSync, board>>

\* The mode first, the order after it: processSync may come in between.
setEGToManualMode ==
  /\ MayPress /\ keys' = keys - 1
  /\ mn' = IF mn.mode = "automatic"
           THEN [mn EXCEPT !.mode = "manual", !.next = Manual]
           ELSE [mn EXCEPT !.mode = "automatic", !.next = 1]
  /\ UNCHANGED <<mnPi, pdo, cnSync, board>>
setEG ==
  /\ mn.next # 0 /\ mn' = [mn EXCEPT !.eg = mn.next, !.next = 0]
  /\ UNCHANGED <<mnPi, pdo, keys, cnSync, board>>

manualActivation(v) ==
  /\ MayPress /\ keys' = keys - 1
  /\ mn' = [mn EXCEPT !.valve[v] = 1 - @]
  /\ UNCHANGED <<mnPi, pdo, cnSync, board>>

-----------------------------------------------------------------------------
(* processSync of the OBC: the general state always, the valves in manual  *)
(* mode only, then the exchange of the process image.                      *)

MnSyncState ==
  /\ ~mnPi.sending /\ mnPi' = [mnPi EXCEPT !.eg = mn.eg, !.sending = TRUE]
  /\ UNCHANGED <<mn, pdo, keys, cnSync, board>>

\* (a slip: the valves stay where they are in manual mode too)
SentNever == mnPi.valve
Sent == IF mn.mode = "manual" THEN mn.valve ELSE mnPi.valve
MnSyncSend ==
  /\ mnPi.sending
  /\ mnPi' = [mnPi EXCEPT !.valve = Sent, !.sending = FALSE]
  /\ pdo' = [eg |-> mnPi.eg, valve |-> Sent]
  /\ UNCHANGED <<mn, keys, cnSync, board>>

-----------------------------------------------------------------------------
(* processSync of the board.  A PDO that is lost leaves the image as it    *)
(* was.                                                                    *)

CnSyncFetch(image) ==
  /\ sync = "fetch" /\ pc # "ended"
  /\ cnPi' = image /\ word' = image.eg /\ sync' = "copy"
  /\ UNCHANGED <<words, mnVars, board>>
CnSyncCopy ==
  /\ sync = "copy"
  /\ words' = IF mode = "manual" THEN cnPi.valve ELSE words
  /\ sync' = "fetch" /\ UNCHANGED <<cnPi, word, mnVars, board>>

-----------------------------------------------------------------------------
(* The main loop of the board, once per SoC.                               *)

First == CHOOSE v \in Valves : \A w \in Valves : v <= w
Begin == pc' = "valves" /\ at' = First
\* (a slip: the loop runs one valve too far)
GoOnAfterTheLast(v) ==
  /\ at' = v + 1
  /\ pc' = IF v > Last THEN "orders" ELSE pc
GoOnAfter(v) ==
  LET rest == {w \in Valves : w > v}
  IN  IF rest = {} THEN pc' = "orders" /\ UNCHANGED at
      ELSE /\ at' = CHOOSE w \in rest : \A x \in rest : w <= x
           /\ UNCHANGED pc
Stopped == [v \in Valves |-> -1]

\* isEGchanged looks at the word to compare it, to take it and to find out
\* whether it is the order for manual mode; processSync may come in between.
Compare ==
  /\ pc = "check"
  /\ IF word # EG /\ word # 0 THEN pc' = "take" /\ UNCHANGED at
     ELSE IF EG # 0 THEN Begin ELSE pc' = "orders" /\ UNCHANGED at
  /\ UNCHANGED <<EG, mode, table, line, timer, still, fails, cnSync, mnVars>>

\* (a slip: the timers of the old state go on)
resetTimersNever == UNCHANGED timer
resetTimers == timer' = Stopped

TakeEG ==
  /\ pc = "take" /\ pc' = "mode"
  /\ EG' = word /\ resetTimers /\ still' = Off
  /\ UNCHANGED <<at, mode, table, line, fails, cnSync, mnVars>>

\* The rest of isEGchanged and, unless manual mode is ordered, refreshCSV.
refreshCSV == table' = IF EG \in DOMAIN Tables THEN Tables[EG] ELSE Cleared
SetMode ==
  /\ pc = "mode" /\ Begin
  /\ \/ word = Manual /\ mode' = "manual" /\ UNCHANGED table
     \/ word # Manual /\ mode' = "automatic" /\ refreshCSV
  /\ UNCHANGED <<EG, line, timer, still, fails, cnSync, mnVars>>

EndPass == pc' = "orders" /\ UNCHANGED <<at, line, still>>

\* actionnementValve; when the value is neither 0 nor 1, or the GPIO call fails,
\* verifDependanceValves returns.
Actuate(v, value) ==
  \/ /\ value \in 0..1 /\ line' = [line EXCEPT ![v] = value]
     /\ still' = [still EXCEPT ![v] = IF line[v] = value THEN @ ELSE 0]
     /\ GoOnAfter(v) /\ UNCHANGED fails
  \/ /\ value \in 0..1 /\ fails > 0 /\ fails' = fails - 1 /\ EndPass
  \/ /\ value \notin 0..1 /\ EndPass /\ UNCHANGED fails

\* isDependanceActive.  The range test leaves the last two valves out of the
\* first comparison, and the last one out of the dependencies.
AtTarget(v)   == line[v] = table.target[v]
Activated(v)  == v < Last - 1 /\ AtTarget(v)
InPlace(d)    == d \in Reach /\ AtTarget(d)
DepsActive(v) == ~Activated(v) /\ \A i \in DOMAIN table.deps[v] : InPlace(table.deps[v][i])
OutOfRange(v) ==
  /\ ~Activated(v)
  /\ \E i \in DOMAIN table.deps[v] :
       table.deps[v][i] \notin Reach /\ \A j \in 1..(i - 1) : InPlace(table.deps[v][j])

\* (a slip: every pass starts the timer again)
StartedAgain(v) == 0
Started(v) == IF timer[v] = -1 THEN 0 ELSE timer[v]
\* isTimerExeeded.  Between n ticks lie more than n - 1 and less than n + 1
\* units of time.
MayExceed(v)  == Started(v) >= table.delay[v]
MustExceed(v) == Started(v) > table.delay[v]

\* verifDependanceValves, one valve of its loop.
VerifyAutomatic(v) ==
  /\ pc = "valves" /\ at = v /\ mode = "automatic"
  /\ \/ /\ OutOfRange(v) /\ EndPass /\ UNCHANGED <<timer, fails>>
     \/ /\ ~DepsActive(v) /\ ~OutOfRange(v) /\ GoOnAfter(v)
        /\ UNCHANGED <<timer, line, still, fails>>
     \/ /\ DepsActive(v) /\ timer' = [timer EXCEPT ![v] = Started(v)]
        /\ \/ MayExceed(v) /\ Actuate(v, table.target[v])
           \/ ~MustExceed(v) /\ GoOnAfter(v) /\ UNCHANGED <<line, still, fails>>
  /\ UNCHANGED <<EG, mode, table, cnSync, mnVars>>
VerifyManual(v) ==
  /\ pc = "valves" /\ at = v /\ mode = "manual"
  /\ \/ words[v] = line[v] /\ GoOnAfter(v) /\ UNCHANGED <<line, still, fails>>
     \/ words[v] # line[v] /\ Actuate(v, words[v])
  /\ UNCHANGED <<EG, mode, table, timer, cnSync, mnVars>>
\* A GPIO line that cannot be read ends the pass as well.
ReadFails ==
  /\ pc = "valves" /\ fails > 0 /\ fails' = fails - 1 /\ EndPass
  /\ UNCHANGED <<EG, mode, table, timer, cnSync, mnVars>>

\* checkStateOpl and the console.
GoOn == /\ pc = "orders" /\ pc' = "check"
        /\ UNCHANGED <<at, EG, mode, table, line, timer, still, fails, cnSync, mnVars>>
\* A termination signal or the escape key: extinctValve gives the valves their
\* initial state and returns when a line fails; extinctOPL ends the sync calls.
Shutdown ==
  /\ pc = "orders" /\ pc' = "ended"
  /\ \/ line' = Initial /\ UNCHANGED fails
     \/ /\ fails > 0 /\ fails' = fails - 1
        /\ \E v \in Valves : line' = [w \in Valves |-> IF w < v THEN Initial[w] ELSE line[w]]
  /\ UNCHANGED <<at, EG, mode, table, timer, still, cnSync, mnVars>>

\* CLOCK_REALTIME
Tick ==
  /\ pc # "ended"
  /\ timer' = [v \in Valves |-> IF timer[v] \in {-1, Cap} THEN timer[v] ELSE timer[v] + 1]
  /\ still' = [v \in Valves |-> IF still[v] = Cap THEN Cap ELSE still[v] + 1]
  /\ UNCHANGED <<at, EG, mode, table, line, pc, fails, cnSync, mnVars>>

-----------------------------------------------------------------------------
\* Both nodes have initialised (initValve gives the valves their initial state);
\* the board has heard nothing from the OBC.
Init ==
  /\ mn = [mode |-> "automatic", eg |-> 1, valve |-> Off, count |-> 0, next |-> 0]
  /\ mnPi = [eg |-> 0, valve |-> Off, sending |-> FALSE]
  /\ pdo = [eg |-> 0, valve |-> Off] /\ cnPi = pdo
  /\ word = 0 /\ words = Off /\ sync = "fetch"
  /\ EG = 0 /\ mode = "automatic" /\ table = Cleared
  /\ line = Initial /\ timer = Stopped /\ still = Off /\ pc = "check" /\ at = First
  /\ keys = MaxKeys /\ fails = MaxFail

Operator == changeEG \/ setEGToManualMode \/ \E v \in Keyed : manualActivation(v)
MnSync   == MnSyncState \/ MnSyncSend
MainLoop == \/ Compare \/ TakeEG \/ SetMode \/ GoOn
            \/ \E v \in Valves : VerifyAutomatic(v) \/ VerifyManual(v)
Next == \/ Operator \/ setEG \/ MnSync
        \/ CnSyncFetch(pdo) \/ CnSyncFetch(cnPi) \/ CnSyncCopy
        \/ MainLoop \/ ReadFails \/ Shutdown \/ Tick
Spec == Init /\ [][Next]_vars

\* The threads run, time passes, and not every PDO is lost.
FairSpec == /\ Spec /\ WF_vars(setEG) /\ WF_vars(MnSync) /\ WF_vars(CnSyncCopy)
            /\ SF_vars(CnSyncFetch(pdo)) /\ WF_vars(MainLoop) /\ WF_vars(Tick)

-----------------------------------------------------------------------------
Image == [eg : Nat, valve : [Valves -> 0..1]]
TypeOK ==
  /\ mn \in [mode : {"automatic", "manual"}, eg : Nat, valve : [Valves -> 0..1],
             count : 0..(Len(EGs) - 1), next : {0, 1, Manual}]
  /\ mnPi \in [eg : Nat, valve : [Valves -> 0..1], sending : BOOLEAN]
  /\ pdo \in Image /\ cnPi \in Image
  /\ word \in Nat /\ words \in [Valves -> 0..1] /\ sync \in {"fetch", "copy"}
  /\ EG \in Nat /\ mode \in {"automatic", "manual"} /\ table \in Table
  /\ line \in [Valves -> 0..1] /\ timer \in [Valves -> -1..Cap]
  /\ still \in [Valves -> 0..Cap]
  /\ pc \in {"check", "take", "mode", "valves", "orders", "ended"} /\ at \in Valves
  /\ keys \in 0..MaxKeys /\ fails \in 0..MaxFail

\* The valves that the one under consideration, v, depends on.
Deps(v) == {table.deps[v][i] : i \in DOMAIN table.deps[v]}

(* The timer of a valve runs only in automatic mode and while the valves   *)
(* it depends on are where the table of the state in force wants them: no  *)
(* order, no hand operation and no failed call leaves an old timer behind. *)
TimerJustified ==
  pc # "ended" =>
    \A v \in Valves : timer[v] # -1 =>
       mode = "automatic" /\ \A d \in Deps(v) : InPlace(d)

(* README_CSV.txt: "apres le declenchement de la derniere dependance un    *)
(* timer demarre, a la fin du timer, la vanne ce declenche".  In automatic *)
(* mode a valve moves only when every valve it depends on is in place and  *)
(* has been there, since the state was ordered, for the delay.             *)
DelayAfterLast ==
  [][\A v \in Valves : line'[v] # line[v] /\ mode = "automatic" /\ pc' # "ended" =>
       \A d \in Deps(v) : InPlace(d) /\ still[d] >= table.delay[v]]_vars

\* The valves in front of the first one that can end the pass: its value is
\* neither 0 nor 1, or it depends on a valve out of reach.
Ending(e)  == {v \in Valves : \/ Tables[e].target[v] \notin 0..1
                              \/ \E i \in DOMAIN Tables[e].deps[v] : Tables[e].deps[v][i] \notin Reach}
InFront(e) == {v \in Valves : \A w \in Ending(e) : v < w}
\* Those of them that depend, also by way of others, on such valves only.
Served(e)  == UNION {S \in SUBSET InFront(e) :
                 \A v \in S : \A i \in DOMAIN Tables[e].deps[v] : Tables[e].deps[v][i] \in S}

(* When the last order of the operator is a state, the valves in front of   *)
(* the first one that can end a pass get where its table wants them,        *)
(* whatever was ordered before and however fast.  One case is left: the     *)
(* word of the state changed between two of the reads in isEGchanged and    *)
(* back, and the board stays in manual mode under the number of the state.  *)
SequenceCompletes ==
  <>[](mn.eg \in DOMAIN Tables /\ pc # "ended")
    => \/ <>[](/\ mn.eg \in DOMAIN Tables
              /\ \A v \in Served(mn.eg) : line[v] = Tables[mn.eg].target[v])
       \/ <>[](EG = mn.eg /\ mode = "manual")

(* In manual mode the valves get where the operator wants them; the one     *)
(* case left is the same, the other way round.                              *)
ManualFollows ==
  <>[](mn.eg = Manual /\ mn.mode = "manual" /\ pc # "ended")
    => <>[](line = mn.valve) \/ <>[](EG = Manual /\ mode = "automatic")
=============================================================================
