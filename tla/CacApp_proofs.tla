--------------------------- MODULE CacApp_proofs ----------------------------
(***************************************************************************)
(* For every set of valves, every tables and any number of orders, failing *)
(* calls and lost PDOs: types, the timers that run are justified, and no   *)
(* valve moves before its time.                                            *)
(***************************************************************************)
EXTENDS CacApp, WellFoundedInduction, TLAPS

(* A running timer of a valve is not older than the time for which every   *)
(* valve it depends on has been in place, and none runs between the taking *)
(* of a state and the reading of its table.                                *)
TimersCovered ==
  \A v \in Valves : timer[v] # -1 =>
     /\ mode = "automatic"
     /\ \A d \in Deps(v) : InPlace(d) /\ timer[v] <= still[d]
IInv == /\ TypeOK
        /\ pc = "mode" => timer = Stopped
        /\ pc # "ended" => TimersCovered

-----------------------------------------------------------------------------
(* The loops over the valves go on with a valve.                           *)
LEMMA Least ==
  ASSUME NEW S \in SUBSET Nat, S # {}
  PROVE  \E v \in S : \A w \in S : v <= w
<1>. DEFINE R == {ss \in Nat \X Nat : ss[1] < ss[2]}
<1>1. R = OpToRel(<, Nat)
  BY DEF OpToRel
<1>2. IsWellFoundedOn(R, Nat)
  BY <1>1, NatLessThanWellFounded
<1>3. PICK v \in S : \A w \in S : <<w, v>> \notin R
  BY <1>2, WFMin
<1>4. ASSUME NEW w \in S
      PROVE  v <= w
  <2>1. w \in Nat /\ v \in Nat /\ <<w, v>> \notin R
    BY <1>3
  <2>. QED
    BY <2>1 DEF R
<1>. QED
  BY <1>4

LEMMA FirstType == First \in Valves
<1>1. \E v \in Valves : \A w \in Valves : v <= w
  BY Least, CacAssumption DEF CacAssumption
<1>. QED
  BY <1>1 DEF First

LEMMA GoOnType ==
  ASSUME NEW v \in Valves, GoOnAfter(v), at \in Valves, pc = "valves"
  PROVE  at' \in Valves /\ pc' \in {"valves", "orders"}
<1>. DEFINE rest == {w \in Valves : w > v}
<1>1. CASE rest = {}
  BY <1>1 DEF GoOnAfter
<1>2. CASE rest # {}
  <2>1. \E w \in rest : \A x \in rest : w <= x
    <3>1. Valves \subseteq Nat
      BY CacAssumption DEF CacAssumption
    <3>. QED
      BY <1>2, <3>1, Least DEF rest
  <2>2. (CHOOSE w \in rest : \A x \in rest : w <= x) \in rest
    BY <2>1
  <2>. QED
    BY <1>2, <2>2 DEF GoOnAfter
<1>. QED
  BY <1>1, <1>2

(* No delay reaches the cap of the clocks.                                 *)
LEMMA CapFacts == Cap \in Nat /\ Cap > 0
<1>. DEFINE C == {d + 1 : d \in Delays}
<1>1. Delays \subseteq Nat
  BY CacAssumption DEF CacAssumption, Delays, Table
<1>2. \E m \in C : \A d \in Delays : d < m
  <2>1. PICK m \in Delays : \A d \in Delays : d <= m
    BY DelayAssumption DEF DelayAssumption
  <2>2. m + 1 \in C /\ \A d \in Delays : d < m + 1
    BY <1>1, <2>1
  <2>. QED
    BY <2>2
<1>3. Cap \in C
  BY <1>2 DEF Cap
<1>4. PICK d \in Delays : Cap = d + 1
  BY <1>3
<1>. QED
  BY <1>1, <1>4

LEMMA ClearedType == Cleared \in Table /\ Off \in [Valves -> 0..1] /\ Initial \in [Valves -> 0..1]
BY CacAssumption DEF CacAssumption, Cleared, Table, Off

(* A valve that counts as in place is one of the board's.                  *)
LEMMA InPlaceType ==
  ASSUME TypeOK, NEW v \in Valves, NEW d \in Deps(v), InPlace(d)
  PROVE  d \in Valves
BY DEF TypeOK, Table, Deps, InPlace

LEMMA CountType ==
  ASSUME NEW c \in 0..(Len(EGs) - 1)
  PROVE  EGs[(c % Len(EGs)) + 1] \in Nat /\ (c + 1) % Len(EGs) \in 0..(Len(EGs) - 1)
<1>1. EGs \in Seq(Nat) /\ Len(EGs) \in Nat /\ Len(EGs) > 0
  BY CacAssumption DEF CacAssumption
<1>2. \A k, n \in Nat : n > 0 => k % n \in 0..(n - 1)
  OBVIOUS
<1>3. c \in Nat /\ c % Len(EGs) \in 0..(Len(EGs) - 1) /\ (c + 1) % Len(EGs) \in 0..(Len(EGs) - 1)
  BY <1>1, <1>2
<1>. QED
  BY <1>1, <1>3

LEMMA FailsType ==
  ASSUME fails \in 0..MaxFail, fails > 0
  PROVE  fails - 1 \in 0..MaxFail
<1>1. MaxFail \in Nat
  BY CacAssumption DEF CacAssumption
<1>. QED
  BY <1>1

-----------------------------------------------------------------------------
LEMMA InitIInv == Init => IInv
<1>. SUFFICES ASSUME Init PROVE IInv
  OBVIOUS
<1>1. Len(EGs) \in Nat /\ Len(EGs) > 0
  BY CacAssumption DEF CacAssumption
<1>2. timer \in [Valves -> -1..Cap] /\ still \in [Valves -> 0..Cap]
  BY CapFacts DEF Init, Stopped, Off
<1>3. TypeOK
  <2>1. 0..(Len(EGs) - 1) # {} /\ 0 \in 0..(Len(EGs) - 1)
    BY <1>1
  <2>2. mn \in [mode : {"automatic", "manual"}, eg : Nat, valve : [Valves -> 0..1],
                count : 0..(Len(EGs) - 1), next : {0, 1, Manual}]
    BY <2>1, ClearedType DEF Init
  <2>3. mnPi \in [eg : Nat, valve : [Valves -> 0..1], sending : BOOLEAN] /\ pdo \in Image /\ cnPi \in Image
    BY ClearedType DEF Init, Image
  <2>4. keys \in 0..MaxKeys /\ fails \in 0..MaxFail
    BY CacAssumption DEF Init, CacAssumption
  <2>5. line \in [Valves -> 0..1] /\ words \in [Valves -> 0..1] /\ table \in Table /\ at \in Valves
    BY ClearedType, FirstType DEF Init
  <2>. QED
    BY <1>2, <2>2, <2>3, <2>4, <2>5 DEF Init, TypeOK
<1>4. TimersCovered
  BY DEF Init, TimersCovered, Stopped
<1>. QED
  BY <1>3, <1>4 DEF IInv, Init

(* The operator, the OBC and processSync of the board do not touch what    *)
(* the main loop works on.                                                 *)
LEMMA OthersKeep ==
  ASSUME IInv,
         Operator \/ setEG \/ MnSync \/ CnSyncFetch(pdo) \/ CnSyncFetch(cnPi) \/ CnSyncCopy
  PROVE  IInv'
<1>. USE DEF IInv
<1>1. UNCHANGED board
  BY DEF Operator, changeEG, setEGToManualMode, manualActivation, setEG, MnSync, MnSyncState,
         MnSyncSend, CnSyncFetch, CnSyncCopy
<1>2. TypeOK'
  <2>. DEFINE Console == [mode : {"automatic", "manual"}, eg : Nat, valve : [Valves -> 0..1],
                          count : 0..(Len(EGs) - 1), next : {0, 1, Manual}]
              Sender == [eg : Nat, valve : [Valves -> 0..1], sending : BOOLEAN]
  <2>0. Manual \in Nat /\ (keys \in 0..MaxKeys /\ keys > 0 => keys - 1 \in 0..MaxKeys)
    BY CacAssumption DEF CacAssumption
  <2>1. mn \in Console /\ mnPi \in Sender /\ pdo \in Image /\ cnPi \in Image /\ word \in Nat
        /\ words \in [Valves -> 0..1] /\ sync \in {"fetch", "copy"} /\ keys \in 0..MaxKeys
    BY DEF TypeOK
  <2>2. SUFFICES (mn \in Console /\ mnPi \in Sender /\ pdo \in Image /\ cnPi \in Image /\ word \in Nat
        /\ words \in [Valves -> 0..1] /\ sync \in {"fetch", "copy"} /\ keys \in 0..MaxKeys)'
    BY <1>1 DEF TypeOK, board
  <2>3. CASE changeEG
    <3>1. mn'.eg \in Nat /\ mn'.count \in 0..(Len(EGs) - 1) /\ mn' = [mn EXCEPT !.eg = mn'.eg, !.count = mn'.count]
      BY <2>1, <2>3, CountType DEF changeEG
    <3>. QED
      BY <2>0, <2>1, <2>3, <3>1 DEF changeEG, MayPress, cnSync
  <2>4. CASE setEGToManualMode
    <3>1. PICK m \in {"automatic", "manual"}, n \in {1, Manual} : mn' = [mn EXCEPT !.mode = m, !.next = n]
      BY <2>4 DEF setEGToManualMode
    <3>2. mn' \in Console
      BY <2>1, <3>1
    <3>3. keys' \in 0..MaxKeys
      BY <2>0, <2>1, <2>4 DEF setEGToManualMode, MayPress
    <3>4. UNCHANGED <<mnPi, pdo, cnPi, word, words, sync>>
      BY <2>4 DEF setEGToManualMode, cnSync
    <3>. QED
      BY <2>1, <3>2, <3>3, <3>4 DEF Image
  <2>5. ASSUME NEW v \in Valves, manualActivation(v)
        PROVE  (mn \in Console /\ mnPi \in Sender /\ pdo \in Image /\ cnPi \in Image /\ word \in Nat
        /\ words \in [Valves -> 0..1] /\ sync \in {"fetch", "copy"} /\ keys \in 0..MaxKeys)'
    <3>1. mn' = [mn EXCEPT !.valve = [mn.valve EXCEPT ![v] = 1 - mn.valve[v]]]
      BY <2>1, <2>5 DEF manualActivation
    <3>2. mn.valve \in [Valves -> 0..1] /\ 1 - mn.valve[v] \in 0..1
      BY <2>1
    <3>3. [mn.valve EXCEPT ![v] = 1 - mn.valve[v]] \in [Valves -> 0..1]
      BY <3>2
    <3>4. mn' \in Console
      BY <2>1, <3>1, <3>3
    <3>. QED
      BY <2>0, <2>1, <2>5, <3>4 DEF manualActivation, MayPress, cnSync
  <2>6. CASE setEG
    <3>1. mn.next \in Nat
      BY <2>0, <2>1
    <3>2. mn' = [mn EXCEPT !.eg = mn.next, !.next = 0]
      BY <2>6 DEF setEG
    <3>3. mn' \in Console
      BY <2>1, <3>1, <3>2
    <3>. QED
      BY <2>1, <2>6, <3>3 DEF setEG, cnSync, Image
  <2>7. CASE MnSyncState
    BY <2>1, <2>7 DEF MnSyncState, cnSync
  <2>8. CASE MnSyncSend
    <3>1. Sent \in [Valves -> 0..1]
      BY <2>1 DEF Sent
    <3>. QED
      BY <2>1, <2>8, <3>1 DEF MnSyncSend, Image, cnSync
  <2>9. CASE CnSyncFetch(pdo) \/ CnSyncFetch(cnPi) \/ CnSyncCopy
    BY <2>1, <2>9 DEF CnSyncFetch, CnSyncCopy, Image, mnVars
  <2>10. Keyed \subseteq Valves
    BY CacAssumption DEF CacAssumption
  <2>. QED
    BY <2>3, <2>4, <2>5, <2>6, <2>7, <2>8, <2>9, <2>10 DEF Operator, MnSync
<1>3. UNCHANGED <<pc, timer, mode, table, line, still>>
  BY <1>1 DEF board
<1>. QED
  BY <1>2, <1>3 DEF TimersCovered, Deps, InPlace, AtTarget

(* A valve that is switched by the table was not in place, so that no      *)
(* running timer of another valve counts on it.                            *)
LEMMA ActuateKeeps ==
  ASSUME IInv, NEW v \in Valves, pc = "valves", mode = "automatic", DepsActive(v),
         timer' = [timer EXCEPT ![v] = Started(v)],
         Actuate(v, table.target[v]) \/ (GoOnAfter(v) /\ UNCHANGED <<line, still, fails>>),
         UNCHANGED <<EG, mode, table, cnSync, mnVars>>
  PROVE  IInv'
<1>. DEFINE s == IF line[v] = table.target[v] THEN still[v] ELSE 0
<1>1. /\ timer \in [Valves -> -1..Cap] /\ still \in [Valves -> 0..Cap] /\ line \in [Valves -> 0..1]
      /\ table \in Table /\ at \in Valves /\ fails \in 0..MaxFail
  BY DEF IInv, TypeOK
<1>2. timer' \in [Valves -> -1..Cap] /\ still' \in [Valves -> 0..Cap] /\ line' \in [Valves -> 0..1]
  <2>1. Started(v) \in 0..Cap
    BY <1>1, CapFacts DEF Started
  <2>2. s \in 0..Cap
    BY <1>1, CapFacts
  <2>3. timer' \in [Valves -> -1..Cap]
    BY <1>1, <2>1, CapFacts
  <2>4. line' \in [Valves -> 0..1] /\ still' \in [Valves -> 0..Cap]
    <3>1. CASE table.target[v] \in 0..1 /\ line' = [line EXCEPT ![v] = table.target[v]]
               /\ still' = [still EXCEPT ![v] = s]
      BY <1>1, <2>2, <3>1, CapFacts
    <3>2. CASE UNCHANGED <<line, still>>
      BY <1>1, <3>2
    <3>3. still' = [still EXCEPT ![v] = IF line[v] = table.target[v] THEN @ ELSE 0]
            => still' = [still EXCEPT ![v] = s]
      BY <1>1
    <3>. QED
      BY <3>1, <3>2, <3>3 DEF Actuate, EndPass
  <2>. QED
    BY <2>3, <2>4
<1>3. at' \in Valves /\ pc' \in {"valves", "orders"} /\ fails' \in 0..MaxFail
  <2>1. fails > 0 => fails - 1 \in 0..MaxFail
    BY <1>1, FailsType
  <2>2. CASE GoOnAfter(v) /\ UNCHANGED fails
    BY <1>1, <2>2, GoOnType
  <2>3. CASE pc' = "orders" /\ UNCHANGED at /\ fails' \in {fails, fails - 1} /\ fails > 0
    BY <1>1, <2>1, <2>3
  <2>4. CASE pc' = "orders" /\ UNCHANGED <<at, fails>>
    BY <1>1, <2>4
  <2>. QED
    BY <2>2, <2>3, <2>4 DEF Actuate, EndPass
<1>4. TypeOK'
  BY <1>2, <1>3 DEF IInv, TypeOK, cnSync, mnVars, Image
<1>5. TimersCovered'
  <2>1. SUFFICES ASSUME NEW u \in Valves, timer'[u] # -1, NEW d \in Deps(u)
                 PROVE  InPlace(d) /\ line'[d] = line[d] /\ timer'[u] <= still'[d]
    BY DEF TimersCovered, InPlace, AtTarget, Deps
  <2>2. InPlace(d) /\ (timer'[u] <= still[d] \/ timer'[u] <= 0)
    <3>1. TimersCovered
      BY DEF IInv
    <3>2. CASE u = v
      <4>1. \A e \in Deps(v) : InPlace(e)
        BY DEF DepsActive, Deps
      <4>2. timer'[v] = IF timer[v] = -1 THEN 0 ELSE timer[v]
        BY <1>1 DEF Started
      <4>. QED
        BY <2>1, <3>1, <3>2, <4>1, <4>2 DEF TimersCovered
    <3>3. CASE u # v
      <4>1. timer'[u] = timer[u]
        BY <1>1, <3>3
      <4>. QED
        BY <2>1, <3>1, <4>1 DEF TimersCovered
    <3>. QED
      BY <3>2, <3>3
  <2>3. d \in Valves /\ AtTarget(d)
    BY <2>2, InPlaceType DEF IInv, InPlace
  <2>4. line'[d] = line[d] /\ still'[d] = still[d]
    <3>1. line[v] = table.target[v] => (IF line[v] = table.target[v] THEN still[v] ELSE 0) = still[v]
      OBVIOUS
    <3>2. CASE d = v
      BY <1>1, <2>3, <3>2 DEF Actuate, EndPass, AtTarget
    <3>3. CASE d # v
      BY <1>1, <2>3, <3>3 DEF Actuate, EndPass
    <3>. QED
      BY <3>2, <3>3
  <2>5. still[d] >= 0 /\ still[d] \in Int /\ timer'[u] \in Int
    BY <1>1, <1>2, <2>3
  <2>. QED
    BY <2>2, <2>4, <2>5
<1>. QED
  BY <1>3, <1>4, <1>5 DEF IInv

(* The orders and the manual mode.                                         *)
LEMMA OrdersKeep ==
  ASSUME IInv, Compare \/ TakeEG \/ SetMode \/ GoOn
  PROVE  IInv'
<1>1. TypeOK /\ UNCHANGED <<line, fails, cnSync, mnVars>>
  BY DEF IInv, Compare, TakeEG, SetMode, GoOn
<1>2. SUFFICES
        /\ (EG \in Nat /\ mode \in {"automatic", "manual"} /\ table \in Table)'
        /\ (timer \in [Valves -> -1..Cap] /\ still \in [Valves -> 0..Cap])'
        /\ (pc \in {"check", "take", "mode", "valves", "orders"} /\ at \in Valves)'
        /\ (pc = "mode" => timer = Stopped)' /\ TimersCovered'
  BY <1>1 DEF IInv, TypeOK, cnSync, mnVars, Image
<1>3. /\ EG \in Nat /\ mode \in {"automatic", "manual"} /\ table \in Table
      /\ timer \in [Valves -> -1..Cap] /\ still \in [Valves -> 0..Cap] /\ at \in Valves
  BY <1>1 DEF TypeOK
<1>4. CASE Compare
  <2>1. pc' \in {"take", "valves", "orders"} /\ at' \in Valves
    BY <1>3, <1>4, FirstType DEF Compare, Begin
  <2>2. TimersCovered'
    BY <1>4 DEF Compare, IInv, TimersCovered, Deps, InPlace, AtTarget
  <2>. QED
    BY <1>3, <1>4, <2>1, <2>2 DEF Compare
<1>5. CASE TakeEG
  <2>1. timer' = Stopped /\ Stopped \in [Valves -> -1..Cap] /\ TimersCovered'
    BY <1>5, CapFacts DEF TakeEG, resetTimers, Stopped, TimersCovered
  <2>2. EG' \in Nat /\ still' \in [Valves -> 0..Cap]
    BY <1>1, <1>5, CapFacts DEF TakeEG, TypeOK, Off
  <2>. QED
    BY <1>3, <1>5, <2>1, <2>2 DEF TakeEG
<1>6. CASE SetMode
  <2>1. timer' = Stopped /\ timer' = timer /\ TimersCovered'
    BY <1>6 DEF SetMode, IInv, Stopped, TimersCovered
  <2>2. mode' \in {"automatic", "manual"} /\ table' \in Table
    BY <1>3, <1>6, ClearedType, CacAssumption DEF SetMode, refreshCSV, CacAssumption
  <2>. QED
    BY <1>3, <1>6, <2>1, <2>2, FirstType DEF SetMode, Begin
<1>7. CASE GoOn
  BY <1>3, <1>7 DEF GoOn, IInv, TimersCovered, Deps, InPlace, AtTarget
<1>. QED
  BY <1>4, <1>5, <1>6, <1>7

LEMMA VerifyKeeps ==
  ASSUME IInv, NEW v \in Valves, VerifyAutomatic(v) \/ VerifyManual(v)
  PROVE  IInv'
<1>1. /\ line \in [Valves -> 0..1] /\ still \in [Valves -> 0..Cap] /\ words \in [Valves -> 0..1]
      /\ at \in Valves /\ fails \in 0..MaxFail /\ pc = "valves"
  BY DEF IInv, TypeOK, VerifyAutomatic, VerifyManual
<1>2. CASE VerifyAutomatic(v) /\ ~DepsActive(v)
  <2>1. /\ UNCHANGED <<timer, line, still, fails, EG, mode, table, cnSync, mnVars>>
        /\ GoOnAfter(v) \/ (pc' = "orders" /\ at' = at)
    BY <1>2 DEF VerifyAutomatic, EndPass
  <2>2. at' \in Valves /\ pc' \in {"valves", "orders"}
    BY <1>1, <2>1, GoOnType
  <2>3. TypeOK'
    BY <2>1, <2>2 DEF IInv, TypeOK, cnSync, mnVars, Image
  <2>. QED
    BY <1>1, <2>1, <2>2, <2>3 DEF IInv, TimersCovered, Deps, InPlace, AtTarget
<1>3. CASE VerifyAutomatic(v) /\ DepsActive(v)
  <2>1. ~OutOfRange(v)
    BY <1>3 DEF DepsActive, OutOfRange, InPlace
  <2>. QED
    BY <1>1, <1>3, <2>1, ActuateKeeps DEF VerifyAutomatic
<1>4. CASE VerifyManual(v)
  <2>1. mode = "manual" /\ UNCHANGED <<EG, mode, table, timer, cnSync, mnVars>>
    BY <1>4 DEF VerifyManual
  <2>2. TimersCovered'
    BY <1>1, <2>1 DEF IInv, TimersCovered
  <2>3. /\ line' \in [Valves -> 0..1] /\ still' \in [Valves -> 0..Cap]
        /\ at' \in Valves /\ pc' \in {"valves", "orders"} /\ fails' \in 0..MaxFail
    <3>1. CASE GoOnAfter(v) /\ UNCHANGED <<line, still, fails>>
      BY <1>1, <3>1, GoOnType
    <3>2. CASE GoOnAfter(v) /\ line' = [line EXCEPT ![v] = words[v]]
               /\ still' = [still EXCEPT ![v] = IF line[v] = words[v] THEN @ ELSE 0] /\ UNCHANGED fails
      <4>1. \A n \in 0..Cap : [still EXCEPT ![v] = n] \in [Valves -> 0..Cap]
        BY <1>1
      <4>2. (IF line[v] = words[v] THEN still[v] ELSE 0) \in 0..Cap
        BY <1>1, CapFacts
      <4>3. still' \in [Valves -> 0..Cap]
        BY <1>1, <3>2, <4>1, <4>2
      <4>. QED
        BY <1>1, <3>2, <4>3, GoOnType
    <3>3. CASE fails > 0 /\ fails' = fails - 1 /\ pc' = "orders" /\ UNCHANGED <<at, line, still>>
      BY <1>1, <3>3, FailsType
    <3>4. words[v] \in 0..1
      BY <1>1
    <3>. QED
      BY <1>4, <3>1, <3>2, <3>3, <3>4 DEF VerifyManual, Actuate, EndPass
  <2>4. TypeOK'
    BY <2>1, <2>3 DEF IInv, TypeOK, cnSync, mnVars, Image
  <2>. QED
    BY <2>2, <2>3, <2>4 DEF IInv
<1>. QED
  BY <1>2, <1>3, <1>4

(* A clock of a valve that stands still is never behind the timer that     *)
(* counts on it: the cap stops the clock first.                            *)
LEMMA TickKeeps == IInv /\ Tick => IInv'
<1>. SUFFICES ASSUME IInv, Tick PROVE IInv'
  OBVIOUS
<1>1. /\ timer \in [Valves -> -1..Cap] /\ still \in [Valves -> 0..Cap] /\ table \in Table
      /\ UNCHANGED <<at, EG, mode, table, line, pc, fails, cnSync, mnVars>>
  BY DEF IInv, TypeOK, Tick
<1>2. \A v \in Valves : /\ timer'[v] = IF timer[v] \in {-1, Cap} THEN timer[v] ELSE timer[v] + 1
                        /\ still'[v] = IF still[v] = Cap THEN Cap ELSE still[v] + 1
  BY <1>1, CapFacts DEF Tick
<1>3. timer' \in [Valves -> -1..Cap] /\ still' \in [Valves -> 0..Cap]
  <2>1. \A v \in Valves : timer'[v] \in -1..Cap /\ still'[v] \in 0..Cap
    <3>1. \A v \in Valves : timer[v] \in -1..Cap /\ still[v] \in 0..Cap
      BY <1>1
    <3>. QED
      BY <1>2, <3>1, CapFacts
  <2>2. timer' = [v \in Valves |-> timer'[v]] /\ still' = [v \in Valves |-> still'[v]]
    BY DEF Tick
  <2>. QED
    BY <2>1, <2>2
<1>4. TypeOK'
  BY <1>1, <1>3 DEF IInv, TypeOK, cnSync, mnVars, Image
<1>5. pc' = "mode" => timer' = Stopped
  <2>1. ASSUME pc = "mode" PROVE timer' = Stopped
    <3>1. timer = Stopped
      BY <2>1 DEF IInv
    <3>. QED
      BY <3>1 DEF Tick, Stopped
  <2>. QED
    BY <1>1, <2>1
<1>6. pc # "ended" => TimersCovered'
  <2>1. SUFFICES ASSUME TimersCovered, NEW v \in Valves, timer'[v] # -1
                 PROVE  mode = "automatic" /\ \A d \in Deps(v) : InPlace(d) /\ timer'[v] <= still'[d]
    BY <1>1 DEF IInv, TimersCovered, Deps, InPlace, AtTarget
  <2>2. timer[v] # -1
    BY <1>1, <1>2, <2>1
  <2>3. mode = "automatic" /\ \A d \in Deps(v) : InPlace(d) /\ timer[v] <= still[d]
    BY <2>1, <2>2 DEF TimersCovered
  <2>4. ASSUME NEW d \in Deps(v) PROVE timer'[v] <= still'[d]
    <3>1. d \in Valves /\ timer[v] <= still[d] /\ timer[v] \in -1..Cap /\ still[d] \in 0..Cap
      BY <1>1, <2>3, InPlaceType DEF IInv
    <3>. QED
      BY <1>2, <3>1, CapFacts
  <2>. QED
    BY <2>3, <2>4
<1>. QED
  BY <1>1, <1>4, <1>5, <1>6 DEF IInv, TimersCovered

LEMMA EndsKeep ==
  ASSUME IInv, ReadFails \/ Shutdown
  PROVE  IInv'
<1>1. fails \in 0..MaxFail /\ line \in [Valves -> 0..1]
  BY DEF IInv, TypeOK
<1>2. CASE ReadFails
  <2>1. fails' \in 0..MaxFail
    BY <1>1, <1>2, FailsType DEF ReadFails
  <2>2. TypeOK'
    BY <1>2, <2>1 DEF ReadFails, EndPass, IInv, TypeOK, cnSync, mnVars, Image
  <2>. QED
    BY <1>2, <2>2 DEF ReadFails, EndPass, IInv, TimersCovered, Deps, InPlace, AtTarget
<1>3. CASE Shutdown
  <2>1. fails' \in 0..MaxFail
    BY <1>1, <1>3, FailsType DEF Shutdown
  <2>2. line' \in [Valves -> 0..1]
    <3>1. ASSUME NEW v \in Valves
          PROVE  [w \in Valves |-> IF w < v THEN Initial[w] ELSE line[w]] \in [Valves -> 0..1]
      BY <1>1, ClearedType
    <3>. QED
      BY <1>3, <3>1, ClearedType DEF Shutdown
  <2>3. TypeOK'
    BY <1>3, <2>1, <2>2 DEF Shutdown, IInv, TypeOK, cnSync, mnVars, Image
  <2>. QED
    BY <1>3, <2>3 DEF Shutdown, IInv
<1>. QED
  BY <1>2, <1>3

LEMMA NextIInv == IInv /\ [Next]_vars => IInv'
<1>. SUFFICES ASSUME IInv, [Next]_vars PROVE IInv'
  OBVIOUS
<1>1. CASE UNCHANGED vars
  BY <1>1 DEF vars, mnVars, cnSync, board, IInv, TypeOK, Image, TimersCovered, Deps, InPlace, AtTarget
<1>2. CASE Operator \/ setEG \/ MnSync \/ CnSyncFetch(pdo) \/ CnSyncFetch(cnPi) \/ CnSyncCopy
  BY <1>2, OthersKeep
<1>3. CASE MainLoop
  BY <1>3, OrdersKeep, VerifyKeeps DEF MainLoop
<1>4. CASE ReadFails \/ Shutdown
  BY <1>4, EndsKeep
<1>5. CASE Tick
  BY <1>5, TickKeeps
<1>. QED
  BY <1>1, <1>2, <1>3, <1>4, <1>5 DEF Next

-----------------------------------------------------------------------------
(* The inductive invariant.                                                *)
THEOREM SpecIInv == Spec => []IInv
BY InitIInv, NextIInv, PTL DEF Spec

(* Every variable keeps its type; the place in the loop over the valves is *)
(* always a valve.                                                         *)
THEOREM TypeCorrect == Spec => []TypeOK
<1>1. IInv => TypeOK
  BY DEF IInv
<1>. QED
  BY <1>1, SpecIInv, PTL

(* A timer runs only in automatic mode while the valves it waits for are   *)
(* in place, so that no order, hand operation or failed call leaves an old *)
(* timer behind (resetTimers, verifDependanceValves).                      *)
THEOREM SpecTimerJustified == Spec => []TimerJustified
<1>1. IInv => TimerJustified
  BY DEF IInv, TimersCovered, TimerJustified
<1>. QED
  BY <1>1, SpecIInv, PTL

(* In automatic mode verifDependanceValves switches a valve only when the  *)
(* valves it depends on have been in place for its delay.                  *)
THEOREM SpecDelayAfterLast == Spec => DelayAfterLast
<1>. DEFINE A == \A v \in Valves : line'[v] # line[v] /\ mode = "automatic" /\ pc' # "ended" =>
                   \A d \in Deps(v) : InPlace(d) /\ still[d] >= table.delay[v]
<1>1. IInv /\ [Next]_vars => A
  <2>. SUFFICES ASSUME IInv, [Next]_vars, NEW v \in Valves, line'[v] # line[v],
                       mode = "automatic", pc' # "ended", NEW d \in Deps(v)
                PROVE  InPlace(d) /\ still[d] >= table.delay[v]
    OBVIOUS
  <2>1. PICK u \in Valves : VerifyAutomatic(u)
    BY DEF Next, vars, MainLoop, Operator, MnSync, changeEG, setEGToManualMode, manualActivation,
       setEG, MnSyncState, MnSyncSend, CnSyncFetch, CnSyncCopy, Compare, TakeEG, SetMode, GoOn,
       VerifyManual, ReadFails, EndPass, Shutdown, Tick, board
  <2>2. /\ line \in [Valves -> 0..1] /\ still \in [Valves -> 0..Cap] /\ timer \in [Valves -> -1..Cap]
        /\ table \in Table
    BY DEF IInv, TypeOK
  <2>3. pc # "ended" /\ DepsActive(u) /\ MayExceed(u) /\ line' = [line EXCEPT ![u] = table.target[u]]
    BY <2>1 DEF VerifyAutomatic, Actuate, EndPass
  <2>4. u = v
    BY <2>2, <2>3
  <2>5. InPlace(d)
    BY <2>3, <2>4 DEF DepsActive, Deps
  <2>6. (IF timer[v] = -1 THEN 0 ELSE timer[v]) >= table.delay[v]
    BY <2>3, <2>4 DEF MayExceed, Started
  <2>7. timer[v] # -1 => timer[v] <= still[d]
    BY <2>3 DEF IInv, TimersCovered
  <2>8. still[d] \in Nat /\ timer[v] \in Int /\ (timer[v] = -1 \/ timer[v] \in Nat) /\ table.delay[v] \in Nat
    BY <2>2, <2>5, InPlaceType, CapFacts DEF IInv, Table
  <2>. QED
    BY <2>5, <2>6, <2>7, <2>8
<1>. QED
  BY <1>1, SpecIInv, PTL DEF Spec, DelayAfterLast
=============================================================================
