# openPOWERLINK_V2_CAC in TLA+

This directory models the openPOWERLINK stack of the repository and the control application
on top of it, in TLA+. TLC checks the models on small instances; TLAPS proves theorems
about some of them for every value of their constants.

The repository holds the openPOWERLINK V2 stack (`stack/`, C) and two programs: `apps/OBC_MN`,
the console on the managing node (MN), and `apps/CAC_CN`, the program of the boards that move
valves and read sensors on the controlled nodes (CN). In every POWERLINK cycle the MN sends a
SoC, a PReq to each CN, which answers with a PRes, and a SoA that gives one node the
asynchronous slot. The stack has a kernel part (cycle, frames, timers) and a user part
(object dictionary, SDO, boot-up, API), which share memory and talk through event queues.
The build that is modelled is the direct-link one on Linux: both parts are threads of one process.

## Contents

1. [Inventory](#1-inventory)
2. [Hazards](#2-hazards)
3. [Modules](#3-modules)
4. [Runs](#4-runs)
5. [Fairness](#5-fairness)
6. [Proofs](#6-proofs)
7. [Where code and comments disagree](#7-where-code-and-comments-disagree)
8. [Not modelled](#8-not-modelled)
9. [Plan](#9-plan)

To run a check: `tlc -config MCSdoSeq.cfg MCSdoSeq`; to check the proofs: `tlapm NmtLocal_proofs.tla`.

## 1. Inventory

| Component | State | Operations | Talks to | What makes it correct |
|---|---|---|---|---|
| PDO and SoC-time triple buffers (`pdokcal-/pdoucal-triplebufshm.c`, `timesynck.c`, `timesyncu.c`) | three buffers per channel; `readBuf`, `writeBuf`, `cleanBuf`, `newData` | write, abort, publish; check, take, clear, use | kernel and user layer, no lock | no torn payload, the buffer in use is stable, bounded going back |
| SDO sequence layer (`sdoseq.c`) | connection records: state, two sequence bytes, history ring, retry and inactivity counters, timer | open, send, receive in six states, timeout, delete | command layer by calls and callbacks, DLL queues, timer module | in order, no duplicates, an acknowledgement releases what was taken, no connection hangs |
| Kernel NMT (`nmtk.c`) | NMT state, four flags | `nmtk_process` | DLL (called), user part (event) | PreOp2, ReadyToOperate entered on the right conditions of *this* visit |
| User NMT (`nmtu.c`) and event queues (`eventkcal-*`, `eventucal-*`) | local NMT state, timer; three rings | state change handler, timer, callback | kernel thread, user thread, receive handler, application | no stage skipped, no stale event or timer, kernel and user agree in the end |
| CN DLL and cycle supervision (`dllkstatemachine.c`, `dllkframe.c`) | DLL state, `lossSocStatus`, `cycleCount`, cycle timer | frame handlers, timer callback, NMT change | error handler and NMT through the event queue | losses reported neither falsely nor too often, silence noticed |
| Error handler (`errhndk.c`) | threshold counters, flags of the cycle | loss and correct events | DLL, NMT | saturating counters, NMT error at the threshold |
| Circular buffers (`circbuffer.c`) | header and bytes | write, write in two parts, read, reset | everything with a queue | a FIFO of whole blocks |
| Board program (`CAC_CN`) | EG, mode, table of the state, valve timers, GPIO lines | `isEGchanged`, `refreshCSV`, `verifDependanceValves`, `processSync`, shutdown | stack thread by shared arrays, files, GPIO | valves move in order and after their delays, and get where the last order wants them |
| Console (`OBC_MN`) | mode, `values_Out_MN_l`, `cmptEG` | three kinds of orders, `processSync` | stack thread by shared arrays | orders reach the boards |
| MN boot-up (`nmtmnu.c`), ident and status requests (`identu.c`, `statusu.c`), configuration (`cfmu.c`) | node table: state, flags, expected and current NMT state, two timers; counters of nodes still to come; open requests | events of a node, NMT states of the MN, timers, commands | SDO, DLL queues, node list, NMT | the MN goes on when every mandatory node is through, and no node is forgotten; stale timers do nothing |
| MN DLL and cyclic transmission (`dllkframe.c`, `dllknode.c`, `edrvcyclic.c`) | node lists, double-buffered Tx list | cycle timer, add/delete node | Ethernet driver | a list is not changed while sent |
| Asynchronous queues (`dllkcal.c`, `dllucal.c`) | request and Tx rings | issue, grant, send | SDO, NMT, SoA | no request is lost silently or starved |
| SDO command layer, OD, configuration manager | transfers, objects | read/write by index, download of configurations | sequence layer | a transfer ends with its data or an abort |
| Control module (`ctrlu.c`, `ctrlk.c`) | command mailbox, heartbeat | init, shutdown, commands | API, both parts | a command is answered once |
| Timers, drivers, virtual Ethernet, LED, API | targets' state | | | pure I/O or thin calls, except the delta list of `timer-generic.c` |

Behaviour that is hard here: two layers that exchange data without locks; handlers at interrupt,
kernel-thread, user-thread and application priority that meet in queues of limited size; timers
that expire while their reason goes away; lost frames on a real-time network; restarts of one
partner only; state read from shared arrays between two steps of another thread.

## 2. Hazards

`PROJECT.json` lists them, each at its line, with the properties that cover it. The important groups:

- *Lock-free exchange*: `newData` and the index exchange are two instructions (`TripleBuffer`).
- *Retransmission*: numbers that wrap, a history that is full, acknowledgements lost or
  repeated, empty frames that carry the number of a data frame, restart of one side (`SdoSeq`).
- *Stale events*: an event posted in one NMT state and served in another, in particular behind a
  reset; consents kept over a visit of a state; a timer of the previous state (`NmtLocal`).
- *Limited queues*: an event posted to a full ring is lost; the event loop reports it by an error event, which the user part answers by
  switching the node off, and either of these may be lost in its turn (`NmtLocal`).
- *Two observers of one fact*: the timer and the order of frames both report a lost SoC (`CnCycle`).
- *Blocks across the end of a ring* (`CircBuf`).
- *The boot-up of the network*: answers, heartbeats, timers, commands and SDO transfers of each node
  meet in the MN's user thread in any order, while the node or the MN itself starts over (`NmtMnu`).
- *Words shared without a lock* between the applications' main loops and `processSync`, failing
  GPIO calls, timers of valves left over from an earlier order (`CacApp`).

Hazards without a property carry a note saying why: they belong to components of the plan, or
nothing in the sources says what should happen.

## 3. Modules

`CacApp`, `CnCycle`, `NmtLocal`, `NmtMnu` and `CircBuf` model one component each with its environment.
`NmtK` is shared: `NmtLocal` composes it with the user part and the queues, `CnCycle` with the
DLL and the error handler. `Fifo` is the abstract specification `CircBuf` implements.
An `MC` module extends its specification with the values TLC needs; the `.cfg` files give the constants.
Operators marked "(a slip: ...)" are wrong variants of the definition after them; no
specification uses them, they show that the properties can fail.

### TripleBuffer

One record `info[ch]` per channel (`tPdoBufferInfo`, `tTimesyncSocTimeTripleBuf`) and the content of its
three buffers; a payload is the number of its write, and `Torn` is a buffer being copied into.
Writer: `WrBegin`/`WrEnd` (copy), `WrAbort` (`copyVarToPdo` fails), `WrSwap` (`OPLK_ATOMIC_EXCHANGE`),
`WrFlag` (`newData = 1`). Reader: `RdCheck` (`newData` read), `RdSwap`, `RdClear`, `RdUse`. Every access of a
shared word is a step, so the layers interleave between any two. A layer handles one channel at a time.

What the checks show: the indices stay a permutation, no torn payload is consumed and the buffer in
use is never written. Because the flag and the exchange are apart, a consumer can be handed
the payload before the one it has (by one, never more), or see the newest one only after the next write.

### SdoSeq

Both ends of one connection and the two FIFO channels between them, with loss. A `Receive*` action is
`receiveCb` → `processState` → the state's handler, with all frames it sends; `Timeout` is `sdoseq_processEvent`;
`InitCon`, `Submit`, `DeleteCon` are the calls of the command layer, and `Restart` a node that starts again.
The names are the code's, which are easily misread: `recvSeqNum` is the node's *own* send counter (sent as
`scon`), `sendSeqNum` the number it acknowledges (sent as `rcon`).

Conventions: an `sdoseq_initCon` of a connection that is not Idle does nothing; `freeEntries` is 0 after
`sdoseq_init` until a connection is made; sending fails when the DLL's buffer is full, which leaves
the same partial effects as in the code; the callbacks of the command layer answer ok, busy or with an error,
and may send from inside. The close callback is assumed to delete the connection (`sdocom` does), but a
deletion inside the *receive* callback is not modelled. `useCount` is 0 or 1 here. Only data are sent
spontaneously. A busy partner (flow control) may keep a connection alive for ever, which is meant; `HistoryDrains` therefore asks of
the partner that it is not busy again and again.

### NmtK, NmtLocal

`NmtK` is a pure description: `NmtkProcess(n, e)` is the effect of `nmtk_process` on `nmtkInstance_l`, as a table of
moves plus the four states with flags. `NmtLocal` adds the DLL's copy of the state, `nmtuInstance_g`, the timer and the
queues `kint`, `u2k`, `k2u`. `KernelPicksU2K`/`KernelServesU2K` split the choice of the queue from the service, as
the kernel thread does; `UserTakes`/`UserPosts` split the callback from the follow-up.

Lost events: the queues are rings of `QueueSize`. When a handler of the kernel or the user part fails because its event finds no room, `eventk_process` (eventk.c:190) or
`eventu_process` posts an error event (`KernelReports`, `ErrorUnless` with the user part's own queue `uint`), and the user part answers an error event with
CriticalError (ctrlu.c:1198, `UserAnswersError`), which takes the node to GsOff. Error event and CriticalError are lost as well when they find no room; events of the timer and of the error handler are
lost without a report, and the application gets the result of its call instead. On entering PreOp1 or ReadyToOperate the DLL posts to `kint`; when that ring is full it keeps its old state and the
user part is not told; the model has this path.

Conventions: the receive handler is one step; reading the object dictionary succeeds. The state change callback may, for the states in `Refuses`, answer for the user part (reject) or fail, which is
an error too. The programs ask for SwReset when they begin (CAC_CN opl.cpp:545), for SwitchOff when they end (opl.cpp:888), and end themselves when they are told GsOff (eventOpl.c:189-196): after
SwitchOff, or once it was told of a critical error, the application does not ask for SwReset again (`ending`). The console demos have a key that does (demo_cn_console main.c:393, demo_mn_console main.c:426); they are
outside this assumption. `visit`/`before` are history variables.

### CnCycle

`ChangeState` is `dllkstatemachine_changeState` of a CN: the next DLL state and which losses are reported.
`Receive*` are the frame handlers, `Timeout` the cycle timer's callback, `Handle*` the kernel thread serving the
error handler and NMT. The network is the MN's cycle (slots Soc, Preq, Soa, Asnd), other nodes' PRes in
between; every frame may be lost, and the MN may die. MASND and redundancy are off; LOSS_SOA is counted
nowhere in the code and left out; the timer is armed while the NMT state is not CsNotActive.

### NmtMnu

The MN's user thread with the CNs it boots. One record `m` holds what `nmtmnu.c`, `identu.c`, `statusu.c` and `cfmu.c` keep, and of the
kernel the request queues, the isochronous nodes and the MN's NMT state; a handler takes the record and returns it changed, and one step
serves one event.

| Model | Code |
|---|---|
| `m.mn`, `m.mand`, `m.signal`, `m.informed` | NMT state, `mandatorySlaveCount`, `signalSlaveCount`, flag APP_INFORMED (`tNmtMnuInstance`) |
| `m.node[n]` | `tNmtMnuNodeInfo`: `state`, `flags`; `exp`, `cur` are 0x1F8F and 0x1F8E; `sr`, `lo` the two timers; `cfm` the SDO transfer of `cfmu.c` |
| `m.ident`, `m.status` | requests `identu.c`, `statusu.c` wait for |
| `m.tx`, `m.iq`, `m.sq`, `m.turn` | the kernel's queues of commands, ident and status requests, served in turns (`dllkcal_getSoaRequest`) |
| `m.k2u`, `m.uint` | events for the user thread from the kernel, and from itself, its timers and the application's callbacks |
| `IdentResponse`, `NoIdentResponse`, `StatusResponse`, `Heartbeat`, `TimerLonger`, `NmtCmdSent`, ... | the `processNodeEvent*` functions; `CheckNmtState` is `checkNmtState`, `Proceed` the end of `processInternalEvent` |
| `DoPreOp1`, `StartBootStep2`, `StartCheckCom`, `StartNodes` | the functions of these names, from `nmtmnu_cbNmtStateChange` |
| `ServeIdent`, `ServeStatus`, `SendCommand`, `PresReceived`, `PresLost` | environment: the asynchronous phase and the CNs' PRes as the kernel reports them |
| `SdoTransferEnds` | environment: `cbSdoCon`, for the configuration manager |
| `CnBoots`, ..., `Crash`, `CycleError` | environment: the CNs, and the MN's own kernel falling back to PreOp1 |

A timer event carries in the code the two-bit counter its timer had when it was started; the model keeps the difference to the present
counter (`age`) and, for the properties, whether the timer was started anew or deleted since (`old`).

Left out: PRes chaining, redundancy, halting the boot-up, StartAllNodes, the checks of device type (nmtmnu.c:1659-1672) and software version, resets and commands asked for by the
user. The user thread answers the callbacks with ok, reading the object dictionary succeeds, and the kernel does at once what it is asked
for, its thread having the higher priority.

### CircBuf, Fifo

The ring at byte level: `header`, memory, `circbuf_writeData`, `circbuf_writeMultipleData`, `circbuf_readData`,
`circbuf_reset`, each one step, as each holds the lock. Sizes are four-byte little-endian words; a block is padded to
the alignment; a write wraps before a block, after the size, or inside either part. `Contents` finds the blocks
by their sizes alone and is the refinement mapping to `Fifo`, which promises whole blocks in order and refusals only for
want of room. Also visible: a block too large for its reader stays at the head and blocks the queue.
`circbuf_getDataCount` takes no lock; `CountAgrees` is what its callers rely on.

### CacApp

One console, the last PDO on the network, and one board.

| Model | Code |
|---|---|
| `mn` | `mode`, `values_Out_MN_l`, `cmptEG` of the OBC; `next`: the order after the mode |
| `MnSyncState`, `MnSyncSend` | `processSync` of the OBC; keys may come in between |
| `CnSyncFetch(image)`, `CnSyncCopy` | `processSync` of the board, with a new image or, when the PDO was lost, the old one |
| `Compare`, `TakeEG`, `SetMode` | `isEGchanged`, which reads the shared word again for each, and `refreshCSV` |
| `VerifyAutomatic`, `VerifyManual`, `ReadFails` | one valve in the loop of `verifDependanceValves` |
| `Shutdown` | escape key or termination signal; `extinctValve`, `extinctOPL` |
| `table` | `dataEtats`: target, dependencies, delay of each valve; `Cleared` when the state has no file |
| `timer` | `beginTimer`, `timerStarted`, in ticks |

A comparison of real time with a delay is nondeterministic within a tick (`MayExceed`, `MustExceed`).
`still` is history: how long a valve has been in place since the state was ordered. `Initial` is `etatInitial`, to which `initValve` sets the lines;
`Keyed` are the valves the console has keys for. The clock is taken to run evenly; the code reads CLOCK_REALTIME (valve.cpp:412).

*Range tests.* `isDependanceActive` takes a valve as in place only if its number is below the last of the board (`Reach`, valve.cpp:357), and asks whether a valve has already moved only of those
two below the last (`Activated`, valve.cpp:331). So a valve that depends on the last valve, or on one of another board, ends every pass of the loop (`OutOfRange`, errDependOutsideOfRange), as does one whose
value in the file is neither 0 nor 1 (`Actuate`, errValueIsNotBinary). Valves behind it never move in that state. The last two valves are set again in every pass.

*Races of orders.* The operator may press keys at any time. `isEGchanged` reads the shared word up to four times while `processSync` may write it; with two orders in a row, a board may take the state
from one and the mode from the other, and keep that for ever, as the word equals EG from then on. `SequenceCompletes` and `ManualFollows` name this end and say that
there is no other: the board in manual mode under the number of the last state (EG = 1 is taken, the word becomes the manual order before the mode is set, and then 1 again: three keys), or in automatic mode under
the manual order (four keys). They promise the valves in front of the first one that can end a pass, and of these the ones that depend on such valves only (`Served`).

What the tests of the code leave to this model: a state without a file clears the table, so that all valves
close at once without order; a valve may be driven from old words in the first pass of manual mode; a failing GPIO call
postpones all valves behind it. The README of the CSV files says of a dependency that it must be *enclenchée*; the code asks that it is at
its target value, open or closed, and that is what the model does.

## 4. Runs

| Run | Instance | Shows |
|---|---|---|
| `triple_buffer` | one TPDO and one SoC-time channel, four payloads | types, `NoTornPayload`, `StableWhileUsed`, `BackByOneAtMost` |
| `sdo_seq` | one client, four payloads, four sequence numbers, history of two, two losses, two openings, restarts and aborts | `HistoryConsecutive`, `ConnectedHasRoom`, `InOrder` (across connections too), `AckedWasTaken` |
| `sdo_seq_live` | both may open, two attempts in all (one each, also at the same time, or two of one node), a datum each, busy server, Tx room of one, a loss | `NeverWithoutTimer`, `AttemptEnds`, `HistoryDrains` |
| `sdo_seq_only_data` | one client, two payloads | violation, see section 7 |
| `nmt_cn` | CN, queues of two, six network events, two application events, a callback that rejects or fails | `StageByStage`, `WaitsInNotActive`, `NoStaleFrames`, `ReadyNeedsBoth` |
| `nmt_boots` | MN with boot steps and timers, queues of twelve | `Boots`, `UserCatchesUp` |
| `cn_cycle` | PReq in every second cycle, thresholds 17 and 1, two events queued | `NoFalseLoss`, `TwiceAtMost`, `MissesAtMostOne`, `NoFalsePreqLoss`, `SilenceDetected` |
| `cn_once` | the same | violation, see section 7 |
| `mn_boot` | a mandatory CN with a dated configuration that may not match, hit by one fault of any kind (crash, cycle error, lost answer, late timeout) | `SignalAgrees`, `NobodyForgotten`, `BootCompletes` |
| `mn_async` | an async-only CN, no fault | violation, see section 7 |
| `circ_buf` | six words, blocks of 1, 4, 5 and 9 bytes | `CountAgrees`, `ImplementsFifo` |
| `cac_app` | the first and the last valve of a board, four states (one without a file, one with a dependency on another board), three keys, one failing call | `TimerJustified`, `DelayAfterLast`, `SequenceCompletes`, `ManualFollows` |

Why the bounds are enough:

- *triple_buffer.* With four payloads both sides pass through every assignment of three indices to roles, with the flag set
  late and cleared late; going back by two would take three payloads. RPDOs and SoC times have the same writer and reader; their initial
  numbering differs and both numberings occur.
- *sdo_seq.* Four payloads after the frames of the opening wrap around four numbers; a history of two fills; two losses cover the loss of a frame and of the
  request to repeat it; two openings let frames of one connection arrive in the next. Assumptions `HistorySize <= Threshold` and `2 * Threshold <= NumMod` hold of the code's 5, 25 and 64.
  `AckedWasTaken` is stated for the first connection and one client, where the counters of both sides have one meaning, and the run lets only the client send data; the theorem of
  section 6 covers data of both. 573 856 states.
- *sdo_seq_live.* `MaxOpen = 2` counts the attempts of both nodes together: one each, at the same time or one after the other, or two of one node, of which the second follows a restart or an
  abort. Only one node may answer busy; with `Servers = {client, server}` the run passes too (323 904 states, against 155 262).
- *nmt_cn.* Rings of two overflow in every combination, and that neither losing an event nor the CriticalError that follows carries the node on is the point. 10 333 421 states.
  Liveness cannot hold when events are lost: `nmt_boots` has room for all events the bounds allow (with rings of 6 TLC shows
  a lost state change). 1 129 379 states.
- *cn_cycle.* A report adds 8 points and a good cycle takes one away: with a threshold of 17 two reports are tolerated and the third is a cycle error,
  so all of the counter's branches occur. `Lag = 1`: frames and the timer wait while an event is queued, and one of them posts two at most, so that the queue holds `Lag + 1 = 2`; a kernel thread
  further behind is not in the run (`Lag = 2` was checked with a threshold of 9). The theorems hold for every lag.
- *mn_boot.* One CN goes through every state of the boot-up, with restore, download and store of its configuration, and is hit by one fault of any kind at any moment. `QueueBound` is how many events
  the user thread may be behind: three lets heartbeats, reports of commands and answers overtake the user's timers. 14 259 states. The invariants of the run hold with three faults too (615 715 states), and with two CNs
  without `CycleError`; `BootCompletes` does not survive a second fault, and `NobodyForgotten` not two CNs with `CycleError` (section 7). `SignalAgrees` is proved for any number of nodes and faults.
- *circ_buf.* Block lengths of all remainders modulo the alignment, and a ring in which every
  position of the end within a block occurs.
- *cac_app.* Three keys give every pair of orders and a way back. State 1 opens both valves together, state 2 closes them one after the other, with a delay of a tick;
  state 3 has no file; in state 4 the last valve waits for the first and for a valve of another board. The two valves are on either side of the range tests: of valves 1 to 10 the code asks whether they have moved already and accepts them
  as dependencies, 11 it only accepts, 12 neither. 1 155 796 states. The invariants and `DelayAfterLast` were also checked with the three valves 10, 11, 12 (10 395 908 states), which takes too long for the liveness properties.

`CHECK_DEADLOCK FALSE` is set where the system may stop: the bounds are used up, frames are all lost, the MN is dead or a program has ended; and in `NmtMnu`, where all
nodes are operational and nothing is left to be done (the cycle itself is not a step of that model).

## 5. Fairness

- *SdoSeq*: frames that are not lost arrive (`Taken`): the DLL sends what it has accepted. A timer that runs expires in the end *or is started anew again and again* (`Rearms`): a valid acknowledgement, a retransmission request or
  a datum starts the timer of an established connection anew (sdoseq.c:1260, 1274, 1532), any frame that of an attempt, and the timer module owes an expiry only to a timer that is left alone. What must not happen is that partners
  keep each other's timers from expiring and nothing is ever released; that is what `HistoryDrains` and `AttemptEnds` show. Losses are
  bounded, since no protocol ends when everything is lost. The command layer is not assumed to do anything.
- *NmtLocal*: the kernel and the user event threads run, and a running timer fires. Neither the network nor the application owes an event.
- *CnCycle*: the timer expires while it is armed and the kernel thread runs. `SilenceDetected` asks that the timer is armed when the MN falls silent:
  with a kernel thread several events behind, entering PreOp1 can delete a timer that a newer SoC has just armed.
- *NmtMnu*: the user thread serves its queues, first the kernel's (weak fairness), then its own (strong fairness: it is disabled again and again by events of
  the kernel, but these do not go on for ever). The asynchronous phases are granted, timers fire and SDO transfers end although a full queue (`QueueBound`,
  a bound of the model) may hold them up for a while: strong fairness. CNs follow the MN's commands. Faults, the fallback of the MN included, are never owed.
  Two assumptions about time scales stand in the guards: a command that is queued goes out before a timer of that node fires (`Commanded`; the shortest
  timer, that of the requests, takes the five cycles of `C_NMT_STATREQ_CYCLE`, and a command is sent in one of the next three asynchronous phases if few are queued), and a CN boots more slowly than the MN serves what it has under way for it (`Settled`).
- *CacApp*: the loops and the sync threads run, time passes, and of infinitely many PDOs not all are lost (strong fairness of
  `CnSyncFetch(pdo)`). No fairness for keys, failures or the shutdown.

## 6. Proofs

| Theorem | States |
|---|---|
| `TripleBuffer_proofs!TypeCorrect` | `Spec => []TypeOK` |
| `TripleBuffer_proofs!NeverTorn` | `Spec => []NoTornPayload` |
| `TripleBuffer_proofs!ReadBufferStable` | `Spec => StableWhileUsed` |
| `TripleBuffer_proofs!NeverBackByTwo` | `Spec => BackByOneAtMost` |
| `NmtLocal_proofs!SpecFlagsJustified` | the inductive invariant below |
| `NmtLocal_proofs!SpecReadyNeedsBoth` | `Spec => ReadyNeedsBoth` |
| `NmtLocal_proofs!SpecTypeOK` | `Spec => []TypeOK` |
| `NmtLocal_proofs!SpecNoStaleFrames` | `Spec => NoStaleFrames` |
| `NmtLocal_proofs!SpecFlowInv` | the inductive invariant of the next two |
| `NmtLocal_proofs!SpecStageByStage` | `Spec => StageByStage` |
| `NmtLocal_proofs!SpecWaitsInNotActive` | `Spec => WaitsInNotActive` |
| `CnCycle_proofs!CycleInvariant` | the inductive invariant below |
| `CnCycle_proofs!CycleTypes` | `Spec => []TypeOK` |
| `CnCycle_proofs!NoLossIsInvented` | `Spec => []NoFalseLoss` |
| `CnCycle_proofs!ALossIsReportedTwiceAtMost` | `Spec => []TwiceAtMost` |
| `CnCycle_proofs!OneOfTwoLossesIsReported` | `Spec => []MissesAtMostOne` |
| `CnCycle_proofs!NoPreqLossIsInvented` | `Spec => NoFalsePreqLoss` |
| `NmtMnu_proofs!TypesHold` | `Spec => []TypeOK` |
| `NmtMnu_proofs!SignalHolds` | `Spec => []SignalAgrees` |
| `SdoSeq_proofs!SpecNeverWithoutTimer` | `Spec => []NeverWithoutTimer` |
| `SdoSeq_proofs!SpecTypeOK` | `Spec => []TypeOK` |
| `SdoSeq_proofs!SpecHistoryConsecutive` | `Spec => []HistoryConsecutive` |
| `SdoSeq_proofs!SpecConnectedHasRoom` | `HistorySize >= 3` implies `Spec => []ConnectedHasRoom` |
| `SdoSeq_proofs!SpecInOrder` | `Spec => []InOrder` |
| `SdoSeqAcked_proofs!SpecAckedWasTaken` | `OneClient` and `Unmistaken` imply `Spec => []AckedWasTaken` |
| `CircBuf_proofs!TypesHold` | `Spec => []TypeOK` |
| `CircBuf_proofs!CountersAgree` | `Spec => []CountAgrees` |
| `CircBuf_proofs!RingIsFifo` | `Spec => ImplementsFifo` (the refinement of `Fifo`) |
| `CacApp_proofs!TypeCorrect` | `Spec => []TypeOK` |
| `CacApp_proofs!SpecTimerJustified` | `Spec => []TimerJustified` |
| `CacApp_proofs!SpecDelayAfterLast` | `Spec => DelayAfterLast` |

*TripleBuffer*, for any sets of channels and any number of writes. That no torn payload is consumed is not inductive: it holds because the writer's buffer is
nobody else's. The invariant `IInv` adds to the types that the three indices of a channel are different from each other, that a buffer which is `Torn` is the
writer's and the writer is copying or was aborted, and what each side holds at each of its steps. The proof has a case per step.
`BackByOneAtMost` needs to know how old the exchanged buffers are (`Aged`): before the reader's exchange the clean buffer is not older than the payload before the
last one it read; after it, the read buffer is not older than that, and the clean buffer, which was just read, not older than the last. A publication in between only puts
something newer into the clean buffer, so that nothing has to be said of the flag, which is what may be wrong.

*NmtLocal*, for every size of the queues, every set of events from the network and the application, and both roles. `ReadyNeedsBoth` compares
flags with what happened since the state was entered. `IInv` (`FlagsJustified`): a consent flag is set only in PreOp2, for an event of this visit, or
while the node runs through the initialisation; and `GsResetConfiguration`, through which alone the initialisation is left, clears them. `MoveFacts`,
`ResetFacts`, `TargetFacts`, about `NmtK` alone, say where the table of moves leads; `ProcessFacts` lifts them to `NmtkProcess`, `HandleKeeps` to the kernel's step.
`NoStaleFrames` says that no frame received before a reset is served after it. It needs `KInv`: `kint` holds only what the receive handler and the kernel post; the DLL is in the
initialisation when the kernel is, so that it takes no frame in; and a kernel thread that has turned to `u2k` there has found `kint` empty, and it is only from `u2k` that the
initialisation is left (`LeavingFacts`).

`StageByStage` and `WaitsInNotActive` look at everything that is under way between the two parts, and `FlowInv` orders it. Each stage has one event that leaves it forward,
and the user part posts that event when it was told of the stage. Read from the oldest to the newest, events in `u2k`, the state being handled and state changes in `k2u` belong to lower and
lower stages, none of them below the present one (`Ordered`): a reset only ever adds a lower stage at the end. So only the last can belong to the present visit (`Matched`), and when it has
reached `u2k` nothing else is left. Only switching off breaks this order, since the node starts again from below with remains of the earlier run under way; `Off` says that it starts again
when these are gone, because the application asks for nothing before it has been told GsOff, and GsOff is told after everything else. A CriticalError switches the node off as SwitchOff does, and comes when the user part has been told of an error
(`Fatal`, `ending`); an error event, and the handling of one, stand between state changes and disturb no order (`Idle`). `Waiting` says the same of the timer
of NotActive: it stops with the next state change, and what it has posted is served before. A lost event is just missing from the sequence. `MoveKinds` puts the moves of the kernel into four kinds, with a lemma
for each (`FlowResets`, `FlowStarts`, `FlowForward`, `FlowOutside`), and the steps of the user part have three (`FlowTaken`, `FlowFollowedUp`, `FlowPosted`).
The proof needs what `EventAssumption` says: what switches the node off comes from the user part, SwitchOff from the application and CriticalError as its answer to an error event.

*CnCycle*, for every threshold, every multiplexed cycle and any lag of the kernel thread. The three properties look at two cycles, the DLL at a frame: `IInv` links them.
`InPlace`: when the SoC of the cycle was received, the DLL waits for a frame that is still to come, so none is a surprise; `ReportsBounded`: a report other than the timer's last one has left
a mark in `lossSocStatus`, which suppresses the next; `Started`: what holds when the cycle begins; `Marked`: a cycle whose SoC was lost has been reported, or its mark makes
the timer report the next one. `ChangeFacts` says what `dllkstatemachine_changeState` does, in three parts (errors, marks, place); every frame's and the timer's step is then a case of `FrameFacts`.
For `NoFalsePreqLoss`, `PreqInv` adds where `cycleCount` stands: it misses a cycle with every lost SoC, so that once a PReq was received it lags behind the phase of the MN and never
runs ahead of it (`Lagging`). It comes round to zero only with the phase, and a machine that a SoC left waiting for a PReq with `cycleCount` at zero waits in a cycle that has one. Only a SoC
makes it wait (`WaitHolds`); a wait left over from an earlier NMT state is ended by the timer (`Awaited`), hence the property's condition that the timer runs.

*NmtMnu*, for any number of CNs of any kind, any faults, and a user thread any number of events behind. `signalSlaveCount` is set when a stage of the boot-up is entered, together with the flags of the nodes it
waits for, and counted down by six handlers. It agrees with the flags only if no flag is left over, that is if every stage is entered with the counter at zero. The kernel enters it first and
tells the user thread by an event, so the invariant says what NMT states are on their way in `k2u` (`Queued`): at most one that advances the MN, and nothing has moved since the user part was ready for it; behind it
perhaps one that takes it back to PreOp1, where everything is set anew. `Keeps` collects what leaves all this alone, and each handler is a chain of such steps and of the few that are not. The
broadcasts go to the nodes in ascending order (`Ascending`, a CHOOSE): that there is such a sequence needs an induction (`SortedUpTo`).

*CircBuf*, for every ring whose size is a multiple of four below 2^32, all blocks and all destinations. The offsets of the code run round the ring, the queue does not. The invariant says that there is a
chain of positions (`Chain`), the start of the oldest block, of the next, and so on to the write offset, each the one before plus the padded size that is stored there; `Around` takes a position to an offset.
A write, whether it wraps before the block, after the size or inside either part, lays a block behind the chain in free memory (`OnePart`, `TwoParts`), and the bytes of the others do not change
(`OldBytesStay`); a read takes the head of the chain. `BlockStart`, by which the refinement mapping `Contents` finds the blocks, is a recursive function; `StartsFollow` shows by induction
that it follows the chain. `WidthAssumption` keeps sizes within a UINT32, the type they have in the code.

*SdoSeq*, for all sizes of history, numbers, buffer and counters. Every handler is followed through its early returns: `AnswerGood` to `TimeoutEventGood` say of each operator that it
leaves a connection that is running with a timer, or stopped without.
The history (the first part of `SdoSeq_proofs`) is one invariant: an acknowledgement releases the right frames because the ring is consecutive (`Ring`), the ring stays consecutive because
`sendFrame` finds room, and there is room because an acknowledgement was processed before the state is Connected (`SoundCon`). `SomeAcked` and `NothingAcked` compute what the loop of
`deleteAckedFrameFromHistory` releases, in closed form: with e the distance of the acknowledged number from the oldest one, modulo `NumMod`, the first e + 1 frames if e is below
`Threshold`, else none. They rest on the lemmas on remainders (`Rem`), and on `2 * Threshold <= NumMod`. `Released` and `Appended` say that the ring survives both, and the rest follows the
handlers, through full Tx buffers and early returns. With a history of two, `processStateWaitAck` can be forced back to Connected by a retransmission request that names a frame sent
from inside the callback `AckReceived`, with one free place: hence `HistorySize >= 3` (`SDO_HISTORY_SIZE` is 5). No such request can be on its way then, as the run with a history of two shows; the proof does not look at the network.

`InOrder` does have to look at it: what a receiver compares are two bit fields, and a number stands for every datum a multiple of `NumMod` away. The proof gives every frame under way a *tag*, the count
its number is the remainder of: its datum, or, of an empty frame, the last datum submitted before it (`Sane`). The frames on their way to a node, behind the number which that node has taken over (`Heard`, a frame in front
of them, `Stream`), form a `Trail`: tags grow from frame to frame, except that data sent again go back by less than `HistorySize`, and where they go back, numbers and tags agree (`Follows`); none is ahead of what the
sender has submitted (`Behind`), and a connection request has a tag below all that comes after it, which is what separates a restarted connection from the one before. `OrderInv` adds that no datum handed over exceeds the tag of
the head, and that the frames of the history are the last data submitted (`Own`). The core is `Accepted`: a data frame with the next number is newer than the head, since an old one with this number would be a
whole turn back and the history is shorter than that. `Taking` and `Recast` move the head along, `MoreTold` and `Extended` append what a handler sends, and each handler is a chain of these (`CommandOrder`, `TimeoutOrder`,
`ReceiveOrder`, `LoseOrder`). TLC checked `OrderInv` as an invariant before it was proved, with one client (four data, two losses, two openings; 573 856 states) and with two (664 028 states).

`AckedWasTaken` (in `SdoSeqAcked_proofs`, which rests on the module before) compares what one node has counted off with what the other has been handed, in the first connection. `FirstInv` says that nothing has happened before it is opened, and that both nodes then
`Agree`, once in each direction. `Account` keeps the counts of a direction together: every frame on its way to the sender acknowledges a count of data that were handed over (`Reports`; if the
receiver sends no data itself, these counts only grow), so does every frame stored to be sent again (`Stock`), and no more have left the history than were handed over (`Paid`). `Runs` keeps what the frames carry: a frame under way whose number counts n data carries the n-th or nothing (`Numbered`, with the counts of `Carries`), none of them
lies a history behind one in front of it or behind what the receiver has taken, and the frames of the history are the last data submitted (`Own`). So a frame that is taken over as the next has the next count and not one a turn of
the numbers away (`Weigh`), and what is handed over in the n-th place is the n-th datum or an empty frame (`Placed`). A number that acknowledges a count from
before those released is a distance of less than `NumMod - Threshold` back, so that the code's test of two bit fields releases nothing for it (`AheadOf`, `AckedWithin`). The counts of both nodes begin at zero because the handshake leaves no frame behind that could pass for one of its steps: `ClientSide` and `ServerSide` say which frames
may be under way in each pair of states, and which node may be established while the other is not yet. Each handler either keeps the connection (`Due`), gives it up (`Quit`) or takes a step of the handshake (`Shake`), and the lemmas
`ReceiveFirst`, `TimeoutFirst`, `CommandFirst`, `LoseFirst` and `OpenFirst` put these into the actions. TLC checked the counts of `FirstInv` (without `Numbered`, which ranges over sequences) as an invariant before they were proved (100 014 states with data of one node, 2 238 699 with data of both).
The theorem says that what was released was handed over in its place, or an empty frame was (finding `sdo_seq_only_data`); not that every datum arrives. It has two hypotheses, which the run `sdo_seq` meets: `OneClient`, one node opens connections and the other answers; and `Unmistaken`, of two nodes that both send data, none submits more than `NumMod - Threshold`
(39 with the code's constants); when only one sends, it may submit any number. Without either the property fails, as section 7 shows.

*CacApp*, for every set of valves, all tables, any number of orders, failing calls and lost PDOs. That the delay has passed when a valve moves does not
follow from the types: the timer, which the code reads, has to agree with how long the valves it counts on have really been in place. `IInv` adds
`TimersCovered`: a running timer of a valve is not ahead of the clock of any valve it depends on, these are in place, and the mode is automatic;
and no timer runs between the taking of a state and the reading of its table. `ActuateKeeps` is its core: a valve that is about to move is not in place,
so that no other running timer counts on it; the last two valves, which are set again in every pass, keep their line when they are in place. `Least` (from the well-foundedness of `<`) shows that the loops over the valves go on with a valve.

Assumptions: the named `ASSUME`s of the modules, which TLC evaluates in every run, and two sets of hypotheses that are part of the statements: `HistorySize >= 3` of `SpecConnectedHasRoom`, `OneClient` and `Unmistaken` of `SpecAckedWasTaken`.

*Induction.* The library's induction theorems take an operator, which no installed prover can instantiate. `CircBuf_proofs` and `NmtMnu_proofs` prove one for a set instead (`Induction`): a set of numbers that
contains 0 and the successor of each of its members contains all. Were x missing, counting up would map the members up to x one to one into all of them but 0,
which a finite set does not allow. It is cited with the set of the numbers for which a claim holds.

Out of the prover's reach, and left to TLC: liveness under fairness (`AttemptEnds`, `HistoryDrains`, `Boots`, `UserCatchesUp`, `SilenceDetected`, `BootCompletes`, `SequenceCompletes`,
`ManualFollows`) and `ENABLED`. No module declares a RECURSIVE operator. Model-checked only:
`NobodyForgotten` of `NmtMnu`: it holds of the run's instance, and section 7 says for which constants it fails.

## 7. Where code and comments disagree

Three runs end in a violation, on purpose:

- `sdo_seq_only_data`: an empty acknowledgement carries the number of the latest data frame. When that frame was lost, the receiver takes the empty frame
  for it, delivers nothing as new data and acknowledges the number; the sender drops the frame. The comment (sdoseq.c:1291) speaks of "new command layer data".
- `mn_async`: when an async-only CN reports PreOp2 for the first time, `checkNmtState` calls `nodeBootStep2` (nmtmnu.c:3845) before it stores the new state
  (3983), which `nodeBootStep2` reads (2301). It finds the old state and sends nothing, and PREOP2_REACHED keeps every later status from trying again:
  the node stays in PreOp2.

- `cn_once`: the SoC is lost, the cycle timer reports it (dllkstatemachine.c:944), and then the next frame of the same cycle reports it again; the comments at 899, 927 and 952 want one
  report per cycle. With the default threshold of 15 and 8 points per report one lost SoC is a cycle error. `cn_cycle` shows that it is never more than two (`TwiceAtMost`).

The following was found with the same models and other constants; the definitions are there, and each takes a line in a `.cfg` to see again:

- `PreOp2NeedsBoth` (an MN in `NmtLocal`, one cycle error): the error takes the MN back to PreOp1 with the flag of the first visit still set (nmtk.c:1459); one of the
  two conditions is then enough to leave it.
- `ReadyIsMeant` (`NmtLocal`, a CN, queues of three, `RxEvents = {CeSoc, NmtCycleError, EnableReadyToOperate}`, `MaxRx = 8`): an EnterReadyToOperate posted in one visit of PreOp2 waits in `u2k` while frames, which are served first, take
  the kernel out of PreOp2 and back; it then counts as the consent of the new visit (nmtk.c:766-779), of which the user part does not know yet. `ReadyNeedsBoth` does not exclude it: it says when events reach the kernel, not when they were meant.
- `StageByStage` with an application that asks for SwReset after SwitchOff or a critical error, before it was told GsOff, as the reset key of the console demos can (demo_cn_console main.c:393): events of the earlier run carry the node on.
  CAC_CN and OBC_MN do not.
- `MandatoryFirst`, two mandatory CNs, one lost answer or crash: when a node falls back while the MN is in PreOp1, it is counted down again after it has come back (nmtmnu.c:2870), and nothing counts up for it (3917-3925), so that the MN goes
  on without the other one; the comment at 3684 says "all mandatory CNs configured successfully".
- `MandatoryFirst`, one mandatory CN, `LoseAnswer` and `LateReady`, two faults: an event of the long timer is queued when the node reaches ReadyToOp. Deleting the
  timer (nmtmnu.c:3859) does not count its counter up, as starting it does, so that the event is taken for CheckCom's, and the node is counted a second time.
- `NobodyForgotten`, two CNs and `CycleError`: a command queued before the MN fell back to PreOp1 is sent after it; what its transmission sets up (nmtmnu.c:3565)
  replaces the timer that would look for the node by one for a node that is Unknown, whose answers are then ignored. The same with one dated CN and two faults.
- `AckedWasTaken`, both peers clients and servers, a history of two, two losses: the server answers a request and connects, its answer is lost, and it submits its first datum. The node at the other end, which has been opened
  as a client in the meantime, takes that data frame for the answer to its own request, as it carries the expected codes, takes over its number and so acknowledges a datum it has not delivered. The run and the theorem are about one client.
- `AckedWasTaken`, one client, both nodes send data, a history of four, `NumMod = 8`, `Threshold = 4`, eight losses: a data frame sent again is the stored one, with the acknowledgement of its first sending (`addFrameToHistory`). If the client's frame
  gets lost until the server has had four more data acknowledged by empty frames, the old number, when the frame arrives at last, is half a turn back and counts as a new one: it releases a datum of the server that was never delivered. With the
  code's 64 numbers and 25 for the threshold this takes 39 data of one side between a frame's first sending and its arrival. The run has the server send no data, and `Unmistaken` excludes it from the theorem.
- `OldTimersDiscarded`, a dated CN and `CycleError`: four restarts of a timer while an event of it is queued bring the two-bit counter round; nmtmnu.c:1178 says of "an old (already deleted or modified) timer": "so discard it".
- `BootCompletes` with two lost answers: the abort of an SDO transfer that was started before the node was reset arrives while the next one is under way, is taken for its result (ConfErr) and resets the node again,
  and so on, in step, for ever.
- `NoFalsePreqLoss` without its condition that the timer runs, `MultipleCycleCnt = 4` and `Lag = 2`: a SoC received while the kernel thread has not yet made the node leave NotActive does not
  arm the timer, but the state machine waits for a PReq from then on. The node comes to ReadyToOperate without a timer, and the SoA of a later cycle reports the loss of a PReq that was
  received. (The proof attempt for the property as it stood before led to it.)

- `CacApp`, both ends of the race that `SequenceCompletes` and `ManualFollows` except: the board in manual mode under the number of a state (three keys), or in automatic mode under the manual order (four keys).
  The comment at CAC_CN opl.cpp:267 reads "set to manual mode if the order has been received, set to automatic otherwise"; the code takes the order and the mode from different reads of the word.
- `CacApp`, a table in which a valve depends on the last valve of its board: errDependOutsideOfRange ends every pass (valve.cpp:357-371), although the comment of `isDependanceActive` says that it is returned "when a
  dependance is not among the valves of the same board", and no later valve ever moves in that state. Valves 11 and 12 are set again in every pass (valve.cpp:331).

Read in the sources while modelling, without a model of its own: nmtmnu.c:2139 describes a condition that 2142 does not have; `reset()` (4015) deletes both timers without
counting up; `dllkcal_clearAsyncQueues` (dllkcal.c:808) does not reset the counts of requests of CNs; a StateMon timer replaced by a StatReq timer (nmtmnu.c:3018) leaves
NMT_CMD_ISSUED set until the next command.

## 8. Not modelled

`PROJECT.json` has every component with its reason. In short: targets' drivers and high-resolution timers, virtual Ethernet, LEDs, firmware
manager, other targets' bridges (pure I/O or not in this build); object dictionary access (a sequential table of conversions);
demos and the old console. The rest is in the plan. Formatting, logging, parsing of the CSV files and the numeric layout of frames are abstracted throughout.
In the modelled parts: the check of the device type in `cbIdentResponse` (nmtmnu.c:1659-1672), and a CLOCK_REALTIME that is set while a timer of a valve runs (valve.cpp:412).
A model with one connection, one channel or one board stands for tables of them where they are independent.

## 9. Plan

Done, in this order: `TripleBuffer`; `SdoSeq`; `NmtK` and `NmtLocal`; `CnCycle`; `CircBuf` implements `Fifo`; `CacApp`; `NmtMnu`.

Next models:

1. `AsyncSched`: `dllkcal.c` (906 to 1440): requests of the CNs by priority, which node is granted the slot, counts against queues that are cleared; over `Fifo`.
2. `MnCycle`: the MN's DLL states, the order of `dllknode.c` and the double-buffered list of `edrvcyclic.c`; the MN's error counters.
3. `SdoCom`: expedited and segmented transfers over an abstract in-order channel that `SdoSeq` is to implement as far as section 7 allows.
4. `NmtMnu`: halting, StartAllNodes, commands of the user; PRes chaining.
5. `CtrlMailbox`, PDO reconfiguration, `timer-generic.c`, `obdcdc.c`; status words of the board back to the console in `CacApp`.

Next theorems: `NobodyForgotten` and `OldTimersDiscarded` of `NmtMnu`
for a network without faults.
