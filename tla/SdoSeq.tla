------------------------------- MODULE SdoSeq -------------------------------
(***************************************************************************)
(* The SDO sequence layer, stack/src/user/sdo/sdoseq.c: the reliable       *)
(* transport below SDO transfers.  Two nodes keep one connection record    *)
(* (tSdoSeqCon) each; frames travel over the asynchronous phase of         *)
(* POWERLINK (or UDP), in order, but they get lost on the wire, and the    *)
(* Tx buffer of the data link layer may be full when a frame is to be sent.*)
(*                                                                         *)
(* A sequence byte has a number (upper six bits) and a connection code     *)
(* (lower two bits).  As in the code, recvSeqNum holds what this node      *)
(* sends as its own number (frame field scon) and sendSeqNum what it       *)
(* acknowledges (field rcon):                                              *)
(*   scon.con  0 close, 1 init, 2 valid, 3 ack request                     *)
(*   rcon.con  0 close, 1 init, 2 valid, 3 retransmission request          *)
(*                                                                         *)
(* The command layer above (sdocom, sdocomclt, sdocomsrv) is the           *)
(* environment: what it answers to a callback, and when it opens, uses     *)
(* and deletes a connection, is chosen freely within what its code does.   *)
(* Payload n is the n-th data frame a node's command layer hands over; 0   *)
(* is an empty frame.                                                      *)
(***************************************************************************)
EXTENDS Integers, Sequences

CONSTANTS Peers,        \* the two nodes
          Clients,      \* nodes whose command layer opens connections
          Servers,      \* nodes whose command layer may answer Busy
          HistorySize,  \* SDO_HISTORY_SIZE
          NumMod,       \* how many sequence numbers there are (64)
          Threshold,    \* SDO_SEQ_NUM_THRESHOLD, in sequence numbers (25)
          RetryCount,   \* SDO_SEQ_RETRY_COUNT
          InactiveThld, \* SDO_SEQ_CMDL_INACTIVE_THLD
          TxRoom,       \* frames the DLL takes before it reports a full buffer
          MaxData,      \* bound: payloads each node submits
          MaxLoss,      \* bound: frames lost on the wire
          MaxOpen       \* bound: connections opened

ASSUME PeersAssumption == /\ \E a, b \in Peers : a # b /\ Peers = {a, b}
                          /\ Clients \subseteq Peers /\ Servers \subseteq Peers
ASSUME SizesAssumption == /\ HistorySize \in Nat /\ NumMod \in Nat
                          /\ Threshold \in Nat /\ TxRoom \in Nat \ {0}
                          /\ 2 <= HistorySize /\ HistorySize <= Threshold
                          /\ 2 * Threshold <= NumMod
ASSUME BoundsAssumption == /\ RetryCount \in Nat /\ InactiveThld \in Nat
                           /\ MaxData \in [Peers -> Nat]
                           /\ MaxLoss \in Nat /\ MaxOpen \in Nat

Other(p) == CHOOSE q \in Peers : q # p

Numbers    == 0..(NumMod - 1)
Bytes      == [num : Numbers, con : 0..3]
Frames     == [scon : Bytes, rcon : Bytes, data : Nat]
Slots      == 0..(HistorySize - 1)
States     == {"Idle", "Init1", "Init2", "Init3", "Connected", "WaitAck"}
Returns    == {"ok", "busy", "error"}   \* of the command layer's callbacks
Replies    == {"none", "empty", "data"} \* what it sends from inside them
InitStates == {"Init1", "Init2", "Init3"}

Byte(n, c)   == [num |-> n, con |-> c]
Coded(b, c)  == [b EXCEPT !.con = c]
NextNum(n)   == (n + 1) % NumMod
NoFrame      == [scon |-> Byte(0, 0), rcon |-> Byte(0, 0), data |-> 0]

(* deleteLowLayerConnection: the connection record is cleared.             *)
ClosedCon == [open |-> FALSE, state |-> "Idle", timer |-> FALSE,
              recvSeqNum |-> Byte(0, 0), sendSeqNum |-> Byte(0, 0),
              frames |-> [i \in Slots |-> NoFrame],
              free |-> HistorySize, writeIndex |-> 0, ackIndex |-> 0,
              retry |-> 0, inactive |-> 0, flow |-> FALSE]

(* sdoseq_init clears the records and does not set freeEntries.            *)
FreshCon == [ClosedCon EXCEPT !.free = 0]

VARIABLES con,       \* con[p]: the tSdoSeqCon of node p
          net,       \* net[p]: frames of p on their way, oldest first
          submitted, \* submitted[p]: payloads node p has numbered
          delivered, \* delivered[p]: what p's command layer was handed
          lost,      \* frames lost so far
          opened     \* connections opened so far

vars == <<con, net, submitted, delivered, lost, opened>>

Init == /\ con = [p \in Peers |-> FreshCon]
        /\ net = [p \in Peers |-> << >>]
        /\ submitted = [p \in Peers |-> 0]
        /\ delivered = [p \in Peers |-> << >>]
        /\ lost = 0
        /\ opened = 0

-----------------------------------------------------------------------------
(* A handler works on a record: c is the connection, out the frames it has *)
(* sent, room how many the DLL takes, got the payloads it has delivered    *)
(* and last the last payload that was submitted, limit its bound.          *)

Work(p) == [c |-> con[p], out |-> << >>, room |-> TxRoom - Len(net[p]),
            got |-> << >>, last |-> submitted[p], limit |-> MaxData[p]]

Frame(c, n) == [rcon |-> c.sendSeqNum, scon |-> c.recvSeqNum, data |-> n]

(* sendToLowerLayer: kErrorDllAsyncTxBufferFull when nothing fits.         *)
Full(w)    == Len(w.out) >= w.room
Emit(w, f) == IF Full(w) THEN w ELSE [w EXCEPT !.out = Append(@, f)]

(* sendFrame without data: an empty frame with the current numbers.        *)
SendEmpty(w) == Emit(w, Frame(w.c, 0))

(* readFromHistory: the frames that are not acknowledged, oldest first.    *)
Used(c)    == HistorySize - c.free
Slot(c, i) == (c.ackIndex + i) % HistorySize
Window(c)  == [i \in 1..Used(c) |-> c.frames[Slot(c, i - 1)]]

(* sendAllTxHistory, and the sending loop of sendFrame: a full Tx buffer   *)
(* ends it and is not an error.                                            *)
SendWindow(w) ==
    LET h == Window(w.c)
        n == IF Used(w.c) <= w.room - Len(w.out) THEN Used(w.c) ELSE w.room - Len(w.out)
    IN  [w EXCEPT !.out = @ \o SubSeq(h, 1, n)]

SendOldest(w) == IF Used(w.c) = 0 THEN w ELSE Emit(w, w.c.frames[w.c.ackIndex])

(* addFrameToHistory *)
AddToHistory(c, f) ==
    [c EXCEPT !.frames[c.writeIndex] = f, !.free = @ - 1,
              !.writeIndex = (@ + 1) % HistorySize]

(* The oldest frame of the history is acknowledged by number n; when the   *)
(* history is empty, this compares with whatever the slot contains.        *)
Acks(n, f)         == (n - f.scon.num) % NumMod < Threshold
HistoryAcked(c, n) == Acks(n, c.frames[c.ackIndex])
AckValid(c, n)     == (c.recvSeqNum.num - n) % NumMod < Threshold

(* deleteAckedFrameFromHistory deletes frame after frame.  The loop ends    *)
(* behind the frame with number n or at the write index; a frame that is   *)
(* not acknowledged ends it too, and then ackIndex is not stored.          *)
LastAcked(c, n, i) == \/ (n - 1 - c.frames[Slot(c, i)].scon.num) % NumMod >= Threshold
                      \/ Slot(c, i + 1) = c.writeIndex

AckedCount(c, n) ==
    LET ends(j) == \/ j > 0 /\ LastAcked(c, n, j - 1)
                   \/ ~Acks(n, c.frames[Slot(c, j)])
    IN  CHOOSE j \in 0..HistorySize : ends(j) /\ \A i \in 0..(j - 1) : ~ends(i)

DeleteAckedOneOff(c, n) ==   \* (a slip: the index stops one frame short)
    LET k == AckedCount(c, n)
    IN  IF c.free = HistorySize \/ k = 0 THEN c
        ELSE [c EXCEPT !.free = @ + k, !.ackIndex = Slot(c, k - 1)]

DeleteAcked(c, n) ==
    LET k == AckedCount(c, n)
    IN  IF c.free = HistorySize THEN c
        ELSE [c EXCEPT !.free = @ + k,
                       !.ackIndex = IF k > 0 /\ LastAcked(c, n, k - 1) THEN Slot(c, k) ELSE @]

-----------------------------------------------------------------------------
(* Sending: event kSdoSeqEventFrameSend of processStateConnected.          *)

Flow(w, ret) == [w EXCEPT !.c.flow = (ret = "busy")]

(* A data frame takes the next number and a place in the history, all that *)
(* is not acknowledged is sent, and the callback FrameSent tells whether   *)
(* the command layer is busy.  One free place must remain for the state to *)
(* stay Connected.                                                         *)
SendFrameFillsHistory(w, ret) ==   \* (a slip: WaitAck only when it is full)
    LET c1 == [w.c EXCEPT !.recvSeqNum.num = NextNum(@)]
        c2 == AddToHistory(c1, Frame(c1, w.last + 1))
        c3 == [c2 EXCEPT !.state = IF c2.free = 0 THEN "WaitAck" ELSE @]
    IN  IF c1.free = 0 THEN [w EXCEPT !.c = c1]
        ELSE Flow(SendWindow([w EXCEPT !.c = c3, !.last = @ + 1]), ret)

SendFrame(w, ret) ==
    LET c1 == [w.c EXCEPT !.recvSeqNum.num = NextNum(@)]
        c2 == AddToHistory(c1, Frame(c1, w.last + 1))
        c3 == [c2 EXCEPT !.state = IF c2.free <= 1 THEN "WaitAck" ELSE @]
    IN  IF c1.free = 0 THEN [w EXCEPT !.c = c1]
        ELSE Flow(SendWindow([w EXCEPT !.c = c3, !.last = @ + 1]), ret)

(* sdoseq_sendData: refused unless Connected.                              *)
SendData(w, reply, ret) ==
    LET w1 == [w EXCEPT !.c.flow = FALSE, !.c.inactive = 0, !.c.timer = TRUE]
    IN  CASE w.c.state # "Connected" \/ reply = "none" -> w
          [] w.c.state = "Connected" /\ reply = "empty" -> SendEmpty(w1)
          [] w.c.state = "Connected" /\ reply = "data" ->
                 IF w.last < w.limit THEN SendFrame(w1, ret) ELSE w

-----------------------------------------------------------------------------
(* Receiving: event kSdoSeqEventFrameRec.  ret and reply are what the      *)
(* command layer answers to, and sends from inside, its callbacks; deletes *)
(* tells whether it calls sdoseq_deleteCon on TransferAbort (a client that *)
(* waits for its connection) or not (a server).                            *)

Code(f) == <<f.rcon.con, f.scon.con>>

(* The partner's numbers are taken over, the own code is advanced and sent *)
(* back; the state stays as it is when the Tx buffer is full.              *)
AnswerWithoutTimer(w, f, state) ==   \* (a slip: the timer is not started)
    LET w1 == [w EXCEPT !.c.recvSeqNum = Byte(f.rcon.num, f.rcon.con + 1),
                        !.c.sendSeqNum = f.scon]
    IN  IF Full(w) THEN w1 ELSE [SendEmpty(w1) EXCEPT !.c.state = state]

Answer(w, f, state) ==
    LET w1 == [w EXCEPT !.c.recvSeqNum = Byte(f.rcon.num, f.rcon.con + 1),
                        !.c.sendSeqNum = f.scon]
    IN  IF Full(w) THEN w1
        ELSE [SendEmpty(w1) EXCEPT !.c.state = state, !.c.timer = TRUE]

InitHistory(c) == [c EXCEPT !.free = HistorySize, !.writeIndex = 0, !.ackIndex = 0]

ConnectKeepsHistory(w) ==   \* (a slip: the history of the last connection stays)
    [w EXCEPT !.c.state = "Connected", !.c.timer = TRUE]

Connect(w) == [w EXCEPT !.c = [InitHistory(w.c) EXCEPT !.state = "Connected", !.timer = TRUE]]

(* kAsySdoConStateConClosed, InitError, Timeout: the command layer deletes *)
(* the connection from inside the callback, in state Idle.                 *)
Closed(w) == [w EXCEPT !.c = ClosedCon]

(* A close frame: both codes are cleared; a full Tx buffer is ignored.     *)
SendClose(w) == SendEmpty([w EXCEPT !.c.sendSeqNum.con = 0, !.c.recvSeqNum.con = 0])

(* An unexpected frame while connecting is answered with a close, unless   *)
(* it is a close itself.                                                   *)
InitError(w, f) ==
    Closed(IF Code(f) = <<0, 0>> THEN w
           ELSE SendClose([w EXCEPT !.c.recvSeqNum = f.rcon, !.c.sendSeqNum = f.scon]))

IdleRec(w, f) == IF Code(f) = <<0, 1>> THEN Answer(w, f, "Init2") ELSE Closed(w)

(* kErrorRetry: the partner initialises anew; receiveCb processes the frame *)
(* again in state Idle, in a new connection record if this one was deleted. *)
Reinit(w, f, deletes) ==
    IdleRec([w EXCEPT !.c = IF deletes THEN [ClosedCon EXCEPT !.open = TRUE]
                            ELSE [@ EXCEPT !.state = "Idle", !.timer = FALSE]], f)

Init1Rec(w, f) ==
    CASE Code(f) = <<1, 1>> -> Answer(w, f, "Init3")
      [] Code(f) = <<0, 1>> -> Answer(w, f, "Init2")
      [] OTHER              -> InitError(w, f)

Init2Rec(w, f, deletes) ==
    CASE Code(f) = <<1, 2>> -> LET w1 == Answer(w, f, "Connected")
                               IN  IF Full(w) THEN w1 ELSE Connect(w1)
      [] Code(f) = <<1, 1>> -> Answer(w, f, "Init3")
      [] Code(f) = <<0, 1>> -> Reinit(w, f, deletes)
      [] OTHER              -> InitError(w, f)

Init3Rec(w, f, deletes) ==
    CASE Code(f) = <<2, 2>> -> Connect([w EXCEPT !.c.recvSeqNum = f.rcon,
                                                 !.c.sendSeqNum = f.scon])
      [] Code(f) = <<1, 1>> -> w   \* server repeated an InitAck frame
      [] Code(f) = <<1, 2>> -> LET w1 == Answer(w, f, "Connected")
                               IN  IF Full(w) THEN w1 ELSE Connect(w1)
      [] Code(f) = <<0, 1>> -> Reinit(w, f, deletes)
      [] OTHER              -> InitError(w, f)

(* A valid frame with the next number is command layer data.  Under flow   *)
(* control it is not passed on and its number not taken over.              *)
Expected(c, f) == f.scon.num = NextNum(c.sendSeqNum.num)

DeliverAcksUnderFlow(w, f, ret, reply) ==   \* (a slip: the number is taken over)
    LET w2 == [w EXCEPT !.c.inactive = 0,   \* although the data are not
                        !.c.sendSeqNum = Byte(f.scon.num, f.scon.con - (f.scon.con % 2))]
    IN  IF w.c.flow THEN w2
        ELSE Flow(SendData([w2 EXCEPT !.got = Append(@, f.data)], reply, ret), ret)

DeliverKeepsNumber(w, f, ret, reply) ==   \* (a slip: the number is not taken over)
    LET w1 == [w EXCEPT !.c.inactive = 0]
        w2 == [w1 EXCEPT !.got = Append(@, f.data)]
    IN  IF w.c.flow THEN w1 ELSE Flow(SendData(w2, reply, ret), ret)

Deliver(w, f, ret, reply) ==
    LET w1 == [w EXCEPT !.c.inactive = 0]
        w2 == [w1 EXCEPT !.c.sendSeqNum = Byte(f.scon.num, f.scon.con - (f.scon.con % 2)),
                         !.got = Append(@, f.data)]
    IN  IF w.c.flow THEN w1 ELSE Flow(SendData(w2, reply, ret), ret)

(* The number is ahead of the expected one.  The code subtracts whole      *)
(* bytes: a smaller connection code borrows from the number.               *)
Skipped(c, f) ==
    LET borrow == IF f.scon.con < c.sendSeqNum.con THEN 1 ELSE 0
    IN  (f.scon.num - c.sendSeqNum.num - 1 - borrow) % NumMod < Threshold

AckCode(c) == Coded(c.sendSeqNum, IF c.flow THEN 3 ELSE 2)

SendRetransmissionRequest(w) ==
    [SendEmpty([w EXCEPT !.c.sendSeqNum.con = 3]) EXCEPT !.c.sendSeqNum.con = 2]

AnswerAckRequest(w, f) ==
    IF f.scon.con = 3 THEN SendEmpty([w EXCEPT !.c.sendSeqNum = AckCode(w.c)]) ELSE w

(* sendHistoryOldestSegm: an acknowledgement of an old frame.              *)
ResendOldest(w, f) ==
    IF f.rcon.num # w.c.recvSeqNum.num /\ f.rcon.con = 2 THEN SendOldest(w) ELSE w

Alive(w) == [w EXCEPT !.c.timer = TRUE, !.c.retry = 0]

ConnectedRec(w, f, deletes, ret, reply) ==
    LET n  == f.rcon.num
        w1 == IF AckValid(w.c, n) \/ HistoryAcked(w.c, n) THEN Alive(w) ELSE w
        w2 == [w1 EXCEPT !.c = DeleteAcked(w1.c, n)]
        w3 == IF f.rcon.con = 3 THEN SendWindow(Alive(w2)) ELSE w2
        w4 == ResendOldest(w3, f)
    IN  CASE f.scon.con = 0 -> Closed(w)
          [] f.scon.con = 1 -> Reinit(w, f, deletes)
          [] f.scon.con \in {2, 3} /\ Expected(w4.c, f) ->
                 AnswerAckRequest(Deliver(w4, f, ret, reply), f)
          [] f.scon.con \in {2, 3} /\ ~Expected(w4.c, f) /\ Skipped(w4.c, f) ->
                 SendRetransmissionRequest(w4)
          [] OTHER -> AnswerAckRequest(w4, f)

(* The history has room again: back to Connected, and AckReceived, from    *)
(* inside of which a segmented upload sends its next frame.                *)
AckReceived(w, n, ret, onAck) ==
    LET w1 == [w EXCEPT !.c = DeleteAcked(w.c, n)]
        w2 == [w1 EXCEPT !.c.recvSeqNum.con = 2, !.c.state = "Connected"]
    IN  Flow(SendData(w2, onAck, ret), ret)

(* Case 2: a valid acknowledgement; an error of a callback ends it.        *)
WaitAckValid(w, f, ret, reply, onAck) ==
    LET acked == HistoryAcked(w.c, f.rcon.num)
        w1 == IF acked THEN AckReceived(Alive(w), f.rcon.num, ret, onAck) ELSE w
        w2 == IF Expected(w1.c, f) THEN Deliver(w1, f, ret, reply) ELSE w1
    IN  CASE acked /\ ret = "error" -> w1
          [] ~(acked /\ ret = "error") /\ ret = "error" /\ w2.got # w1.got -> w2
          [] OTHER -> ResendOldest(w2, f)

(* Case 3: a retransmission request.                                       *)
WaitAckRequest(w, f, ret, reply, onAck) ==
    LET acked == HistoryAcked(w.c, f.rcon.num)
        w1 == IF acked THEN AckReceived(w, f.rcon.num, ret, onAck) ELSE w
        w2 == Alive(w1)
        w3 == [w2 EXCEPT !.c.state = "Connected"]
    IN  CASE acked /\ ret = "error" -> w1
          [] ~(acked /\ ret = "error") /\ f.rcon.num # w2.c.recvSeqNum.num -> SendWindow(w2)
          [] OTHER -> IF Expected(w3.c, f) THEN Deliver(w3, f, ret, reply)
                      ELSE SendEmpty([w3 EXCEPT !.c.recvSeqNum = Byte(f.rcon.num, 2)])

(* Whatever the event, processStateWaitAck first marks the own number as   *)
(* an ack request.                                                         *)
RequestAck(w) == [w EXCEPT !.c.recvSeqNum.con = 3]

WaitAckRec(w, f, deletes, ret, reply, onAck) ==
    CASE f.scon.con = 1 -> Reinit(RequestAck(w), f, deletes)
      [] f.scon.con # 1 /\ f.rcon.con = 0 -> Closed(w)
      [] f.scon.con # 1 /\ f.rcon.con = 2 ->
             WaitAckValid(RequestAck(w), f, ret, reply, onAck)
      [] f.scon.con # 1 /\ f.rcon.con = 3 ->
             WaitAckRequest(RequestAck(w), f, ret, reply, onAck)
      [] OTHER -> RequestAck(w)

-----------------------------------------------------------------------------
(* Timeouts of the connection's timer.                                     *)

FinalTimeout(w) == Closed(SendClose(w))

(* Ask for an acknowledgement: with the oldest frame of the history, whose *)
(* codes are changed in place, or with an empty frame.                     *)
SubTimeoutOnce(w) ==   \* (a slip: the timer is not started again)
    LET w1 == [w EXCEPT !.c.sendSeqNum = AckCode(w.c), !.c.retry = @ + 1]
        i  == w1.c.ackIndex
        w2 == [w1 EXCEPT !.c.frames[i].scon.con = 3,
                         !.c.frames[i].rcon.con = IF w.c.flow THEN 3 ELSE 2]
    IN  IF Used(w.c) > 0 THEN SendOldest(w2)
        ELSE Emit(w1, [Frame(w1.c, 0) EXCEPT !.scon.con = 3])

SubTimeoutUncounted(w) ==   \* (a slip: the retry counter is not incremented)
    LET w1 == [w EXCEPT !.c.sendSeqNum = AckCode(w.c), !.c.timer = TRUE]
        i  == w1.c.ackIndex
        w2 == [w1 EXCEPT !.c.frames[i].scon.con = 3,
                         !.c.frames[i].rcon.con = IF w.c.flow THEN 3 ELSE 2]
    IN  IF Used(w.c) > 0 THEN SendOldest(w2)
        ELSE Emit(w1, [Frame(w1.c, 0) EXCEPT !.scon.con = 3])

SubTimeout(w) ==
    LET w1 == [w EXCEPT !.c.sendSeqNum = AckCode(w.c), !.c.retry = @ + 1, !.c.timer = TRUE]
        i  == w1.c.ackIndex
        w2 == [w1 EXCEPT !.c.frames[i].scon.con = 3,
                         !.c.frames[i].rcon.con = IF w.c.flow THEN 3 ELSE 2]
    IN  IF Used(w.c) > 0 THEN SendOldest(w2)
        ELSE Emit(w1, [Frame(w1.c, 0) EXCEPT !.scon.con = 3])

(* processTimeoutEvent: without flow control, an idle command layer is     *)
(* given InactiveThld sub-timeouts.                                        *)
TimeoutEventOneMore(w) ==   \* (a slip: one retry too many)
    LET counted == w.c.inactive < InactiveThld
        w1      == IF w.c.flow THEN w ELSE [w EXCEPT !.c.inactive = @ + 1]
    IN  IF (w.c.flow \/ counted) /\ w.c.retry <= RetryCount THEN SubTimeout(w1)
        ELSE FinalTimeout(w)

TimeoutEvent(w) ==
    LET counted == w.c.inactive < InactiveThld
        w1      == IF w.c.flow THEN w ELSE [w EXCEPT !.c.inactive = @ + 1]
    IN  IF (w.c.flow \/ counted) /\ w.c.retry < RetryCount THEN SubTimeout(w1)
        ELSE FinalTimeout(w)

-----------------------------------------------------------------------------
(* Steps.                                                                  *)

Finish(p, w) == /\ con' = [con EXCEPT ![p] = w.c]
                /\ submitted' = [submitted EXCEPT ![p] = w.last]
                /\ delivered' = [delivered EXCEPT ![p] = @ \o w.got]

(* sdoseq_initCon: an open connection that is not Idle is left as it is.   *)
InitCon(p) ==
    LET w1 == [Work(p) EXCEPT !.c.open = TRUE, !.c.recvSeqNum = Byte(0, 1),
                              !.c.sendSeqNum = Byte(0, 0)]
        w2 == IF Full(w1) THEN w1
              ELSE [SendEmpty(w1) EXCEPT !.c.flow = FALSE, !.c.state = "Init1",
                                         !.c.timer = TRUE]
    IN  /\ p \in Clients
        /\ opened < MaxOpen
        /\ con[p].state = "Idle"
        /\ opened' = opened + 1
        /\ net' = [net EXCEPT ![p] = @ \o w2.out]
        /\ Finish(p, w2)
        /\ UNCHANGED lost

(* sdoseq_deleteCon by the command layer, outside of a callback; only a    *)
(* connection in state Connected says good-bye.                            *)
DeleteCon(p) ==
    LET w == IF con[p].state = "Connected" THEN SendClose(Work(p)) ELSE Work(p)
    IN  /\ con[p].open
        /\ net' = [net EXCEPT ![p] = @ \o w.out]
        /\ Finish(p, Closed(w))
        /\ UNCHANGED <<lost, opened>>

(* The node restarts; the partner does not learn of it.                    *)
Restart(p) ==
    /\ con[p].open
    /\ Finish(p, [Work(p) EXCEPT !.c = FreshCon])
    /\ UNCHANGED <<net, lost, opened>>

(* Busy is what a server answers while an object access is pending; it has *)
(* sent nothing then.                                                      *)
Answers(p, ret, reply) == ret = "busy" => p \in Servers /\ reply = "none"

(* sdoseq_sendData outside of a callback: a client's request, or what a    *)
(* server answers later to a request that was delivered.                   *)
Submit(p, ret) ==
    LET w == SendData(Work(p), "data", ret)
    IN  /\ con[p].state = "Connected"
        /\ p \in Clients \/ delivered[p] # << >>
        /\ Answers(p, ret, "none")
        /\ submitted[p] < MaxData[p]
        /\ net' = [net EXCEPT ![p] = @ \o w.out]
        /\ Finish(p, w)
        /\ UNCHANGED <<lost, opened>>

(* receiveCb: a frame of the partner is processed in the state of the       *)
(* connection; a closed connection is opened for it.                       *)
Incoming(p) == Head(net[Other(p)])
Opened(p)   == [Work(p) EXCEPT !.c.open = TRUE]

Receive(p, w) == /\ net' = [net EXCEPT ![Other(p)] = Tail(@), ![p] = @ \o w.out]
                 /\ Finish(p, w)
                 /\ UNCHANGED <<lost, opened>>

Expecting(p, state) == net[Other(p)] # << >> /\ con[p].state = state

ReceiveIdle(p)  == Expecting(p, "Idle") /\ Receive(p, IdleRec(Opened(p), Incoming(p)))
ReceiveInit1(p) == Expecting(p, "Init1") /\ Receive(p, Init1Rec(Opened(p), Incoming(p)))
ReceiveInit2(p, deletes) ==
    Expecting(p, "Init2") /\ Receive(p, Init2Rec(Opened(p), Incoming(p), deletes))
ReceiveInit3(p, deletes) ==
    Expecting(p, "Init3") /\ Receive(p, Init3Rec(Opened(p), Incoming(p), deletes))
ReceiveConnected(p, deletes, ret, reply) ==
    /\ Expecting(p, "Connected")
    /\ Answers(p, ret, reply)
    /\ Receive(p, ConnectedRec(Opened(p), Incoming(p), deletes, ret, reply))
ReceiveWaitAck(p, deletes, ret, reply, onAck) ==
    /\ Expecting(p, "WaitAck")
    /\ Answers(p, ret, reply) /\ Answers(p, ret, onAck)
    /\ Receive(p, WaitAckRec(Opened(p), Incoming(p), deletes, ret, reply, onAck))

(* sdoseq_processEvent: the timer is deleted, then the timeout processed.  *)
Timeout(p) ==
    LET w == [Work(p) EXCEPT !.c.timer = FALSE]
        r == CASE con[p].state = "Idle"       -> w
               [] con[p].state \in InitStates -> FinalTimeout(w)
               [] con[p].state = "Connected"  -> TimeoutEvent(w)
               [] con[p].state = "WaitAck"    -> TimeoutEvent(RequestAck(w))
    IN  /\ con[p].timer
        /\ net' = [net EXCEPT ![p] = @ \o r.out]
        /\ Finish(p, r)
        /\ UNCHANGED <<lost, opened>>

(* The wire: the frame at the head of a queue is lost.                     *)
Lose(p) ==
    /\ net[p] # << >>
    /\ lost < MaxLoss
    /\ lost' = lost + 1
    /\ net' = [net EXCEPT ![p] = Tail(@)]
    /\ UNCHANGED <<con, submitted, delivered, opened>>

ReceiveAny(p) ==
    \/ ReceiveIdle(p)
    \/ ReceiveInit1(p)
    \/ \E deletes \in BOOLEAN :
           \/ ReceiveInit2(p, deletes)
           \/ ReceiveInit3(p, deletes)
           \/ \E ret \in Returns, reply \in Replies :
                  \/ ReceiveConnected(p, deletes, ret, reply)
                  \/ \E onAck \in {"none", "data"} :
                         ReceiveWaitAck(p, deletes, ret, reply, onAck)

Next == \E p \in Peers :
            \/ InitCon(p) \/ DeleteCon(p) \/ Restart(p) \/ Timeout(p) \/ Lose(p)
            \/ \E ret \in Returns : Submit(p, ret)
            \/ ReceiveAny(p)

Spec == Init /\ [][Next]_vars

Established(c) == c.state \in {"Connected", "WaitAck"}

(* Frames that are not lost arrive: WF_vars(ReceiveAny(p)) spelled out,     *)
(* which TLC evaluates faster, as ReceiveAny(p) is enabled while frames    *)
(* are on their way and is the only step that shortens the queue without a *)
(* loss.  A running timer expires unless it is started anew again and      *)
(* again, as every valid acknowledgement, retransmission request or datum  *)
(* does in an established connection, and any frame before that.           *)
Taken(p) == Len(net'[Other(p)]) < Len(net[Other(p)]) /\ lost' = lost
Rearms(p) ==
    LET c == con[p]
        n == Incoming(p).rcon.num
    IN  /\ Taken(p)
        /\ Established(c) => \/ c.state = "Connected" /\ AckValid(c, n)
                             \/ HistoryAcked(c, n)
                             \/ Incoming(p).rcon.con = 3
                             \/ delivered'[p] # delivered[p]

Fairness == \A p \in Peers :
                /\ []<>(net[Other(p)] = << >>) \/ []<><<Taken(p)>>_vars
                /\ []<>(~con[p].timer) \/ []<><<Timeout(p) \/ Rearms(p)>>_vars

FairSpec == Spec /\ Fairness

-----------------------------------------------------------------------------
(* Properties.                                                             *)

Connections ==
    [open : BOOLEAN, state : States, timer : BOOLEAN, recvSeqNum : Bytes,
     sendSeqNum : Bytes, frames : [Slots -> Frames], free : 0..HistorySize,
     writeIndex : Slots, ackIndex : Slots, retry : 0..RetryCount,
     inactive : 0..InactiveThld, flow : BOOLEAN]

(* The types of the connection records (tSdoSeqCon) and of the frames; a   *)
(* node never has more frames on their way than the DLL takes.             *)
TypeOK == /\ con \in [Peers -> Connections]
          /\ net \in [Peers -> Seq(Frames)]
          /\ \A p \in Peers : Len(net[p]) <= TxRoom
          /\ submitted \in [Peers -> Nat]
          /\ delivered \in [Peers -> Seq(Nat)]
          /\ lost \in 0..MaxLoss
          /\ opened \in 0..MaxOpen

(* The history ring and the send counter agree: the frames between ackIndex *)
(* and writeIndex carry consecutive numbers up to the current one, so that *)
(* an acknowledged number names exactly the frames it releases.            *)
HistoryConsecutive ==
    \A p \in Peers :
        LET c == con[p]
        IN  Established(c) =>
                /\ c.writeIndex = (c.ackIndex + Used(c)) % HistorySize
                /\ \A i \in 1..Used(c) :
                       Window(c)[i].scon.num = (c.recvSeqNum.num - Used(c) + i) % NumMod

(* A connection that accepts data has two free places, one more than it    *)
(* needs: sendFrame never increments the number and then finds the history *)
(* full.                                                                   *)
ConnectedHasRoom == \A p \in Peers : con[p].state = "Connected" => con[p].free >= 2

(* No connection that is being established or used is without a running    *)
(* timer: every early return of the handlers leaves one.                   *)
NeverWithoutTimer == \A p \in Peers : con[p].timer <=> con[p].state # "Idle"

(* Data frames reach the partner's command layer in the order of their     *)
(* submission, and none twice, whatever is lost, sent again, acknowledged  *)
(* or restarted.                                                           *)
InOrder ==
    \A p \in Peers : \A i, j \in 1..Len(delivered[p]) :
        i < j /\ delivered[p][j] # 0 => delivered[p][i] < delivered[p][j]

(* An acknowledgement releases what the partner has taken over: where a    *)
(* payload has left the history, the partner's command layer was handed    *)
(* that payload or, as OnlyDataDelivered shows it can be, an empty frame   *)
(* with its number; never nothing, and never another payload in its place. *)
(* Said of the first connection only, where the counters have one meaning. *)
AckedWasTaken ==
    \A p \in Peers :
        Established(con[p]) /\ opened <= 1 =>
            \A i \in 1..(submitted[p] - Used(con[p])) :
                /\ i <= Len(delivered[Other(p)])
                /\ delivered[Other(p)][i] \in {i, 0}

(* "next frame of sequence received (new command layer data)": what is     *)
(* passed to the command layer as new data is a data frame.                *)
OnlyDataDelivered == \A p \in Peers : \A i \in 1..Len(delivered[p]) : delivered[p][i] # 0

(* A connection attempt ends: connected, or closed after the timeout.      *)
AttemptEnds == \A p \in Peers : (con[p].state \in InitStates) ~> (con[p].state \notin InitStates)

(* Data that waits for its acknowledgement is acknowledged, or the         *)
(* connection is closed, unless the partner's command layer stays busy:    *)
(* the sub-timeouts, the retry counter and the count of command layer      *)
(* inactivity never keep each other alive, flow control alone does.        *)
Unacknowledged(p) == Established(con[p]) /\ Used(con[p]) > 0
HistoryDrains ==
    \A p \in Peers : []<>(~con[Other(p)].flow) => (Unacknowledged(p) ~> ~Unacknowledged(p))
=============================================================================
