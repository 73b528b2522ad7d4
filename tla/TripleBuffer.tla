---------------------------- MODULE TripleBuffer ----------------------------
(***************************************************************************)
(* The triple buffers through which the kernel and the user layer of the   *)
(* stack exchange cyclic data in shared memory without locking:            *)
(*   - RPDOs (kernel/pdo/pdokcal-triplebufshm.c writes,                    *)
(*     user/pdo/pdoucal-triplebufshm.c reads),                             *)
(*   - TPDOs (the user layer writes, the kernel layer reads),              *)
(*   - the SoC time (kernel/timesync/timesynck.c writes,                   *)
(*     user/timesync/timesyncu.c reads).                                   *)
(*                                                                         *)
(* A channel owns three buffers.  The fields readBuf and writeBuf of its   *)
(* info record are private to the reader and to the writer; cleanBuf and   *)
(* newData are shared and are accessed one instruction at a time, so that  *)
(* the two layers interleave between any two accesses.  The target's       *)
(* OPLK_ATOMIC_EXCHANGE is one step: it swaps cleanBuf with a private      *)
(* index that nobody but the caller reads.                                 *)
(*                                                                         *)
(* A payload is the number of the write that produced it (0 is the cleared *)
(* memory); Torn is the content of a buffer that is being copied into.     *)
(***************************************************************************)
EXTENDS Integers

CONSTANTS RxPdos,       \* RPDO channels: the kernel layer writes
          TxPdos,       \* TPDO channels: the user layer writes
          SocTimes,     \* SoC time channels: the kernel layer writes
          MaxProduced   \* bound: number of payloads written to a channel

ASSUME ChannelsAssumption == /\ RxPdos \cap TxPdos = {}
                             /\ SocTimes \cap (RxPdos \cup TxPdos) = {}
ASSUME MaxProducedAssumption == MaxProduced \in Nat

Channels == RxPdos \cup TxPdos \cup SocTimes
Buffers  == 0..2
Torn     == -1
Layers   == {"kernel", "user"}

VARIABLES info,      \* info[ch]: tPdoBufferInfo, tTimesyncSocTimeTripleBuf
          mem,       \* mem[ch][b]: what buffer b of channel ch contains
          wr,        \* wr[ch]: where the writer of ch stands
          rd,        \* rd[ch]: where the reader of ch stands
          produced,  \* produced[ch]: number of the last complete payload
          got        \* got[ch]: the last two different payloads consumed

vars == <<info, mem, wr, rd, produced, got>>

Writer(ch) == IF ch \in TxPdos THEN "user" ELSE "kernel"
Reader(ch) == IF ch \in TxPdos THEN "kernel" ELSE "user"

(* A layer works on one channel at a time: the user layer holds             *)
(* pdouInstance_g.lockMutex, the kernel layer runs in one context.          *)
Free(layer) == \A ch \in Channels : /\ Writer(ch) = layer => wr[ch] = "idle"
                                    /\ Reader(ch) = layer => rd[ch] = "idle"

(* setupPdoMemInfo and timesynck_init number the buffers differently.       *)
InitInfoFromOne(ch) ==   \* (a slip: buffers numbered from 1)
    [readBuf |-> 1, writeBuf |-> 2, cleanBuf |-> 3, newData |-> FALSE]

InitInfo(ch) ==
    IF ch \in SocTimes
    THEN [readBuf |-> 1, writeBuf |-> 2, cleanBuf |-> 0, newData |-> FALSE]
    ELSE [readBuf |-> 0, writeBuf |-> 1, cleanBuf |-> 2, newData |-> FALSE]

Init == /\ info = [ch \in Channels |-> InitInfo(ch)]
        /\ mem = [ch \in Channels |-> [b \in Buffers |-> 0]]
        /\ wr = [ch \in Channels |-> "idle"]
        /\ rd = [ch \in Channels |-> "idle"]
        /\ produced = [ch \in Channels |-> 0]
        /\ got = [ch \in Channels |-> [previous |-> 0, latest |-> 0]]

-----------------------------------------------------------------------------
(* The writer: pdokcal_writeRxPdo, timesynck_setSocTime, and the pair       *)
(* pdoucal_getTxPdoAdrs / pdoucal_setTxPdo around pdou_copyTxPdoFromPi.     *)

(* The copy into the write buffer starts: its content is a mixture.         *)
WrBegin(ch) ==
    /\ Free(Writer(ch))
    /\ produced[ch] < MaxProduced
    /\ wr' = [wr EXCEPT ![ch] = "copy"]
    /\ mem' = [mem EXCEPT ![ch][info[ch].writeBuf] = Torn]
    /\ UNCHANGED <<info, rd, produced, got>>

(* The copy is complete.                                                    *)
WrEnd(ch) ==
    /\ wr[ch] = "copy"
    /\ wr' = [wr EXCEPT ![ch] = "swap"]
    /\ produced' = [produced EXCEPT ![ch] = @ + 1]
    /\ mem' = [mem EXCEPT ![ch][info[ch].writeBuf] = produced[ch] + 1]
    /\ UNCHANGED <<info, rd, got>>

(* copyVarToPdo fails: pdou_copyTxPdoFromPi returns without publishing the  *)
(* buffer, which keeps the objects copied so far.                           *)
WrAbortPublishes(ch) ==   \* (a slip: the error return is forgotten)
    /\ ch \in TxPdos
    /\ wr[ch] = "copy"
    /\ wr' = [wr EXCEPT ![ch] = "swap"]
    /\ UNCHANGED <<info, mem, rd, produced, got>>

WrAbort(ch) ==
    /\ ch \in TxPdos
    /\ wr[ch] = "copy"
    /\ wr' = [wr EXCEPT ![ch] = "idle"]
    /\ UNCHANGED <<info, mem, rd, produced, got>>

(* The filled buffer is exchanged for the clean one.                        *)
WrSwapKeepsBuffer(ch) ==   \* (a slip: it publishes, and goes on using, its buffer)
    /\ wr[ch] = "swap"
    /\ wr' = [wr EXCEPT ![ch] = "flag"]
    /\ info' = [info EXCEPT ![ch].cleanBuf = info[ch].writeBuf]
    /\ UNCHANGED <<mem, rd, produced, got>>

WrSwap(ch) ==
    /\ wr[ch] = "swap"
    /\ wr' = [wr EXCEPT ![ch] = "flag"]
    /\ info' = [info EXCEPT ![ch].writeBuf = info[ch].cleanBuf,
                            ![ch].cleanBuf = info[ch].writeBuf]
    /\ UNCHANGED <<mem, rd, produced, got>>

(* newData = 1, after and apart from the exchange.                          *)
WrFlag(ch) ==
    /\ wr[ch] = "flag"
    /\ wr' = [wr EXCEPT ![ch] = "idle"]
    /\ info' = [info EXCEPT ![ch].newData = TRUE]
    /\ UNCHANGED <<mem, rd, produced, got>>

-----------------------------------------------------------------------------
(* The reader: pdoucal_getRxPdo and pdou_copyRxPdoToPi, pdokcal_readTxPdo,  *)
(* getSocTime.                                                              *)

RdCheck(ch) ==
    /\ Free(Reader(ch))
    /\ rd' = [rd EXCEPT ![ch] = IF info[ch].newData THEN "swap" ELSE "use"]
    /\ UNCHANGED <<info, mem, wr, produced, got>>

RdSwapKeepsClean(ch) ==   \* (a slip: the old read buffer is not handed back)
    /\ rd[ch] = "swap"
    /\ rd' = [rd EXCEPT ![ch] = "clear"]
    /\ info' = [info EXCEPT ![ch].readBuf = info[ch].cleanBuf]
    /\ UNCHANGED <<mem, wr, produced, got>>

RdSwap(ch) ==
    /\ rd[ch] = "swap"
    /\ rd' = [rd EXCEPT ![ch] = "clear"]
    /\ info' = [info EXCEPT ![ch].readBuf  = info[ch].cleanBuf,
                            ![ch].cleanBuf = info[ch].readBuf]
    /\ UNCHANGED <<mem, wr, produced, got>>

(* newData = 0, after and apart from the exchange.                          *)
RdClear(ch) ==
    /\ rd[ch] = "clear"
    /\ rd' = [rd EXCEPT ![ch] = "use"]
    /\ info' = [info EXCEPT ![ch].newData = FALSE]
    /\ UNCHANGED <<mem, wr, produced, got>>

(* The consumer has copied the payload out of the read buffer.              *)
RdUse(ch) ==
    /\ rd[ch] = "use"
    /\ rd' = [rd EXCEPT ![ch] = "idle"]
    /\ LET payload == mem[ch][info[ch].readBuf]
       IN  got' = IF payload = got[ch].latest THEN got
                  ELSE [got EXCEPT ![ch] = [previous |-> got[ch].latest,
                                            latest   |-> payload]]
    /\ UNCHANGED <<info, mem, wr, produced>>

Step(ch) == \/ WrBegin(ch) \/ WrEnd(ch) \/ WrAbort(ch) \/ WrSwap(ch) \/ WrFlag(ch)
            \/ RdCheck(ch) \/ RdSwap(ch) \/ RdClear(ch) \/ RdUse(ch)

Next == \E ch \in Channels : Step(ch)

Spec == Init /\ [][Next]_vars

-----------------------------------------------------------------------------
BufferInfo == [readBuf : Buffers, writeBuf : Buffers, cleanBuf : Buffers,
               newData : BOOLEAN]

Payloads == {Torn} \cup (0..MaxProduced)

(* The type invariant.                                                      *)
TypeOK ==
    /\ info \in [Channels -> BufferInfo]
    /\ mem \in [Channels -> [Buffers -> Payloads]]
    /\ wr \in [Channels -> {"idle", "copy", "swap", "flag"}]
    /\ rd \in [Channels -> {"idle", "swap", "clear", "use"}]
    /\ produced \in [Channels -> 0..MaxProduced]
    /\ got \in [Channels -> [previous : Payloads, latest : Payloads]]

(* No payload handed to the consumer is a mixture of two writes, although   *)
(* the two layers never lock each other out, copies are aborted half way    *)
(* and the exchanges of both layers interleave.                             *)
NoTornPayload == \A ch \in Channels : got[ch].latest # Torn

(* While the consumer works on its buffer the producer does not change it,  *)
(* however many payloads it writes meanwhile: the pointer returned by       *)
(* pdoucal_getRxPdo and getSocTime stays good until the next call.          *)
StableWhileUsed ==
    [][\A ch \in Channels :
          rd[ch] = "use" => mem'[ch][info[ch].readBuf] = mem[ch][info[ch].readBuf]]_vars

(* The flag and the exchange are two steps, so a consumer may be handed an  *)
(* older payload than the last one; but never one older than the payload    *)
(* before that: the damage of the race is one step.                         *)
BackByOneAtMost ==
    [][\A ch \in Channels :
          got'[ch] # got[ch] => got'[ch].latest >= got[ch].previous]_vars

=============================================================================
