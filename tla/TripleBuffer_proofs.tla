------------------------ MODULE TripleBuffer_proofs -------------------------
(***************************************************************************)
(* For every set of channels and every number of writes: the types, and    *)
(* the two promises of the triple buffer to its consumer.                  *)
(***************************************************************************)
EXTENDS TripleBuffer, TLAPS

(* The three indices of a channel always name three different buffers: the  *)
(* two private exchanges permute them, in whatever order they come.         *)
Distinct(ch) == /\ info[ch].readBuf # info[ch].writeBuf
                /\ info[ch].readBuf # info[ch].cleanBuf
                /\ info[ch].writeBuf # info[ch].cleanBuf

(* Only the writer's own buffer can be a mixture, and not once its copy is  *)
(* complete.                                                                *)
Contents(ch) == /\ \A b \in Buffers : b # info[ch].writeBuf => mem[ch][b] # Torn
                /\ wr[ch] = "swap" => mem[ch][info[ch].writeBuf] # Torn
                /\ wr[ch] = "copy" => produced[ch] < MaxProduced
                /\ got[ch].latest # Torn

IInv == TypeOK /\ \A ch \in Channels : Distinct(ch) /\ Contents(ch)

LEMMA InitIInv == Init => IInv
BY MaxProducedAssumption
   DEF Init, IInv, TypeOK, Distinct, Contents, InitInfo, BufferInfo, Buffers,
       Payloads, Torn

(* Every step of a channel preserves the inductive invariant.               *)
LEMMA NextIInv == IInv /\ [Next]_vars => IInv'
<1>1. ASSUME IInv, NEW c \in Channels, Step(c)
      PROVE  IInv'
  <2> USE <1>1, MaxProducedAssumption
          DEF IInv, TypeOK, Distinct, Contents, BufferInfo, Buffers, Payloads, Torn
  <2>1. CASE WrBegin(c)
    BY <2>1 DEF WrBegin
  <2>2. CASE WrEnd(c)
    BY <2>2 DEF WrEnd
  <2>3. CASE WrAbort(c)
    BY <2>3 DEF WrAbort
  <2>4. CASE WrSwap(c)
    BY <2>4 DEF WrSwap
  <2>5. CASE WrFlag(c)
    <3>1. info' \in [Channels -> BufferInfo]
      BY <2>5 DEF WrFlag
    <3>2. /\ UNCHANGED <<mem, rd, produced, got>>
          /\ wr' = [wr EXCEPT ![c] = "idle"]
      BY <2>5 DEF WrFlag
    <3>3. \A ch \in Channels : /\ info'[ch].readBuf = info[ch].readBuf
                              /\ info'[ch].writeBuf = info[ch].writeBuf
                              /\ info'[ch].cleanBuf = info[ch].cleanBuf
      BY <2>5 DEF WrFlag
    <3> QED
      BY <3>1, <3>2, <3>3
  <2>6. CASE RdCheck(c)
    BY <2>6 DEF RdCheck
  <2>7. CASE RdSwap(c)
    BY <2>7 DEF RdSwap
  <2>8. CASE RdClear(c)
    <3>1. info' \in [Channels -> BufferInfo]
      BY <2>8 DEF RdClear
    <3>2. /\ UNCHANGED <<mem, wr, produced, got>>
          /\ rd' = [rd EXCEPT ![c] = "use"]
      BY <2>8 DEF RdClear
    <3>3. \A ch \in Channels : /\ info'[ch].readBuf = info[ch].readBuf
                              /\ info'[ch].writeBuf = info[ch].writeBuf
                              /\ info'[ch].cleanBuf = info[ch].cleanBuf
      BY <2>8 DEF RdClear
    <3> QED
      BY <3>1, <3>2, <3>3
  <2>9. CASE RdUse(c)
    BY <2>9 DEF RdUse
  <2> QED
    BY <2>1, <2>2, <2>3, <2>4, <2>5, <2>6, <2>7, <2>8, <2>9 DEF Step
<1>2. CASE UNCHANGED vars
  BY <1>2 DEF vars, IInv, TypeOK, Distinct, Contents
<1> QED
  BY <1>1, <1>2 DEF Next

(* The inductive invariant holds in every reachable state.                  *)
THEOREM SpecIInv == Spec => []IInv
BY InitIInv, NextIInv, PTL DEF Spec

(* Type correctness of the triple buffers.                                  *)
THEOREM TypeCorrect == Spec => []TypeOK
<1>1. IInv => TypeOK
  BY DEF IInv
<1> QED
  BY SpecIInv, <1>1, PTL

(* A consumer is never handed a mixture of two writes, for any number of    *)
(* channels and of writes (pdok_processRxPdo against pdou_copyRxPdoToPi,    *)
(* pdou_copyTxPdoFromPi against copyTxPdo, setSocTime against getSocTime).  *)
THEOREM NeverTorn == Spec => []NoTornPayload
<1>1. IInv => NoTornPayload
  BY DEF IInv, Contents, NoTornPayload
<1> QED
  BY SpecIInv, <1>1, PTL

(* The buffer a consumer works on is not written under it: only WrBegin and *)
(* WrEnd write, into the writer's buffer, which is not the reader's.        *)
THEOREM ReadBufferStable == Spec => StableWhileUsed
<1>1. ASSUME IInv, [Next]_vars, NEW ch \in Channels
      PROVE  mem'[ch][info[ch].readBuf] = mem[ch][info[ch].readBuf]
  <2>1. ASSUME NEW c \in Channels, Step(c)
        PROVE  mem'[ch][info[ch].readBuf] = mem[ch][info[ch].readBuf]
    <3> USE <1>1, <2>1 DEF IInv, TypeOK, Distinct, BufferInfo, Buffers
    <3>1. CASE WrBegin(c)
      BY <3>1 DEF WrBegin
    <3>2. CASE WrEnd(c)
      BY <3>2 DEF WrEnd
    <3>3. CASE UNCHANGED mem
      BY <3>3
    <3> QED
      BY <2>1, <3>1, <3>2, <3>3
         DEF Step, WrAbort, WrSwap, WrFlag, RdCheck, RdSwap, RdClear, RdUse
  <2>2. CASE UNCHANGED vars
    BY <2>2 DEF vars
  <2> QED
    BY <1>1, <2>1, <2>2 DEF Next
<1>2. IInv /\ [Next]_vars
        => [\A ch \in Channels :
              rd[ch] = "use" => mem'[ch][info[ch].readBuf] = mem[ch][info[ch].readBuf]]_vars
  BY <1>1
<1> QED
  BY SpecIInv, <1>2, PTL DEF Spec, StableWhileUsed

-----------------------------------------------------------------------------
(* How old the payloads are that the consumer can be handed next.  Before   *)
(* its exchange the clean buffer is not older than the payload before last; *)
(* after it, the read buffer is not, and the clean buffer not older than    *)
(* the last one.  A publication puts the newest payload into the clean one. *)
ReadVal(ch) == mem[ch][info[ch].readBuf]
CleanVal(ch) == mem[ch][info[ch].cleanBuf]

Newest(ch) == /\ \A b \in Buffers : mem[ch][b] <= produced[ch]
              /\ got[ch].previous <= produced[ch] /\ got[ch].latest <= produced[ch]
              /\ wr[ch] = "swap" => mem[ch][info[ch].writeBuf] = produced[ch]
Ages(ch) == /\ rd[ch] \in {"idle", "swap"} => /\ ReadVal(ch) = got[ch].latest
                                            /\ CleanVal(ch) >= got[ch].previous
            /\ rd[ch] \in {"clear", "use"} =>
                  \/ ReadVal(ch) = got[ch].latest /\ CleanVal(ch) >= got[ch].previous
                  \/ ReadVal(ch) >= got[ch].previous /\ CleanVal(ch) >= got[ch].latest
Aged == \A ch \in Channels : Newest(ch) /\ Ages(ch)

LEMMA AgedStep ==
  ASSUME IInv, Aged, NEW c \in Channels, Step(c), NEW ch \in Channels
  PROVE  Newest(ch)' /\ Ages(ch)'
<1> USE MaxProducedAssumption
        DEF IInv, TypeOK, Aged, Newest, Ages, ReadVal, CleanVal, Distinct, BufferInfo, Buffers,
            Payloads, Torn
<1>1. CASE WrBegin(c)
  BY <1>1 DEF WrBegin
<1>2. CASE WrEnd(c)
  BY SMTT(30), <1>2 DEF WrEnd
<1>3. CASE WrAbort(c)
  BY <1>3 DEF WrAbort
<1>4. CASE WrSwap(c)
  BY <1>4 DEF WrSwap
<1>5. CASE WrFlag(c)
  BY <1>5 DEF WrFlag
<1>6. CASE RdCheck(c)
  <2>1. rd[c] = "idle"
    BY <1>6 DEF RdCheck, Free
  <2>2. /\ rd'[c] \in {"swap", "use"} /\ \A d \in Channels \ {c} : rd'[d] = rd[d]
        /\ UNCHANGED <<info, mem, wr, produced, got>>
    BY <1>6 DEF RdCheck
  <2> QED
    BY <2>1, <2>2
<1>7. CASE RdSwap(c)
  BY <1>7 DEF RdSwap
<1>8. CASE RdClear(c)
  BY <1>8 DEF RdClear
<1>9. CASE RdUse(c)
  BY <1>9 DEF RdUse
<1> QED
  BY <1>1, <1>2, <1>3, <1>4, <1>5, <1>6, <1>7, <1>8, <1>9 DEF Step

(* A consumer may be handed an older payload than the last one, since the   *)
(* flag and the exchange are two steps, but never an older one than the     *)
(* payload before that, however late the flag is set or cleared.            *)
THEOREM NeverBackByTwo == Spec => BackByOneAtMost
<1>1. Init => Aged
  BY MaxProducedAssumption
     DEF Init, Aged, Newest, Ages, ReadVal, CleanVal, InitInfo, Buffers
<1>2. IInv /\ Aged /\ [Next]_vars => Aged'
  <2>1. CASE UNCHANGED vars
    BY <2>1 DEF vars, Aged, Newest, Ages, ReadVal, CleanVal
  <2>2. ASSUME IInv, Aged, NEW c \in Channels, Step(c)
        PROVE  Aged'
    BY <2>2, AgedStep DEF Aged
  <2> QED
    BY <2>1, <2>2 DEF Next
<1>3. IInv /\ Aged /\ [Next]_vars
        => [\A ch \in Channels :
              got'[ch] # got[ch] => got'[ch].latest >= got[ch].previous]_vars
  <2>1. ASSUME IInv, Aged, NEW c \in Channels, Step(c), NEW ch \in Channels,
               got'[ch] # got[ch]
        PROVE  got'[ch].latest >= got[ch].previous
    <3>1. RdUse(c) /\ c = ch
      BY <2>1 DEF Step, WrBegin, WrEnd, WrAbort, WrSwap, WrFlag, RdCheck, RdSwap, RdClear,
                  RdUse, IInv, TypeOK
    <3>2. got'[ch].latest = ReadVal(ch) /\ ReadVal(ch) # got[ch].latest
      BY <2>1, <3>1 DEF RdUse, ReadVal, IInv, TypeOK
    <3>. QED
      BY <2>1, <3>1, <3>2 DEF RdUse, Aged, Ages
  <2> QED
    BY <2>1 DEF Next
<1> QED
  BY <1>1, <1>2, <1>3, SpecIInv, PTL DEF Spec, BackByOneAtMost
=============================================================================
