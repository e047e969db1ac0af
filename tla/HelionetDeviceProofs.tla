------------------------ MODULE HelionetDeviceProofs ------------------------
(***************************************************************************)
(* For any number of calls, any bounds and any order of timers, write      *)
(* errors, closes and reopens: the driver's state is well typed, the       *)
(* non-null assertions of onSerialData hold, an installed waiter has its   *)
(* own timeout armed, and received frames are delivered in order.  For an  *)
(* application that awaits each call: in a smooth history no frame is      *)
(* lost, a CONFIG_OK means the configuration is applied, and a frame is    *)
(* transmitted with the settings it was meant for.  Where frames do get    *)
(* lost, it is for a reason that is named.                                 *)
(***************************************************************************)
EXTENDS HelionetDevice, SequenceFacts

\* The inductive invariant: the three invariants together.  The timeout of a
\* waiter can be named only if the waiter is one call of the right kind.
Inv == TypeOK /\ WaiterMatchesMode /\ WaiterHasTimer

LEMMA NoneIsNoCall == None \notin ConfigCalls /\ None \notin InfoCalls
  BY CallsAssumption DEF Calls

LEMMA KindsDiffer == \A c \in ConfigCalls, i \in InfoCalls : c # i
  BY CallsAssumption

LEMMA EmptyIsSeq == \A S : <<>> \in Seq(S)
  OBVIOUS

LEMMA InitInv == Init => Inv
<1> SUFFICES ASSUME Init PROVE Inv
  OBVIOUS
<1> USE DEF Init
<1>1. PortTypeOK
  BY DEF PortTypeOK, Mode
<1>2. CallTypeOK
  BY DEF CallTypeOK
<1>3. BufferTypeOK
  BY EmptyIsSeq DEF BufferTypeOK
<1>4. TxTypeOK /\ BoardTypeOK
  BY EmptyIsSeq DEF TxTypeOK, BoardTypeOK
<1>5. WaiterMatchesMode /\ WaiterHasTimer
  BY DEF WaiterMatchesMode, WaiterHasTimer
<1> QED BY <1>1, <1>2, <1>3, <1>4, <1>5 DEF Inv, TypeOK

\* What a step leaves alone keeps its type.
LEMMA UnchangedTypes ==
  /\ CallTypeOK /\ UNCHANGED callVars => CallTypeOK'
  /\ BufferTypeOK /\ UNCHANGED bufferVars => BufferTypeOK'
  /\ TxTypeOK /\ UNCHANGED txVars => TxTypeOK'
  /\ BoardTypeOK /\ UNCHANGED <<toBoard, toHost, boardVars>> => BoardTypeOK'
<1>1. CallTypeOK /\ UNCHANGED callVars => CallTypeOK'
  BY DEF CallTypeOK, callVars
<1>2. BufferTypeOK /\ UNCHANGED bufferVars => BufferTypeOK'
  BY DEF BufferTypeOK, bufferVars
<1>3. TxTypeOK /\ UNCHANGED txVars => TxTypeOK'
  BY DEF TxTypeOK, txVars
<1>4. BoardTypeOK /\ UNCHANGED <<toBoard, toHost, boardVars>> => BoardTypeOK'
  BY DEF BoardTypeOK, boardVars
<1> QED BY <1>1, <1>2, <1>3, <1>4

\* The waiters' invariants depend on the port, the mode and the calls only.
LEMMA UnchangedWaiters ==
  ASSUME WaiterMatchesMode, WaiterHasTimer, UNCHANGED callVars
  PROVE  /\ UNCHANGED <<portOpen, mode>> => WaiterMatchesMode'
         /\ WaiterHasTimer'
<1>1. UNCHANGED <<portOpen, mode>> => WaiterMatchesMode'
  BY DEF WaiterMatchesMode, callVars
<1>2. WaiterHasTimer'
  BY DEF WaiterHasTimer, callVars
<1> QED BY <1>1, <1>2

LEMMA PortInv ==
  ASSUME Inv, PortStep
  PROVE  Inv'
<1> USE DEF Inv, TypeOK
<1>0. CallTypeOK' /\ BufferTypeOK' /\ WaiterHasTimer'
  <2>1. UNCHANGED callVars /\ UNCHANGED bufferVars
    BY DEF PortStep, Open, OpenDone, OpenFailed, Close, PortClosed
  <2>2. QED BY <2>1, UnchangedTypes, UnchangedWaiters
<1>1. PortTypeOK' /\ WaiterMatchesMode'
  <2>1. CASE Open
    BY <2>1 DEF Open, PortTypeOK, Mode, WaiterMatchesMode, callVars
  <2>2. CASE OpenDone
    BY <2>2, BoundsAssumption DEF OpenDone, PortTypeOK, Mode, WaiterMatchesMode, callVars
  <2>3. CASE OpenFailed
    BY <2>3 DEF OpenFailed, PortTypeOK, Mode, WaiterMatchesMode, callVars
  <2>4. CASE Close
    BY <2>4 DEF Close, PortTypeOK, Mode, WaiterMatchesMode, callVars
  <2>5. CASE PortClosed
    <3>1. portOpen' = FALSE /\ mode' = "closed" /\ keepalive' = FALSE
      BY <2>5 DEF PortClosed
    <3>2. opening' \in Nat /\ closes' \in Nat /\ faults' \in Nat
      BY <2>5 DEF PortClosed, PortTypeOK
    <3>3. PortTypeOK'
      BY <3>1, <3>2 DEF PortTypeOK, Mode
    <3>4. WaiterMatchesMode'
      BY <3>1 DEF WaiterMatchesMode
    <3>5. QED BY <3>3, <3>4
  <2>6. QED BY <2>1, <2>2, <2>3, <2>4, <2>5 DEF PortStep
<1>2. TxTypeOK' /\ BoardTypeOK'
  <2>1. CASE PortClosed
    BY <2>1, EmptyIsSeq DEF PortClosed, TxTypeOK, BoardTypeOK
  <2>2. CASE UNCHANGED <<txVars, toBoard, toHost, boardVars>>
    BY <2>2, UnchangedTypes
  <2>3. QED BY <2>1, <2>2 DEF PortStep, Open, OpenDone, OpenFailed, Close
<1> QED BY <1>0, <1>1, <1>2

LEMMA RejectCallTypes ==
  ASSUME CallTypeOK, PortTypeOK, TxTypeOK, NEW c, RejectCurrent(c), UNCHANGED tries,
         timers' \subseteq timers, failedWrites' \subseteq failedWrites
  PROVE  CallTypeOK' /\ mode' \in Mode
<1>1. CASE RejectConfig /\ UNCHANGED infoWaiter
  BY <1>1 DEF RejectConfig, CallTypeOK, PortTypeOK, TxTypeOK, Mode
<1>2. CASE RejectInfo /\ UNCHANGED <<configWaiter, lockOn>>
  BY <1>2 DEF RejectInfo, CallTypeOK, PortTypeOK, Mode
<1> QED BY <1>1, <1>2 DEF RejectCurrent

\* Whoever is rejected, the mode goes back to normal with the waiter, and the
\* waiter of the other kind keeps its timeout, which is not the one that fired.
LEMMA RejectWaiters ==
  ASSUME Inv, NEW c, NEW n, RejectCurrent(c), UNCHANGED <<tries, portOpen>>,
         timers' \in {timers, timers \ {<<c, n>>}}
  PROVE  WaiterMatchesMode' /\ WaiterHasTimer'
<1> USE DEF Inv
<1>1. CASE c \in ConfigCalls /\ RejectConfig /\ UNCHANGED infoWaiter
  <2>1. configWaiter' = None
    BY <1>1 DEF RejectConfig
  <2>2. WaiterMatchesMode'
    BY <1>1 DEF RejectConfig, WaiterMatchesMode
  <2>3. infoWaiter # None => infoWaiter # c
    BY <1>1, KindsDiffer DEF TypeOK, CallTypeOK
  <2>4. WaiterHasTimer'
    BY <1>1, <2>1, <2>3 DEF WaiterHasTimer
  <2>5. QED BY <2>2, <2>4
<1>2. CASE c \in InfoCalls /\ RejectInfo /\ UNCHANGED <<configWaiter, lockOn>>
  <2>1. infoWaiter' = None
    BY <1>2 DEF RejectInfo
  <2>2. WaiterMatchesMode'
    BY <1>2 DEF RejectInfo, WaiterMatchesMode
  <2>3. configWaiter # None => configWaiter # c
    BY <1>2, KindsDiffer DEF TypeOK, CallTypeOK
  <2>4. WaiterHasTimer'
    BY <1>2, <2>1, <2>3 DEF WaiterHasTimer
  <2>5. QED BY <2>2, <2>4
<1> QED BY <1>1, <1>2 DEF RejectCurrent

LEMMA StartCallInv ==
  ASSUME Inv, NEW c \in Calls, StartCall(c)
  PROVE  Inv'
<1> USE DEF Inv, TypeOK, StartCall
<1>1. PortTypeOK' /\ BufferTypeOK' /\ TxTypeOK' /\ BoardTypeOK'
  BY UnchangedTypes DEF PortTypeOK, portVars
<1>2. CallTypeOK'
  BY DEF CallTypeOK, TxTypeOK
<1>3. WaiterMatchesMode' /\ WaiterHasTimer'
  BY DEF WaiterMatchesMode, WaiterHasTimer, portVars
<1> QED BY <1>1, <1>2, <1>3

\* What a command writes is a command of its call.
LEMMA WriteTypes ==
  ASSUME BoardTypeOK, PortTypeOK, CallTypeOK, NEW c \in Calls, NEW n \in Nat, NEW kind,
         <<kind, c>> \in ToBoard, WriteCommand(kind, c, n)
  PROVE  /\ toBoard' \in Seq(ToBoard)
         /\ faults' \in Nat
         /\ failedWrites' \subseteq Calls \X Nat
<1>1. toBoard' \in Seq(ToBoard)
  <2>1. toBoard \in Seq(ToBoard)
    BY DEF BoardTypeOK
  <2>2. Append(toBoard, <<kind, c>>) \in Seq(ToBoard)
    BY <2>1, AppendProperties
  <2>3. QED BY <2>1, <2>2 DEF WriteCommand
<1>2. faults' \in Nat
  BY DEF WriteCommand, PortTypeOK, Fault
<1>3. failedWrites' \subseteq Calls \X Nat
  BY DEF WriteCommand, CallTypeOK
<1> QED BY <1>1, <1>2, <1>3

LEMMA SendConfigInv ==
  ASSUME Inv, NEW c \in ConfigCalls, SendConfigOnce(c)
  PROVE  Inv'
<1> USE DEF Inv, TypeOK, SendConfigOnce
<1>0. c \in Calls /\ tries[c] + 1 \in Nat /\ <<"config", c>> \in ToBoard
  BY DEF Calls, ToBoard, CallTypeOK
<1>1. toBoard' \in Seq(ToBoard) /\ faults' \in Nat /\ failedWrites' \subseteq Calls \X Nat
  BY <1>0, WriteTypes
<1>2. PortTypeOK'
  BY <1>1 DEF PortTypeOK, Mode
<1>3. CallTypeOK'
  BY <1>0, <1>1 DEF CallTypeOK, ArmTimer
<1>4. BufferTypeOK'
  BY EmptyIsSeq DEF BufferTypeOK, ResetConfigBuffer
<1>5. TxTypeOK' /\ BoardTypeOK'
  BY <1>1, UnchangedTypes DEF BoardTypeOK, boardVars
<1>6. WaiterMatchesMode'
  BY <1>0, NoneIsNoCall DEF WaiterMatchesMode
<1>7. WaiterHasTimer'
  BY <1>0, KindsDiffer DEF WaiterHasTimer, ArmTimer, CallTypeOK
<1> QED BY <1>2, <1>3, <1>4, <1>5, <1>6, <1>7

LEMMA SendInfoInv ==
  ASSUME Inv, NEW c \in InfoCalls, SendInfo(c)
  PROVE  Inv'
<1> USE DEF Inv, TypeOK, SendInfo
<1>0. c \in Calls /\ tries[c] + 1 \in Nat /\ <<"info", c>> \in ToBoard
  BY DEF Calls, ToBoard, CallTypeOK
<1>1. toBoard' \in Seq(ToBoard) /\ faults' \in Nat /\ failedWrites' \subseteq Calls \X Nat
  BY <1>0, WriteTypes
<1>2. PortTypeOK'
  BY <1>1 DEF PortTypeOK, Mode
<1>3. CallTypeOK'
  BY <1>0, <1>1 DEF CallTypeOK, ArmTimer
<1>4. BufferTypeOK'
  BY EmptyIsSeq DEF BufferTypeOK
<1>5. TxTypeOK' /\ BoardTypeOK'
  BY <1>1, UnchangedTypes DEF BoardTypeOK, boardVars
<1>6. WaiterMatchesMode'
  BY <1>0, NoneIsNoCall DEF WaiterMatchesMode
<1>7. WaiterHasTimer'
  BY <1>0, KindsDiffer DEF WaiterHasTimer, ArmTimer, CallTypeOK
<1> QED BY <1>2, <1>3, <1>4, <1>5, <1>6, <1>7

LEMMA TimeoutInv ==
  ASSUME Inv, NEW c, NEW n, Timeout(c, n)
  PROVE  Inv'
<1> USE DEF Inv, TypeOK, Timeout
<1>1. CallTypeOK' /\ mode' \in Mode
  BY RejectCallTypes
<1>2. PortTypeOK'
  BY <1>1 DEF PortTypeOK
<1>3. BufferTypeOK' /\ TxTypeOK' /\ BoardTypeOK'
  BY UnchangedTypes
<1>4. WaiterMatchesMode' /\ WaiterHasTimer'
  BY RejectWaiters
<1> QED BY <1>1, <1>2, <1>3, <1>4

LEMMA WriteFailedInv ==
  ASSUME Inv, NEW c, NEW n, WriteFailed(c, n)
  PROVE  Inv'
<1> USE DEF Inv, TypeOK, WriteFailed
<1>1. CallTypeOK' /\ mode' \in Mode
  BY RejectCallTypes
<1>2. PortTypeOK'
  BY <1>1 DEF PortTypeOK
<1>3. BufferTypeOK' /\ TxTypeOK' /\ BoardTypeOK'
  BY UnchangedTypes
<1>4. WaiterMatchesMode' /\ WaiterHasTimer'
  BY RejectWaiters
<1> QED BY <1>1, <1>2, <1>3, <1>4

-----------------------------------------------------------------------------
(* onSerialData                                                            *)

LEMMA ChunkTypes ==
  ASSUME BoardTypeOK, NEW k, Arrives(k), UNCHANGED <<toBoard, boardVars>>
  PROVE  BoardTypeOK' /\ Chunk(k) \in Seq(ToHost) /\ k \in Nat
<1> DEFINE n == Len(toHost)
<1>1. toHost \in Seq(ToHost) /\ n \in Nat /\ k \in 1..n
  BY LenProperties DEF BoardTypeOK, Arrives
<1>2. SubSeq(toHost, 1, k) \in Seq(ToHost) /\ SubSeq(toHost, k + 1, n) \in Seq(ToHost)
  BY <1>1, SubSeqProperties
<1>3. BoardTypeOK'
  BY <1>2 DEF BoardTypeOK, boardVars, Arrives
<1> QED BY <1>1, <1>2, <1>3 DEF Chunk

\* Feeding all of a buffer but one message keeps the splitter's input typed.
LEMMA FeedTypes ==
  ASSUME BufferTypeOK, NEW buffer \in Seq(ToHost), NEW i \in 1..Len(buffer),
         FeedAllBut(i, buffer)
  PROVE  fed' \in Seq(ToHost)
<1>1. Len(buffer) \in Nat
  BY LenProperties
<1>2. SubSeq(buffer, 1, i - 1) \in Seq(ToHost) /\ SubSeq(buffer, i + 1, Len(buffer)) \in Seq(ToHost)
  BY <1>1, SubSeqProperties
<1>3. fed \o SubSeq(buffer, 1, i - 1) \in Seq(ToHost)
  BY <1>2, ConcatProperties DEF BufferTypeOK
<1> QED BY <1>2, <1>3, ConcatProperties DEF FeedAllBut

LEMMA BufferConfigInv ==
  ASSUME Inv, NEW k, BufferConfig(k)
  PROVE  Inv'
<1> USE DEF Inv, TypeOK, BufferConfig
<1>1. BoardTypeOK' /\ Chunk(k) \in Seq(ToHost)
  BY ChunkTypes
<1>2. BufferTypeOK'
  BY <1>1, ConcatProperties DEF BufferTypeOK
<1>3. PortTypeOK' /\ CallTypeOK' /\ TxTypeOK'
  BY UnchangedTypes DEF PortTypeOK, portVars
<1>4. WaiterMatchesMode' /\ WaiterHasTimer'
  BY UnchangedWaiters DEF portVars
<1> QED BY <1>1, <1>2, <1>3, <1>4

LEMMA BufferInfoInv ==
  ASSUME Inv, NEW k, BufferInfo(k)
  PROVE  Inv'
<1> USE DEF Inv, TypeOK, BufferInfo
<1>1. BoardTypeOK' /\ Chunk(k) \in Seq(ToHost)
  BY ChunkTypes
<1>2. infoBuffer \o Chunk(k) \in Seq(ToHost) /\ fed \o infoBuffer \o Chunk(k) \in Seq(ToHost)
  BY <1>1, ConcatProperties DEF BufferTypeOK
<1>3. BufferTypeOK'
  BY <1>2, EmptyIsSeq DEF BufferTypeOK
<1>4. PortTypeOK' /\ CallTypeOK' /\ TxTypeOK'
  BY UnchangedTypes DEF PortTypeOK, portVars
<1>5. WaiterMatchesMode' /\ WaiterHasTimer'
  BY UnchangedWaiters DEF portVars
<1> QED BY <1>1, <1>3, <1>4, <1>5

LEMMA FeedSplitterInv ==
  ASSUME Inv, NEW k, FeedSplitter(k)
  PROVE  Inv'
<1> USE DEF Inv, TypeOK, FeedSplitter
<1>1. BoardTypeOK' /\ Chunk(k) \in Seq(ToHost)
  BY ChunkTypes
<1>2. BufferTypeOK'
  BY <1>1, ConcatProperties DEF BufferTypeOK
<1>3. PortTypeOK' /\ CallTypeOK' /\ TxTypeOK'
  BY UnchangedTypes DEF PortTypeOK, portVars
<1>4. WaiterMatchesMode' /\ WaiterHasTimer'
  BY UnchangedWaiters DEF portVars
<1> QED BY <1>1, <1>2, <1>3, <1>4

LEMMA ConfigOkInv ==
  ASSUME Inv, NEW k, ConfigOk(k)
  PROVE  Inv'
<1> USE DEF Inv, TypeOK, ConfigOk
<1>0. configWaiter \in ConfigCalls /\ configWaiter \in Calls
  BY DEF CallTypeOK, Calls
<1>1. BoardTypeOK' /\ Chunk(k) \in Seq(ToHost)
  BY ChunkTypes
<1>2. BufferTypeOK'
  <2>1. configBuffer \o Chunk(k) \in Seq(ToHost)
    BY <1>1, ConcatProperties DEF BufferTypeOK
  <2>2. fed' \in Seq(ToHost)
    BY <2>1, FeedTypes
  <2>3. QED BY <2>2, EmptyIsSeq DEF BufferTypeOK
<1>3. PortTypeOK'
  BY DEF PortTypeOK, Mode
<1>4. CallTypeOK'
  BY <1>0 DEF CallTypeOK, ClearTimer
<1>5. TxTypeOK'
  BY DEF TxTypeOK, RememberTx
<1>6. WaiterMatchesMode'
  BY DEF WaiterMatchesMode
<1>7. WaiterHasTimer'
  <2>1. infoWaiter # None => infoWaiter # configWaiter
    BY <1>0, KindsDiffer DEF CallTypeOK
  <2>2. QED BY <2>1 DEF WaiterHasTimer, ClearTimer
<1> QED BY <1>1, <1>2, <1>3, <1>4, <1>5, <1>6, <1>7

LEMMA InfoReplyInv ==
  ASSUME Inv, NEW k, InfoReply(k)
  PROVE  Inv'
<1> USE DEF Inv, TypeOK, InfoReply
<1>0. infoWaiter \in InfoCalls /\ infoWaiter \in Calls
  BY DEF CallTypeOK, Calls
<1>1. BoardTypeOK' /\ Chunk(k) \in Seq(ToHost)
  BY ChunkTypes
<1>2. BufferTypeOK'
  <2>1. infoBuffer \o Chunk(k) \in Seq(ToHost)
    BY <1>1, ConcatProperties DEF BufferTypeOK
  <2>2. fed' \in Seq(ToHost)
    BY <2>1, FeedTypes
  <2>3. QED BY <2>2, EmptyIsSeq DEF BufferTypeOK
<1>3. PortTypeOK'
  BY DEF PortTypeOK, Mode
<1>4. CallTypeOK'
  <2>1. PICK i : pc' = [pc EXCEPT ![infoWaiter] =
                           IF (infoBuffer \o Chunk(k))[i][1] = "info" THEN "ok" ELSE "failed"]
    OBVIOUS
  <2>2. QED BY <1>0, <2>1 DEF CallTypeOK, ClearTimer
<1>5. TxTypeOK'
  BY UnchangedTypes
<1>6. WaiterMatchesMode'
  BY DEF WaiterMatchesMode
<1>7. WaiterHasTimer'
  <2>1. configWaiter # None => configWaiter # infoWaiter
    BY <1>0, KindsDiffer DEF CallTypeOK
  <2>2. QED BY <2>1 DEF WaiterHasTimer, ClearTimer
<1> QED BY <1>1, <1>2, <1>3, <1>4, <1>5, <1>6, <1>7

-----------------------------------------------------------------------------
(* The txLock chain and the board                                          *)

LEMMA TxInv ==
  ASSUME Inv, TxStep
  PROVE  Inv'
<1> USE DEF Inv, TypeOK
<1>1. CallTypeOK' /\ BufferTypeOK' /\ WaiterMatchesMode' /\ WaiterHasTimer'
  <2>1. UNCHANGED <<portVars, callVars, bufferVars>>
    BY DEF TxStep, SendRadioFrame, SetDisplayText, KeepaliveTick, Enqueue, TxWrite, TxWritten,
           TxFailed, AirtimeOver
  <2>2. UNCHANGED <<portOpen, mode>>
    BY <2>1 DEF portVars
  <2>3. QED BY <2>1, <2>2, UnchangedTypes, UnchangedWaiters
<1>2. PortTypeOK'
  BY DEF TxStep, SendRadioFrame, SetDisplayText, KeepaliveTick, Enqueue, TxWrite, TxWritten,
         TxFailed, AirtimeOver, PortTypeOK, portVars, Fault
<1>3. txQueue \in Seq(Frames) /\ toBoard \in Seq(ToBoard)
  BY DEF TxTypeOK, BoardTypeOK
<1>4. txQueue # <<>> => Head(txQueue) \in ToBoard /\ Tail(txQueue) \in Seq(Frames)
  BY <1>3, HeadTailProperties DEF ToBoard
<1>5. TxTypeOK' /\ BoardTypeOK'
  <2>1. ASSUME NEW kind \in {"send", "text"}, Enqueue(kind)
        PROVE  TxTypeOK' /\ BoardTypeOK'
    <3>1. <<kind, IF kind = "send" THEN Intended ELSE Unchecked>> \in Frames
      BY CallsAssumption DEF Frames, Intended, TxTypeOK
    <3>2. txQueue' \in Seq(Frames) /\ txQueue' # <<>>
      BY <1>3, <2>1, <3>1, AppendProperties DEF Enqueue
    <3>3. QED BY <2>1, <3>2 DEF Enqueue, TxTypeOK, BoardTypeOK, boardVars
  <2>2. CASE TxWrite
    <3>1. toBoard' \in Seq(ToBoard)
      BY <1>3, <1>4, <2>2, AppendProperties DEF TxWrite
    <3>2. QED BY <2>2, <3>1 DEF TxWrite, TxTypeOK, BoardTypeOK, boardVars
  <2>3. CASE TxWritten \/ TxFailed \/ AirtimeOver
    BY <1>4, <2>3 DEF TxWritten, TxFailed, AirtimeOver, TxTypeOK, BoardTypeOK, boardVars
  <2>4. QED BY <2>1, <2>2, <2>3 DEF TxStep, SendRadioFrame, SetDisplayText, KeepaliveTick
<1> QED BY <1>1, <1>2, <1>5

LEMMA BoardInv ==
  ASSUME Inv, BoardStep
  PROVE  Inv'
<1> USE DEF Inv, TypeOK
<1>1. CallTypeOK' /\ BufferTypeOK' /\ TxTypeOK' /\ WaiterMatchesMode' /\ WaiterHasTimer'
  <2>1. UNCHANGED <<portVars, callVars, bufferVars, txVars>>
    BY DEF BoardStep, BoardConfig, BoardInfo, BoardSend, BoardReceives, LoseCommand, LoseReply,
           BoardReset
  <2>2. UNCHANGED <<portOpen, mode>>
    BY <2>1 DEF portVars
  <2>3. QED BY <2>1, <2>2, UnchangedTypes, UnchangedWaiters
<1>2. PortTypeOK'
  BY DEF BoardStep, BoardConfig, BoardInfo, BoardSend, BoardReceives, LoseCommand, LoseReply,
         BoardReset, PortTypeOK, portVars, Fault
<1>3. toBoard \in Seq(ToBoard) /\ toHost \in Seq(ToHost)
  BY DEF BoardTypeOK
<1>4. toBoard # <<>> => Head(toBoard) \in ToBoard /\ Tail(toBoard) \in Seq(ToBoard)
  BY <1>3, HeadTailProperties
<1>5. ASSUME NEW m \in ToHost, Reply(m)
      PROVE  toHost' \in Seq(ToHost)
  BY <1>3, <1>5, AppendProperties DEF Reply
<1>6. BoardTypeOK'
  <2>1. CASE BoardConfig
    <3>1. Head(toBoard)[2] \in ConfigCalls
      BY <1>4, <2>1 DEF BoardConfig, NextCommand, ToBoard, Frames
    <3>2. <<"ok", Head(toBoard)[2]>> \in ToHost
      BY <3>1 DEF ToHost
    <3>3. toHost' \in Seq(ToHost)
      BY <1>5, <2>1, <3>2 DEF BoardConfig
    <3>4. QED BY <1>4, <2>1, <3>1, <3>3 DEF BoardConfig, NextCommand, BoardTypeOK
  <2>2. CASE BoardInfo
    <3>1. Head(toBoard)[2] \in InfoCalls
      BY <1>4, <2>2 DEF BoardInfo, NextCommand, ToBoard, Frames
    <3>2. <<"info", Head(toBoard)[2]>> \in ToHost /\ <<"bad", Head(toBoard)[2]>> \in ToHost
      BY <3>1 DEF ToHost
    <3>3. toHost' \in Seq(ToHost)
      BY <1>5, <2>2, <3>2 DEF BoardInfo
    <3>4. QED BY <1>4, <2>2, <3>3 DEF BoardInfo, NextCommand, BoardTypeOK, boardVars
  <2>3. CASE BoardReceives
    <3>1. <<"frame", rxSeq + 1>> \in ToHost
      BY DEF ToHost, BoardTypeOK
    <3>2. toHost' \in Seq(ToHost)
      BY <1>5, <2>3, <3>1 DEF BoardReceives
    <3>3. QED BY <2>3, <3>2 DEF BoardReceives, BoardTypeOK
  <2>4. CASE BoardSend \/ LoseCommand
    BY <1>4, <2>4 DEF BoardSend, LoseCommand, NextCommand, BoardTypeOK, boardVars
  <2>5. CASE LoseReply
    BY <1>3, <2>5, HeadTailProperties DEF LoseReply, BoardTypeOK, boardVars
  <2>6. CASE BoardReset
    BY <2>6, EmptyIsSeq DEF BoardReset, BoardTypeOK
  <2>7. QED BY <2>1, <2>2, <2>3, <2>4, <2>5, <2>6 DEF BoardStep
<1> QED BY <1>1, <1>2, <1>6

-----------------------------------------------------------------------------

LEMMA StepInv ==
  ASSUME Inv, [Next]_vars
  PROVE  Inv'
<1>1. CASE PortStep
  BY <1>1, PortInv
<1>2. CASE CallStep
  BY <1>2, StartCallInv, SendConfigInv, SendInfoInv, TimeoutInv, WriteFailedInv DEF CallStep
<1>3. CASE DataStep
  BY <1>3, BufferConfigInv, ConfigOkInv, BufferInfoInv, InfoReplyInv, FeedSplitterInv DEF DataStep
<1>4. CASE TxStep
  BY <1>4, TxInv
<1>5. CASE BoardStep
  BY <1>5, BoardInv
<1>6. CASE UNCHANGED vars
  <2>1. UNCHANGED <<portVars, callVars, bufferVars, txVars, toBoard, toHost, boardVars, faults>>
    BY <1>6 DEF vars
  <2>2. UNCHANGED <<portOpen, mode>>
    BY <2>1 DEF portVars
  <2>3. QED BY <2>1, <2>2, UnchangedTypes, UnchangedWaiters DEF Inv, TypeOK, PortTypeOK, portVars
<1> QED BY <1>1, <1>2, <1>3, <1>4, <1>5, <1>6 DEF Next

LEMMA Invariant == Spec => []Inv
<1>1. Inv /\ [Next]_vars => Inv'
  BY StepInv
<1> QED BY InitInv, <1>1, PTL DEF Spec

\* The driver and the board stay well typed: every buffer holds messages only,
\* and a frame is in progress only while the txLock chain is not empty.
THEOREM TypeCorrect == Spec => []TypeOK
<1>1. Inv => TypeOK
  BY DEF Inv
<1> QED BY Invariant, <1>1, PTL

\* onSerialData never dereferences an undefined waiter, however calls of
\* sendConfig and info overlap, time out, and survive a close and reopen.
THEOREM WaiterIsThere == Spec => []WaiterMatchesMode
<1>1. Inv => WaiterMatchesMode
  BY DEF Inv
<1> QED BY Invariant, <1>1, PTL

\* The waiter that is installed always has its own timeout armed.
THEOREM WaiterIsTimed == Spec => []WaiterHasTimer
<1>1. Inv => WaiterHasTimer
  BY DEF Inv
<1> QED BY Invariant, <1>1, PTL

-----------------------------------------------------------------------------
(* The numbers of received frames, in sequences of messages                *)

\* The calls, or the numbers, that messages of a kind belong to.
Of(kind, s) == {s[i][2] : i \in {j \in 1..Len(s) : s[j][1] = kind}}

Numbers(s) == Of("frame", s)

Ascending(s) ==
    \A i, j \in 1..Len(s) :
      i < j /\ s[i][1] = "frame" /\ s[j][1] = "frame" => s[i][2] < s[j][2]

Below(s, t) == \A m \in Numbers(s), n \in Numbers(t) : m < n

\* What is said of the numbers in a sequence is said of its frames.
LEMMA BelowParts ==
  ASSUME NEW s, NEW t
  PROVE  Below(s, t) <=>
           \A i \in 1..Len(s), j \in 1..Len(t) :
             s[i][1] = "frame" /\ t[j][1] = "frame" => s[i][2] < t[j][2]
BY DEF Below, Numbers, Of

LEMMA NoNumbers == Numbers(<<>>) = {} /\ Ascending(<<>>)
BY DEF Numbers, Of, Ascending

LEMMA ConcatNumbers ==
  ASSUME NEW s \in Seq(ToHost), NEW t \in Seq(ToHost)
  PROVE  /\ s \o t \in Seq(ToHost)
         /\ Numbers(s \o t) = Numbers(s) \cup Numbers(t)
         /\ Ascending(s) /\ Ascending(t) /\ Below(s, t) => Ascending(s \o t)
<1> DEFINE u == s \o t
<1>1. /\ u \in Seq(ToHost) /\ Len(u) = Len(s) + Len(t)
      /\ Len(s) \in Nat /\ Len(t) \in Nat
      /\ \A i \in 1..Len(s) : u[i] = s[i]
      /\ \A i \in 1..Len(t) : u[Len(s) + i] = t[i]
  BY ConcatParts, LenProperties
<1> HIDE DEF u
<1>2. \A i \in 1..Len(u) : i \in 1..Len(s) \/ \E j \in 1..Len(t) : i = Len(s) + j
  <2> TAKE i \in 1..Len(u)
  <2>1. CASE i > Len(s)
    <3>1. i - Len(s) \in 1..Len(t) /\ i = Len(s) + (i - Len(s))
      BY <1>1, <2>1
    <3>2. QED BY <3>1
  <2>2. QED BY <1>1, <2>1
<1>3. Numbers(u) = Numbers(s) \cup Numbers(t)
  <2>1. ASSUME NEW i \in 1..Len(u), u[i][1] = "frame"
        PROVE  u[i][2] \in Numbers(s) \cup Numbers(t)
    <3>1. CASE i \in 1..Len(s)
      BY <1>1, <2>1, <3>1 DEF Numbers, Of
    <3>2. ASSUME NEW j \in 1..Len(t), i = Len(s) + j
          PROVE  u[i][2] \in Numbers(t)
      <4>1. u[i] = t[j]
        BY <1>1, <3>2
      <4>2. QED BY <2>1, <4>1 DEF Numbers, Of
    <3>3. QED BY <1>2, <3>1, <3>2
  <2>2. ASSUME NEW i \in 1..Len(s), s[i][1] = "frame"
        PROVE  s[i][2] \in Numbers(u)
    <3>1. i \in 1..Len(u) /\ u[i] = s[i]
      BY <1>1
    <3>2. QED BY <2>2, <3>1 DEF Numbers, Of
  <2>3. ASSUME NEW i \in 1..Len(t), t[i][1] = "frame"
        PROVE  t[i][2] \in Numbers(u)
    <3>1. Len(s) + i \in 1..Len(u) /\ u[Len(s) + i] = t[i]
      BY <1>1
    <3>2. QED BY <2>3, <3>1 DEF Numbers, Of
  <2>4. QED BY <2>1, <2>2, <2>3 DEF Numbers, Of
<1>4. ASSUME Ascending(s), Ascending(t), Below(s, t)
      PROVE  Ascending(u)
  <2>1. \A i \in 1..Len(s), j \in 1..Len(t) :
          s[i][1] = "frame" /\ t[j][1] = "frame" => s[i][2] < t[j][2]
    BY <1>4, BelowParts
  <2> SUFFICES ASSUME NEW i \in 1..Len(u), NEW j \in 1..Len(u), i < j,
                      u[i][1] = "frame", u[j][1] = "frame"
               PROVE  u[i][2] < u[j][2]
    BY DEF Ascending
  <2>2. CASE j \in 1..Len(s)
    <3>1. i \in 1..Len(s)
      BY <1>1, <2>2
    <3>2. QED BY <1>1, <1>4, <2>2, <3>1 DEF Ascending
  <2>3. CASE i \in 1..Len(s) /\ j \notin 1..Len(s)
    <3>1. PICK n \in 1..Len(t) : j = Len(s) + n
      BY <1>2, <2>3
    <3>2. u[i] = s[i] /\ u[j] = t[n]
      BY <1>1, <2>3, <3>1
    <3>3. QED BY <2>1, <2>3, <3>2
  <2>4. CASE i \notin 1..Len(s)
    <3>1. PICK m \in 1..Len(t) : i = Len(s) + m
      BY <1>2, <2>4
    <3>2. PICK n \in 1..Len(t) : j = Len(s) + n
      <4>1. j \notin 1..Len(s)
        BY <1>1, <2>4
      <4>2. QED BY <1>2, <4>1
    <3>3. m < n /\ t[m] = u[i] /\ t[n] = u[j]
      BY <1>1, <3>1, <3>2
    <3>4. QED BY <1>4, <3>3 DEF Ascending
  <2>5. QED BY <2>2, <2>3, <2>4
<1> QED BY <1>1, <1>3, <1>4 DEF u

LEMMA PartNumbers ==
  ASSUME NEW s \in Seq(ToHost), NEW m \in Nat \ {0}, NEW n \in Nat, n <= Len(s)
  PROVE  /\ SubSeq(s, m, n) \in Seq(ToHost)
         /\ Numbers(SubSeq(s, m, n)) = {s[i][2] : i \in {j \in m..n : s[j][1] = "frame"}}
         /\ Ascending(s) => Ascending(SubSeq(s, m, n))
<1> DEFINE u == SubSeq(s, m, n)
<1>0. Len(s) \in Nat /\ \A i \in m..n : i \in 1..Len(s) /\ s[i] \in ToHost
  BY LenProperties, ElementOfSeq
<1>1. /\ u \in Seq(ToHost)
      /\ Len(u) = IF m <= n THEN n - m + 1 ELSE 0
      /\ \A i \in 1..(n - m + 1) : u[i] = s[m + i - 1]
  BY <1>0, SubSeqProperties
<1> HIDE DEF u
<1>2. \A i \in 1..Len(u) : m + i - 1 \in m..n /\ u[i] = s[m + i - 1]
  BY <1>1
<1>3. \A j \in m..n : j - m + 1 \in 1..Len(u) /\ u[j - m + 1] = s[j]
  <2> TAKE j \in m..n
  <2>1. j - m + 1 \in 1..(n - m + 1) /\ m + (j - m + 1) - 1 = j /\ m <= n
    OBVIOUS
  <2>2. QED BY <1>1, <2>1
<1>4. Numbers(u) = {s[i][2] : i \in {j \in m..n : s[j][1] = "frame"}}
  <2>1. ASSUME NEW i \in 1..Len(u), u[i][1] = "frame"
        PROVE  \E j \in m..n : s[j][1] = "frame" /\ u[i][2] = s[j][2]
    BY <1>2, <2>1
  <2>2. ASSUME NEW j \in m..n, s[j][1] = "frame"
        PROVE  \E i \in 1..Len(u) : u[i][1] = "frame" /\ u[i][2] = s[j][2]
    BY <1>3, <2>2
  <2> DEFINE v == {s[i][2] : i \in {j \in m..n : s[j][1] = "frame"}}
  <2>3. ASSUME NEW x \in Numbers(u) PROVE x \in v
    BY <2>1 DEF Numbers, Of
  <2>4. ASSUME NEW x \in v PROVE x \in Numbers(u)
    BY <2>2 DEF Numbers, Of
  <2>5. QED BY <2>3, <2>4
<1>5. ASSUME Ascending(s) PROVE Ascending(u)
  <2> SUFFICES ASSUME NEW i \in 1..Len(u), NEW j \in 1..Len(u), i < j,
                      u[i][1] = "frame", u[j][1] = "frame"
               PROVE  u[i][2] < u[j][2]
    BY DEF Ascending
  <2>1. m + i - 1 \in 1..Len(s) /\ m + j - 1 \in 1..Len(s) /\ m + i - 1 < m + j - 1
    BY <1>0, <1>2
  <2>2. QED BY <1>2, <1>5, <2>1 DEF Ascending
<1> QED BY <1>1, <1>4, <1>5 DEF u

\* The parts of a sequence on either side of a cut, or of a message that is no frame.
LEMMA CutNumbers ==
  ASSUME NEW s \in Seq(ToHost), NEW i \in Nat, NEW j \in Nat \ {0}, i < j, j <= Len(s) + 1,
         \A k \in 1..Len(s) : i < k /\ k < j => s[k][1] # "frame"
  PROVE  /\ SubSeq(s, 1, i) \in Seq(ToHost) /\ SubSeq(s, j, Len(s)) \in Seq(ToHost)
         /\ Numbers(s) = Numbers(SubSeq(s, 1, i)) \cup Numbers(SubSeq(s, j, Len(s)))
         /\ Ascending(s) => /\ Ascending(SubSeq(s, 1, i)) /\ Ascending(SubSeq(s, j, Len(s)))
                            /\ Below(SubSeq(s, 1, i), SubSeq(s, j, Len(s)))
<1> DEFINE a == SubSeq(s, 1, i)
           b == SubSeq(s, j, Len(s))
<1>0. Len(s) \in Nat /\ i <= Len(s)
  BY LenProperties
<1>1. /\ a \in Seq(ToHost) /\ Numbers(a) = {s[k][2] : k \in {l \in 1..i : s[l][1] = "frame"}}
      /\ Ascending(s) => Ascending(a)
  BY <1>0, PartNumbers
<1>2. /\ b \in Seq(ToHost) /\ Numbers(b) = {s[k][2] : k \in {l \in j..Len(s) : s[l][1] = "frame"}}
      /\ Ascending(s) => Ascending(b)
  BY <1>0, PartNumbers
<1> HIDE DEF a, b
<1>3. Numbers(s) = Numbers(a) \cup Numbers(b)
  <2>1. \A k \in 1..Len(s) : s[k][1] = "frame" => k \in 1..i \/ k \in j..Len(s)
    BY <1>0
  <2>2. \A k : k \in 1..i \/ k \in j..Len(s) => k \in 1..Len(s)
    BY <1>0
  <2>3. QED BY <1>1, <1>2, <2>1, <2>2 DEF Numbers, Of
<1>4. Ascending(s) => Below(a, b)
  <2> SUFFICES ASSUME Ascending(s), NEW k \in 1..i, NEW l \in j..Len(s),
                      s[k][1] = "frame", s[l][1] = "frame"
               PROVE  s[k][2] < s[l][2]
    BY <1>1, <1>2 DEF Below
  <2>1. k \in 1..Len(s) /\ l \in 1..Len(s) /\ k < l
    BY <1>0
  <2>2. QED BY <2>1 DEF Ascending
<1> QED BY <1>1, <1>2, <1>3, <1>4 DEF a, b
LEMMA AppendNumbers ==
  ASSUME NEW s \in Seq(ToHost), NEW m \in ToHost
  PROVE  /\ Append(s, m) \in Seq(ToHost)
         /\ Numbers(Append(s, m)) = Numbers(s) \cup (IF m[1] = "frame" THEN {m[2]} ELSE {})
         /\ Ascending(s) /\ (m[1] = "frame" => \A n \in Numbers(s) : n < m[2])
              => Ascending(Append(s, m))
<1>1. Append(s, m) = s \o <<m>> /\ <<m>> \in Seq(ToHost)
  BY AppendIsConcat
<1>2. Len(<<m>>) = 1 /\ <<m>>[1] = m
  OBVIOUS
<1>3. Ascending(<<m>>)
  BY <1>2 DEF Ascending
<1>4. Numbers(<<m>>) = IF m[1] = "frame" THEN {m[2]} ELSE {}
  BY <1>2 DEF Numbers, Of
<1>5. (m[1] = "frame" => \A n \in Numbers(s) : n < m[2]) => Below(s, <<m>>)
  BY <1>4 DEF Below
<1> DEFINE t == <<m>>
<1>6. t \in Seq(ToHost) /\ Append(s, m) = s \o t
  BY <1>1
<1>7. Ascending(t) /\ Numbers(t) = IF m[1] = "frame" THEN {m[2]} ELSE {}
  BY <1>3, <1>4
<1>8. (m[1] = "frame" => \A n \in Numbers(s) : n < m[2]) => Below(s, t)
  BY <1>5
<1> HIDE DEF t
<1>9. /\ s \o t \in Seq(ToHost) /\ Numbers(s \o t) = Numbers(s) \cup Numbers(t)
      /\ Ascending(s) /\ Ascending(t) /\ Below(s, t) => Ascending(s \o t)
  BY <1>6, ConcatNumbers
<1> QED BY <1>6, <1>7, <1>8, <1>9

-----------------------------------------------------------------------------
(* DeliveredInOrder                                                        *)

\* The buffer that the frames of the current mode wait in.
Buffered ==
    IF mode = "configuring" THEN configBuffer ELSE IF mode = "info" THEN infoBuffer ELSE <<>>

\* From the splitter's input through that buffer to the port, the numbers grow,
\* and none is larger than that of the last frame received.
InOrder ==
    /\ Ascending(fed) /\ Ascending(Buffered) /\ Ascending(toHost)
    /\ Below(fed, Buffered) /\ Below(fed, toHost) /\ Below(Buffered, toHost)
    /\ \A n \in Numbers(fed) \cup Numbers(Buffered) \cup Numbers(toHost) : n <= rxSeq

LEMMA BufferedType == BufferTypeOK => Buffered \in Seq(ToHost)
BY EmptyIsSeq DEF BufferTypeOK, Buffered

LEMMA NumbersType == \A s \in Seq(ToHost) : \A n \in Numbers(s) : n \in Nat
<1> SUFFICES ASSUME NEW s \in Seq(ToHost), NEW i \in 1..Len(s), s[i][1] = "frame"
             PROVE s[i][2] \in Nat
  BY DEF Numbers, Of
<1>1. s[i] \in ToHost
  BY ElementOfSeq
<1> QED BY <1>1 DEF ToHost

\* A step that only takes something away keeps the order.
LEMMA OrderShrinks ==
  ASSUME InOrder, UNCHANGED <<fed, rxSeq>>,
         Buffered' = Buffered \/ Buffered' = <<>>,
         Ascending(toHost'), Numbers(toHost') \subseteq Numbers(toHost)
  PROVE  InOrder'
<1>1. Ascending(fed') /\ Ascending(Buffered') /\ Numbers(Buffered') \subseteq Numbers(Buffered)
  BY NoNumbers DEF InOrder
<1>2. Below(fed', Buffered') /\ Below(fed', toHost') /\ Below(Buffered', toHost')
  BY <1>1 DEF InOrder, Below
<1>3. \A n \in Numbers(fed') \cup Numbers(Buffered') \cup Numbers(toHost') : n <= rxSeq'
  BY <1>1 DEF InOrder
<1> QED BY <1>1, <1>2, <1>3 DEF InOrder

\* What the board sends is a frame with the next number, or none.
LEMMA OrderGrows ==
  ASSUME Inv, InOrder, UNCHANGED <<fed, mode, configBuffer, infoBuffer>>,
         NEW m \in ToHost, Reply(m),
         IF m[1] = "frame" THEN m[2] = rxSeq + 1 /\ rxSeq' = rxSeq + 1 ELSE UNCHANGED rxSeq
  PROVE  InOrder'
<1>0. /\ Buffered' = Buffered
      /\ rxSeq \in Nat /\ rxSeq <= rxSeq' /\ rxSeq' \in Nat
      /\ toHost \in Seq(ToHost)
  BY DEF Buffered, Inv, TypeOK, BoardTypeOK
<1>1. \A n \in Numbers(fed) \cup Numbers(Buffered) \cup Numbers(toHost) :
        n \in Nat /\ n <= rxSeq /\ n <= rxSeq' /\ (m[1] = "frame" => n < m[2])
  <2>1. fed \in Seq(ToHost) /\ Buffered \in Seq(ToHost)
    BY BufferedType DEF Inv, TypeOK, BufferTypeOK
  <2>2. \A n \in Numbers(fed) \cup Numbers(Buffered) \cup Numbers(toHost) : n \in Nat
    BY <1>0, <2>1, NumbersType
  <2>3. QED BY <1>0, <2>2 DEF InOrder
<1>2. CASE toHost' = toHost
  BY <1>0, <1>1, <1>2 DEF InOrder, Below
<1>3. CASE toHost' = Append(toHost, m)
  <2>1. /\ Numbers(toHost') = Numbers(toHost) \cup (IF m[1] = "frame" THEN {m[2]} ELSE {})
        /\ Ascending(toHost')
    BY <1>0, <1>1, <1>3, AppendNumbers DEF InOrder
  <2>2. Below(fed', toHost') /\ Below(Buffered', toHost')
    BY <1>0, <1>1, <2>1 DEF InOrder, Below
  <2>3. \A n \in Numbers(fed') \cup Numbers(Buffered') \cup Numbers(toHost') : n <= rxSeq'
    BY <1>0, <1>1, <2>1
  <2>4. QED BY <1>0, <2>1, <2>2, <2>3 DEF InOrder
<1> QED BY <1>2, <1>3 DEF Reply

\* A chunk is cut off the front of what is in the port.
LEMMA ChunkNumbers ==
  ASSUME Inv, NEW k, Arrives(k)
  PROVE  /\ Chunk(k) \in Seq(ToHost) /\ toHost' \in Seq(ToHost)
         /\ Numbers(toHost) = Numbers(Chunk(k)) \cup Numbers(toHost')
         /\ Ascending(toHost) => Ascending(Chunk(k)) /\ Ascending(toHost') /\ Below(Chunk(k), toHost')
<1>1. toHost \in Seq(ToHost) /\ Len(toHost) \in Nat /\ k \in 1..Len(toHost)
  BY LenProperties DEF Inv, TypeOK, BoardTypeOK, Arrives
<1>2. toHost' = SubSeq(toHost, k + 1, Len(toHost))
  BY DEF Arrives
<1>3. \A j \in 1..Len(toHost) : ~(k < j /\ j < k + 1)
  BY <1>1
<1> QED BY <1>1, <1>2, <1>3, CutNumbers DEF Chunk

\* The buffer and the chunk together lie between the splitter and the rest.
LEMMA Gathered ==
  ASSUME Inv, InOrder, NEW k, Arrives(k), NEW buffer, buffer = Buffered \o Chunk(k)
  PROVE  /\ buffer \in Seq(ToHost)
         /\ Ascending(buffer) /\ Ascending(toHost')
         /\ Below(fed, buffer) /\ Below(fed, toHost') /\ Below(buffer, toHost')
         /\ Numbers(buffer) \cup Numbers(toHost') = Numbers(Buffered) \cup Numbers(toHost)
<1>1. Buffered \in Seq(ToHost)
  BY BufferedType DEF Inv, TypeOK
<1>2. /\ Chunk(k) \in Seq(ToHost) /\ toHost' \in Seq(ToHost)
      /\ Numbers(toHost) = Numbers(Chunk(k)) \cup Numbers(toHost')
      /\ Ascending(Chunk(k)) /\ Ascending(toHost') /\ Below(Chunk(k), toHost')
  BY ChunkNumbers DEF InOrder
<1>3. Below(Buffered, Chunk(k))
  BY <1>2 DEF InOrder, Below
<1>4. /\ buffer \in Seq(ToHost) /\ Ascending(buffer)
      /\ Numbers(buffer) = Numbers(Buffered) \cup Numbers(Chunk(k))
  BY <1>1, <1>2, <1>3, ConcatNumbers DEF InOrder
<1>5. Below(fed, buffer) /\ Below(fed, toHost') /\ Below(buffer, toHost')
  BY <1>2, <1>4 DEF InOrder, Below
<1> QED BY <1>2, <1>4, <1>5

\* The splitter gets the whole buffer, or all but a message that is no frame.
LEMMA FedNumbers ==
  ASSUME Inv, InOrder, NEW buffer \in Seq(ToHost), Ascending(buffer), Below(fed, buffer),
         \/ fed' = fed \o buffer
         \/ \E i \in 1..Len(buffer) : buffer[i][1] # "frame" /\ FeedAllBut(i, buffer)
  PROVE  Ascending(fed') /\ Numbers(fed') = Numbers(fed) \cup Numbers(buffer)
<1>1. fed \in Seq(ToHost) /\ Ascending(fed)
  BY DEF Inv, TypeOK, BufferTypeOK, InOrder
<1>2. CASE fed' = fed \o buffer
  BY <1>1, <1>2, ConcatNumbers
<1>3. ASSUME NEW i \in 1..Len(buffer), buffer[i][1] # "frame", FeedAllBut(i, buffer)
      PROVE  Ascending(fed') /\ Numbers(fed') = Numbers(fed) \cup Numbers(buffer)
  <2> DEFINE a == SubSeq(buffer, 1, i - 1)
             b == SubSeq(buffer, i + 1, Len(buffer))
  <2>1. Len(buffer) \in Nat /\ i - 1 \in Nat /\ i + 1 \in Nat \ {0} /\ i - 1 < i + 1
        /\ i + 1 <= Len(buffer) + 1
        /\ \A j \in 1..Len(buffer) : i - 1 < j /\ j < i + 1 => buffer[j][1] # "frame"
    BY <1>3, LenProperties
  <2>2. /\ a \in Seq(ToHost) /\ b \in Seq(ToHost)
        /\ Numbers(buffer) = Numbers(a) \cup Numbers(b)
        /\ Ascending(a) /\ Ascending(b) /\ Below(a, b)
    BY <2>1, CutNumbers
  <2>3. fed' = (fed \o a) \o b
    BY <1>3 DEF FeedAllBut
  <2> HIDE DEF a, b
  <2>4. Below(fed, a) /\ Below(fed, b)
    BY <2>2 DEF Below
  <2>5. /\ fed \o a \in Seq(ToHost) /\ Ascending(fed \o a)
        /\ Numbers(fed \o a) = Numbers(fed) \cup Numbers(a)
    BY <1>1, <2>2, <2>4, ConcatNumbers
  <2>6. Below(fed \o a, b)
    BY <2>2, <2>4, <2>5 DEF Below
  <2>7. Ascending(fed') /\ Numbers(fed') = Numbers(fed) \cup Numbers(a) \cup Numbers(b)
    BY <2>2, <2>3, <2>5, <2>6, ConcatNumbers
  <2>8. QED BY <2>2, <2>7
<1> QED BY <1>2, <1>3

\* A chunk moves frames from the port to the buffer, or with the buffer to the
\* splitter; none gets lost.
FramesMove ==
    Numbers(fed') \cup Numbers(Buffered') \cup Numbers(toHost')
      = Numbers(fed) \cup Numbers(Buffered) \cup Numbers(toHost)

LEMMA DataOrder ==
  ASSUME Inv, InOrder, DataStep
  PROVE  InOrder' /\ FramesMove
<1> SUFFICES ASSUME NEW k \in 1..MaxChunk,
                    BufferConfig(k) \/ ConfigOk(k) \/ BufferInfo(k) \/ InfoReply(k) \/ FeedSplitter(k)
             PROVE  InOrder' /\ FramesMove
  BY DEF DataStep
<1>0. Arrives(k) /\ UNCHANGED rxSeq
  BY DEF BufferConfig, ConfigOk, BufferInfo, InfoReply, FeedSplitter, boardVars
<1> DEFINE buffer == Buffered \o Chunk(k)
<1>1. /\ buffer \in Seq(ToHost)
      /\ Ascending(buffer) /\ Ascending(toHost')
      /\ Below(fed, buffer) /\ Below(fed, toHost') /\ Below(buffer, toHost')
      /\ Numbers(buffer) \cup Numbers(toHost') = Numbers(Buffered) \cup Numbers(toHost)
  BY <1>0, Gathered
<1>2. CASE fed' = fed /\ Buffered' = buffer
  <2>1. FramesMove
    BY <1>1, <1>2 DEF FramesMove
  <2>2. \A n \in Numbers(fed') \cup Numbers(Buffered') \cup Numbers(toHost') : n <= rxSeq'
    BY <1>0, <2>1 DEF FramesMove, InOrder
  <2>3. QED BY <1>1, <1>2, <2>1, <2>2 DEF InOrder
<1>3. ASSUME /\ Buffered' = <<>>
             /\ \/ fed' = fed \o buffer
                \/ \E i \in 1..Len(buffer) : buffer[i][1] # "frame" /\ FeedAllBut(i, buffer)
      PROVE  InOrder' /\ FramesMove
  <2>1. Ascending(fed') /\ Numbers(fed') = Numbers(fed) \cup Numbers(buffer)
    BY <1>1, <1>3, FedNumbers
  <2>2. Ascending(Buffered') /\ Numbers(Buffered') = {}
    BY <1>3, NoNumbers
  <2>3. FramesMove
    BY <1>1, <2>1, <2>2 DEF FramesMove
  <2>4. \A n \in Numbers(fed') \cup Numbers(Buffered') \cup Numbers(toHost') : n <= rxSeq'
    BY <1>0, <2>3 DEF FramesMove, InOrder
  <2>5. Below(fed', toHost') /\ Below(fed', Buffered') /\ Below(Buffered', toHost')
    BY <1>1, <2>1, <2>2 DEF Below
  <2>6. QED BY <1>1, <2>1, <2>2, <2>3, <2>4, <2>5 DEF InOrder
<1>4. CASE BufferConfig(k)
  <2>1. fed' = fed /\ Buffered' = buffer
    BY <1>4 DEF BufferConfig, Buffered, portVars
  <2>2. QED BY <1>2, <2>1
<1>5. CASE ConfigOk(k)
  <2>1. Buffered' = <<>> /\ Buffered = configBuffer
    BY <1>5 DEF ConfigOk, Buffered
  <2>2. \E i \in 1..Len(buffer) : buffer[i][1] # "frame" /\ FeedAllBut(i, buffer)
    BY <1>5, <2>1 DEF ConfigOk, IsFirst
  <2>3. QED BY <1>3, <2>1, <2>2
<1>6. CASE BufferInfo(k)
  <2>1. Buffered = infoBuffer /\ Buffered' = infoBuffer'
    BY <1>6 DEF BufferInfo, Buffered, portVars
  <2>2. CASE infoBuffer' = infoBuffer \o Chunk(k) /\ fed' = fed
    BY <1>2, <2>1, <2>2
  <2>3. CASE infoBuffer' = <<>> /\ fed' = fed \o infoBuffer \o Chunk(k)
    <3>1. fed' = fed \o buffer
      <4>1. fed \in Seq(ToHost) /\ infoBuffer \in Seq(ToHost) /\ Chunk(k) \in Seq(ToHost)
        BY <1>0, ChunkNumbers DEF Inv, TypeOK, BufferTypeOK
      <4>2. QED BY <2>1, <2>3, <4>1, ConcatAssociative
    <3>2. QED BY <1>3, <2>1, <2>3, <3>1
  <2>4. QED BY <1>6, <2>2, <2>3 DEF BufferInfo
<1>7. CASE InfoReply(k)
  <2>1. Buffered' = <<>> /\ Buffered = infoBuffer
    BY <1>7 DEF InfoReply, Buffered
  <2>2. \E i \in 1..Len(buffer) : buffer[i][1] # "frame" /\ FeedAllBut(i, buffer)
    BY <1>7, <2>1 DEF InfoReply, IsFirst
  <2>3. QED BY <1>3, <2>1, <2>2
<1>8. CASE FeedSplitter(k)
  <2>1. Buffered = <<>> /\ Buffered' = <<>>
    BY <1>8 DEF FeedSplitter, Buffered, portVars
  <2>2. buffer = Chunk(k)
    BY <1>0, <2>1, ChunkNumbers, ConcatEmptySeq
  <2>3. fed' = fed \o buffer
    BY <1>8, <2>2 DEF FeedSplitter
  <2>4. QED BY <1>3, <2>1, <2>3
<1> QED BY <1>4, <1>5, <1>6, <1>7, <1>8

\* Every other step of the host leaves the messages alone or drops a buffer.
LEMMA HostOrder ==
  ASSUME Inv, InOrder, PortStep \/ CallStep \/ TxStep
  PROVE  InOrder'
<1>0. Ascending(toHost)
  BY DEF InOrder
<1>1. ASSUME UNCHANGED <<fed, rxSeq>>, Buffered' = Buffered \/ Buffered' = <<>>,
             toHost' = toHost \/ toHost' = <<>>
      PROVE  InOrder'
  BY <1>0, <1>1, NoNumbers, OrderShrinks
<1>2. CASE PortStep
  <2>1. UNCHANGED <<bufferVars, rxSeq>> /\ mode' \in {mode, "normal", "closed"}
        /\ (toHost' = toHost \/ toHost' = <<>>)
    BY <1>2 DEF PortStep, Open, OpenDone, OpenFailed, Close, PortClosed, boardVars
  <2>2. QED BY <1>1, <2>1 DEF bufferVars, Buffered
<1>3. CASE TxStep
  <2>1. UNCHANGED <<bufferVars, mode, toHost, rxSeq>>
    BY <1>3 DEF TxStep, SendRadioFrame, SetDisplayText, KeepaliveTick, Enqueue, TxWrite, TxWritten,
         TxFailed, AirtimeOver, portVars, boardVars
  <2>2. QED BY <1>1, <2>1 DEF bufferVars, Buffered
<1>4. CASE CallStep
  <2>1. ASSUME NEW c \in Calls, StartCall(c) PROVE InOrder'
    BY <1>1, <2>1 DEF StartCall, bufferVars, boardVars, portVars, Buffered
  <2>2. ASSUME NEW c \in ConfigCalls, SendConfigOnce(c) PROVE InOrder'
    BY <1>1, <2>2 DEF SendConfigOnce, ResetConfigBuffer, boardVars, Buffered
  <2>3. ASSUME NEW c \in InfoCalls, SendInfo(c) PROVE InOrder'
    BY <1>1, <2>3 DEF SendInfo, boardVars, Buffered
  <2>4. ASSUME NEW c, NEW n, Timeout(c, n) \/ WriteFailed(c, n) PROVE InOrder'
    <3>1. UNCHANGED <<bufferVars, toHost, rxSeq>> /\ RejectCurrent(c)
      BY <2>4 DEF Timeout, WriteFailed, boardVars
    <3>2. mode' \in {mode, "normal"}
      BY <3>1 DEF RejectCurrent, RejectConfig, RejectInfo
    <3>3. QED BY <1>1, <3>1, <3>2 DEF bufferVars, Buffered
  <2>5. QED BY <1>4, <2>1, <2>2, <2>3, <2>4 DEF CallStep
<1> QED BY <1>2, <1>3, <1>4

LEMMA BoardOrder ==
  ASSUME Inv, InOrder, BoardStep
  PROVE  InOrder'
<1>0. /\ UNCHANGED <<fed, mode, configBuffer, infoBuffer>>
      /\ Buffered' = Buffered
      /\ toHost \in Seq(ToHost) /\ Ascending(toHost)
  BY DEF BoardStep, BoardConfig, BoardInfo, BoardSend, BoardReceives, LoseCommand, LoseReply,
         BoardReset, portVars, bufferVars, Buffered, InOrder, Inv, TypeOK, BoardTypeOK
<1>1. toBoard # <<>> => Head(toBoard) \in ToBoard
  BY HeadTailProperties DEF Inv, TypeOK, BoardTypeOK
<1>2. CASE BoardConfig
  <2>1. <<"ok", Head(toBoard)[2]>> \in ToHost
    BY <1>1, <1>2 DEF BoardConfig, NextCommand, ToBoard, Frames, ToHost
  <2>2. Reply(<<"ok", Head(toBoard)[2]>>) /\ UNCHANGED rxSeq
    BY <1>2 DEF BoardConfig
  <2>3. QED BY <1>0, <2>1, <2>2, OrderGrows
<1>3. CASE BoardInfo
  <2>1. <<"info", Head(toBoard)[2]>> \in ToHost /\ <<"bad", Head(toBoard)[2]>> \in ToHost
    BY <1>1, <1>3 DEF BoardInfo, NextCommand, ToBoard, Frames, ToHost
  <2>2. (Reply(<<"info", Head(toBoard)[2]>>) \/ Reply(<<"bad", Head(toBoard)[2]>>)) /\ UNCHANGED rxSeq
    BY <1>3 DEF BoardInfo, boardVars
  <2>3. QED BY <1>0, <2>1, <2>2, OrderGrows
<1>4. CASE BoardReceives
  <2>1. <<"frame", rxSeq + 1>> \in ToHost
    BY DEF ToHost, Inv, TypeOK, BoardTypeOK
  <2>2. Reply(<<"frame", rxSeq + 1>>) /\ rxSeq' = rxSeq + 1
    BY <1>4 DEF BoardReceives
  <2>3. QED BY <1>0, <2>1, <2>2, OrderGrows
<1>5. CASE LoseReply
  <2>1. toHost # <<>> /\ toHost' = Tail(toHost) /\ UNCHANGED rxSeq
    BY <1>5 DEF LoseReply, boardVars
  <2>2. Len(toHost) \in Nat /\ Len(toHost) >= 1 /\ toHost' = SubSeq(toHost, 2, Len(toHost))
    BY <1>0, <2>1, TailIsSubSeq, LenProperties, EmptySeq
  <2>3. Ascending(toHost') /\ Numbers(toHost') \subseteq Numbers(toHost)
    <3>1. /\ Ascending(toHost')
          /\ Numbers(toHost') = {toHost[i][2] : i \in {j \in 2..Len(toHost) : toHost[j][1] = "frame"}}
      BY <1>0, <2>2, PartNumbers
    <3>2. QED BY <2>2, <3>1 DEF Numbers, Of
  <2>4. QED BY <1>0, <2>1, <2>3, OrderShrinks
<1>6. CASE BoardSend \/ LoseCommand \/ BoardReset
  <2>1. UNCHANGED <<toHost, rxSeq>>
    BY <1>6 DEF BoardSend, LoseCommand, BoardReset, boardVars
  <2>2. QED BY <1>0, <2>1, OrderShrinks
<1> QED BY <1>2, <1>3, <1>4, <1>5, <1>6 DEF BoardStep

LEMMA InitOrder == Init => InOrder
BY NoNumbers DEF Init, InOrder, Buffered, Below

LEMMA StepOrder ==
  ASSUME Inv, InOrder, [Next]_vars
  PROVE  InOrder'
<1>1. CASE UNCHANGED vars
  BY <1>1, OrderShrinks DEF vars, portVars, bufferVars, boardVars, Buffered, InOrder
<1> QED BY <1>1, DataOrder, HostOrder, BoardOrder DEF Next

\* Radio frames come out of the splitter in the order the board received them
\* and never twice, however calls overlap, time out and are repeated, buffers
\* are flushed or dropped, and the port closes and opens again.
THEOREM InOrderDelivered == Spec => []DeliveredInOrder
<1>1. Inv /\ InOrder /\ [Next]_vars => InOrder'
  BY StepOrder
<1>2. InOrder => DeliveredInOrder
  BY DEF InOrder, Ascending, DeliveredInOrder
<1> QED BY Invariant, InitOrder, <1>1, <1>2, PTL DEF Spec

-----------------------------------------------------------------------------
(* An application that awaits each call                                    *)

\* At most one call is pending; a waiter that is installed is that of the call that
\* waits, and the other way round.
Turns ==
    /\ \A c, d \in Calls : Pending(c) /\ Pending(d) => c = d
    /\ configWaiter # None => pc[configWaiter] = "waiting"
    /\ infoWaiter # None => pc[infoWaiter] = "waiting"
    /\ \A c \in ConfigCalls : pc[c] = "waiting" => configWaiter = c
    /\ \A c \in InfoCalls : pc[c] = "waiting" => infoWaiter = c
    /\ \A c \in Calls : pc[c] = "waiting" => tries[c] >= 1
    /\ Lacks({"ok"}, configBuffer)

LEMMA TurnsKept ==
  ASSUME Turns, UNCHANGED <<pc, configWaiter, infoWaiter, tries, configBuffer>>
  PROVE  Turns'
BY DEF Turns, Pending, Lacks

LEMMA EmptyLacks == Lacks({"ok"}, <<>>)
BY DEF Lacks

\* Whoever is rejected was the only call pending.
LEMMA TurnsReject ==
  ASSUME Inv, Turns, NEW c, RejectCurrent(c), UNCHANGED <<tries, configBuffer>>
  PROVE  Turns'
<1>0. /\ configWaiter \in ConfigCalls \cup {None} /\ infoWaiter \in InfoCalls \cup {None}
      /\ pc \in [Calls -> {"idle", "lock", "waiting", "ok", "failed"}]
  BY DEF Inv, TypeOK, CallTypeOK
<1>1. CASE UNCHANGED <<pc, configWaiter, infoWaiter>>
  BY <1>1, TurnsKept
<1>2. CASE /\ configWaiter # None /\ configWaiter' = None /\ UNCHANGED infoWaiter
           /\ \E p \in {"lock", "failed"} : pc' = [pc EXCEPT ![configWaiter] = p]
  <2>1. configWaiter \in Calls /\ Pending(configWaiter) /\ infoWaiter # configWaiter
        /\ infoWaiter \in Calls \cup {None}
    BY <1>0, <1>2, KindsDiffer DEF Calls, Turns, Pending
  <2>2. infoWaiter = None
    BY <2>1 DEF Turns, Pending
  <2>3. \A d \in Calls : pc'[d] # "waiting"
    BY <1>0, <1>2, <2>1 DEF Turns, Pending
  <2>4. \A d \in Calls : (Pending(d))' => Pending(d)
    BY <1>0, <1>2, <2>1 DEF Pending
  <2>5. QED BY <1>2, <2>2, <2>3, <2>4 DEF Turns, Lacks, Calls
<1>3. CASE /\ infoWaiter # None /\ infoWaiter' = None /\ UNCHANGED configWaiter
           /\ pc' = [pc EXCEPT ![infoWaiter] = "failed"]
  <2>1. infoWaiter \in Calls /\ Pending(infoWaiter) /\ infoWaiter # configWaiter
        /\ configWaiter \in Calls \cup {None}
    BY <1>0, <1>3, KindsDiffer DEF Calls, Turns, Pending
  <2>2. configWaiter = None
    BY <2>1 DEF Turns, Pending
  <2>3. \A d \in Calls : pc'[d] # "waiting"
    BY <1>0, <1>3, <2>1 DEF Turns, Pending
  <2>4. \A d \in Calls : (Pending(d))' => Pending(d)
    BY <1>0, <1>3, <2>1 DEF Pending
  <2>5. QED BY <1>3, <2>2, <2>3, <2>4 DEF Turns, Lacks, Calls
<1> QED BY <1>1, <1>2, <1>3 DEF RejectCurrent, RejectConfig, RejectInfo

\* A waiter that settles was that of the only call pending.
LEMMA TurnsSettle ==
  ASSUME Inv, Turns, NEW c \in Calls, pc[c] = "waiting", UNCHANGED tries,
         NEW p \in {"ok", "failed"}, pc' = [pc EXCEPT ![c] = p],
         \/ c = configWaiter /\ configWaiter' = None /\ UNCHANGED infoWaiter
         \/ c = infoWaiter /\ infoWaiter' = None /\ UNCHANGED configWaiter,
         Lacks({"ok"}, configBuffer')
  PROVE  Turns'
<1>0. /\ configWaiter \in ConfigCalls \cup {None} /\ infoWaiter \in InfoCalls \cup {None}
      /\ pc \in [Calls -> {"idle", "lock", "waiting", "ok", "failed"}]
      /\ None \notin Calls
  BY CallsAssumption DEF Inv, TypeOK, CallTypeOK
<1>1. \A d \in Calls : d # c => ~Pending(d)
  BY DEF Turns, Pending
<1>2. \A d \in Calls : ~(Pending(d))'
  BY <1>0, <1>1 DEF Pending
<1>3. configWaiter' = None /\ infoWaiter' = None
  BY <1>0, <1>1, KindsDiffer DEF Turns, Pending, Calls
<1>4. \A d \in Calls : pc'[d] # "waiting"
  BY <1>2 DEF Pending
<1>5. Calls' = Calls /\ ConfigCalls \subseteq Calls /\ InfoCalls \subseteq Calls
  BY DEF Calls
<1>6. Lacks({"ok"}, configBuffer)'
  BY DEF Lacks
<1> QED BY <1>2, <1>3, <1>4, <1>5, <1>6 DEF Turns

LEMMA TurnsStep ==
  ASSUME Sequential, Inv, Turns, [Next]_vars
  PROVE  Turns'
<1>0. /\ configWaiter \in ConfigCalls \cup {None} /\ infoWaiter \in InfoCalls \cup {None}
      /\ pc \in [Calls -> {"idle", "lock", "waiting", "ok", "failed"}]
      /\ tries \in [Calls -> Nat]
      /\ None \notin Calls /\ ConfigCalls \subseteq Calls /\ InfoCalls \subseteq Calls
  BY CallsAssumption DEF Inv, TypeOK, CallTypeOK, Calls
<1>1. CASE PortStep \/ TxStep \/ BoardStep \/ UNCHANGED vars
  <2>1. UNCHANGED <<pc, configWaiter, infoWaiter, tries, configBuffer>>
    BY <1>1 DEF PortStep, Open, OpenDone, OpenFailed, Close, PortClosed, TxStep, SendRadioFrame,
                SetDisplayText, KeepaliveTick, Enqueue, TxWrite, TxWritten, TxFailed, AirtimeOver,
                BoardStep, BoardConfig, BoardInfo, BoardSend, BoardReceives, LoseCommand, LoseReply,
                BoardReset, vars, callVars, bufferVars
  <2>2. QED BY <2>1, TurnsKept
<1>2. ASSUME NEW c \in Calls, StartCall(c)
      PROVE  Turns'
  <2>1. \A d \in Calls : ~Pending(d)
    BY <1>2 DEF StartCall, MayCall
  <2>2. configWaiter = None /\ infoWaiter = None
    BY <1>0, <2>1 DEF Turns, Pending
  <2>3. \A d \in Calls : pc'[d] # "waiting" /\ ((Pending(d))' => d = c)
    BY <1>0, <1>2, <2>1 DEF StartCall, Pending
  <2>4. UNCHANGED <<configWaiter, infoWaiter, configBuffer>>
    BY <1>2 DEF StartCall, bufferVars
  <2>5. QED BY <1>0, <2>2, <2>3, <2>4 DEF Turns, Lacks
<1>3. ASSUME NEW c \in ConfigCalls, SendConfigOnce(c)
      PROVE  Turns'
  <2>1. \A d \in Calls : d # c => ~Pending(d)
    BY <1>0, <1>3 DEF SendConfigOnce, Turns, Pending
  <2>2. infoWaiter = None /\ infoWaiter' = None /\ configWaiter' = c
    BY <1>0, <1>3, <2>1, KindsDiffer DEF SendConfigOnce, Turns, Pending
  <2>3. pc'[c] = "waiting" /\ tries'[c] >= 1
    BY <1>0, <1>3 DEF SendConfigOnce
  <2>4. \A d \in Calls : d # c => ~(Pending(d))'
    BY <1>0, <1>3, <2>1 DEF SendConfigOnce, Pending
  <2>5. \A d \in Calls : d # c => pc'[d] # "waiting"
    BY <2>4 DEF Pending
  <2>6. Lacks({"ok"}, configBuffer)'
    BY <1>3, EmptyLacks DEF SendConfigOnce, ResetConfigBuffer, Lacks
  <2>7. \A d \in InfoCalls : d # c
    BY <1>3, KindsDiffer
  <2>8. QED BY <1>0, <2>2, <2>3, <2>4, <2>5, <2>6, <2>7 DEF Turns
<1>4. ASSUME NEW c \in InfoCalls, SendInfo(c)
      PROVE  Turns'
  <2>1. \A d \in Calls : d # c => ~Pending(d)
    BY <1>0, <1>4 DEF SendInfo, Turns, Pending
  <2>2. configWaiter = None /\ configWaiter' = None /\ infoWaiter' = c
    BY <1>0, <1>4, <2>1, KindsDiffer DEF SendInfo, Turns, Pending
  <2>3. pc'[c] = "waiting" /\ tries'[c] >= 1
    BY <1>0, <1>4 DEF SendInfo
  <2>4. \A d \in Calls : d # c => ~(Pending(d))'
    BY <1>0, <1>4, <2>1 DEF SendInfo, Pending
  <2>5. \A d \in Calls : d # c => pc'[d] # "waiting"
    BY <2>4 DEF Pending
  <2>6. Lacks({"ok"}, configBuffer)'
    BY <1>4 DEF SendInfo, Lacks, Turns
  <2>7. \A d \in ConfigCalls : d # c
    BY <1>4, KindsDiffer
  <2>8. QED BY <1>0, <2>2, <2>3, <2>4, <2>5, <2>6, <2>7 DEF Turns
<1>5. ASSUME NEW c, NEW n, Timeout(c, n) \/ WriteFailed(c, n)
      PROVE  Turns'
  BY <1>5, TurnsReject DEF Timeout, WriteFailed, bufferVars
<1>6. ASSUME NEW k, BufferConfig(k)
      PROVE  Turns'
  <2>1. UNCHANGED <<pc, configWaiter, infoWaiter, tries>> /\ Lacks({"ok"}, configBuffer)'
    BY <1>6 DEF BufferConfig, callVars, Lacks
  <2>2. QED BY <2>1 DEF Turns, Pending
<1>7. ASSUME NEW k, ConfigOk(k)
      PROVE  Turns'
  <2>1. configWaiter \in Calls /\ pc[configWaiter] = "waiting" /\ configWaiter' = None
        /\ UNCHANGED <<tries, infoWaiter>> /\ pc' = [pc EXCEPT ![configWaiter] = "ok"]
    BY <1>0, <1>7 DEF ConfigOk, Turns
  <2>2. Lacks({"ok"}, configBuffer')
    BY <1>7, EmptyLacks DEF ConfigOk
  <2>3. QED BY <2>1, <2>2, TurnsSettle
<1>8. ASSUME NEW k, InfoReply(k)
      PROVE  Turns'
  <2>1. infoWaiter \in Calls /\ pc[infoWaiter] = "waiting" /\ infoWaiter' = None
        /\ UNCHANGED <<tries, configWaiter, configBuffer>>
    BY <1>0, <1>8 DEF InfoReply, Turns
  <2>2. \E p \in {"ok", "failed"} : pc' = [pc EXCEPT ![infoWaiter] = p]
    BY <1>8 DEF InfoReply
  <2>3. Lacks({"ok"}, configBuffer')
    BY <2>1 DEF Turns
  <2>4. QED BY <2>1, <2>2, <2>3, TurnsSettle
<1>9. ASSUME NEW k, BufferInfo(k) \/ FeedSplitter(k)
      PROVE  Turns'
  BY <1>9, TurnsKept DEF BufferInfo, FeedSplitter, callVars
<1> QED BY <1>1, <1>2, <1>3, <1>4, <1>5, <1>6, <1>7, <1>8, <1>9 DEF Next, CallStep, DataStep

LEMMA InitTurns == Init => Turns
BY EmptyLacks DEF Init, Turns, Pending, Calls

-----------------------------------------------------------------------------
(* The messages of one kind, in sequences of messages                      *)

AtMostOne(kind, s) ==
    \A i, j \in 1..Len(s) : s[i][1] = kind /\ s[j][1] = kind => i = j

LEMMA OfEmpty == \A kind : Of(kind, <<>>) = {} /\ AtMostOne(kind, <<>>)
BY DEF Of, AtMostOne

LEMMA OfAppend ==
  ASSUME NEW S, NEW s \in Seq(S), NEW m \in S, NEW kind
  PROVE  /\ m[1] = kind => Of(kind, Append(s, m)) = Of(kind, s) \cup {m[2]}
         /\ m[1] # kind => Of(kind, Append(s, m)) = Of(kind, s)
         /\ AtMostOne(kind, s) /\ (m[1] = kind => Of(kind, s) = {})
              => AtMostOne(kind, Append(s, m))
<1> DEFINE t == Append(s, m)
           n == Len(s)
<1>1. n \in Nat /\ Len(t) = n + 1 /\ t[n + 1] = m /\ \A i \in 1..n : t[i] = s[i]
  BY LenProperties, AppendProperties
<1> HIDE DEF t, n
<1>2. \A i \in 1..Len(t) : i \in 1..n \/ i = n + 1
  BY <1>1
<1>3. \A i \in 1..n : i \in 1..Len(t)
  BY <1>1
<1>4. m[1] = kind => Of(kind, t) = Of(kind, s) \cup {m[2]}
  BY <1>1, <1>2, <1>3 DEF Of, n
<1>5. m[1] # kind => Of(kind, t) = Of(kind, s)
  BY <1>1, <1>2, <1>3 DEF Of, n
<1>6. ASSUME AtMostOne(kind, s), m[1] = kind => Of(kind, s) = {}
      PROVE  AtMostOne(kind, t)
  <2>1. m[1] = kind => \A i \in 1..n : s[i][1] # kind
    BY <1>6 DEF Of, n
  <2>2. QED BY <1>1, <1>2, <1>6, <2>1 DEF AtMostOne, n
<1> QED BY <1>4, <1>5, <1>6 DEF t

\* The two sides of a cut.
LEMMA OfCut ==
  ASSUME NEW S, NEW s \in Seq(S), NEW n \in 1..Len(s), NEW kind
  PROVE  LET a == SubSeq(s, 1, n)
             b == SubSeq(s, n + 1, Len(s))
         IN  /\ Of(kind, s) = Of(kind, a) \cup Of(kind, b)
             /\ AtMostOne(kind, s) =>
                  AtMostOne(kind, b) /\ (Of(kind, a) = {} \/ Of(kind, b) = {})
<1> DEFINE a == SubSeq(s, 1, n)
           b == SubSeq(s, n + 1, Len(s))
           l == Len(s)
<1>1. /\ l \in Nat /\ n \in Nat /\ n <= l /\ Len(a) = n /\ Len(b) = l - n
      /\ \A i \in 1..n : a[i] = s[i]
      /\ \A i \in 1..(l - n) : b[i] = s[n + i]
  <2>1. l \in Nat /\ n \in Nat /\ n <= l /\ 1 <= n
    BY LenProperties
  <2>2. \A i \in 1..l : s[i] \in S
    BY ElementOfSeq
  <2>3. Len(a) = n /\ \A i \in 1..n : a[i] = s[i]
    <3>1. \A i \in 1..n : s[i] \in S
      BY <2>1, <2>2
    <3>2. Len(a) = n - 1 + 1 /\ \A i \in 1..(n - 1 + 1) : a[i] = s[1 + i - 1]
      BY <2>1, <3>1, SubSeqProperties
    <3>3. QED BY <2>1, <3>2
  <2>4. Len(b) = l - n /\ \A i \in 1..(l - n) : b[i] = s[n + i]
    <3>1. \A i \in (n + 1)..l : s[i] \in S
      BY <2>1, <2>2
    <3>2. /\ Len(b) = IF n + 1 <= l THEN l - (n + 1) + 1 ELSE 0
          /\ \A i \in 1..(l - (n + 1) + 1) : b[i] = s[(n + 1) + i - 1]
      BY <2>1, <3>1, SubSeqProperties
    <3>3. QED BY <2>1, <3>2
  <2>5. QED BY <2>1, <2>3, <2>4
<1> HIDE DEF a, b
<1>2. \A i \in 1..l : i \in 1..n \/ \E j \in 1..(l - n) : i = n + j
  <2> TAKE i \in 1..l
  <2>1. CASE i > n
    <3>1. i - n \in 1..(l - n) /\ i = n + (i - n)
      BY <1>1, <2>1
    <3>2. QED BY <3>1
  <2>2. QED BY <1>1, <2>1
<1>3. \A i \in 1..n : i \in 1..l
  BY <1>1
<1>4. \A j \in 1..(l - n) : n + j \in 1..l
  BY <1>1
<1>5. Of(kind, s) \subseteq Of(kind, a) \cup Of(kind, b)
  <2> SUFFICES ASSUME NEW i \in 1..l, s[i][1] = kind
               PROVE  s[i][2] \in Of(kind, a) \cup Of(kind, b)
    BY DEF Of
  <2>1. CASE i \in 1..n
    BY <1>1, <2>1 DEF Of
  <2>2. ASSUME NEW j \in 1..(l - n), i = n + j
        PROVE  s[i][2] \in Of(kind, b)
    <3>1. b[j] = s[i]
      BY <1>1, <2>2
    <3>2. QED BY <1>1, <3>1 DEF Of
  <2>3. QED BY <1>2, <2>1, <2>2
<1>6. Of(kind, a) \subseteq Of(kind, s) /\ Of(kind, b) \subseteq Of(kind, s)
  BY <1>1, <1>3, <1>4 DEF Of
<1>7. ASSUME AtMostOne(kind, s)
      PROVE  AtMostOne(kind, b) /\ (Of(kind, a) = {} \/ Of(kind, b) = {})
  <2>1. ASSUME NEW i \in 1..(l - n), NEW j \in 1..(l - n), b[i][1] = kind, b[j][1] = kind
        PROVE  i = j
    <3>1. s[n + i][1] = kind /\ s[n + j][1] = kind /\ n + i \in 1..l /\ n + j \in 1..l
      BY <1>1, <1>4, <2>1
    <3>2. n + i = n + j
      BY <1>7, <3>1 DEF AtMostOne
    <3>3. QED BY <1>1, <3>2
  <2>2. ASSUME NEW i \in 1..n, NEW j \in 1..(l - n), a[i][1] = kind, b[j][1] = kind
        PROVE  FALSE
    <3>1. i = n + j
      BY <1>1, <1>3, <1>4, <1>7, <2>2 DEF AtMostOne
    <3>2. QED BY <1>1, <3>1
  <2>3. QED BY <1>1, <2>1, <2>2 DEF AtMostOne, Of
<1> QED BY <1>5, <1>6, <1>7 DEF a, b

\* What is left when the head is taken.
LEMMA OfTail ==
  ASSUME NEW S, NEW s \in Seq(S), s # <<>>, NEW kind
  PROVE  /\ Head(s) = s[1] /\ Len(Tail(s)) = Len(s) - 1 /\ Len(s) \in Nat /\ Len(s) >= 1
         /\ Tail(s) \in Seq(S)
         /\ \A i \in 1..(Len(s) - 1) : Tail(s)[i] = s[i + 1]
         /\ Head(s)[1] # kind => Of(kind, Tail(s)) = Of(kind, s)
         /\ Head(s)[1] = kind => Head(s)[2] \in Of(kind, s)
         /\ AtMostOne(kind, s) =>
              AtMostOne(kind, Tail(s)) /\ (Head(s)[1] = kind => Of(kind, Tail(s)) = {})
<1> DEFINE t == Tail(s)
           n == Len(s)
<1>1. /\ n \in Nat /\ n >= 1 /\ t \in Seq(S) /\ Len(t) = n - 1 /\ Head(s) = s[1]
      /\ \A i \in 1..(n - 1) : t[i] = s[i + 1]
  BY LenProperties, EmptySeq, HeadTailProperties
<1> HIDE DEF t, n
<1>2. \A i \in 1..n : i = 1 \/ (i - 1 \in 1..(n - 1) /\ t[i - 1] = s[i])
  BY <1>1
<1>3. \A i \in 1..(n - 1) : i + 1 \in 1..n
  BY <1>1
<1>4. Head(s)[1] # kind => Of(kind, t) = Of(kind, s)
  <2> SUFFICES ASSUME s[1][1] # kind PROVE Of(kind, t) = Of(kind, s)
    BY <1>1
  <2>1. Of(kind, t) \subseteq Of(kind, s)
    BY <1>1, <1>3 DEF Of, n
  <2>2. ASSUME NEW i \in 1..n, s[i][1] = kind PROVE s[i][2] \in Of(kind, t)
    BY <1>1, <1>2, <2>2 DEF Of
  <2>3. QED BY <2>1, <2>2 DEF Of, n
<1>5. Head(s)[1] = kind => Head(s)[2] \in Of(kind, s)
  BY <1>1 DEF Of, n
<1>6. ASSUME AtMostOne(kind, s)
      PROVE  AtMostOne(kind, t) /\ (Head(s)[1] = kind => Of(kind, t) = {})
  <2>1. ASSUME NEW i \in 1..(n - 1), NEW j \in 1..(n - 1), t[i][1] = kind, t[j][1] = kind
        PROVE  i = j
    <3>1. s[i + 1][1] = kind /\ s[j + 1][1] = kind
      BY <1>1, <2>1
    <3>2. i + 1 \in 1..Len(s) /\ j + 1 \in 1..Len(s)
      BY <1>3 DEF n
    <3>3. i + 1 = j + 1
      BY <1>6, <3>1, <3>2 DEF AtMostOne
    <3>4. QED BY <3>3
  <2>2. ASSUME NEW i \in 1..(n - 1), t[i][1] = kind, s[1][1] = kind
        PROVE  FALSE
    <3>1. i + 1 = 1
      BY <1>1, <1>3, <1>6, <2>2 DEF AtMostOne, n
    <3>2. QED BY <3>1
  <2>3. QED BY <1>1, <2>1, <2>2 DEF AtMostOne, Of
<1> QED BY <1>1, <1>4, <1>5, <1>6 DEF t, n

-----------------------------------------------------------------------------
(* Smooth histories                                                        *)

\* The port opens once and for all, and the mode is that of the call that waits.
Calm ==
    /\ ~portOpen => mode = "closed" /\ \A c \in Calls : pc[c] = "idle"
    /\ \A c \in ConfigCalls : pc[c] = "waiting" => mode = "configuring"

\* What a step does to the calls of a smooth history that stays smooth: no waiter is
\* rejected, so a timer that fires late, a write error, and open and close change
\* nothing but the set of timers or the constructor's state.
LEMMA SmoothSteps ==
  ASSUME Inv, Turns, Smooth', [Next]_vars
  PROVE  /\ Smooth
         /\ \/ \E c \in Calls : StartCall(c)
            \/ \E c \in ConfigCalls : SendConfigOnce(c)
            \/ \E c \in InfoCalls : SendInfo(c)
            \/ DataStep
            \/ TxStep
            \/ BoardStep
            \/ OpenDone
            \/ UNCHANGED <<portOpen, mode, callVars, bufferVars, txVars, toBoard, toHost, boardVars>>
            \/ /\ \E c, n : Timeout(c, n) \/ WriteFailed(c, n)
               /\ UNCHANGED <<portOpen, mode, configWaiter, infoWaiter, pc, tries, lockOn,
                              bufferVars, txVars, toBoard, toHost, boardVars>>
<1>0. /\ configWaiter \in ConfigCalls \cup {None} /\ infoWaiter \in InfoCalls \cup {None}
      /\ pc \in [Calls -> {"idle", "lock", "waiting", "ok", "failed"}]
      /\ tries \in [Calls -> Nat]
      /\ ConfigCalls \subseteq Calls /\ InfoCalls \subseteq Calls
      /\ faults \in Nat /\ closes \in Nat
  BY DEF Inv, TypeOK, CallTypeOK, PortTypeOK, Calls
<1>1. faults' = 0 /\ closes' = 0
      /\ \A c \in Calls : pc'[c] # "failed" /\ tries'[c] <= 1 /\ (pc'[c] = "lock" => tries'[c] = 0)
  BY DEF Smooth
<1>2. faults = 0 /\ closes = 0
  <2>1. faults' = faults \/ faults' = faults + 1
    BY DEF Next, PortStep, Open, OpenDone, OpenFailed, Close, PortClosed, CallStep, StartCall,
           SendConfigOnce, SendInfo, WriteCommand, Timeout, WriteFailed, DataStep, BufferConfig,
           ConfigOk, BufferInfo, InfoReply, FeedSplitter, TxStep, SendRadioFrame, SetDisplayText,
           KeepaliveTick, Enqueue, TxWrite, TxWritten, TxFailed, AirtimeOver, BoardStep, BoardConfig,
           BoardInfo, BoardSend, BoardReceives, LoseCommand, LoseReply, BoardReset, Fault, vars
  <2>2. closes' = closes \/ closes' = closes + 1
    BY DEF Next, PortStep, Open, OpenDone, OpenFailed, Close, PortClosed, CallStep, StartCall,
           SendConfigOnce, SendInfo, WriteCommand, Timeout, WriteFailed, DataStep, BufferConfig,
           ConfigOk, BufferInfo, InfoReply, FeedSplitter, TxStep, SendRadioFrame, SetDisplayText,
           KeepaliveTick, Enqueue, TxWrite, TxWritten, TxFailed, AirtimeOver, BoardStep, BoardConfig,
           BoardInfo, BoardSend, BoardReceives, LoseCommand, LoseReply, BoardReset, portVars, vars
  <2>3. QED BY <1>0, <1>1, <2>1, <2>2
<1> DEFINE Same == UNCHANGED <<portOpen, mode, configWaiter, infoWaiter, pc, tries, lockOn,
                               bufferVars, txVars, toBoard, toHost, boardVars>>
<1>3. ASSUME NEW c, NEW n, Timeout(c, n) \/ WriteFailed(c, n)
      PROVE  Same
  <2>1. RejectCurrent(c)
        /\ UNCHANGED <<portOpen, tries, bufferVars, txVars, toBoard, toHost, boardVars>>
    BY <1>3 DEF Timeout, WriteFailed
  <2>2. CASE RejectConfig /\ UNCHANGED infoWaiter
    <3>1. configWaiter = None
      <4> SUFFICES ASSUME configWaiter # None PROVE FALSE
        OBVIOUS
      <4>1. configWaiter \in Calls /\ pc[configWaiter] = "waiting" /\ tries[configWaiter] >= 1
        BY <1>0 DEF Turns
      <4>2. pc'[configWaiter] \in {"lock", "failed"}
        BY <1>0, <2>2, <4>1 DEF RejectConfig
      <4>3. QED BY <1>0, <1>1, <2>1, <4>1, <4>2
    <3>2. QED BY <2>1, <2>2, <3>1 DEF RejectConfig
  <2>3. CASE RejectInfo /\ UNCHANGED <<configWaiter, lockOn>>
    <3>1. infoWaiter = None
      <4> SUFFICES ASSUME infoWaiter # None PROVE FALSE
        OBVIOUS
      <4>1. infoWaiter \in Calls
        BY <1>0
      <4>2. pc'[infoWaiter] = "failed"
        BY <1>0, <2>3, <4>1 DEF RejectInfo
      <4>3. QED BY <1>1, <4>1, <4>2
    <3>2. QED BY <2>1, <2>3, <3>1 DEF RejectInfo
  <2>4. QED BY <2>1, <2>2, <2>3 DEF RejectCurrent
<1> DEFINE SmoothCalls ==
      \A c \in Calls : pc[c] # "failed" /\ tries[c] <= 1 /\ (pc[c] = "lock" => tries[c] = 0)
<1>4. ASSUME UNCHANGED <<pc, tries>>
      PROVE  Smooth
  <2>1. SmoothCalls
    BY <1>1, <1>4
  <2>2. QED BY <1>2, <2>1 DEF Smooth
<1>5. ASSUME NEW c \in Calls, StartCall(c)
      PROVE  Smooth
  <2>1. \A d \in Calls : d # c => pc'[d] = pc[d]
    BY <1>0, <1>5 DEF StartCall
  <2>2. pc[c] = "idle" /\ tries' = tries
    BY <1>5 DEF StartCall, MayCall
  <2>3. SmoothCalls
    BY <1>1, <2>1, <2>2
  <2>4. QED BY <1>2, <2>3 DEF Smooth
<1>6. ASSUME NEW c \in Calls, SendConfigOnce(c) \/ SendInfo(c)
      PROVE  Smooth
  <2>1. \A d \in Calls : d # c => pc'[d] = pc[d] /\ tries'[d] = tries[d]
    BY <1>0, <1>6 DEF SendConfigOnce, SendInfo
  <2>2. pc[c] = "lock" /\ tries'[c] = tries[c] + 1
    BY <1>0, <1>6 DEF SendConfigOnce, SendInfo
  <2>3. tries[c] = 0
    BY <1>0, <1>1, <2>2
  <2>4. SmoothCalls
    BY <1>1, <2>1, <2>2, <2>3
  <2>5. QED BY <1>2, <2>4 DEF Smooth
<1>7. ASSUME NEW c \in Calls, pc[c] = "waiting", UNCHANGED tries,
             NEW p, pc' = [pc EXCEPT ![c] = p]
      PROVE  Smooth
  <2>1. \A d \in Calls : d # c => pc'[d] = pc[d]
    BY <1>0, <1>7
  <2>2. SmoothCalls
    BY <1>1, <1>7, <2>1
  <2>3. QED BY <1>2, <2>2 DEF Smooth
<1>8. CASE PortStep
  <2>1. UNCHANGED <<pc, tries>>
    BY <1>8 DEF PortStep, Open, OpenDone, OpenFailed, Close, PortClosed, callVars
  <2>2. ~PortClosed
    BY <1>1, <1>2 DEF PortClosed
  <2>3. OpenDone \/ UNCHANGED <<portOpen, mode, callVars, bufferVars, txVars, toBoard, toHost, boardVars>>
    BY <1>8, <2>2 DEF PortStep, Open, OpenFailed, Close
  <2>4. QED BY <1>4, <2>1, <2>3
<1>9. CASE CallStep
  <2>1. ASSUME NEW c, NEW n, Timeout(c, n) \/ WriteFailed(c, n)
        PROVE  Smooth /\ Same
    BY <1>3, <1>4, <2>1
  <2>2. CASE \E c \in Calls : StartCall(c)
    BY <1>5, <2>2
  <2>3. CASE \E c \in ConfigCalls : SendConfigOnce(c)
    BY <1>0, <1>6, <2>3
  <2>4. CASE \E c \in InfoCalls : SendInfo(c)
    BY <1>0, <1>6, <2>4
  <2>5. QED BY <1>9, <2>1, <2>2, <2>3, <2>4 DEF CallStep
<1>10. CASE DataStep
  <2>1. PICK k \in 1..MaxChunk :
          BufferConfig(k) \/ ConfigOk(k) \/ BufferInfo(k) \/ InfoReply(k) \/ FeedSplitter(k)
    BY <1>10 DEF DataStep
  <2>2. CASE ConfigOk(k)
    <3>1. configWaiter \in Calls /\ pc[configWaiter] = "waiting" /\ UNCHANGED tries
          /\ pc' = [pc EXCEPT ![configWaiter] = "ok"]
      BY <1>0, <2>2 DEF ConfigOk, Turns
    <3>2. QED BY <1>7, <1>10, <3>1
  <2>3. CASE InfoReply(k)
    <3>1. infoWaiter \in Calls /\ pc[infoWaiter] = "waiting" /\ UNCHANGED tries
          /\ \E p : pc' = [pc EXCEPT ![infoWaiter] = p]
      BY <1>0, <2>3 DEF InfoReply, Turns
    <3>2. QED BY <1>7, <1>10, <3>1
  <2>4. QED BY <1>4, <1>10, <2>1, <2>2, <2>3 DEF BufferConfig, BufferInfo, FeedSplitter, callVars
<1>11. CASE TxStep \/ BoardStep
  <2>1. UNCHANGED <<pc, tries>>
    BY <1>11 DEF TxStep, SendRadioFrame,
                SetDisplayText, KeepaliveTick, Enqueue, TxWrite, TxWritten, TxFailed, AirtimeOver,
                BoardStep, BoardConfig, BoardInfo, BoardSend, BoardReceives, LoseCommand, LoseReply,
                BoardReset, callVars
  <2>2. QED BY <1>4, <1>11, <2>1
<1>12. CASE UNCHANGED vars
  BY <1>4, <1>12 DEF vars, callVars, portVars
<1> QED BY <1>8, <1>9, <1>10, <1>11, <1>12 DEF Next

\* A call that sends its command waits alone, and no buffer is in use.
LEMMA SendsAlone ==
  ASSUME Inv, Turns, Smooth, Calm, NEW c \in Calls, pc[c] = "lock"
  PROVE  /\ \A d \in Calls : pc[d] # "waiting" /\ (d # c => ~Pending(d))
         /\ portOpen /\ mode \notin {"configuring", "info"}
<1>0. /\ configWaiter \in ConfigCalls \cup {None} /\ infoWaiter \in InfoCalls \cup {None}
      /\ ConfigCalls \subseteq Calls /\ InfoCalls \subseteq Calls
  BY DEF Inv, TypeOK, CallTypeOK, Calls
<1>1. \A d \in Calls : pc[d] # "waiting" /\ (d # c => ~Pending(d))
  BY DEF Turns, Pending
<1>2. configWaiter = None /\ infoWaiter = None
  BY <1>0, <1>1 DEF Turns
<1>3. mode \notin {"configuring", "info"}
  BY <1>2 DEF Inv, WaiterMatchesMode
<1>4. portOpen
  BY DEF Calm, Inv, TypeOK, PortTypeOK
<1> QED BY <1>1, <1>3, <1>4

LEMMA CalmStep ==
  ASSUME Inv, Turns, Smooth', Calm, [Next]_vars
  PROVE  Calm'
<1>0. /\ configWaiter \in ConfigCalls \cup {None} /\ infoWaiter \in InfoCalls \cup {None}
      /\ pc \in [Calls -> {"idle", "lock", "waiting", "ok", "failed"}] /\ portOpen \in BOOLEAN
      /\ ConfigCalls \subseteq Calls /\ InfoCalls \subseteq Calls
  BY DEF Inv, TypeOK, CallTypeOK, PortTypeOK, Calls
<1>1. Smooth
  BY SmoothSteps
<1>2. CASE UNCHANGED <<portOpen, mode, pc>>
  BY <1>2 DEF Calm
<1>3. ASSUME NEW c \in Calls, StartCall(c)
      PROVE  Calm'
  <2>1. portOpen /\ portOpen' = portOpen /\ mode' = mode
    BY <1>0, <1>3 DEF StartCall, Calm, portVars
  <2>2. \A d \in Calls : pc'[d] = "waiting" => pc[d] = "waiting"
    BY <1>0, <1>3 DEF StartCall
  <2>3. QED BY <1>0, <2>1, <2>2 DEF Calm
<1>4. ASSUME NEW c \in ConfigCalls, SendConfigOnce(c)
      PROVE  Calm'
  <2>1. portOpen
    BY <1>0, <1>1, <1>4, SendsAlone DEF SendConfigOnce
  <2>2. QED BY <1>4, <2>1 DEF SendConfigOnce, Calm
<1>5. ASSUME NEW c \in InfoCalls, SendInfo(c)
      PROVE  Calm'
  <2>1. portOpen /\ \A d \in Calls : pc[d] # "waiting"
    BY <1>0, <1>1, <1>5, SendsAlone DEF SendInfo
  <2>2. \A d \in Calls : d # c => pc'[d] = pc[d]
    BY <1>0, <1>5 DEF SendInfo
  <2>3. \A d \in ConfigCalls : pc'[d] # "waiting"
    BY <1>0, <2>1, <2>2, KindsDiffer
  <2>4. QED BY <1>5, <2>1, <2>3 DEF SendInfo, Calm
<1>6. CASE DataStep
  <2>1. portOpen /\ portOpen' = portOpen
    BY <1>6 DEF DataStep, BufferConfig, ConfigOk, BufferInfo, InfoReply, FeedSplitter, Arrives,
                portVars
  <2>2. UNCHANGED <<mode, pc>> \/ \A d \in ConfigCalls : pc'[d] # "waiting"
    <3>1. ASSUME NEW k, ConfigOk(k) PROVE \A d \in ConfigCalls : pc'[d] # "waiting"
      <4>1. configWaiter \in Calls /\ pc' = [pc EXCEPT ![configWaiter] = "ok"]
        BY <1>0, <3>1 DEF ConfigOk
      <4>2. \A d \in ConfigCalls : pc[d] = "waiting" => d = configWaiter
        BY DEF Turns
      <4>3. QED BY <1>0, <4>1, <4>2
    <3>2. ASSUME NEW k, InfoReply(k) PROVE \A d \in ConfigCalls : pc'[d] # "waiting"
      <4>1. infoWaiter \in InfoCalls /\ pc[infoWaiter] = "waiting"
            /\ \E p \in {"ok", "failed"} : pc' = [pc EXCEPT ![infoWaiter] = p]
        BY <1>0, <3>2 DEF InfoReply, Turns
      <4>2. \A d \in ConfigCalls : d # infoWaiter /\ d \in Calls /\ infoWaiter \in Calls
        BY <1>0, <4>1, KindsDiffer
      <4>3. \A d \in ConfigCalls : pc[d] # "waiting"
        BY <4>1, <4>2 DEF Turns, Pending
      <4>4. QED BY <1>0, <4>1, <4>2, <4>3
    <3>3. QED BY <1>6, <3>1, <3>2 DEF DataStep, BufferConfig, BufferInfo, FeedSplitter, portVars,
                 callVars
  <2>3. QED BY <1>2, <2>1, <2>2 DEF Calm
<1>7. CASE TxStep \/ BoardStep
  <2>1. UNCHANGED <<portOpen, mode, pc>>
    BY <1>7 DEF TxStep, SendRadioFrame, SetDisplayText, KeepaliveTick, Enqueue, TxWrite, TxWritten,
                TxFailed, AirtimeOver, BoardStep, BoardConfig, BoardInfo, BoardSend, BoardReceives,
                LoseCommand, LoseReply, BoardReset, portVars, callVars
  <2>2. QED BY <1>2, <2>1
<1>8. CASE OpenDone
  <2>1. portOpen' = TRUE /\ pc' = pc /\ \A d \in Calls : pc[d] = "idle"
    BY <1>8 DEF OpenDone, callVars, Calm
  <2>2. QED BY <1>0, <2>1 DEF Calm
<1>9. CASE UNCHANGED <<portOpen, mode, callVars>>
  BY <1>2, <1>9 DEF callVars
<1> QED BY <1>2, <1>3, <1>4, <1>5, <1>6, <1>7, <1>8, <1>9, SmoothSteps

-----------------------------------------------------------------------------
(* NoFrameLost                                                             *)

\* Every received frame is at the splitter, in the buffer of the mode, or in the port.
Kept == \A n \in 1..rxSeq : n \in Numbers(fed) \cup Numbers(Buffered) \cup Numbers(toHost)

LEMMA KeptStep ==
  ASSUME Inv, InOrder, Turns, Smooth', Calm, Kept, [Next]_vars
  PROVE  Kept'
<1>0. Smooth /\ toHost \in Seq(ToHost) /\ rxSeq \in Nat
      /\ ConfigCalls \subseteq Calls /\ InfoCalls \subseteq Calls /\ faults \in Nat
  BY SmoothSteps DEF Inv, TypeOK, BoardTypeOK, PortTypeOK, Calls
<1>1. ASSUME UNCHANGED <<fed, rxSeq>>, Buffered' = Buffered, Numbers(toHost) \subseteq Numbers(toHost')
      PROVE  Kept'
  BY <1>1 DEF Kept
<1>2. CASE UNCHANGED <<mode, bufferVars, toHost, rxSeq>>
  BY <1>1, <1>2 DEF bufferVars, Buffered
<1>3. ASSUME NEW c \in Calls, SendConfigOnce(c) \/ SendInfo(c)
      PROVE  Kept'
  <2>1. Buffered = <<>>
    BY <1>0, <1>3, SendsAlone DEF SendConfigOnce, SendInfo, Buffered
  <2>2. Buffered' = <<>> /\ UNCHANGED <<fed, rxSeq, toHost>>
    BY <1>3 DEF SendConfigOnce, SendInfo, ResetConfigBuffer, boardVars, Buffered
  <2>3. QED BY <1>1, <2>1, <2>2
<1>4. CASE DataStep
  <2>1. FramesMove
    BY <1>4, DataOrder
  <2>2. UNCHANGED rxSeq
    BY <1>4 DEF DataStep, BufferConfig, ConfigOk, BufferInfo, InfoReply, FeedSplitter, boardVars
  <2>3. QED BY <2>1, <2>2 DEF Kept, FramesMove
<1>5. CASE BoardStep
  <2>0. UNCHANGED fed /\ Buffered' = Buffered
    BY <1>5 DEF BoardStep, BoardConfig, BoardInfo, BoardSend, BoardReceives, LoseCommand, LoseReply,
                BoardReset, portVars, bufferVars, Buffered
  <2>1. ASSUME NEW m \in ToHost, Reply(m)
        PROVE  Numbers(toHost) \subseteq Numbers(toHost')
    BY <1>0, <2>1, AppendNumbers DEF Reply
  <2>2. toBoard # <<>> => Head(toBoard) \in ToBoard
    BY HeadTailProperties DEF Inv, TypeOK, BoardTypeOK
  <2>3. CASE BoardConfig
    <3>1. <<"ok", Head(toBoard)[2]>> \in ToHost
      BY <2>2, <2>3 DEF BoardConfig, NextCommand, ToBoard, Frames, ToHost
    <3>2. Reply(<<"ok", Head(toBoard)[2]>>) /\ UNCHANGED rxSeq
      BY <2>3 DEF BoardConfig
    <3>3. QED BY <1>1, <2>0, <2>1, <3>1, <3>2
  <2>4. CASE BoardInfo
    <3>1. <<"info", Head(toBoard)[2]>> \in ToHost /\ <<"bad", Head(toBoard)[2]>> \in ToHost
      BY <2>2, <2>4 DEF BoardInfo, NextCommand, ToBoard, Frames, ToHost
    <3>2. (Reply(<<"info", Head(toBoard)[2]>>) \/ Reply(<<"bad", Head(toBoard)[2]>>)) /\ UNCHANGED rxSeq
      BY <2>4 DEF BoardInfo, boardVars
    <3>3. QED BY <1>1, <2>0, <2>1, <3>1, <3>2
  <2>5. CASE BoardReceives
    <3>1. <<"frame", rxSeq + 1>> \in ToHost
      BY <1>0 DEF ToHost
    <3>2. toHost' = Append(toHost, <<"frame", rxSeq + 1>>) /\ rxSeq' = rxSeq + 1
      BY <2>5 DEF BoardReceives, Reply
    <3>3. Numbers(toHost') = Numbers(toHost) \cup {rxSeq + 1}
      BY <1>0, <3>1, <3>2, AppendNumbers
    <3>4. \A n \in 1..(rxSeq + 1) : n \in 1..rxSeq \/ n = rxSeq + 1
      BY <1>0
    <3>5. QED BY <2>0, <3>2, <3>3, <3>4 DEF Kept
  <2>6. CASE BoardSend
    BY <1>1, <2>0, <2>6 DEF BoardSend, boardVars
  <2>7. ~Fault
    BY <1>0 DEF Fault, Smooth
  <2>8. QED BY <1>5, <2>3, <2>4, <2>5, <2>6, <2>7 DEF BoardStep, LoseCommand, LoseReply, BoardReset
<1>6. CASE TxStep \/ \E c \in Calls : StartCall(c)
  <2>1. UNCHANGED <<mode, bufferVars, toHost, rxSeq>>
    BY <1>6 DEF TxStep, SendRadioFrame, SetDisplayText, KeepaliveTick, Enqueue, TxWrite, TxWritten,
                TxFailed, AirtimeOver, StartCall, portVars, boardVars
  <2>2. QED BY <1>2, <2>1
<1>7. CASE OpenDone
  <2>1. mode = "closed" /\ mode' = "normal" /\ UNCHANGED <<fed, rxSeq, toHost>>
    BY <1>7 DEF OpenDone, Calm, bufferVars, boardVars
  <2>2. QED BY <1>1, <2>1 DEF Buffered
<1> QED BY <1>0, <1>2, <1>3, <1>4, <1>5, <1>6, <1>7, SmoothSteps DEF boardVars

LEMMA KeptIsDelivered ==
  ASSUME Inv, Kept
  PROVE  \A n \in 1..rxSeq : \E s \in
            {fed, toHost} \cup (IF mode = "configuring" THEN {configBuffer} ELSE {})
                          \cup (IF mode = "info" THEN {infoBuffer} ELSE {}) :
         \E i \in 1..Len(s) : s[i] = <<"frame", n>>
<1>1. ASSUME NEW s \in Seq(ToHost), NEW n \in Numbers(s)
      PROVE  \E i \in 1..Len(s) : s[i] = <<"frame", n>>
  <2>1. PICK i \in 1..Len(s) : s[i][1] = "frame" /\ s[i][2] = n
    BY DEF Numbers, Of
  <2>2. s[i] \in ToHost
    BY ElementOfSeq
  <2>3. s[i] = <<"frame", n>>
    BY <2>1, <2>2 DEF ToHost
  <2>4. QED BY <2>3
<1>2. fed \in Seq(ToHost) /\ toHost \in Seq(ToHost) /\ Buffered \in Seq(ToHost)
  BY BufferedType DEF Inv, TypeOK, BufferTypeOK, BoardTypeOK
<1>3. Numbers(Buffered) # {} => Buffered \in (IF mode = "configuring" THEN {configBuffer} ELSE {})
                                   \cup (IF mode = "info" THEN {infoBuffer} ELSE {})
  BY NoNumbers DEF Buffered
<1> QED BY <1>1, <1>2, <1>3 DEF Kept

-----------------------------------------------------------------------------
(* FirstTryOkMeansApplied                                                  *)

Asked == Of("config", toBoard)
Answered == Of("ok", toHost)

\* The one configuration that waits is asked for or answered, and not both; from
\* when the board has applied it until the answer is read, the board is ahead.
Exchange ==
    /\ \A c \in Asked \cup Answered : c \in ConfigCalls /\ pc[c] = "waiting"
    /\ AtMostOne("config", toBoard) /\ AtMostOne("ok", toHost) /\ (Asked = {} \/ Answered = {})
    /\ \A c \in ConfigCalls : pc[c] = "waiting" => c \in Asked \cup Answered
    /\ Answered \subseteq applied
    /\ \A c \in ConfigCalls : pc[c] = "ok" => c \in applied
    /\ Answered = {} => boardTx = lastTxConfig
    /\ \A c \in Answered : boardTx = IF c \in TxConfigs THEN c ELSE lastTxConfig

LEMMA ExchangeSame ==
  ASSUME Exchange, Asked' = Asked, Answered' = Answered,
         AtMostOne("config", toBoard'), AtMostOne("ok", toHost'),
         UNCHANGED <<lastTxConfig, boardTx, applied>>,
         \A c \in ConfigCalls :
           (pc'[c] = "waiting" <=> pc[c] = "waiting") /\ (pc'[c] = "ok" => pc[c] = "ok")
  PROVE  Exchange'
<1>1. AtMostOne("config", toBoard)' /\ AtMostOne("ok", toHost)'
  BY DEF AtMostOne
<1>2. \A c \in Asked' \cup Answered' : c \in ConfigCalls /\ pc'[c] = "waiting"
  BY DEF Exchange
<1>3. \A c \in ConfigCalls : pc'[c] = "waiting" => c \in Asked' \cup Answered'
  BY DEF Exchange
<1>4. Answered' \subseteq applied' /\ (Answered' = {} => boardTx' = lastTxConfig')
      /\ \A c \in Answered' : boardTx' = IF c \in TxConfigs THEN c ELSE lastTxConfig'
  BY DEF Exchange
<1>5. (Asked' = {} \/ Answered' = {}) /\ \A c \in ConfigCalls : pc'[c] = "ok" => c \in applied'
  BY DEF Exchange
<1> QED BY <1>1, <1>2, <1>3, <1>4, <1>5 DEF Exchange

\* Nobody waits, so nothing is asked for or answered.
LEMMA NobodyWaits ==
  ASSUME Exchange, \A c \in ConfigCalls : pc[c] # "waiting"
  PROVE  Asked = {} /\ Answered = {} /\ boardTx = lastTxConfig
BY DEF Exchange

LEMMA AskExchange ==
  ASSUME Inv, Turns, Smooth, Smooth', Calm, Exchange, NEW c \in ConfigCalls, SendConfigOnce(c)
  PROVE  /\ toBoard' = Append(toBoard, <<"config", c>>) /\ toBoard \in Seq(ToBoard)
         /\ <<"config", c>> \in ToBoard
         /\ Exchange'
<1>0. c \in Calls /\ ConfigCalls \subseteq Calls
      /\ pc \in [Calls -> {"idle", "lock", "waiting", "ok", "failed"}]
      /\ toBoard \in Seq(ToBoard) /\ <<"config", c>> \in ToBoard /\ faults \in Nat
  BY DEF Inv, TypeOK, CallTypeOK, BoardTypeOK, PortTypeOK, ToBoard, Calls
<1>1. portOpen /\ \A d \in Calls : pc[d] # "waiting" /\ (d # c => ~Pending(d))
  BY <1>0, SendsAlone DEF SendConfigOnce
<1>2. Asked = {} /\ Answered = {} /\ boardTx = lastTxConfig
  BY <1>0, <1>1, NobodyWaits
<1>3. toBoard' = Append(toBoard, <<"config", c>>)
  <2>1. ~Fault
    BY <1>0 DEF Fault, Smooth
  <2>2. QED BY <1>1, <2>1 DEF SendConfigOnce, WriteCommand
<1>4. Asked' = {c} /\ AtMostOne("config", toBoard')
  <2> DEFINE m == <<"config", c>>
  <2>1. m \in ToBoard /\ m[1] = "config" /\ m[2] = c
    BY <1>0
  <2> HIDE DEF m
  <2>2. toBoard \in Seq(ToBoard) /\ AtMostOne("config", toBoard) /\ Of("config", toBoard) = {}
    BY <1>0, <1>2 DEF Exchange, Asked
  <2>3. Of("config", Append(toBoard, m)) = Of("config", toBoard) \cup {m[2]}
        /\ AtMostOne("config", Append(toBoard, m))
    BY ONLY <2>1, <2>2, OfAppend
  <2>4. toBoard' = Append(toBoard, m)
    BY <1>3 DEF m
  <2>5. QED BY <2>1, <2>2, <2>3, <2>4 DEF Asked, Of
<1>5. Answered' = {} /\ UNCHANGED <<toHost, applied, boardTx, lastTxConfig>>
  BY <1>2 DEF SendConfigOnce, Answered, Of, boardVars, txVars
<1>6. pc'[c] = "waiting" /\ \A d \in ConfigCalls : d # c => pc'[d] = pc[d]
  BY <1>0 DEF SendConfigOnce
<1>7. \A d \in ConfigCalls : pc'[d] = "waiting" => d = c
  BY <1>0, <1>1, <1>6
<1>8. AtMostOne("config", toBoard)' /\ AtMostOne("ok", toHost)'
  BY <1>4, <1>5 DEF Exchange, AtMostOne
<1>9. \A d \in ConfigCalls : pc'[d] = "ok" => d \in applied'
  BY <1>5, <1>6 DEF Exchange
<1>10. /\ \A d \in Asked' \cup Answered' : d \in ConfigCalls /\ pc'[d] = "waiting"
       /\ \A d \in ConfigCalls : pc'[d] = "waiting" => d \in Asked' \cup Answered'
  BY <1>4, <1>5, <1>6, <1>7
<1> QED BY <1>0, <1>2, <1>3, <1>4, <1>5, <1>8, <1>9, <1>10 DEF Exchange

LEMMA AnswerExchange ==
  ASSUME Inv, Turns, Smooth, Calm, Exchange, BoardConfig
  PROVE  Exchange'
<1> DEFINE c == Head(toBoard)[2]
           m == <<"ok", c>>
<1>0. ConfigCalls \subseteq Calls /\ toBoard \in Seq(ToBoard) /\ toHost \in Seq(ToHost)
      /\ toBoard # <<>> /\ Head(toBoard)[1] = "config" /\ toBoard' = Tail(toBoard)
  BY DEF BoardConfig, NextCommand, Inv, TypeOK, BoardTypeOK, Calls
<1>1. c \in Asked /\ Asked' = {} /\ AtMostOne("config", toBoard')
  <2>1. c \in Of("config", toBoard)
    BY <1>0, OfTail
  <2>2. AtMostOne("config", Tail(toBoard)) /\ Of("config", Tail(toBoard)) = {}
    BY <1>0, OfTail DEF Exchange
  <2>3. QED BY <1>0, <2>1, <2>2 DEF Asked, Of
<1>2. c \in ConfigCalls /\ pc[c] = "waiting" /\ Answered = {} /\ boardTx = lastTxConfig
  BY <1>1 DEF Exchange
<1>3. portOpen
  BY <1>0, <1>2 DEF Calm, Inv, TypeOK, PortTypeOK
<1>4. boardTx' = (IF c \in TxConfigs THEN c ELSE boardTx) /\ applied' = applied \cup {c}
      /\ toHost' = Append(toHost, m) /\ UNCHANGED <<pc, lastTxConfig>>
  BY <1>3 DEF BoardConfig, Reply, callVars, txVars
<1>5. m \in ToHost /\ m[1] = "ok" /\ m[2] = c
  BY <1>2 DEF ToHost
<1> HIDE DEF m, c
<1>6. Answered' = {c} /\ AtMostOne("ok", toHost')
  <2>1. toHost \in Seq(ToHost) /\ AtMostOne("ok", toHost) /\ Of("ok", toHost) = {}
    BY <1>0, <1>2 DEF Exchange, Answered
  <2>2. Of("ok", Append(toHost, m)) = Of("ok", toHost) \cup {m[2]}
        /\ AtMostOne("ok", Append(toHost, m))
    BY ONLY <1>5, <2>1, OfAppend
  <2>3. QED BY <1>4, <1>5, <2>1, <2>2 DEF Answered, Of
<1>7. \A d \in ConfigCalls : pc[d] = "waiting" => d = c
  BY <1>0, <1>2 DEF Turns, Pending
<1>8. AtMostOne("config", toBoard)' /\ AtMostOne("ok", toHost)'
  BY <1>1, <1>6 DEF AtMostOne
<1>9. /\ \A d \in Asked' \cup Answered' : d \in ConfigCalls /\ pc'[d] = "waiting"
      /\ \A d \in ConfigCalls : pc'[d] = "waiting" => d \in Asked' \cup Answered'
  BY <1>1, <1>2, <1>4, <1>6, <1>7
<1>10. \A d \in ConfigCalls : pc'[d] = "ok" => d \in applied'
  BY <1>4 DEF Exchange
<1>11. \A d \in Answered' : boardTx' = IF d \in TxConfigs THEN d ELSE lastTxConfig'
  BY <1>2, <1>4, <1>6
<1> QED BY <1>1, <1>4, <1>6, <1>8, <1>9, <1>10, <1>11 DEF Exchange

\* Where the answers in the port are after a chunk was cut off.
LEMMA ChunkAnswers ==
  ASSUME Inv, Exchange, NEW k, Arrives(k)
  PROVE  /\ Chunk(k) \in Seq(ToHost)
         /\ Answered = Of("ok", Chunk(k)) \cup Answered'
         /\ AtMostOne("ok", toHost') /\ (Of("ok", Chunk(k)) = {} \/ Answered' = {})
<1>1. toHost \in Seq(ToHost) /\ k \in 1..Len(toHost)
      /\ toHost' = SubSeq(toHost, k + 1, Len(toHost)) /\ Chunk(k) \in Seq(ToHost)
  BY ChunkNumbers DEF Inv, TypeOK, BoardTypeOK, Arrives
<1>2. Answered' = Of("ok", toHost')
  BY DEF Answered, Of
<1> QED BY <1>1, <1>2, OfCut DEF Exchange, Answered, Chunk

LEMMA ReadExchange ==
  ASSUME Inv, Turns, Smooth, Calm, Exchange, NEW k, ConfigOk(k)
  PROVE  Exchange'
<1> DEFINE c == configWaiter
           buffer == configBuffer \o Chunk(k)
<1>0. c \in ConfigCalls /\ ConfigCalls \subseteq Calls /\ pc[c] = "waiting"
      /\ pc \in [Calls -> {"idle", "lock", "waiting", "ok", "failed"}]
      /\ configBuffer \in Seq(ToHost) /\ Arrives(k)
  BY DEF ConfigOk, Turns, Inv, TypeOK, CallTypeOK, BufferTypeOK, Calls
<1>1. /\ Chunk(k) \in Seq(ToHost) /\ Answered = Of("ok", Chunk(k)) \cup Answered'
      /\ AtMostOne("ok", toHost') /\ (Of("ok", Chunk(k)) = {} \/ Answered' = {})
  BY <1>0, ChunkAnswers
<1>2. Of("ok", Chunk(k)) # {}
  <2>1. PICK i \in 1..Len(buffer) : buffer[i][1] = "ok"
    BY DEF ConfigOk, IsFirst
  <2>2. /\ Len(buffer) = Len(configBuffer) + Len(Chunk(k))
        /\ Len(configBuffer) \in Nat /\ Len(Chunk(k)) \in Nat
        /\ \A j \in 1..Len(configBuffer) : buffer[j] = configBuffer[j]
        /\ \A j \in 1..Len(Chunk(k)) : buffer[Len(configBuffer) + j] = Chunk(k)[j]
    BY <1>0, <1>1, ConcatParts, LenProperties
  <2>3. i \notin 1..Len(configBuffer)
    BY <2>1, <2>2 DEF Turns, Lacks
  <2>4. i - Len(configBuffer) \in 1..Len(Chunk(k))
        /\ Len(configBuffer) + (i - Len(configBuffer)) = i
    BY <2>1, <2>2, <2>3
  <2>5. Chunk(k)[i - Len(configBuffer)][1] = "ok"
    BY <2>1, <2>2, <2>4
  <2>6. QED BY <2>4, <2>5 DEF Of
<1> HIDE DEF c, buffer
<1>3. \A d \in ConfigCalls : pc[d] = "waiting" => d = c
  BY <1>0 DEF Turns, Pending
<1>4. Answered' = {} /\ Answered = {c} /\ Asked = {}
  <2>1. Answered # {} /\ Answered \subseteq {c}
    BY <1>1, <1>2, <1>3 DEF Exchange
  <2>2. QED BY <1>1, <1>2, <2>1 DEF Exchange
<1>5. UNCHANGED <<toBoard, boardTx, applied>> /\ pc' = [pc EXCEPT ![c] = "ok"]
      /\ lastTxConfig' = IF c \in TxConfigs THEN c ELSE lastTxConfig
  BY DEF ConfigOk, RememberTx, boardVars, c
<1>6. Asked' = {}
  BY <1>4, <1>5 DEF Asked
<1>7. c \in applied /\ boardTx = IF c \in TxConfigs THEN c ELSE lastTxConfig
  BY <1>4 DEF Exchange
<1>8. \A d \in ConfigCalls : pc'[d] # "waiting"
  BY <1>0, <1>3, <1>5
<1>9. \A d \in ConfigCalls : pc'[d] = "ok" => d \in applied'
  BY <1>0, <1>5, <1>7 DEF Exchange
<1>10. AtMostOne("config", toBoard)' /\ AtMostOne("ok", toHost)'
  BY <1>1, <1>5 DEF Exchange, AtMostOne
<1> QED BY <1>4, <1>5, <1>6, <1>7, <1>8, <1>9, <1>10 DEF Exchange

LEMMA DataExchange ==
  ASSUME Inv, Turns, Smooth, Calm, Exchange, DataStep
  PROVE  Exchange'
<1>0. ConfigCalls \subseteq Calls /\ InfoCalls \subseteq Calls
      /\ pc \in [Calls -> {"idle", "lock", "waiting", "ok", "failed"}]
      /\ infoWaiter \in InfoCalls \cup {None}
  BY DEF Inv, TypeOK, CallTypeOK, Calls
<1>1. PICK k \in 1..MaxChunk :
        BufferConfig(k) \/ ConfigOk(k) \/ BufferInfo(k) \/ InfoReply(k) \/ FeedSplitter(k)
  BY DEF DataStep
<1>2. CASE ConfigOk(k)
  BY <1>2, ReadExchange
<1>3. CASE ~ConfigOk(k)
  <2>1. Arrives(k) /\ UNCHANGED <<toBoard, lastTxConfig, boardTx, applied>>
    BY <1>1, <1>3 DEF BufferConfig, BufferInfo, InfoReply, FeedSplitter, txVars, boardVars
  <2>2. /\ Chunk(k) \in Seq(ToHost) /\ Answered = Of("ok", Chunk(k)) \cup Answered'
        /\ AtMostOne("ok", toHost')
    BY <2>1, ChunkAnswers
  <2>3. Answered' = Answered
    <3>1. CASE BufferConfig(k)
      <4>1. Lacks({"ok"}, configBuffer \o Chunk(k)) /\ configBuffer \in Seq(ToHost)
        BY <3>1 DEF BufferConfig, Inv, TypeOK, BufferTypeOK
      <4>2. /\ Len(configBuffer \o Chunk(k)) = Len(configBuffer) + Len(Chunk(k))
            /\ Len(configBuffer) \in Nat /\ Len(Chunk(k)) \in Nat
            /\ \A j \in 1..Len(Chunk(k)) :
                 (configBuffer \o Chunk(k))[Len(configBuffer) + j] = Chunk(k)[j]
        BY <2>2, <4>1, ConcatParts, LenProperties
      <4>3. \A j \in 1..Len(Chunk(k)) : Len(configBuffer) + j \in 1..Len(configBuffer \o Chunk(k))
        BY <4>2
      <4>4. \A j \in 1..Len(Chunk(k)) : Chunk(k)[j][1] # "ok"
        BY <4>1, <4>2, <4>3 DEF Lacks
      <4>5. Of("ok", Chunk(k)) = {}
        BY <4>4 DEF Of
      <4>6. QED BY <2>2, <4>5
    <3>2. CASE ~BufferConfig(k)
      <4>1. \A c \in ConfigCalls : pc[c] # "waiting"
        <5>1. CASE BufferInfo(k) \/ InfoReply(k)
          <6>1. infoWaiter \in InfoCalls /\ pc[infoWaiter] = "waiting"
            BY <1>0, <5>1 DEF BufferInfo, InfoReply, Inv, WaiterMatchesMode, Turns
          <6>2. QED BY <1>0, <6>1, KindsDiffer DEF Turns, Pending
        <5>2. CASE FeedSplitter(k)
          BY <5>2 DEF FeedSplitter, Calm
        <5>3. QED BY <1>1, <1>3, <3>2, <5>1, <5>2
      <4>2. QED BY <2>2, <4>1, NobodyWaits
    <3>3. QED BY <3>1, <3>2
  <2>4. \A c \in ConfigCalls : pc'[c] = pc[c]
    <3>1. CASE InfoReply(k)
      <4>1. infoWaiter \in InfoCalls /\ \E p : pc' = [pc EXCEPT ![infoWaiter] = p]
        BY <1>0, <3>1 DEF InfoReply
      <4>2. QED BY <1>0, <4>1, KindsDiffer
    <3>2. QED BY <1>1, <1>3, <3>1 DEF BufferConfig, BufferInfo, FeedSplitter, callVars
  <2>5. Asked' = Asked /\ AtMostOne("config", toBoard')
    BY <2>1 DEF Asked, Exchange
  <2>6. QED BY <2>1, <2>2, <2>3, <2>4, <2>5, ExchangeSame
<1> QED BY <1>2, <1>3

LEMMA BoardExchange ==
  ASSUME Inv, Turns, Smooth, Smooth', Calm, Exchange, BoardStep
  PROVE  Exchange'
<1>0. toBoard \in Seq(ToBoard) /\ toHost \in Seq(ToHost) /\ faults \in Nat
      /\ UNCHANGED <<pc, lastTxConfig>>
  BY DEF Inv, TypeOK, BoardTypeOK, PortTypeOK, BoardStep, BoardConfig, BoardInfo, BoardSend,
         BoardReceives, LoseCommand, LoseReply, BoardReset, callVars, txVars
<1>1. ~Fault
  BY <1>0 DEF Fault, Smooth
<1>2. ASSUME NEW m \in ToHost, m[1] # "ok", Reply(m)
      PROVE  Answered' = Answered /\ AtMostOne("ok", toHost')
  <2>1. CASE toHost' = toHost
    BY <2>1 DEF Answered, Exchange
  <2>2. CASE toHost' = Append(toHost, m)
    <3>1. Of("ok", Append(toHost, m)) = Of("ok", toHost) /\ AtMostOne("ok", Append(toHost, m))
      BY <1>0, <1>2, OfAppend DEF Exchange
    <3>2. QED BY <2>2, <3>1 DEF Answered
  <2>3. QED BY <1>2, <2>1, <2>2 DEF Reply
<1>3. ASSUME toBoard # <<>>, Head(toBoard)[1] # "config", toBoard' = Tail(toBoard)
      PROVE  Asked' = Asked /\ AtMostOne("config", toBoard')
  <2>1. Of("config", Tail(toBoard)) = Of("config", toBoard) /\ AtMostOne("config", Tail(toBoard))
    BY <1>0, <1>3, OfTail DEF Exchange
  <2>2. QED BY <1>3, <2>1 DEF Asked
<1>4. CASE BoardConfig
  BY <1>4, AnswerExchange
<1>5. CASE BoardInfo
  <2>1. Head(toBoard)[2] \in InfoCalls
    BY <1>0, <1>5, HeadTailProperties DEF BoardInfo, NextCommand, ToBoard, Frames
  <2>2. <<"info", Head(toBoard)[2]>> \in ToHost /\ <<"bad", Head(toBoard)[2]>> \in ToHost
    BY <2>1 DEF ToHost
  <2>3. Answered' = Answered /\ AtMostOne("ok", toHost')
    BY <1>2, <1>5, <2>2 DEF BoardInfo
  <2>4. Asked' = Asked /\ AtMostOne("config", toBoard')
    BY <1>3, <1>5 DEF BoardInfo, NextCommand
  <2>5. QED BY <1>0, <1>5, <2>3, <2>4, ExchangeSame DEF BoardInfo, boardVars
<1>6. CASE BoardSend
  <2>1. Asked' = Asked /\ AtMostOne("config", toBoard')
    BY <1>3, <1>6 DEF BoardSend, NextCommand
  <2>2. Answered' = Answered /\ AtMostOne("ok", toHost')
    BY <1>6 DEF BoardSend, Answered, Exchange
  <2>3. QED BY <1>0, <1>6, <2>1, <2>2, ExchangeSame DEF BoardSend, boardVars
<1>7. CASE BoardReceives
  <2>1. <<"frame", rxSeq + 1>> \in ToHost
    BY DEF ToHost, Inv, TypeOK, BoardTypeOK
  <2>2. Answered' = Answered /\ AtMostOne("ok", toHost')
    BY <1>2, <1>7, <2>1 DEF BoardReceives
  <2>3. Asked' = Asked /\ AtMostOne("config", toBoard')
    BY <1>7 DEF BoardReceives, Asked, Exchange
  <2>4. QED BY <1>0, <1>7, <2>2, <2>3, ExchangeSame DEF BoardReceives
<1> QED BY <1>1, <1>4, <1>5, <1>6, <1>7 DEF BoardStep, LoseCommand, LoseReply, BoardReset

LEMMA ExchangeStep ==
  ASSUME Inv, Turns, Smooth', Calm, Exchange, [Next]_vars
  PROVE  Exchange'
<1>0. Smooth /\ ConfigCalls \subseteq Calls /\ InfoCalls \subseteq Calls
      /\ pc \in [Calls -> {"idle", "lock", "waiting", "ok", "failed"}]
      /\ toBoard \in Seq(ToBoard) /\ txQueue \in Seq(Frames) /\ faults \in Nat
  BY SmoothSteps DEF Inv, TypeOK, CallTypeOK, BoardTypeOK, TxTypeOK, PortTypeOK, Calls
<1>1. CASE /\ UNCHANGED <<toBoard, toHost, lastTxConfig, boardTx, applied>>
           /\ \A c \in ConfigCalls :
                (pc'[c] = "waiting" <=> pc[c] = "waiting") /\ (pc'[c] = "ok" => pc[c] = "ok")
  <2>1. Asked' = Asked /\ Answered' = Answered
        /\ AtMostOne("config", toBoard') /\ AtMostOne("ok", toHost')
    BY <1>1 DEF Asked, Answered, Exchange
  <2>2. QED BY <1>1, <2>1, ExchangeSame
<1>2. ASSUME NEW c \in Calls, StartCall(c)
      PROVE  Exchange'
  <2>1. UNCHANGED <<toBoard, toHost, lastTxConfig, boardTx, applied>>
    BY <1>2 DEF StartCall, txVars, boardVars
  <2>2. pc[c] = "idle" /\ pc' = [pc EXCEPT ![c] = "lock"]
    BY <1>2 DEF StartCall, MayCall
  <2>3. QED BY <1>0, <1>1, <2>1, <2>2
<1>3. ASSUME NEW c \in ConfigCalls, SendConfigOnce(c)
      PROVE  Exchange'
  BY <1>0, <1>3, AskExchange
<1>4. ASSUME NEW m \in ToBoard, m[1] # "config", toBoard' = Append(toBoard, m)
      PROVE  Asked' = Asked /\ AtMostOne("config", toBoard')
  <2>1. Of("config", Append(toBoard, m)) = Of("config", toBoard)
        /\ AtMostOne("config", Append(toBoard, m))
    BY <1>0, <1>4, OfAppend DEF Exchange
  <2>2. QED BY <1>4, <2>1 DEF Asked
<1>5. ASSUME NEW c \in InfoCalls, SendInfo(c)
      PROVE  Exchange'
  <2>1. <<"info", c>> \in ToBoard
    BY DEF ToBoard
  <2>2. Asked' = Asked /\ AtMostOne("config", toBoard')
    BY <1>4, <1>5, <2>1 DEF SendInfo, WriteCommand, Asked, Exchange
  <2>3. UNCHANGED <<toHost, lastTxConfig, boardTx, applied>>
    BY <1>5 DEF SendInfo, txVars, boardVars
  <2>4. \A d \in ConfigCalls : pc'[d] = pc[d]
    BY <1>0, <1>5, KindsDiffer DEF SendInfo
  <2>5. QED BY <2>2, <2>3, <2>4, ExchangeSame DEF Answered, Exchange
<1>6. CASE TxStep
  <2>1. UNCHANGED <<toHost, lastTxConfig, boardTx, applied, pc>>
    BY <1>6 DEF TxStep, SendRadioFrame, SetDisplayText, KeepaliveTick, Enqueue, TxWrite, TxWritten,
                TxFailed, AirtimeOver, callVars, boardVars
  <2>2. CASE TxWrite
    <3>1. Head(txQueue) \in Frames
      BY <1>0, <2>2, HeadTailProperties DEF TxWrite
    <3>2. Head(txQueue) \in ToBoard /\ Head(txQueue)[1] # "config"
      BY <3>1 DEF ToBoard, Frames
    <3>3. Asked' = Asked /\ AtMostOne("config", toBoard')
      BY <1>4, <2>2, <3>2 DEF TxWrite, Asked, Exchange
    <3>4. QED BY <2>1, <3>3, ExchangeSame DEF Answered, Exchange
  <2>3. CASE ~TxWrite
    <3>1. UNCHANGED toBoard
      BY <1>6, <2>3 DEF TxStep, SendRadioFrame, SetDisplayText, KeepaliveTick, Enqueue, TxWritten,
                TxFailed, AirtimeOver
    <3>2. QED BY <1>1, <2>1, <3>1
  <2>4. QED BY <2>2, <2>3
<1>7. CASE OpenDone
  BY <1>1, <1>7 DEF OpenDone, callVars, txVars, boardVars
<1> QED BY <1>0, <1>1, <1>2, <1>3, <1>5, <1>6, <1>7, DataExchange, BoardExchange, SmoothSteps
        DEF callVars, txVars, boardVars

-----------------------------------------------------------------------------
(* FrameKeepsItsConfig                                                     *)

Checked(frame) == frame[1] = "send" /\ frame[2] # Unchecked

\* A frame on its way to the board is meant for the board's settings, and no
\* configuration is ahead of it.
FramesAhead ==
    \A i \in 1..Len(toBoard) : Checked(toBoard[i]) =>
        /\ toBoard[i][2] = boardTx
        /\ \A j \in 1..(i - 1) : toBoard[j][1] # "config"

\* A frame on the txLock chain is meant for the driver's configuration, and a
\* configuration that awaits the lock waits for it.
FramesQueued ==
    \A i \in 1..Len(txQueue) : Checked(txQueue[i]) =>
        /\ txQueue[i][2] = lastTxConfig
        /\ \A c \in ConfigCalls :
             pc[c] # "waiting" /\ (pc[c] = "lock" => Finished + i <= lockOn[c])

LEMMA AheadAppend ==
  ASSUME FramesAhead, toBoard \in Seq(ToBoard), UNCHANGED boardTx,
         NEW m \in ToBoard, toBoard' = Append(toBoard, m),
         Checked(m) => m[2] = boardTx /\ Asked = {}
  PROVE  FramesAhead'
<1> DEFINE n == Len(toBoard)
<1>1. n \in Nat /\ Len(toBoard') = n + 1 /\ toBoard'[n + 1] = m
      /\ \A i \in 1..n : toBoard'[i] = toBoard[i]
  BY LenProperties, AppendProperties
<1>2. Asked = {} => \A j \in 1..n : toBoard[j][1] # "config"
  BY DEF Asked, Of
<1> SUFFICES ASSUME NEW i \in 1..Len(toBoard'), Checked(toBoard'[i])
             PROVE  /\ toBoard'[i][2] = boardTx'
                    /\ \A j \in 1..(i - 1) : toBoard'[j][1] # "config"
  BY DEF FramesAhead, Checked
<1>3. CASE i = n + 1
  <2>1. m[2] = boardTx /\ \A j \in 1..n : toBoard[j][1] # "config"
    BY <1>1, <1>2, <1>3
  <2>2. \A j \in 1..(i - 1) : j \in 1..n /\ toBoard'[j] = toBoard[j]
    BY <1>1, <1>3
  <2>3. QED BY <1>1, <1>3, <2>1, <2>2
<1>4. CASE i # n + 1
  <2>1. i \in 1..n /\ toBoard'[i] = toBoard[i]
    BY <1>1, <1>4
  <2>2. \A j \in 1..(i - 1) : toBoard'[j] = toBoard[j]
    BY <1>1, <2>1
  <2>3. QED BY <2>1, <2>2 DEF FramesAhead
<1> QED BY <1>3, <1>4

\* The board takes a command; if that is a configuration, no frame was behind it
\* that is meant for the settings it changes.
LEMMA AheadTail ==
  ASSUME FramesAhead, toBoard \in Seq(ToBoard), toBoard # <<>>, toBoard' = Tail(toBoard),
         Head(toBoard)[1] = "config" \/ UNCHANGED boardTx
  PROVE  FramesAhead'
<1> DEFINE n == Len(toBoard)
<1>1. n \in Nat /\ n >= 1 /\ Len(toBoard') = n - 1 /\ Head(toBoard) = toBoard[1]
      /\ \A i \in 1..(n - 1) : toBoard'[i] = toBoard[i + 1]
  BY OfTail
<1> SUFFICES ASSUME NEW i \in 1..Len(toBoard'), Checked(toBoard'[i])
             PROVE  /\ toBoard'[i][2] = boardTx'
                    /\ \A j \in 1..(i - 1) : toBoard'[j][1] # "config"
  BY DEF FramesAhead, Checked
<1>2. i \in 1..(n - 1) /\ i + 1 \in 1..n /\ toBoard'[i] = toBoard[i + 1]
  BY <1>1
<1>3. toBoard[i + 1][2] = boardTx /\ \A j \in 1..i : toBoard[j][1] # "config"
  <2>1. \A j \in 1..i : j \in 1..((i + 1) - 1)
    BY <1>2
  <2>2. QED BY <1>2, <2>1 DEF FramesAhead
<1>4. UNCHANGED boardTx
  BY <1>1, <1>2, <1>3
<1>5. \A j \in 1..(i - 1) : j + 1 \in 1..i /\ toBoard'[j] = toBoard[j + 1]
  BY <1>1, <1>2
<1> QED BY <1>2, <1>3, <1>4, <1>5

LEMMA AheadStep ==
  ASSUME Inv, Turns, Smooth', Calm, Exchange, FramesAhead, FramesQueued, [Next]_vars
  PROVE  FramesAhead'
<1>0. Smooth /\ ConfigCalls \subseteq Calls
      /\ toBoard \in Seq(ToBoard) /\ txQueue \in Seq(Frames) /\ faults \in Nat
  BY SmoothSteps DEF Inv, TypeOK, BoardTypeOK, TxTypeOK, PortTypeOK, Calls
<1>1. CASE UNCHANGED <<toBoard, boardTx>>
  BY <1>1 DEF FramesAhead
<1>2. ASSUME NEW c \in ConfigCalls, SendConfigOnce(c)
      PROVE  FramesAhead'
  <2>1. toBoard' = Append(toBoard, <<"config", c>>) /\ <<"config", c>> \in ToBoard
    BY <1>0, <1>2, AskExchange
  <2>2. ~Checked(<<"config", c>>) /\ UNCHANGED boardTx
    BY <1>2 DEF Checked, SendConfigOnce, boardVars
  <2>3. QED BY <1>0, <2>1, <2>2, AheadAppend
<1>3. ASSUME NEW c \in InfoCalls, SendInfo(c)
      PROVE  FramesAhead'
  <2>1. <<"info", c>> \in ToBoard /\ ~Checked(<<"info", c>>) /\ UNCHANGED boardTx
    BY <1>3 DEF ToBoard, Checked, SendInfo, boardVars
  <2>2. toBoard' = Append(toBoard, <<"info", c>>) \/ toBoard' = toBoard
    BY <1>3 DEF SendInfo, WriteCommand
  <2>3. QED BY <1>0, <1>1, <2>1, <2>2, AheadAppend
<1>4. CASE TxStep
  <2>1. UNCHANGED boardTx
    BY <1>4 DEF TxStep, SendRadioFrame, SetDisplayText, KeepaliveTick, Enqueue, TxWrite, TxWritten,
                TxFailed, AirtimeOver, boardVars
  <2>2. CASE TxWrite /\ portOpen
    <3> DEFINE m == Head(txQueue)
    <3>1. m \in ToBoard /\ m = txQueue[1] /\ 1 \in 1..Len(txQueue) /\ toBoard' = Append(toBoard, m)
      BY <1>0, <2>2, OfTail, HeadTailProperties DEF TxWrite, ToBoard
    <3>2. Checked(m) => m[2] = boardTx /\ Asked = {}
      <4> SUFFICES ASSUME Checked(m) PROVE m[2] = boardTx /\ Asked = {}
        OBVIOUS
      <4>1. m[2] = lastTxConfig /\ \A c \in ConfigCalls : pc[c] # "waiting"
        BY <3>1 DEF FramesQueued
      <4>2. QED BY <4>1, NobodyWaits
    <3>3. QED BY <1>0, <2>1, <3>1, <3>2, AheadAppend
  <2>3. CASE ~(TxWrite /\ portOpen)
    <3>1. UNCHANGED toBoard
      BY <1>4, <2>3 DEF TxStep, SendRadioFrame, SetDisplayText, KeepaliveTick, Enqueue, TxWrite,
                TxWritten, TxFailed, AirtimeOver
    <3>2. QED BY <1>1, <2>1, <3>1
  <2>4. QED BY <2>2, <2>3
<1>5. CASE BoardStep
  <2>1. CASE BoardReceives
    BY <1>1, <2>1 DEF BoardReceives
  <2>2. CASE BoardConfig \/ BoardInfo \/ BoardSend
    <3>1. toBoard # <<>> /\ toBoard' = Tail(toBoard)
          /\ (Head(toBoard)[1] = "config" \/ UNCHANGED boardTx)
      BY <2>2 DEF BoardConfig, BoardInfo, BoardSend, NextCommand, boardVars
    <3>2. QED BY <1>0, <3>1, AheadTail
  <2>3. ~Fault
    BY <1>0 DEF Fault, Smooth
  <2>4. QED BY <1>5, <2>1, <2>2, <2>3 DEF BoardStep, LoseCommand, LoseReply, BoardReset
<1>6. CASE DataStep \/ OpenDone \/ \E c \in Calls : StartCall(c)
  <2>1. UNCHANGED <<toBoard, boardTx>>
    BY <1>6 DEF DataStep, BufferConfig, ConfigOk, BufferInfo, InfoReply, FeedSplitter, OpenDone,
                StartCall, boardVars
  <2>2. QED BY <1>1, <2>1
<1> QED BY <1>1, <1>2, <1>3, <1>4, <1>5, <1>6, SmoothSteps DEF boardVars

\* While a configuration waits, no checked frame is queued.
LEMMA WaitingClears ==
  ASSUME FramesQueued, NEW c \in ConfigCalls, pc[c] = "waiting"
  PROVE  \A i \in 1..Len(txQueue) : ~Checked(txQueue[i])
BY DEF FramesQueued

LEMMA QueuedStep ==
  ASSUME Inv, Turns, Smooth', Calm, FramesQueued, [Next]_vars
  PROVE  FramesQueued'
<1> DEFINE n == Len(txQueue)
<1>0. Smooth /\ ConfigCalls \subseteq Calls /\ InfoCalls \subseteq Calls
      /\ pc \in [Calls -> {"idle", "lock", "waiting", "ok", "failed"}] /\ lockOn \in [Calls -> Nat]
      /\ txQueue \in Seq(Frames) /\ n \in Nat /\ enqueued \in Nat
      /\ configWaiter \in ConfigCalls \cup {None} /\ infoWaiter \in InfoCalls \cup {None}
  BY SmoothSteps, LenProperties DEF Inv, TypeOK, CallTypeOK, TxTypeOK, Calls
<1> HIDE DEF n
<1>1. ASSUME \A i \in 1..n : ~Checked(txQueue[i]), UNCHANGED txQueue
      PROVE  FramesQueued'
  BY <1>1 DEF FramesQueued, Checked, n
<1>2. ASSUME UNCHANGED <<enqueued, txQueue, lastTxConfig>>,
             \A c \in ConfigCalls :
               /\ pc'[c] = "waiting" => pc[c] = "waiting"
               /\ pc'[c] = "lock" => pc[c] = "lock" /\ lockOn'[c] = lockOn[c]
      PROVE  FramesQueued'
  <2>1. \A i \in 1..n : Checked(txQueue[i]) =>
          /\ txQueue[i][2] = lastTxConfig
          /\ \A c \in ConfigCalls :
               pc'[c] # "waiting" /\ (pc'[c] = "lock" => enqueued - n + i <= lockOn'[c])
    BY <1>2 DEF FramesQueued, Finished, n
  <2>2. QED BY <1>2, <2>1 DEF FramesQueued, Finished, Checked, n
<1>3. ASSUME NEW c \in Calls, StartCall(c)
      PROVE  FramesQueued'
  <2>1. UNCHANGED <<enqueued, txQueue, lastTxConfig>>
    BY <1>3 DEF StartCall, txVars
  <2>2. /\ \A d \in Calls : d # c => pc'[d] = pc[d] /\ lockOn'[d] = lockOn[d]
        /\ pc'[c] = "lock" /\ lockOn'[c] = enqueued
    BY <1>0, <1>3 DEF StartCall
  <2>3. \A i \in 1..n : enqueued - n + i <= enqueued
    BY <1>0
  <2>4. ASSUME NEW i \in 1..n, Checked(txQueue[i])
        PROVE  /\ txQueue[i][2] = lastTxConfig
               /\ \A d \in ConfigCalls :
                    pc'[d] # "waiting" /\ (pc'[d] = "lock" => enqueued - n + i <= lockOn'[d])
    <3>1. txQueue[i][2] = lastTxConfig /\ \A d \in ConfigCalls :
            pc[d] # "waiting" /\ (pc[d] = "lock" => enqueued - n + i <= lockOn[d])
      BY <2>4 DEF FramesQueued, Finished, n
    <3>2. ASSUME NEW d \in ConfigCalls
          PROVE  pc'[d] # "waiting" /\ (pc'[d] = "lock" => enqueued - n + i <= lockOn'[d])
      <4>1. CASE d = c
        BY <2>2, <2>3, <4>1
      <4>2. CASE d # c
        BY <1>0, <2>2, <3>1, <4>2
      <4>3. QED BY <4>1, <4>2
    <3>3. QED BY <3>1, <3>2
  <2>5. QED BY <2>1, <2>4 DEF FramesQueued, Finished, Checked, n
<1>4. ASSUME NEW c \in ConfigCalls, SendConfigOnce(c)
      PROVE  FramesQueued'
  <2>1. \A i \in 1..n : ~Checked(txQueue[i])
    <3> SUFFICES ASSUME NEW i \in 1..n, Checked(txQueue[i]) PROVE FALSE
      OBVIOUS
    <3>1. enqueued - n + i <= lockOn[c] /\ enqueued - n >= lockOn[c]
      BY <1>4 DEF SendConfigOnce, LockFree, FramesQueued, Finished, n
    <3>2. lockOn[c] \in Nat
      BY <1>0
    <3>3. QED BY <1>0, <3>1, <3>2
  <2>2. QED BY <1>1, <1>4, <2>1 DEF SendConfigOnce, txVars
<1>5. ASSUME NEW c \in InfoCalls, SendInfo(c)
      PROVE  FramesQueued'
  <2>1. \A d \in ConfigCalls : pc'[d] = pc[d] /\ lockOn'[d] = lockOn[d]
    BY <1>0, <1>5, KindsDiffer DEF SendInfo
  <2>2. QED BY <1>2, <1>5, <2>1 DEF SendInfo, txVars
<1>6. CASE DataStep
  <2>1. PICK k \in 1..MaxChunk :
          BufferConfig(k) \/ ConfigOk(k) \/ BufferInfo(k) \/ InfoReply(k) \/ FeedSplitter(k)
    BY <1>6 DEF DataStep
  <2>2. CASE ConfigOk(k)
    <3>1. configWaiter \in ConfigCalls /\ pc[configWaiter] = "waiting" /\ UNCHANGED txQueue
      BY <1>0, <2>2 DEF ConfigOk, Turns
    <3>2. QED BY <1>1, <3>1, WaitingClears DEF n
  <2>3. CASE InfoReply(k)
    <3>1. infoWaiter \in InfoCalls /\ (\E p : pc' = [pc EXCEPT ![infoWaiter] = p])
          /\ UNCHANGED <<lockOn, enqueued, txQueue, lastTxConfig>>
      BY <1>0, <2>3 DEF InfoReply, txVars
    <3>2. \A d \in ConfigCalls : pc'[d] = pc[d]
      BY <1>0, <3>1, KindsDiffer
    <3>3. QED BY <1>2, <3>1, <3>2
  <2>4. CASE BufferConfig(k) \/ BufferInfo(k) \/ FeedSplitter(k)
    BY <1>2, <2>4 DEF BufferConfig, BufferInfo, FeedSplitter, callVars, txVars
  <2>5. QED BY <2>1, <2>2, <2>3, <2>4
<1>7. ASSUME NEW kind \in {"send", "text"}, Enqueue(kind)
      PROVE  FramesQueued'
  <2> DEFINE f == <<kind, IF kind = "send" THEN Intended ELSE Unchecked>>
  <2>1. f \in Frames
    BY CallsAssumption DEF Frames, Intended, Inv, TypeOK, TxTypeOK
  <2>2. enqueued' = enqueued + 1 /\ txQueue' = Append(txQueue, f)
        /\ UNCHANGED <<lastTxConfig, pc, lockOn>>
    BY <1>7 DEF Enqueue, callVars
  <2>3. Checked(f) => f[2] = lastTxConfig /\ \A c \in ConfigCalls : ~Pending(c)
    BY DEF Checked, Intended
  <2> HIDE DEF f
  <2>4. Len(txQueue') = n + 1 /\ txQueue'[n + 1] = f /\ \A i \in 1..n : txQueue'[i] = txQueue[i]
    BY <1>0, <2>1, <2>2, AppendProperties DEF n
  <2>5. (enqueued + 1) - (n + 1) = enqueued - n
    BY <1>0
  <2>6. ASSUME NEW i \in 1..(n + 1), Checked(txQueue'[i])
        PROVE  /\ txQueue'[i][2] = lastTxConfig
               /\ \A c \in ConfigCalls :
                    pc[c] # "waiting" /\ (pc[c] = "lock" => enqueued - n + i <= lockOn[c])
    <3>1. CASE i \in 1..n
      <4>1. txQueue'[i] = txQueue[i]
        BY <2>4, <3>1
      <4>2. QED BY <2>6, <3>1, <4>1 DEF FramesQueued, Finished, n
    <3>2. CASE i \notin 1..n
      <4>1. txQueue'[i] = f
        BY <1>0, <2>4, <3>2
      <4>2. f[2] = lastTxConfig /\ \A c \in ConfigCalls : ~Pending(c)
        BY <2>3, <2>6, <4>1
      <4>3. QED BY <4>1, <4>2 DEF Pending
    <3>3. QED BY <3>1, <3>2
  <2>7. QED BY <2>2, <2>4, <2>5, <2>6 DEF FramesQueued, Finished, Checked
<1>8. ASSUME txQueue # <<>>, txQueue' = Tail(txQueue), UNCHANGED <<enqueued, lastTxConfig, pc, lockOn>>
      PROVE  FramesQueued'
  <2>1. n >= 1 /\ Len(txQueue') = n - 1 /\ \A i \in 1..(n - 1) : txQueue'[i] = txQueue[i + 1]
    BY <1>0, <1>8, OfTail DEF n
  <2>2. ASSUME NEW i \in 1..(n - 1), Checked(txQueue'[i])
        PROVE  /\ txQueue'[i][2] = lastTxConfig
               /\ \A c \in ConfigCalls :
                    pc[c] # "waiting" /\ (pc[c] = "lock" => enqueued - (n - 1) + i <= lockOn[c])
    <3>1. i + 1 \in 1..n /\ enqueued - (n - 1) + i = enqueued - n + (i + 1)
          /\ txQueue'[i] = txQueue[i + 1]
      BY <1>0, <2>1
    <3>2. QED BY <2>2, <3>1 DEF FramesQueued, Finished, n
  <2>3. QED BY <1>8, <2>1, <2>2 DEF FramesQueued, Finished, Checked
<1>9. CASE TxStep
  <2>1. UNCHANGED <<pc, lockOn, lastTxConfig>>
    BY <1>9 DEF TxStep, SendRadioFrame, SetDisplayText, KeepaliveTick, Enqueue, TxWrite, TxWritten,
                TxFailed, AirtimeOver, callVars
  <2>2. CASE SendRadioFrame \/ SetDisplayText \/ KeepaliveTick
    BY <1>7, <2>2 DEF SendRadioFrame, SetDisplayText, KeepaliveTick
  <2>3. CASE TxWrite \/ TxWritten \/ TxFailed \/ AirtimeOver
    <3>1. UNCHANGED enqueued /\ (UNCHANGED txQueue \/ (txQueue # <<>> /\ txQueue' = Tail(txQueue)))
      BY <2>3 DEF TxWrite, TxWritten, TxFailed, AirtimeOver, Inv, TypeOK, TxTypeOK
    <3>2. QED BY <1>2, <1>8, <2>1, <3>1
  <2>4. QED BY <1>9, <2>2, <2>3 DEF TxStep
<1>10. CASE BoardStep \/ OpenDone
  BY <1>2, <1>10 DEF BoardStep, BoardConfig, BoardInfo, BoardSend, BoardReceives, LoseCommand,
                     LoseReply, BoardReset, OpenDone, callVars, txVars
<1> QED BY <1>2, <1>3, <1>4, <1>5, <1>6, <1>9, <1>10, SmoothSteps DEF callVars, txVars

-----------------------------------------------------------------------------

\* What holds of a smooth history, besides the order of the frames.
SmoothInv ==
    Smooth => Calm /\ Kept /\ Exchange /\ FramesAhead /\ FramesQueued

SerialInv == Inv /\ InOrder /\ Turns /\ SmoothInv

LEMMA InitSerial == Init => SerialInv
<1> SUFFICES ASSUME Init PROVE SerialInv
  OBVIOUS
<1>1. Inv /\ InOrder /\ Turns
  BY InitInv, InitOrder, InitTurns
<1>2. Calm
  BY DEF Init, Calm, Calls
<1>3. Kept
  BY DEF Init, Kept
<1>4. Exchange
  BY OfEmpty DEF Init, Exchange, Asked, Answered, Calls
<1>5. FramesAhead /\ FramesQueued
  BY DEF Init, FramesAhead, FramesQueued
<1> QED BY <1>1, <1>2, <1>3, <1>4, <1>5 DEF SerialInv, SmoothInv

LEMMA SerialStep ==
  ASSUME Sequential, SerialInv, [Next]_vars
  PROVE  SerialInv'
<1>1. Inv' /\ InOrder' /\ Turns'
  BY StepInv, StepOrder, TurnsStep DEF SerialInv
<1>2. ASSUME Smooth'
      PROVE  (Calm /\ Kept /\ Exchange /\ FramesAhead /\ FramesQueued)'
  <2>1. Calm /\ Kept /\ Exchange /\ FramesAhead /\ FramesQueued
    BY <1>2, SmoothSteps DEF SerialInv, SmoothInv
  <2>2. QED BY <1>2, <2>1, CalmStep, KeptStep, ExchangeStep, AheadStep, QueuedStep DEF SerialInv
<1> QED BY <1>1, <1>2 DEF SerialInv, SmoothInv

LEMMA SerialInvariant == ASSUME Sequential PROVE Spec => []SerialInv
<1>1. SerialInv /\ [Next]_vars => SerialInv'
  BY SerialStep
<1> QED BY InitSerial, <1>1, PTL DEF Spec

\* An application that awaits each call loses no received frame while every attempt
\* succeeds: what waits in configBuffer or infoBuffer is fed with the answer.
THEOREM NoneLost == ASSUME Sequential PROVE Spec => []NoFrameLost
<1>1. SerialInv => NoFrameLost
  BY KeptIsDelivered DEF SerialInv, SmoothInv, NoFrameLost
<1> QED BY SerialInvariant, <1>1, PTL

\* For such an application CONFIG_OK at the first attempt answers the configuration
\* it waits for, and the airtime is computed from the board's settings.
THEOREM FirstTryApplies == ASSUME Sequential PROVE Spec => []FirstTryOkMeansApplied
<1>1. SerialInv => FirstTryOkMeansApplied
  <2> SUFFICES ASSUME SerialInv, Smooth PROVE FirstTryOkMeansApplied
    BY DEF FirstTryOkMeansApplied
  <2>1. Exchange
    BY DEF SerialInv, SmoothInv
  <2>2. (\A c \in ConfigCalls : ~Pending(c)) => lastTxConfig = boardTx
    BY <2>1, NobodyWaits DEF Pending
  <2>3. QED BY <2>1, <2>2 DEF FirstTryOkMeansApplied, Exchange
<1> QED BY SerialInvariant, <1>1, PTL

\* For such an application the board transmits every frame with the settings it was
\* meant for: "await this.txLock" keeps a configuration behind the frames queued
\* before it.
THEOREM FramesKeepTheirConfig == ASSUME Sequential PROVE Spec => []FrameKeepsItsConfig
<1>1. SerialInv => FrameKeepsItsConfig
  <2> SUFFICES ASSUME SerialInv, Smooth, toBoard # <<>>, Head(toBoard)[1] = "send"
               PROVE  Head(toBoard)[2] \in {Unchecked, boardTx}
    BY DEF FrameKeepsItsConfig
  <2>1. FramesAhead /\ toBoard \in Seq(ToBoard)
    BY DEF SerialInv, SmoothInv, Inv, TypeOK, BoardTypeOK
  <2>2. Head(toBoard) = toBoard[1] /\ 1 \in 1..Len(toBoard)
    BY <2>1, OfTail
  <2>3. QED BY <2>1, <2>2 DEF FramesAhead, Checked
<1> QED BY SerialInvariant, <1>1, PTL

-----------------------------------------------------------------------------
(* What loses a received frame                                             *)

\* The frames that are at the splitter, in the buffer of the mode, or in the port.
Retained == Numbers(fed) \cup Numbers(Buffered) \cup Numbers(toHost)

\* An attempt ends without an answer, or a call starts while another one waits.
AttemptFails == \E c \in Calls : pc[c] = "waiting" /\ pc'[c] \in {"lock", "failed"}
TakenOver == \E c, d \in Calls : pc[c] = "lock" /\ pc'[c] = "waiting" /\ pc[d] = "waiting"

\* A received frame that is no longer retained was in the port when that closed
\* or a message was lost, or in a buffer when the port closed, an attempt failed
\* or another call took over; none gets lost at the splitter.
OnlyFailuresLose ==
    [][\A n \in Retained \ Retained' :
         \/ n \in Numbers(toHost) /\ (PortClosed \/ LoseReply)
         \/ n \in Numbers(Buffered) /\ (PortClosed \/ AttemptFails \/ TakenOver)]_vars

\* The waiter is that of a call that waits, and a closed port leaves nothing in
\* the buffer of the mode.
Waiting ==
    /\ configWaiter # None => pc[configWaiter] = "waiting"
    /\ infoWaiter # None => pc[infoWaiter] = "waiting"
    /\ ~portOpen => Buffered = <<>>

LEMMA InitWaiting == Init => Waiting
BY DEF Init, Waiting, Buffered

\* A rejected waiter goes with its mode; the waiter of the other kind stays.
LEMMA RejectWaiting ==
  ASSUME Inv, Waiting, NEW c, RejectCurrent(c), UNCHANGED <<portOpen, bufferVars>>
  PROVE  /\ Waiting'
         /\ Buffered' = Buffered \/ (Buffered' = <<>> /\ AttemptFails)
<1>0. /\ configWaiter \in ConfigCalls \cup {None} /\ infoWaiter \in InfoCalls \cup {None}
      /\ pc \in [Calls -> {"idle", "lock", "waiting", "ok", "failed"}]
      /\ ConfigCalls \subseteq Calls /\ InfoCalls \subseteq Calls
      /\ UNCHANGED <<portOpen, configBuffer, infoBuffer>>
  BY DEF Inv, TypeOK, CallTypeOK, Calls, bufferVars
<1>1. CASE UNCHANGED <<mode, configWaiter, infoWaiter, pc>>
  <2>1. Buffered' = Buffered
    BY <1>0, <1>1 DEF Buffered
  <2> QED BY <1>0, <1>1, <2>1 DEF Waiting
<1>2. ASSUME NEW w \in Calls, pc[w] = "waiting", NEW p \in {"lock", "failed"},
             pc' = [pc EXCEPT ![w] = p], mode' = "normal",
             \/ w \in ConfigCalls /\ configWaiter' = None /\ UNCHANGED infoWaiter
             \/ w \in InfoCalls /\ infoWaiter' = None /\ UNCHANGED configWaiter
      PROVE  Waiting' /\ Buffered' = <<>> /\ AttemptFails
  <2>1. AttemptFails
    BY <1>0, <1>2 DEF AttemptFails
  <2>2. Buffered' = <<>>
    BY <1>2 DEF Buffered
  <2>3. \A d \in Calls : d # w => pc'[d] = pc[d]
    BY <1>0, <1>2
  <2>4. configWaiter' # None => pc'[configWaiter'] = "waiting"
    BY <1>0, <1>2, <2>3, KindsDiffer DEF Waiting
  <2>5. infoWaiter' # None => pc'[infoWaiter'] = "waiting"
    BY <1>0, <1>2, <2>3, KindsDiffer DEF Waiting
  <2> QED BY <2>1, <2>2, <2>4, <2>5 DEF Waiting
<1>3. CASE c \in ConfigCalls /\ configWaiter # None /\ RejectConfig /\ UNCHANGED infoWaiter
  <2>1. /\ configWaiter \in ConfigCalls /\ configWaiter \in Calls /\ pc[configWaiter] = "waiting"
        /\ \E p \in {"lock", "failed"} : pc' = [pc EXCEPT ![configWaiter] = p]
        /\ mode' = "normal" /\ configWaiter' = None
    BY <1>0, <1>3 DEF RejectConfig, Waiting
  <2> QED BY <1>2, <1>3, <2>1
<1>4. CASE c \in InfoCalls /\ infoWaiter # None /\ RejectInfo /\ UNCHANGED configWaiter
  <2>1. /\ infoWaiter \in InfoCalls /\ infoWaiter \in Calls /\ pc[infoWaiter] = "waiting"
        /\ pc' = [pc EXCEPT ![infoWaiter] = "failed"]
        /\ mode' = "normal" /\ infoWaiter' = None
    BY <1>0, <1>4 DEF RejectInfo, Waiting
  <2> QED BY <1>2, <1>4, <2>1
<1> QED BY <1>1, <1>3, <1>4 DEF RejectCurrent, RejectConfig, RejectInfo

LEMMA StepWaiting ==
  ASSUME Inv, Waiting, [Next]_vars
  PROVE  Waiting'
<1>0. /\ configWaiter \in ConfigCalls \cup {None} /\ infoWaiter \in InfoCalls \cup {None}
      /\ pc \in [Calls -> {"idle", "lock", "waiting", "ok", "failed"}]
      /\ None \notin Calls /\ ConfigCalls \subseteq Calls /\ InfoCalls \subseteq Calls
  BY CallsAssumption DEF Inv, TypeOK, CallTypeOK, Calls
<1>1. ASSUME UNCHANGED <<configWaiter, infoWaiter, pc>>,
             portOpen' \/ (~portOpen /\ Buffered' = Buffered) \/ Buffered' = <<>>
      PROVE  Waiting'
  BY <1>1 DEF Waiting
<1>2. CASE PortStep
  <2>1. UNCHANGED <<callVars, bufferVars>>
    BY <1>2 DEF PortStep, Open, OpenDone, OpenFailed, Close, PortClosed
  <2>2. CASE UNCHANGED <<portOpen, mode>>
    BY <1>1, <2>1, <2>2 DEF callVars, bufferVars, Buffered
  <2>3. CASE OpenDone
    BY <1>1, <2>1, <2>3 DEF callVars, OpenDone
  <2>4. CASE PortClosed
    BY <1>1, <2>1, <2>4 DEF callVars, PortClosed, Buffered
  <2> QED BY <1>2, <2>2, <2>3, <2>4 DEF PortStep, Open, OpenFailed, Close
<1>3. CASE TxStep \/ BoardStep \/ UNCHANGED vars
  <2>1. UNCHANGED <<portOpen, mode, callVars, bufferVars>>
    BY <1>3 DEF TxStep, SendRadioFrame, SetDisplayText, KeepaliveTick, Enqueue, TxWrite, TxWritten,
                TxFailed, AirtimeOver, BoardStep, BoardConfig, BoardInfo, BoardSend, BoardReceives,
                LoseCommand, LoseReply, BoardReset, vars, portVars
  <2> QED BY <1>1, <2>1 DEF callVars, bufferVars, Buffered
<1>4. ASSUME NEW c \in Calls, StartCall(c)
      PROVE  Waiting'
  <2>1. /\ pc[c] = "idle" /\ \A d \in Calls : d # c => pc'[d] = pc[d]
        /\ UNCHANGED <<configWaiter, infoWaiter, portOpen, mode, bufferVars>>
    BY <1>0, <1>4 DEF StartCall, MayCall, portVars
  <2>2. Buffered' = Buffered
    BY <2>1 DEF Buffered, bufferVars
  <2> QED BY <1>0, <2>1, <2>2 DEF Waiting
<1>5. ASSUME NEW c, (c \in ConfigCalls /\ SendConfigOnce(c)) \/ (c \in InfoCalls /\ SendInfo(c))
      PROVE  Waiting'
  <2>1. pc'[c] = "waiting" /\ \A d \in Calls : d # c => pc'[d] = pc[d]
    BY <1>0, <1>5 DEF SendConfigOnce, SendInfo
  <2>2. Buffered' = <<>>
    BY <1>5 DEF SendConfigOnce, SendInfo, ResetConfigBuffer, Buffered
  <2>3. configWaiter' \in {c, configWaiter} /\ infoWaiter' \in {c, infoWaiter}
    BY <1>5 DEF SendConfigOnce, SendInfo
  <2> QED BY <1>0, <2>1, <2>2, <2>3 DEF Waiting
<1>6. ASSUME NEW c, NEW n, Timeout(c, n) \/ WriteFailed(c, n)
      PROVE  Waiting'
  BY <1>6, RejectWaiting DEF Timeout, WriteFailed
<1>7. ASSUME NEW k, BufferConfig(k) \/ BufferInfo(k) \/ FeedSplitter(k)
      PROVE  Waiting'
  BY <1>1, <1>7 DEF BufferConfig, BufferInfo, FeedSplitter, Arrives, callVars, portVars
<1>8. ASSUME NEW k, ConfigOk(k) \/ InfoReply(k)
      PROVE  Waiting'
  <2>1. portOpen' = portOpen /\ portOpen
    BY <1>8 DEF ConfigOk, InfoReply, Arrives
  <2>2. CASE ConfigOk(k)
    <3>1. /\ configWaiter' = None /\ UNCHANGED infoWaiter /\ configWaiter \in ConfigCalls
          /\ \A d \in Calls : d # configWaiter => pc'[d] = pc[d]
      BY <1>0, <2>2 DEF ConfigOk
    <3> QED BY <1>0, <2>1, <3>1, KindsDiffer DEF Waiting
  <2>3. CASE InfoReply(k)
    <3>1. /\ infoWaiter' = None /\ UNCHANGED configWaiter /\ infoWaiter \in InfoCalls
          /\ \A d \in Calls : d # infoWaiter => pc'[d] = pc[d]
      BY <1>0, <2>3 DEF InfoReply
    <3> QED BY <1>0, <2>1, <3>1, KindsDiffer DEF Waiting
  <2> QED BY <1>8, <2>2, <2>3
<1>9. CASE CallStep
  BY <1>4, <1>5, <1>6, <1>9 DEF CallStep
<1>10. CASE DataStep
  BY <1>7, <1>8, <1>10 DEF DataStep
<1> QED BY <1>2, <1>3, <1>9, <1>10 DEF Next

\* The reasons, for one step.
LEMMA StepLoses ==
  ASSUME Inv, InOrder, Waiting, [Next]_vars, NEW n \in Retained, n \notin Retained'
  PROVE  \/ n \in Numbers(toHost) /\ (PortClosed \/ LoseReply)
         \/ n \in Numbers(Buffered) /\ (PortClosed \/ AttemptFails \/ TakenOver)
<1>1. ~(UNCHANGED <<fed, Buffered, toHost>>)
  BY DEF Retained
<1>2. ASSUME UNCHANGED <<fed, toHost>>
      PROVE  n \in Numbers(Buffered) /\ Buffered # <<>>
  BY <1>2, NoNumbers DEF Retained
<1>3. CASE PortStep
  <2>1. UNCHANGED bufferVars
    BY <1>3 DEF PortStep, Open, OpenDone, OpenFailed, Close, PortClosed
  <2>2. CASE PortClosed
    BY <2>1, <2>2 DEF Retained, bufferVars
  <2>3. CASE OpenDone
    BY <1>2, <2>1, <2>3 DEF OpenDone, Waiting, bufferVars
  <2>4. CASE Open \/ OpenFailed \/ Close
    BY <1>1, <2>1, <2>4 DEF Open, OpenFailed, Close, bufferVars, Buffered
  <2> QED BY <1>3, <2>2, <2>3, <2>4 DEF PortStep
<1>4. ASSUME NEW c \in Calls, StartCall(c)
      PROVE  FALSE
  BY <1>1, <1>4 DEF StartCall, portVars, bufferVars, Buffered
<1>5. ASSUME NEW c \in Calls, SendConfigOnce(c) \/ SendInfo(c)
      PROVE  n \in Numbers(Buffered) /\ TakenOver
  <2>1. UNCHANGED <<fed, toHost>> /\ pc[c] = "lock"
    BY <1>5 DEF SendConfigOnce, SendInfo
  <2>2. pc'[c] = "waiting"
    BY <1>5 DEF SendConfigOnce, SendInfo, Inv, TypeOK, CallTypeOK
  <2>3. mode \in {"configuring", "info"}
    BY <1>2, <2>1 DEF Buffered
  <2>4. \E d \in Calls : pc[d] = "waiting"
    BY <2>3 DEF Inv, WaiterMatchesMode, Waiting, TypeOK, CallTypeOK, Calls
  <2> QED BY <1>2, <2>1, <2>2, <2>4 DEF TakenOver
<1>6. ASSUME NEW c, NEW a, Timeout(c, a) \/ WriteFailed(c, a)
      PROVE  n \in Numbers(Buffered) /\ AttemptFails
  <2>1. UNCHANGED <<bufferVars, toHost, portOpen>> /\ RejectCurrent(c)
    BY <1>6 DEF Timeout, WriteFailed
  <2> QED BY <1>1, <1>2, <2>1, RejectWaiting DEF bufferVars
<1>7. CASE DataStep
  BY <1>7, DataOrder DEF FramesMove, Retained
<1>8. CASE TxStep \/ UNCHANGED vars
  <2>1. UNCHANGED <<mode, bufferVars, toHost>>
    BY <1>8 DEF TxStep, SendRadioFrame, SetDisplayText, KeepaliveTick, Enqueue, TxWrite, TxWritten,
                TxFailed, AirtimeOver, portVars, vars
  <2> QED BY <1>1, <2>1 DEF bufferVars, Buffered
<1>9. CASE BoardStep
  <2>1. UNCHANGED <<fed, Buffered>>
    BY <1>9 DEF BoardStep, BoardConfig, BoardInfo, BoardSend, BoardReceives, LoseCommand, LoseReply,
                BoardReset, portVars, bufferVars, Buffered
  <2>2. ASSUME NEW m \in ToHost, Reply(m)
        PROVE  FALSE
    <3>1. Numbers(toHost) \subseteq Numbers(toHost')
      BY <2>2, AppendNumbers DEF Reply, Inv, TypeOK, BoardTypeOK
    <3> QED BY <2>1, <3>1 DEF Retained
  <2>3. toBoard # <<>> => Head(toBoard) \in ToBoard
    BY HeadTailProperties DEF Inv, TypeOK, BoardTypeOK
  <2>4. CASE BoardConfig
    <3>1. <<"ok", Head(toBoard)[2]>> \in ToHost
      BY <2>3, <2>4 DEF BoardConfig, NextCommand, ToBoard, Frames, ToHost
    <3>2. Reply(<<"ok", Head(toBoard)[2]>>)
      BY <2>4 DEF BoardConfig
    <3> QED BY <2>2, <3>1, <3>2
  <2>5. CASE BoardInfo
    <3>1. <<"info", Head(toBoard)[2]>> \in ToHost /\ <<"bad", Head(toBoard)[2]>> \in ToHost
      BY <2>3, <2>5 DEF BoardInfo, NextCommand, ToBoard, Frames, ToHost
    <3>2. Reply(<<"info", Head(toBoard)[2]>>) \/ Reply(<<"bad", Head(toBoard)[2]>>)
      BY <2>5 DEF BoardInfo
    <3> QED BY <2>2, <3>1, <3>2
  <2>6. CASE BoardReceives
    <3>1. <<"frame", rxSeq + 1>> \in ToHost
      BY DEF ToHost, Inv, TypeOK, BoardTypeOK
    <3>2. Reply(<<"frame", rxSeq + 1>>)
      BY <2>6 DEF BoardReceives
    <3> QED BY <2>2, <3>1, <3>2
  <2>7. CASE LoseReply
    BY <2>1, <2>7 DEF Retained
  <2>8. CASE BoardSend \/ LoseCommand \/ BoardReset
    BY <1>1, <2>1, <2>8 DEF BoardSend, LoseCommand, BoardReset
  <2> QED BY <1>9, <2>4, <2>5, <2>6, <2>7, <2>8 DEF BoardStep
<1>10. ConfigCalls \subseteq Calls /\ InfoCalls \subseteq Calls
  BY DEF Calls
<1> QED BY <1>3, <1>4, <1>5, <1>6, <1>7, <1>8, <1>9, <1>10 DEF Next, CallStep

\* However calls overlap, a received frame is lost only for one of these reasons.
THEOREM LossesHaveReasons == Spec => OnlyFailuresLose
<1>1. Inv /\ Waiting /\ [Next]_vars => Waiting'
  BY StepWaiting
<1>2. Inv /\ InOrder /\ [Next]_vars => InOrder'
  BY StepOrder
<1>3. Inv /\ InOrder /\ Waiting /\ [Next]_vars
        => [\A n \in Retained \ Retained' :
              \/ n \in Numbers(toHost) /\ (PortClosed \/ LoseReply)
              \/ n \in Numbers(Buffered) /\ (PortClosed \/ AttemptFails \/ TakenOver)]_vars
  BY StepLoses
<1> QED BY Invariant, InitOrder, InitWaiting, <1>1, <1>2, <1>3, PTL DEF Spec, OnlyFailuresLose

\* The attempt whose answer the buffer waits for fails.
OwnAttemptFails ==
    LET c == IF mode = "configuring" THEN configWaiter ELSE infoWaiter IN
    c \in Calls /\ pc[c] = "waiting" /\ pc'[c] \in {"lock", "failed"}

\* No call takes a buffer over, and none empties another one's by failing.
OnlyOwnFailuresLose ==
    [][\A n \in Retained \ Retained' :
         \/ n \in Numbers(toHost) /\ (PortClosed \/ LoseReply)
         \/ n \in Numbers(Buffered) /\ (PortClosed \/ OwnAttemptFails)]_vars

\* For an application that awaits each call, what is buffered is lost only with
\* the attempt whose answer it waits for, or with the port.
THEOREM AwaitedLossesHaveReasons == ASSUME Sequential PROVE Spec => OnlyOwnFailuresLose
<1>1. Inv /\ Waiting /\ [Next]_vars => Waiting'
  BY StepWaiting
<1>2. SerialInv /\ Waiting /\ [Next]_vars
        => [\A n \in Retained \ Retained' :
              \/ n \in Numbers(toHost) /\ (PortClosed \/ LoseReply)
              \/ n \in Numbers(Buffered) /\ (PortClosed \/ OwnAttemptFails)]_vars
  <2> SUFFICES ASSUME SerialInv, Waiting, [Next]_vars, NEW n \in Retained, n \notin Retained',
                      n \in Numbers(Buffered), AttemptFails \/ TakenOver
               PROVE  OwnAttemptFails
    BY StepLoses DEF SerialInv
  <2> DEFINE w == IF mode = "configuring" THEN configWaiter ELSE infoWaiter
  <2>1. mode \in {"configuring", "info"}
    BY NoNumbers DEF Buffered
  <2>2. w \in Calls /\ Pending(w)
    BY <2>1 DEF SerialInv, Inv, WaiterMatchesMode, TypeOK, CallTypeOK, Calls, Waiting, Pending
  <2>3. \A c \in Calls : Pending(c) => c = w
    BY <2>2 DEF SerialInv, Turns
  <2> HIDE DEF w
  <2>4. ~TakenOver
    BY <2>3 DEF TakenOver, Pending
  <2>5. PICK c \in Calls : pc[c] = "waiting" /\ pc'[c] \in {"lock", "failed"}
    BY <2>4 DEF AttemptFails
  <2>6. c = w
    BY <2>3, <2>5 DEF Pending
  <2> QED BY <2>5, <2>6 DEF OwnAttemptFails, w
<1> QED BY SerialInvariant, Invariant, InitWaiting, <1>1, <1>2, PTL DEF Spec, OnlyOwnFailuresLose
=============================================================================
