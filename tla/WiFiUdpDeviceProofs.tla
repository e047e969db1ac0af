------------------------ MODULE WiFiUdpDeviceProofs ------------------------
(***************************************************************************)
(* For any number of calls, attempts, sockets and frames, any loss, delay  *)
(* and order of datagrams, and any closes, reopens and restarts: the       *)
(* driver is well typed, its waiter is timed, only its current socket      *)
(* listens, and no datagram is emitted twice.  For an application that     *)
(* awaits each call, as long as no attempt failed: no frame is lost or     *)
(* overtaken, and a call that resolves was applied.  Where frames do get   *)
(* lost, it is for a reason that is named.                                 *)
(***************************************************************************)
EXTENDS WiFiUdpDevice, SequenceTheorems, FiniteSetTheorems, TLAPS

LEMMA NoneIsNoCall == None \notin ConfigCalls /\ TxConfigs \subseteq ConfigCalls
  BY WiFiAssumption

LEMMA SocketIsNoNone == NoSocket \notin Sockets
  BY DEF NoSocket, Sockets

LEMMA EmptyIsSeq == \A S : <<>> \in Seq(S)
  OBVIOUS

\* What a step leaves alone keeps its type.
LEMMA UnchangedTypes ==
  /\ SocketTypeOK /\ UNCHANGED <<socketVars, mode>> => SocketTypeOK'
  /\ CallTypeOK /\ UNCHANGED callVars => CallTypeOK'
  /\ DataTypeOK /\ UNCHANGED <<dataVars, toBoard, toHost>> => DataTypeOK'
  /\ TxTypeOK /\ UNCHANGED txVars => TxTypeOK'
  /\ BoardTypeOK /\ UNCHANGED <<boardVars, faults>> => BoardTypeOK'
<1>1. SocketTypeOK /\ UNCHANGED <<socketVars, mode>> => SocketTypeOK'
  BY DEF SocketTypeOK, socketVars
<1>2. CallTypeOK /\ UNCHANGED callVars => CallTypeOK'
  BY DEF CallTypeOK, callVars
<1>3. DataTypeOK /\ UNCHANGED <<dataVars, toBoard, toHost>> => DataTypeOK'
  BY DEF DataTypeOK, dataVars
<1>4. TxTypeOK /\ UNCHANGED txVars => TxTypeOK'
  BY DEF TxTypeOK, txVars
<1>5. BoardTypeOK /\ UNCHANGED <<boardVars, faults>> => BoardTypeOK'
  BY DEF BoardTypeOK, boardVars
<1> QED BY <1>1, <1>2, <1>3, <1>4, <1>5

LEMMA FaultType == BoardTypeOK /\ Fault => faults' \in Nat
  BY DEF BoardTypeOK, Fault

\* Datagrams of either direction, by kind.
LEMMA DatagramTypes ==
  /\ \A c \in ConfigCalls, n \in Nat, s \in Sockets :
       <<"config", <<c, n>>, s>> \in ToBoard /\ <<"ok", <<c, n>>, s>> \in ToHost
  /\ \A kind \in {"wake", "send", "text"}, n \in Nat, s \in Sockets :
       <<kind, <<None, n>>, s>> \in ToBoard
  /\ \A kind \in {"ok", "frame"}, n \in Nat, s \in Sockets : <<kind, <<None, n>>, s>> \in ToHost
BY DEF ToBoard, ToHost, Attempts, Others

\* What can be taken apart of a datagram.
LEMMA ToBoardParts ==
  ASSUME NEW m \in ToBoard
  PROVE  /\ m[3] \in Sockets /\ m = <<m[1], m[2], m[3]>>
         /\ m[1] = "config" => m[2] \in Attempts /\ m[2][1] \in ConfigCalls /\ m[2][2] \in Nat
                               /\ m[2] = <<m[2][1], m[2][2]>>
BY DEF ToBoard, Attempts, Others

LEMMA ToHostParts ==
  ASSUME NEW m \in ToHost
  PROVE  /\ m[1] \in {"ok", "frame"} /\ m[3] \in Sockets
         /\ m[1] = "frame" => m[2] \in Others
         /\ m[1] = "ok" => m[2] \in Attempts \cup Others
         /\ m[2][1] \in ConfigCalls \cup {None} /\ m[2][2] \in Nat
         /\ m = <<m[1], <<m[2][1], m[2][2]>>, m[3]>>
BY DEF ToHost, Attempts, Others

-----------------------------------------------------------------------------
(* The invariant of every step: types, and the waiter's timeout            *)

Inv == TypeOK /\ WaiterIsTimed

LEMMA InitInv == Init => Inv
<1> SUFFICES ASSUME Init PROVE Inv
  OBVIOUS
<1> USE DEF Init
<1>1. SocketTypeOK /\ CallTypeOK /\ BoardTypeOK
  BY DEF SocketTypeOK, CallTypeOK, BoardTypeOK
<1>2. DataTypeOK /\ TxTypeOK
  BY EmptyIsSeq DEF DataTypeOK, TxTypeOK
<1>3. WaiterIsTimed
  BY DEF WaiterIsTimed
<1> QED BY <1>1, <1>2, <1>3 DEF Inv, TypeOK

\* The waiter's invariant speaks of the calls and the mode only.
LEMMA UnchangedWaiter ==
  ASSUME WaiterIsTimed, UNCHANGED callVars, mode' = "configuring" => mode = "configuring"
  PROVE  WaiterIsTimed'
BY DEF WaiterIsTimed, callVars

LEMMA SocketInv ==
  ASSUME Inv, SocketStep
  PROVE  Inv'
<1> USE DEF Inv, TypeOK
<1>1. CallTypeOK'
  BY UnchangedTypes DEF SocketStep, Close, Open, Bound, BindFailed, Closed
<1>2. CASE Close
  <2>1. SocketTypeOK'
    BY <1>2 DEF Close, SocketTypeOK
  <2>2. TxTypeOK'
    BY <1>2 DEF Close, TxTypeOK
  <2>3. DataTypeOK' /\ BoardTypeOK' /\ WaiterIsTimed'
    BY <1>2, UnchangedTypes, UnchangedWaiter DEF Close
  <2> QED BY <1>1, <2>1, <2>2, <2>3
<1>3. ASSUME NEW s \in Sockets, Open(s) PROVE Inv'
  <2>1. SocketTypeOK'
    BY <1>3 DEF Open, SocketTypeOK
  <2>2. DataTypeOK' /\ TxTypeOK' /\ BoardTypeOK' /\ WaiterIsTimed'
    BY <1>3, UnchangedTypes, UnchangedWaiter DEF Open
  <2> QED BY <1>1, <2>1, <2>2
<1>4. ASSUME NEW s \in Sockets, Bound(s) PROVE Inv'
  <2>1. SocketTypeOK'
    BY <1>4 DEF Bound, SocketTypeOK
  <2>2. DataTypeOK'
    BY <1>4, DatagramTypes DEF Bound, DataTypeOK, dataVars
  <2>3. TxTypeOK' /\ BoardTypeOK' /\ WaiterIsTimed'
    BY <1>4, UnchangedTypes, UnchangedWaiter DEF Bound
  <2> QED BY <1>1, <2>1, <2>2, <2>3
<1>5. ASSUME NEW s \in Sockets, BindFailed(s) PROVE Inv'
  <2>1. SocketTypeOK'
    BY <1>5 DEF BindFailed, SocketTypeOK
  <2>2. BoardTypeOK'
    BY <1>5, FaultType DEF BindFailed, BoardTypeOK, boardVars
  <2>3. DataTypeOK' /\ TxTypeOK' /\ WaiterIsTimed'
    BY <1>5, UnchangedTypes, UnchangedWaiter DEF BindFailed
  <2> QED BY <1>1, <2>1, <2>2, <2>3
<1>6. ASSUME NEW s \in Sockets, Closed(s) PROVE Inv'
  <2>1. SocketTypeOK'
    BY <1>6 DEF Closed, SocketTypeOK
  <2>2. DataTypeOK' /\ TxTypeOK' /\ BoardTypeOK' /\ WaiterIsTimed'
    BY <1>6, UnchangedTypes, UnchangedWaiter DEF Closed
  <2> QED BY <1>1, <2>1, <2>2
<1> QED BY <1>2, <1>3, <1>4, <1>5, <1>6 DEF SocketStep

\* Whoever is rejected, the mode goes back to normal with the waiter.
LEMMA RejectInv ==
  ASSUME SocketTypeOK, CallTypeOK, TxTypeOK, WaiterIsTimed, Reject,
         UNCHANGED <<socketVars, tries>>, timers' \subseteq timers,
         failedWrites' \subseteq failedWrites
  PROVE  SocketTypeOK' /\ CallTypeOK' /\ WaiterIsTimed'
<1>1. SocketTypeOK'
  BY DEF Reject, SocketTypeOK, socketVars
<1>2. CASE configWaiter = None
  <2>1. CallTypeOK'
    BY <1>2 DEF Reject, CallTypeOK
  <2>2. WaiterIsTimed'
    BY <1>2 DEF Reject, WaiterIsTimed
  <2> QED BY <1>1, <2>1, <2>2
<1>3. CASE configWaiter # None
  <2>1. configWaiter' = None /\ mode' = "normal"
    BY <1>3 DEF Reject
  <2>2. /\ pc' \in [ConfigCalls -> {"idle", "lock", "waiting", "ok", "failed"}]
        /\ lockOn' \in [ConfigCalls -> Nat]
    BY <1>3 DEF Reject, CallTypeOK, TxTypeOK
  <2>3. CallTypeOK'
    BY <2>1, <2>2 DEF CallTypeOK
  <2>4. WaiterIsTimed'
    BY <2>1 DEF WaiterIsTimed
  <2> QED BY <1>1, <2>3, <2>4
<1> QED BY <1>2, <1>3

LEMMA SendUdpType ==
  ASSUME SocketTypeOK, DataTypeOK, CallTypeOK, BoardTypeOK, UNCHANGED boardVars,
         NEW c \in ConfigCalls, NEW n \in Nat, SendUdp(c, n)
  PROVE  /\ toBoard' \subseteq ToBoard
         /\ failedWrites' \subseteq ConfigCalls \X Nat \X {"now", "later"}
         /\ BoardTypeOK'
<1>1. toBoard' \subseteq ToBoard
  <2>1. socket # NoSocket => <<"config", <<c, n>>, socket>> \in ToBoard
    BY DatagramTypes DEF SocketTypeOK
  <2>2. toBoard' \subseteq toBoard \cup
          (IF socket # NoSocket THEN {<<"config", <<c, n>>, socket>>} ELSE {})
    BY DEF SendUdp
  <2> QED BY <2>1, <2>2 DEF DataTypeOK
<1>2. failedWrites' \subseteq ConfigCalls \X Nat \X {"now", "later"}
  BY DEF SendUdp, CallTypeOK
<1>3. BoardTypeOK'
  BY FaultType DEF SendUdp, BoardTypeOK, boardVars
<1> QED BY <1>1, <1>2, <1>3

LEMMA CallInv ==
  ASSUME Inv, CallStep
  PROVE  Inv'
<1> USE DEF Inv, TypeOK
<1>1. ASSUME NEW c \in ConfigCalls, StartCall(c) PROVE Inv'
  <2>1. CallTypeOK'
    BY <1>1 DEF StartCall, CallTypeOK, TxTypeOK
  <2>2. SocketTypeOK' /\ DataTypeOK' /\ TxTypeOK' /\ BoardTypeOK'
    BY <1>1, UnchangedTypes DEF StartCall
  <2>3. WaiterIsTimed'
    BY <1>1 DEF StartCall, MayCall, WaiterIsTimed, CallTypeOK
  <2> QED BY <2>1, <2>2, <2>3
<1>2. ASSUME NEW c \in ConfigCalls, SendConfigOnce(c) PROVE Inv'
  <2>0. tries[c] \in Nat /\ tries[c] + 1 \in Nat
    BY DEF CallTypeOK
  <2>1. SocketTypeOK'
    BY <1>2 DEF SendConfigOnce, SocketTypeOK, socketVars
  <2>2. /\ toBoard' \subseteq ToBoard
        /\ failedWrites' \subseteq ConfigCalls \X Nat \X {"now", "later"}
        /\ BoardTypeOK'
    BY <1>2, <2>0, SendUdpType DEF SendConfigOnce
  <2>3. DataTypeOK'
    BY <1>2, <2>2, EmptyIsSeq DEF SendConfigOnce, DataTypeOK, ResetConfigBuffer
  <2>4. /\ pc' \in [ConfigCalls -> {"idle", "lock", "waiting", "ok", "failed"}]
        /\ tries' \in [ConfigCalls -> Nat] /\ timers' \subseteq Attempts
    BY <1>2, <2>0 DEF SendConfigOnce, CallTypeOK, ArmTimer, Attempts
  <2>5. CallTypeOK'
    BY <1>2, <2>2, <2>4 DEF SendConfigOnce, CallTypeOK
  <2>6. TxTypeOK'
    BY <1>2, UnchangedTypes DEF SendConfigOnce
  <2>7. WaiterIsTimed'
    <3>1. configWaiter' = c /\ pc'[c] = "waiting" /\ tries'[c] = tries[c] + 1
      BY <1>2 DEF SendConfigOnce, CallTypeOK
    <3>2. <<c, tries[c] + 1>> \in timers'
      BY <1>2 DEF SendConfigOnce, ArmTimer
    <3> QED BY <3>1, <3>2, NoneIsNoCall DEF WaiterIsTimed
  <2> QED BY <2>1, <2>2, <2>3, <2>5, <2>6, <2>7
<1>3. ASSUME NEW x \in timers, Timeout(x[1], x[2]) PROVE Inv'
  <2>1. SocketTypeOK' /\ CallTypeOK' /\ WaiterIsTimed'
    BY <1>3, RejectInv DEF Timeout
  <2>2. DataTypeOK' /\ TxTypeOK' /\ BoardTypeOK'
    BY <1>3, UnchangedTypes DEF Timeout
  <2> QED BY <2>1, <2>2
<1>4. ASSUME NEW w \in failedWrites, WriteFailed(w) PROVE Inv'
  <2>1. SocketTypeOK' /\ CallTypeOK' /\ WaiterIsTimed'
    BY <1>4, RejectInv DEF WriteFailed
  <2>2. DataTypeOK' /\ TxTypeOK' /\ BoardTypeOK'
    BY <1>4, UnchangedTypes DEF WriteFailed
  <2> QED BY <2>1, <2>2
<1> QED BY <1>1, <1>2, <1>3, <1>4 DEF CallStep

LEMMA DataInv ==
  ASSUME Inv, DataStep
  PROVE  Inv'
<1> USE DEF Inv, TypeOK
<1> PICK m \in toHost : Buffer(m) \/ ConfigOk(m) \/ Emit(m)
  BY DEF DataStep
<1> m \in ToHost
  BY DEF DataTypeOK
<1>1. toHost' \subseteq ToHost /\ arrived' \in Seq(ToHost)
  <2>1. Arrives(m)
    BY DEF Buffer, ConfigOk, Emit
  <2> QED BY <2>1 DEF Arrives, DataTypeOK
<1>2. SocketTypeOK' /\ BoardTypeOK'
  BY UnchangedTypes DEF Buffer, ConfigOk, Emit, SocketTypeOK, socketVars
<1>3. CASE Buffer(m)
  <2>1. DataTypeOK'
    BY <1>1, <1>3 DEF Buffer, DataTypeOK
  <2>2. CallTypeOK' /\ TxTypeOK' /\ WaiterIsTimed'
    BY <1>3, UnchangedTypes, UnchangedWaiter DEF Buffer
  <2> QED BY <1>2, <2>1, <2>2
<1>4. CASE ConfigOk(m)
  <2>1. DataTypeOK'
    BY <1>1, <1>4, EmptyIsSeq, ConcatProperties
       DEF ConfigOk, DataTypeOK, EmitBefore, ResetConfigBuffer
  <2>2. configWaiter \in ConfigCalls
    BY <1>4 DEF ConfigOk, CallTypeOK
  <2>3. CallTypeOK'
    BY <1>4, <2>2 DEF ConfigOk, CallTypeOK
  <2>4. TxTypeOK'
    BY <1>4, <2>2 DEF ConfigOk, TxTypeOK, RememberTx
  <2>5. WaiterIsTimed'
    BY <1>4 DEF ConfigOk, WaiterIsTimed
  <2> QED BY <1>2, <2>1, <2>3, <2>4, <2>5
<1>5. CASE Emit(m)
  <2>1. DataTypeOK'
    BY <1>1, <1>5 DEF Emit, DataTypeOK
  <2>2. CallTypeOK' /\ TxTypeOK' /\ WaiterIsTimed'
    BY <1>5, UnchangedTypes, UnchangedWaiter DEF Emit
  <2> QED BY <1>2, <2>1, <2>2
<1> QED BY <1>3, <1>4, <1>5

LEMMA TxInv ==
  ASSUME Inv, TxStep
  PROVE  Inv'
<1> USE DEF Inv, TypeOK
<1>1. SocketTypeOK' /\ CallTypeOK' /\ WaiterIsTimed'
  BY UnchangedTypes, UnchangedWaiter DEF TxStep, Enqueue, TxSend, TxSent, AirtimeOver
<1>2. ASSUME NEW kind \in {"send", "text"}, Enqueue(kind) PROVE Inv'
  <2>1. TxTypeOK'
    BY <1>2 DEF Enqueue, TxTypeOK
  <2>2. DataTypeOK' /\ BoardTypeOK'
    BY <1>2, UnchangedTypes DEF Enqueue
  <2> QED BY <1>1, <2>1, <2>2
<1>3. ASSUME txQueue # <<>>
      PROVE  /\ Head(txQueue) \in {"send", "text"} /\ Tail(txQueue) \in Seq({"send", "text"})
             /\ Len(Tail(txQueue)) <= enqueued /\ Finished + 1 \in Nat
  BY <1>3, HeadTailProperties, LenProperties DEF TxTypeOK, Finished
<1>4. CASE TxSend
  <2>1. TxTypeOK'
    BY <1>3, <1>4 DEF TxSend, TxTypeOK
  <2>2. toBoard' \subseteq ToBoard
    BY <1>3, <1>4, DatagramTypes DEF TxSend, DataTypeOK, SocketTypeOK
  <2>3. DataTypeOK'
    BY <1>4, <2>2 DEF TxSend, DataTypeOK, dataVars
  <2>4. BoardTypeOK'
    BY <1>4, FaultType DEF TxSend, BoardTypeOK, boardVars
  <2> QED BY <1>1, <2>1, <2>3, <2>4
<1>5. CASE TxSent \/ AirtimeOver
  <2>1. TxTypeOK'
    BY <1>3, <1>5 DEF TxSent, AirtimeOver, TxTypeOK
  <2>2. DataTypeOK' /\ BoardTypeOK'
    BY <1>5, UnchangedTypes DEF TxSent, AirtimeOver
  <2> QED BY <1>1, <2>1, <2>2
<1> QED BY <1>2, <1>4, <1>5 DEF TxStep

LEMMA BoardInv ==
  ASSUME Inv, BoardStep
  PROVE  Inv'
<1> USE DEF Inv, TypeOK
<1>1. SocketTypeOK' /\ CallTypeOK' /\ TxTypeOK' /\ WaiterIsTimed'
  BY UnchangedTypes, UnchangedWaiter
     DEF BoardStep, PumpBridge, UsbConfig, EmitReceivedFrame, BoardRestarts
<1>2. ASSUME NEW m \in toBoard, PumpBridge(m) PROVE Inv'
  <2> m \in ToBoard
    BY DEF DataTypeOK
  <2>1. BoardTypeOK'
    BY <1>2, ToBoardParts DEF PumpBridge, BoardTypeOK
  <2>2. m[1] = "config" => <<"ok", m[2], m[3]>> \in ToHost
    BY ToBoardParts DEF ToHost
  <2>3. toHost' \subseteq ToHost
    BY <1>2, <2>2 DEF PumpBridge, SendToHost, DataTypeOK
  <2>4. DataTypeOK'
    BY <1>2, <2>3 DEF PumpBridge, DataTypeOK, dataVars
  <2> QED BY <1>1, <2>1, <2>4
<1>3. CASE UsbConfig \/ EmitReceivedFrame
  <2>1. BoardTypeOK'
    BY <1>3, FaultType DEF UsbConfig, EmitReceivedFrame, BoardTypeOK
  <2>2. toHost' \subseteq ToHost
    BY <1>3, DatagramTypes DEF UsbConfig, EmitReceivedFrame, SendToHost, DataTypeOK, BoardTypeOK
  <2>3. DataTypeOK'
    BY <1>3, <2>2 DEF UsbConfig, EmitReceivedFrame, DataTypeOK, dataVars
  <2> QED BY <1>1, <2>1, <2>3
<1>4. CASE BoardRestarts
  <2>1. BoardTypeOK'
    BY <1>4, FaultType DEF BoardRestarts, BoardTypeOK
  <2>2. DataTypeOK'
    BY <1>4, UnchangedTypes DEF BoardRestarts
  <2> QED BY <1>1, <2>1, <2>2
<1> QED BY <1>2, <1>3, <1>4 DEF BoardStep

LEMMA StutterInv ==
  ASSUME Inv, UNCHANGED vars
  PROVE  Inv'
BY UnchangedTypes, UnchangedWaiter DEF Inv, TypeOK, vars

LEMMA InvStep == Inv /\ [Next]_vars => Inv'
BY SocketInv, CallInv, DataInv, TxInv, BoardInv, StutterInv DEF Next

LEMMA Invariant == Spec => []Inv
<1>1. Inv /\ [Next]_vars => Inv'
  BY InvStep
<1> QED BY InitInv, <1>1, PTL DEF Spec

\* Type correctness: in particular the ids of the datagrams of frames, which
\* count what has been taken off the chain, never run below its start.
THEOREM TypeCorrect == Spec => []TypeOK
<1>1. Inv => TypeOK
  BY DEF Inv
<1> QED BY Invariant, <1>1, PTL

\* onUdpMessage finds a waiter whenever it looks for one, and every waiter is
\* timed by its own attempt.
THEOREM WaiterCorrect == Spec => []WaiterIsTimed
<1>1. Inv => WaiterIsTimed
  BY DEF Inv
<1> QED BY Invariant, <1>1, PTL

-----------------------------------------------------------------------------
(* The sockets                                                             *)

\* At most one socket is bound, being bound or closing; if it is bound it is the
\* current one, and while it is bound or closing the mode is not 'closed', so
\* that open() is refused.
OneSocket ==
    /\ \A s \in Sockets : sockets[s] = "bound" => socket = s /\ mode # "closed"
    /\ \A s \in Sockets : sockets[s] = "closing" => socket = NoSocket /\ mode # "closed"
    /\ socket # NoSocket => sockets[socket] = "bound"
    /\ \A s, t \in Sockets :
         /\ sockets[s] = "binding" => sockets[t] \notin {"bound", "closing"}
         /\ sockets[s] = sockets[t] /\ sockets[s] \in {"binding", "closing"} => s = t

\* Without overlapping calls of open, open starts with no socket being bound.
LEMMA NoneBinding ==
  ASSUME MaxOpening <= 1, SocketTypeOK, NEW s \in Sockets, Open(s)
  PROVE  \A t \in Sockets : sockets[t] # "binding"
<1>1. IsFiniteSet(InState("binding"))
  <2>1. IsFiniteSet(Sockets)
    BY WiFiAssumption, FS_Interval DEF Sockets
  <2> QED BY <2>1, FS_Subset DEF InState
<1>2. Cardinality(InState("binding")) \in Nat /\ Cardinality(InState("binding")) < 1
  BY <1>1, FS_CardinalityType, WiFiAssumption DEF Open
<1>3. Cardinality(InState("binding")) = 0
  BY <1>2
<1>4. InState("binding") = {}
  BY <1>1, <1>3, FS_EmptySet
<1> QED BY <1>4 DEF InState

LEMMA OneSocketStep ==
  ASSUME MaxOpening <= 1, SocketTypeOK, OneSocket, [Next]_vars
  PROVE  OneSocket'
<1> USE DEF OneSocket
<1>1. CASE Close
  <2>1. \A t \in Sockets : sockets[t] \notin {"binding", "closing"}
    BY <1>1 DEF Close, SocketTypeOK
  <2>2. /\ sockets' = [sockets EXCEPT ![socket] = "closing"] /\ socket' = NoSocket
        /\ socket \in Sockets /\ mode # "closed" /\ mode' = mode
    BY <1>1 DEF Close, SocketTypeOK
  <2>3. \A t \in Sockets : t # socket => sockets[t] # "bound"
    OBVIOUS
  <2> QED BY <2>1, <2>2, <2>3 DEF SocketTypeOK
<1>2. ASSUME NEW s \in Sockets, Open(s) PROVE OneSocket'
  <2>1. /\ sockets' = [sockets EXCEPT ![s] = "binding"] /\ socket' = socket
        /\ mode = "closed" /\ mode' = mode
    BY <1>2 DEF Open, Openable
  <2>2. \A t \in Sockets : sockets[t] \notin {"bound", "closing", "binding"}
    BY <1>2, <2>1, NoneBinding
  <2>3. socket = NoSocket
    BY <2>2 DEF SocketTypeOK
  <2> QED BY <2>1, <2>2, <2>3 DEF SocketTypeOK
<1>3. ASSUME NEW s \in Sockets, Bound(s) PROVE OneSocket'
  <2>1. /\ sockets' = [sockets EXCEPT ![s] = "bound"] /\ socket' = s /\ mode' = "normal"
        /\ sockets[s] = "binding"
    BY <1>3 DEF Bound
  <2>2. \A t \in Sockets : t # s => sockets[t] \notin {"bound", "closing", "binding"}
    BY <2>1
  <2> QED BY <2>1, <2>2, SocketIsNoNone DEF SocketTypeOK
<1>4. ASSUME NEW s \in Sockets, BindFailed(s) PROVE OneSocket'
  <2>1. /\ sockets' = [sockets EXCEPT ![s] = "closed"] /\ socket' = socket /\ mode' = mode
        /\ sockets[s] = "binding"
    BY <1>4 DEF BindFailed
  <2> QED BY <2>1 DEF SocketTypeOK
<1>5. ASSUME NEW s \in Sockets, Closed(s) PROVE OneSocket'
  <2>1. /\ sockets' = [sockets EXCEPT ![s] = "closed"] /\ socket' = socket
        /\ sockets[s] = "closing" /\ socket = NoSocket
    BY <1>5 DEF Closed
  <2>2. \A t \in Sockets : sockets[t] # "bound" /\ (t # s => sockets[t] # "closing")
    BY <2>1, SocketIsNoNone
  <2> QED BY <2>1, <2>2 DEF SocketTypeOK
<1>6. CASE UNCHANGED socketVars /\ mode' \in {mode, "normal", "configuring"}
  BY <1>6 DEF socketVars
<1>7. CallStep \/ DataStep \/ TxStep \/ BoardStep \/ UNCHANGED vars =>
        UNCHANGED socketVars /\ mode' \in {mode, "normal", "configuring"}
  <2>1. CallStep => UNCHANGED socketVars /\ mode' \in {mode, "normal", "configuring"}
    BY DEF CallStep, StartCall, SendConfigOnce, Timeout, WriteFailed, Reject
  <2>2. DataStep => UNCHANGED socketVars /\ mode' \in {mode, "normal", "configuring"}
    BY DEF DataStep, Buffer, ConfigOk, Emit
  <2>3. TxStep => UNCHANGED socketVars /\ mode' \in {mode, "normal", "configuring"}
    BY DEF TxStep, Enqueue, TxSend, TxSent, AirtimeOver
  <2>4. BoardStep => UNCHANGED socketVars /\ mode' \in {mode, "normal", "configuring"}
    BY DEF BoardStep, PumpBridge, UsbConfig, EmitReceivedFrame, BoardRestarts
  <2> QED BY <2>1, <2>2, <2>3, <2>4 DEF vars
<1> QED BY <1>1, <1>2, <1>3, <1>4, <1>5, <1>6, <1>7 DEF Next, SocketStep

\* As long as calls of open do not overlap, no socket is left behind that still
\* brings in data, however closes, late timeouts and failing binds fall.
THEOREM OnlyCurrentListens == Spec => []OnlyCurrentSocketListens
<1>1. CASE MaxOpening <= 1
  <2>1. Init => OneSocket
    BY SocketIsNoNone DEF Init, OneSocket
  <2>2. Inv /\ OneSocket /\ [Next]_vars => OneSocket'
    BY <1>1, OneSocketStep DEF Inv, TypeOK
  <2>3. OneSocket => OnlyCurrentSocketListens
    BY DEF OneSocket, OnlyCurrentSocketListens
  <2> QED BY <2>1, <2>2, <2>3, Invariant, PTL DEF Spec
<1>2. CASE ~(MaxOpening <= 1)
  <2>1. OnlyCurrentSocketListens
    BY <1>2 DEF OnlyCurrentSocketListens
  <2> QED BY <2>1, PTL
<1> QED BY <1>1, <1>2

-----------------------------------------------------------------------------
(* Every datagram is somewhere once                                        *)

\* Datagram m is under way to the host, buffered or emitted.
Present(m) ==
    \/ m \in toHost
    \/ \E i \in 1..Len(configBuffer) : configBuffer[i] = m
    \/ \E i \in 1..Len(emitted) : emitted[i] = m

\* The board has numbered it already, and no command is on its way whose answer
\* would look the same.
Known(m) ==
    /\ m[1] = "frame" => m[2][2] \in 1..rxSeq
    /\ m[1] = "ok" /\ m[2] \in Others => m[2][2] <= usb
    /\ m[1] = "ok" /\ m[2] \in Attempts =>
         /\ m[2][2] <= tries[m[2][1]]
         /\ \A q \in toBoard : q[1] = "config" => q[2] # m[2]

CommandsNumbered ==
    /\ \A q \in toBoard : q[1] = "config" => q[2][2] <= tries[q[2][1]]
    /\ \A q, r \in toBoard : q[1] = "config" /\ r[1] = "config" /\ q[2] = r[2] => q = r

AllKnown == \A m \in ToHost : Present(m) => Known(m)

\* Nothing is in two of the three places, nor twice in one.
InOnePlace ==
    /\ \A i, j \in 1..Len(emitted) : emitted[i] = emitted[j] => i = j
    /\ \A i, j \in 1..Len(configBuffer) : configBuffer[i] = configBuffer[j] => i = j
    /\ \A i \in 1..Len(emitted) : emitted[i] \notin toHost
    /\ \A i \in 1..Len(configBuffer) : configBuffer[i] \notin toHost
    /\ \A i \in 1..Len(emitted), j \in 1..Len(configBuffer) : emitted[i] # configBuffer[j]

Once == CommandsNumbered /\ AllKnown /\ InOnePlace

LEMMA AppendOnce ==
  ASSUME NEW S, NEW s \in Seq(S), NEW m \in S,
         \A i, j \in 1..Len(s) : s[i] = s[j] => i = j,
         \A i \in 1..Len(s) : s[i] # m
  PROVE  /\ \A i, j \in 1..Len(Append(s, m)) : Append(s, m)[i] = Append(s, m)[j] => i = j
         /\ \A i \in 1..Len(Append(s, m)) :
              Append(s, m)[i] = m \/ \E k \in 1..Len(s) : Append(s, m)[i] = s[k]
<1> DEFINE t == Append(s, m)
<1>1. Len(t) = Len(s) + 1 /\ Len(s) \in Nat
  BY AppendProperties, LenProperties
<1>2. (\A i \in 1..Len(s) : t[i] = s[i]) /\ t[Len(s) + 1] = m
  BY AppendProperties
<1> HIDE DEF t
<1>3. \A i \in 1..Len(t) : i \in 1..Len(s) \/ i = Len(s) + 1
  BY <1>1
<1>4. \A i, j \in 1..Len(t) : t[i] = t[j] => i = j
  BY <1>1, <1>2, <1>3
<1>5. \A i \in 1..Len(t) : t[i] = m \/ \E k \in 1..Len(s) : t[i] = s[k]
  BY <1>2, <1>3
<1> QED BY <1>4, <1>5 DEF t

\* In words that need not be expanded: no member twice, no member in common,
\* no member but those of s and t.
Distinct(s) == \A i, j \in 1..Len(s) : s[i] = s[j] => i = j
Apart(s, t) == \A i \in 1..Len(s), j \in 1..Len(t) : s[i] # t[j]
MadeOf(u, s, t) ==
  \A i \in 1..Len(u) :
    \/ \E k \in 1..Len(s) : u[i] = s[k]
    \/ \E k \in 1..Len(t) : u[i] = t[k]

LEMMA ConcatDistinct ==
  ASSUME NEW S, NEW s \in Seq(S), NEW t \in Seq(S), Distinct(s), Distinct(t), Apart(s, t)
  PROVE  Distinct(s \o t) /\ MadeOf(s \o t, s, t)
<1> USE DEF Distinct, Apart
<1> DEFINE u == s \o t
<1>1. /\ Len(s) \in Nat /\ Len(t) \in Nat /\ Len(u) = Len(s) + Len(t)
      /\ \A i \in 1..(Len(s) + Len(t)) : u[i] = IF i <= Len(s) THEN s[i] ELSE t[i - Len(s)]
  BY ConcatProperties, LenProperties
<1> HIDE DEF u
<1>2. ASSUME NEW i \in 1..Len(u)
      PROVE  \/ i \in 1..Len(s) /\ u[i] = s[i]
             \/ i - Len(s) \in 1..Len(t) /\ ~(i <= Len(s)) /\ u[i] = t[i - Len(s)]
  BY <1>1
<1>3. ASSUME NEW i \in 1..Len(u), NEW j \in 1..Len(u), u[i] = u[j]
      PROVE  i = j
  <2>1. CASE i \in 1..Len(s) /\ j \in 1..Len(s)
    BY <1>1, <1>2, <1>3, <2>1
  <2>2. CASE i \in 1..Len(s) /\ ~(j \in 1..Len(s))
    BY <1>2, <1>3, <2>2
  <2>3. CASE ~(i \in 1..Len(s)) /\ j \in 1..Len(s)
    BY <1>2, <1>3, <2>3
  <2>4. CASE ~(i \in 1..Len(s)) /\ ~(j \in 1..Len(s))
    <3>1. i - Len(s) \in 1..Len(t) /\ j - Len(s) \in 1..Len(t)
      BY <1>2, <2>4
    <3>2. t[i - Len(s)] = t[j - Len(s)]
      BY <1>2, <1>3, <2>4
    <3>3. i - Len(s) = j - Len(s)
      BY <3>1, <3>2
    <3> QED BY <1>1, <3>3
  <2> QED BY <2>1, <2>2, <2>3, <2>4
<1>4. Distinct(u) /\ MadeOf(u, s, t)
  BY <1>2, <1>3 DEF MadeOf
<1> HIDE DEF Distinct, Apart
<1> QED BY <1>4 DEF u

\* Attempts and the rest are told apart.
LEMMA OthersDiffer ==
  /\ \A c \in ConfigCalls, n \in Nat : <<c, n>> \in Attempts /\ <<c, n>> \notin Others
  /\ \A n \in Nat : <<None, n>> \in Others /\ <<None, n>> \notin Attempts
  /\ Attempts \cap Others = {}
BY NoneIsNoCall DEF Attempts, Others

\* The steps that put nothing new on its way, and number nothing.
LEMMA OnceUnchanged ==
  ASSUME Inv, Once, UNCHANGED <<emitted, configBuffer, toHost, tries, rxSeq, usb>>,
         \A q \in toBoard' : q[1] = "config" => q \in toBoard
  PROVE  Once'
<1> USE DEF Once
<1>1. CommandsNumbered'
  BY DEF CommandsNumbered
<1>2. AllKnown'
  BY DEF AllKnown, Present, Known
<1>3. InOnePlace'
  BY DEF InOnePlace
<1> QED BY <1>1, <1>2, <1>3

\* The board puts a new datagram on its way.
LEMMA OnceFresh ==
  ASSUME Inv, Once, UNCHANGED <<emitted, configBuffer>>, NEW f, ~Present(f),
         toHost' \in {toHost, toHost \cup {f}}
  PROVE  InOnePlace' /\ \A m : Present(m)' => Present(m) \/ m = f
<1>1. InOnePlace'
  BY DEF Once, InOnePlace, Present
<1>2. ASSUME NEW m, Present(m)'
      PROVE  Present(m) \/ m = f
  BY <1>2 DEF Present
<1> QED BY <1>1, <1>2

LEMMA OnceSocketTx ==
  ASSUME Inv, Once, SocketStep \/ TxStep \/ UNCHANGED vars
  PROVE  Once'
<1>1. UNCHANGED <<emitted, configBuffer, toHost, tries, rxSeq, usb>>
  BY DEF SocketStep, Close, Open, Bound, BindFailed, Closed, TxStep, Enqueue, TxSend, TxSent,
         AirtimeOver, vars, dataVars, callVars, boardVars
<1>2. \A q \in toBoard' : q[1] = "config" => q \in toBoard
  <2>1. CASE SocketStep
    BY <2>1 DEF SocketStep, Close, Open, Bound, BindFailed, Closed
  <2>2. CASE TxSend
    <3>1. txQueue # <<>> => Head(txQueue) \in {"send", "text"}
      BY HeadTailProperties DEF Inv, TypeOK, TxTypeOK
    <3> QED BY <2>2, <3>1 DEF TxSend
  <2>3. CASE UNCHANGED toBoard
    BY <2>3
  <2> QED BY <2>1, <2>2, <2>3 DEF TxStep, Enqueue, TxSent, AirtimeOver, vars
<1> QED BY <1>1, <1>2, OnceUnchanged

\* A new attempt: its command carries a number that was never used.
LEMMA OnceSendConfig ==
  ASSUME Inv, Once, NEW c \in ConfigCalls, SendConfigOnce(c)
  PROVE  Once'
<1> USE DEF Once
<1> DEFINE new == <<"config", <<c, tries[c] + 1>>, socket>>
<1>1. /\ tries' = [tries EXCEPT ![c] = tries[c] + 1] /\ tries \in [ConfigCalls -> Nat]
      /\ toBoard \subseteq ToBoard /\ toHost \subseteq ToHost
  BY DEF SendConfigOnce, Inv, TypeOK, CallTypeOK, DataTypeOK
<1>2. toBoard' \subseteq toBoard \cup {new}
  BY DEF SendConfigOnce, SendUdp
<1>3. UNCHANGED <<emitted, toHost, rxSeq, usb>> /\ configBuffer' = <<>>
  BY DEF SendConfigOnce, ResetConfigBuffer, boardVars
<1>4. \A q \in toBoard : q[1] = "config" =>
        /\ q[2][1] \in ConfigCalls /\ q[2][2] \in Nat /\ q[2] = <<q[2][1], q[2][2]>>
        /\ q[2][2] <= tries[q[2][1]] /\ q[2] # <<c, tries[c] + 1>>
  <2> TAKE q \in toBoard
  <2> HAVE q[1] = "config"
  <2>1. q[2][1] \in ConfigCalls /\ q[2][2] \in Nat /\ q[2] = <<q[2][1], q[2][2]>>
    BY <1>1, ToBoardParts
  <2>2. q[2][2] <= tries[q[2][1]]
    BY DEF CommandsNumbered
  <2>3. ASSUME q[2] = <<c, tries[c] + 1>> PROVE FALSE
    BY <1>1, <2>2, <2>3
  <2> QED BY <2>1, <2>2, <2>3
<1>5. CommandsNumbered'
  <2>1. ASSUME NEW q \in toBoard', q[1] = "config" PROVE q[2][2] <= tries'[q[2][1]]
    <3>1. CASE q = new
      BY <1>1, <3>1
    <3>2. CASE q \in toBoard
      BY <1>1, <1>4, <2>1, <3>2
    <3> QED BY <1>2, <3>1, <3>2
  <2>2. ASSUME NEW q \in toBoard', NEW r \in toBoard', q[1] = "config", r[1] = "config",
               q[2] = r[2]
        PROVE  q = r
    <3>1. CASE q \in toBoard /\ r \in toBoard
      BY <2>2, <3>1 DEF CommandsNumbered
    <3>2. CASE q = new \/ r = new
      BY <1>2, <1>4, <2>2, <3>2
    <3> QED BY <1>2, <3>1, <3>2
  <2> QED BY <2>1, <2>2 DEF CommandsNumbered
<1>6. ASSUME NEW m \in ToHost, Present(m)' PROVE Known(m)'
  <2>1. Present(m)
    BY <1>3, <1>6 DEF Present
  <2>2. Known(m)
    BY <2>1 DEF AllKnown
  <2>3. ASSUME m[1] = "ok", m[2] \in Attempts
        PROVE  /\ m[2][2] <= tries'[m[2][1]]
               /\ \A q \in toBoard' : q[1] = "config" => q[2] # m[2]
    <3>1. m[2][1] \in ConfigCalls /\ m[2][2] \in Nat /\ m[2][2] <= tries[m[2][1]]
      BY <2>2, <2>3 DEF Known, Attempts
    <3>2. m[2] # <<c, tries[c] + 1>>
      BY <1>1, <3>1
    <3>3. m[2][2] <= tries'[m[2][1]]
      BY <1>1, <3>1
    <3> QED BY <1>2, <2>2, <2>3, <3>2, <3>3 DEF Known
  <2> QED BY <1>3, <2>2, <2>3 DEF Known
<1>7. AllKnown'
  BY <1>6 DEF AllKnown
<1>8. InOnePlace'
  BY <1>3 DEF InOnePlace
<1> QED BY <1>5, <1>7, <1>8

LEMMA OnceCall ==
  ASSUME Inv, Once, CallStep
  PROVE  Once'
<1>1. CASE \E c \in ConfigCalls : SendConfigOnce(c)
  BY <1>1, OnceSendConfig
<1>2. CASE UNCHANGED <<emitted, configBuffer, toHost, tries, rxSeq, usb, toBoard>>
  BY <1>2, OnceUnchanged
<1> QED BY <1>1, <1>2 DEF CallStep, StartCall, Timeout, WriteFailed, dataVars, boardVars

\* A datagram moves on: out of the network, into the buffer, out of it.
LEMMA OnceData ==
  ASSUME Inv, Once, DataStep
  PROVE  Once'
<1> USE DEF Once
<1> PICK m \in toHost : Buffer(m) \/ ConfigOk(m) \/ Emit(m)
  BY DEF DataStep
<1>1. /\ m \in ToHost /\ configBuffer \in Seq(ToHost) /\ emitted \in Seq(ToHost)
      /\ toHost \subseteq ToHost
  BY DEF Inv, TypeOK, DataTypeOK
<1>2. toHost' = toHost \ {m}
  <2>1. Arrives(m)
    BY DEF Buffer, ConfigOk, Emit
  <2> QED BY <2>1 DEF Arrives
<1>3. UNCHANGED <<tries, toBoard, rxSeq, usb>>
  BY DEF Buffer, ConfigOk, Emit, callVars, boardVars
<1>4. ASSUME InOnePlace', \A d : Present(d)' => Present(d)
      PROVE  Once'
  <2>1. CommandsNumbered'
    BY <1>3 DEF CommandsNumbered
  <2>2. AllKnown'
    BY <1>3, <1>4 DEF AllKnown, Known
  <2> QED BY <1>4, <2>1, <2>2
<1>5. /\ \A i \in 1..Len(emitted) : emitted[i] # m
      /\ \A i \in 1..Len(configBuffer) : configBuffer[i] # m
  BY DEF InOnePlace
<1>6. CASE Buffer(m)
  <2>1. configBuffer' = Append(configBuffer, m) /\ emitted' = emitted
    BY <1>6 DEF Buffer
  <2>2. /\ \A i, j \in 1..Len(configBuffer') : configBuffer'[i] = configBuffer'[j] => i = j
        /\ \A i \in 1..Len(configBuffer') :
             configBuffer'[i] = m \/ \E k \in 1..Len(configBuffer) : configBuffer'[i] = configBuffer[k]
    BY <1>1, <1>5, <2>1, AppendOnce DEF InOnePlace
  <2>3. InOnePlace'
    BY <1>2, <1>5, <2>1, <2>2 DEF InOnePlace
  <2>4. ASSUME NEW d, Present(d)' PROVE Present(d)
    BY <1>2, <2>1, <2>2, <2>4 DEF Present
  <2> QED BY <1>4, <2>3, <2>4
<1>7. CASE Emit(m)
  <2>1. emitted' = Append(emitted, m) /\ configBuffer' = configBuffer
    BY <1>7 DEF Emit
  <2>2. /\ \A i, j \in 1..Len(emitted') : emitted'[i] = emitted'[j] => i = j
        /\ \A i \in 1..Len(emitted') :
             emitted'[i] = m \/ \E k \in 1..Len(emitted) : emitted'[i] = emitted[k]
    BY <1>1, <1>5, <2>1, AppendOnce DEF InOnePlace
  <2>3. InOnePlace'
    BY <1>2, <1>5, <2>1, <2>2 DEF InOnePlace
  <2>4. ASSUME NEW d, Present(d)' PROVE Present(d)
    BY <1>2, <2>1, <2>2, <2>4 DEF Present
  <2> QED BY <1>4, <2>3, <2>4
<1>8. CASE ConfigOk(m)
  <2>1. emitted' = emitted \o configBuffer /\ configBuffer' = <<>>
    BY <1>8 DEF ConfigOk, EmitBefore, ResetConfigBuffer
  <2>2. /\ \A i, j \in 1..Len(emitted') : emitted'[i] = emitted'[j] => i = j
        /\ \A i \in 1..Len(emitted') :
             \/ \E k \in 1..Len(emitted) : emitted'[i] = emitted[k]
             \/ \E k \in 1..Len(configBuffer) : emitted'[i] = configBuffer[k]
    <3>1. Distinct(emitted) /\ Distinct(configBuffer) /\ Apart(emitted, configBuffer)
      BY DEF InOnePlace, Distinct, Apart
    <3>2. /\ Distinct(emitted \o configBuffer)
          /\ MadeOf(emitted \o configBuffer, emitted, configBuffer)
      BY ONLY <1>1, <3>1, ConcatDistinct
    <3> QED BY ONLY <2>1, <3>2 DEF Distinct, MadeOf
  <2>3. InOnePlace'
    BY <1>2, <2>1, <2>2 DEF InOnePlace
  <2>4. ASSUME NEW d, Present(d)' PROVE Present(d)
    <3>1. d \in toHost' \/ \E i \in 1..Len(emitted') : emitted'[i] = d
      BY <2>1, <2>4 DEF Present
    <3>2. d \in toHost' => Present(d)
      BY <1>2 DEF Present
    <3>3. ASSUME NEW i \in 1..Len(emitted'), emitted'[i] = d PROVE Present(d)
      BY <2>2, <3>3 DEF Present
    <3> QED BY <3>1, <3>2, <3>3
  <2> QED BY <1>4, <2>3, <2>4
<1> QED BY <1>6, <1>7, <1>8

\* Every answer and every frame the board sends is a new one.
LEMMA OnceBoard ==
  ASSUME Inv, Once, BoardStep
  PROVE  Once'
<1> USE DEF Once
<1>1. UNCHANGED <<emitted, configBuffer, tries>>
  BY DEF BoardStep, PumpBridge, UsbConfig, EmitReceivedFrame, BoardRestarts, dataVars, callVars
<1>2. toBoard \subseteq ToBoard /\ rxSeq \in Nat /\ usb \in Nat
  BY DEF Inv, TypeOK, DataTypeOK, BoardTypeOK
<1>3. ASSUME NEW q \in toBoard, PumpBridge(q) PROVE Once'
  <2>1. toBoard' = toBoard \ {q} /\ UNCHANGED <<rxSeq, usb>>
    BY <1>3 DEF PumpBridge
  <2>2. CASE q[1] # "config"
    <3>1. UNCHANGED toHost
      BY <1>3, <2>2 DEF PumpBridge
    <3> QED BY <1>1, <2>1, <3>1, OnceUnchanged
  <2>3. CASE q[1] = "config"
    <3> DEFINE f == <<"ok", q[2], q[3]>>
    <3>1. /\ toHost' \in {toHost, toHost \cup {f}}
          /\ q[2] \in Attempts /\ f \in ToHost
      BY <1>2, <1>3, <2>3, ToBoardParts DEF PumpBridge, SendToHost, ToHost
    <3>2. ~Known(f)
      BY <2>3, <3>1 DEF Known
    <3>3. ~Present(f)
      BY <3>1, <3>2 DEF AllKnown
    <3> HIDE DEF f
    <3>4. InOnePlace' /\ \A d : Present(d)' => Present(d) \/ d = f
      BY <1>1, <3>1, <3>3, OnceFresh
    <3>5. ASSUME NEW d \in ToHost, Known(d) PROVE Known(d)'
      BY <1>1, <2>1, <3>5 DEF Known
    <3>6. Known(f)'
      <4>1. q[2][2] <= tries[q[2][1]] /\ \A r \in toBoard' : r[1] = "config" => r[2] # q[2]
        BY <2>1, <2>3 DEF CommandsNumbered
      <4>2. q[2] \notin Others
        BY <3>1, OthersDiffer
      <4> QED BY <1>1, <3>1, <4>1, <4>2 DEF Known, f
    <3>7. AllKnown'
      BY <3>4, <3>5, <3>6 DEF AllKnown
    <3>8. CommandsNumbered'
      BY <1>1, <2>1 DEF CommandsNumbered
    <3> QED BY <3>4, <3>7, <3>8
  <2> QED BY <2>2, <2>3
<1>4. ASSUME NEW f \in ToHost, toHost' \in {toHost, toHost \cup {f}}, ~Known(f),
             UNCHANGED toBoard, rxSeq' \in {rxSeq, rxSeq + 1}, usb' \in {usb, usb + 1},
             Known(f)'
      PROVE  Once'
  <2>1. ~Present(f)
    BY <1>4 DEF AllKnown
  <2>2. InOnePlace' /\ \A d : Present(d)' => Present(d) \/ d = f
    BY <1>1, <1>4, <2>1, OnceFresh
  <2>3. ASSUME NEW d \in ToHost, Known(d) PROVE Known(d)'
    <3>1. d[2][2] \in Nat
      BY ToHostParts
    <3>2. rxSeq <= rxSeq' /\ usb <= usb' /\ rxSeq' \in Nat /\ usb' \in Nat
      BY <1>2, <1>4
    <3> QED BY <1>1, <1>2, <1>4, <2>3, <3>1, <3>2 DEF Known
  <2>4. AllKnown'
    BY <1>4, <2>2, <2>3 DEF AllKnown
  <2>5. CommandsNumbered'
    BY <1>1, <1>4 DEF CommandsNumbered
  <2> QED BY <2>2, <2>4, <2>5
<1>5. ASSUME replyTo # NoSocket PROVE replyTo \in Sockets
  BY <1>5 DEF Inv, TypeOK, BoardTypeOK
<1>6. CASE UsbConfig
  <2>1. UNCHANGED <<toBoard, rxSeq>> /\ usb' = usb + 1
    BY <1>6 DEF UsbConfig
  <2>2. CASE replyTo = NoSocket
    <3>1. UNCHANGED toHost
      BY <1>6, <2>2 DEF UsbConfig, SendToHost
    <3>2. AllKnown'
      <4> SUFFICES ASSUME NEW d \in ToHost, Present(d)' PROVE Known(d)'
        BY DEF AllKnown
      <4>1. Known(d) /\ d[2][2] \in Nat
        BY <1>1, <3>1, ToHostParts DEF AllKnown, Present
      <4> QED BY <1>1, <1>2, <2>1, <4>1 DEF Known
    <3>3. CommandsNumbered' /\ InOnePlace'
      BY <1>1, <2>1, <3>1 DEF CommandsNumbered, InOnePlace
    <3> QED BY <3>2, <3>3
  <2>3. CASE replyTo # NoSocket
    <3> PICK s \in Sockets, n \in Nat : s = replyTo /\ n = usb + 1
      BY <1>2, <1>5, <2>3
    <3> DEFINE f == <<"ok", <<None, n>>, s>>
    <3>1. f \in ToHost /\ toHost' \in {toHost, toHost \cup {f}}
      BY <1>6, <2>3, DatagramTypes DEF UsbConfig, SendToHost
    <3>2. <<None, n>> \in Others /\ <<None, n>> \notin Attempts
      BY OthersDiffer
    <3>3. ~Known(f)
      BY <1>2, <3>2 DEF Known
    <3>4. Known(f)'
      BY <1>2, <2>1, <3>2 DEF Known
    <3> QED BY <1>4, <2>1, <3>1, <3>3, <3>4
  <2> QED BY <2>2, <2>3
<1>7. CASE EmitReceivedFrame
  <2>1. UNCHANGED <<toBoard, usb>> /\ rxSeq' = rxSeq + 1
    BY <1>7 DEF EmitReceivedFrame
  <2>2. CASE replyTo = NoSocket
    <3>1. UNCHANGED toHost
      BY <1>7, <2>2 DEF EmitReceivedFrame, SendToHost
    <3>2. AllKnown'
      <4> SUFFICES ASSUME NEW d \in ToHost, Present(d)' PROVE Known(d)'
        BY DEF AllKnown
      <4>1. Known(d) /\ d[2][2] \in Nat
        BY <1>1, <3>1, ToHostParts DEF AllKnown, Present
      <4> QED BY <1>1, <1>2, <2>1, <4>1 DEF Known
    <3>3. CommandsNumbered' /\ InOnePlace'
      BY <1>1, <2>1, <3>1 DEF CommandsNumbered, InOnePlace
    <3> QED BY <3>2, <3>3
  <2>3. CASE replyTo # NoSocket
    <3> PICK s \in Sockets, n \in Nat : s = replyTo /\ n = rxSeq + 1
      BY <1>2, <1>5, <2>3
    <3> DEFINE f == <<"frame", <<None, n>>, s>>
    <3>1. f \in ToHost /\ toHost' \in {toHost, toHost \cup {f}}
      BY <1>7, <2>3, DatagramTypes DEF EmitReceivedFrame, SendToHost
    <3>2. ~Known(f)
      BY <1>2 DEF Known
    <3>3. Known(f)'
      BY <1>2, <2>1 DEF Known
    <3> QED BY <1>4, <2>1, <3>1, <3>2, <3>3
  <2> QED BY <2>2, <2>3
<1>8. CASE BoardRestarts
  <2>1. UNCHANGED <<toHost, toBoard, rxSeq, usb>>
    BY <1>8 DEF BoardRestarts
  <2> QED BY <1>1, <2>1, OnceUnchanged
<1> QED BY <1>3, <1>6, <1>7, <1>8 DEF BoardStep

\* No frame and no answer is emitted twice, however often attempts are repeated
\* and whatever buffer a datagram waited in, and no frame the board has not
\* received: each datagram has one number and one place at a time.
THEOREM EmittedOnce == Spec => []EmitsOnce
<1>1. Init => Once
  <2> SUFFICES ASSUME Init PROVE Once
    OBVIOUS
  <2>1. CommandsNumbered
    BY DEF Init, CommandsNumbered
  <2>2. AllKnown
    BY DEF Init, AllKnown, Present
  <2>3. InOnePlace
    BY DEF Init, InOnePlace
  <2> QED BY <2>1, <2>2, <2>3 DEF Once
<1>2. Inv /\ Once /\ [Next]_vars => Once'
  BY OnceSocketTx, OnceCall, OnceData, OnceBoard DEF Next
<1>3. Inv /\ Once => EmitsOnce
  <2> SUFFICES ASSUME Inv, Once, NEW i \in 1..Len(emitted), NEW j \in 1..Len(emitted),
                      emitted[i] = emitted[j]
               PROVE  i = j /\ (emitted[i][1] = "frame" => emitted[i][2][2] \in 1..rxSeq)
    BY DEF EmitsOnce
  <2>1. i = j
    BY DEF Once, InOnePlace
  <2>2. emitted[i] \in ToHost
    BY ElementOfSeq DEF Inv, TypeOK, DataTypeOK
  <2>3. Known(emitted[i])
    BY <2>2 DEF Once, AllKnown, Present
  <2> QED BY <2>1, <2>3 DEF Known
<1> QED BY <1>1, <1>2, <1>3, Invariant, PTL DEF Spec

-----------------------------------------------------------------------------
(* An application that awaits each call, as long as no attempt failed      *)

\* At most one call is pending, and a call that waits has started an attempt.
Turns ==
    /\ Sequential => \A c, d \in ConfigCalls : Pending(c) /\ Pending(d) => c = d
    /\ \A c \in ConfigCalls : pc[c] = "waiting" => tries[c] >= 1

\* What a step does to the call c that is being rejected.
Rejects(c) ==
    /\ c \in ConfigCalls /\ pc[c] = "waiting" /\ UNCHANGED tries
    /\ \E p \in {"lock", "failed"} : pc' = [pc EXCEPT ![c] = p]

LEMMA RejectMoves ==
  ASSUME Inv, Reject, UNCHANGED tries
  PROVE  Rejects(configWaiter) \/ UNCHANGED <<mode, configWaiter, pc, lockOn, tries>>
BY DEF Reject, Rejects, Inv, TypeOK, CallTypeOK, WaiterIsTimed

\* What a step can do to the calls.
LEMMA CallMoves ==
  ASSUME Inv, [Next]_vars
  PROVE  \/ UNCHANGED <<pc, tries>>
         \/ \E c \in ConfigCalls : StartCall(c)
         \/ \E c \in ConfigCalls : SendConfigOnce(c)
         \/ \E c \in ConfigCalls : Rejects(c)
         \/ \E m \in toHost : ConfigOk(m)
<1>1. CASE CallStep
  <2>1. (\E x \in timers : Timeout(x[1], x[2])) \/ (\E w \in failedWrites : WriteFailed(w))
          => \/ UNCHANGED <<pc, tries>>
             \/ \E c \in ConfigCalls : Rejects(c)
    BY RejectMoves DEF Timeout, WriteFailed, Rejects
  <2>2. QED BY <1>1, <2>1 DEF CallStep
<1>2. CASE SocketStep \/ TxStep \/ BoardStep \/ UNCHANGED vars
  BY <1>2 DEF SocketStep, Close, Open, Bound, BindFailed, Closed, TxStep, Enqueue, TxSend, TxSent,
              AirtimeOver, BoardStep, PumpBridge, UsbConfig, EmitReceivedFrame, BoardRestarts, vars,
              callVars
<1>3. CASE DataStep
  BY <1>3 DEF DataStep, Buffer, Emit, callVars
<1> QED BY <1>1, <1>2, <1>3 DEF Next

LEMMA TurnsStep ==
  ASSUME Inv, Turns, [Next]_vars
  PROVE  Turns'
<1>0. /\ pc \in [ConfigCalls -> {"idle", "lock", "waiting", "ok", "failed"}]
      /\ tries \in [ConfigCalls -> Nat]
  BY DEF Inv, TypeOK, CallTypeOK
<1>1. CASE UNCHANGED <<pc, tries>>
  BY <1>1 DEF Turns, Pending
<1>2. ASSUME NEW c \in ConfigCalls, StartCall(c) PROVE Turns'
  <2>1. /\ Sequential => \A d \in ConfigCalls : ~Pending(d)
        /\ pc' = [pc EXCEPT ![c] = "lock"] /\ tries' = tries
    BY <1>2 DEF StartCall, MayCall
  <2>2. Sequential => \A d \in ConfigCalls : (Pending(d))' => d = c
    BY <1>0, <2>1 DEF Pending
  <2>3. \A d \in ConfigCalls : pc'[d] = "waiting" => pc[d] = "waiting"
    BY <1>0, <2>1
  <2> QED BY <2>1, <2>2, <2>3 DEF Turns
<1>3. ASSUME NEW c \in ConfigCalls, NEW p \in {"waiting", "lock", "failed", "ok"}, Pending(c),
             pc' = [pc EXCEPT ![c] = p], tries' = tries \/ tries' = [tries EXCEPT ![c] = @ + 1],
             p = "waiting" => tries'[c] >= 1
      PROVE  Turns'
  <2>1. \A d \in ConfigCalls : (Pending(d))' => Pending(d)
    BY <1>0, <1>3 DEF Pending
  <2>2. \A d \in ConfigCalls : pc'[d] = "waiting" => tries'[d] >= 1
    BY <1>0, <1>3 DEF Turns
  <2> QED BY <2>1, <2>2 DEF Turns
<1>4. ASSUME NEW c \in ConfigCalls, SendConfigOnce(c) PROVE Turns'
  <2>1. /\ Pending(c) /\ pc' = [pc EXCEPT ![c] = "waiting"]
        /\ tries' = [tries EXCEPT ![c] = @ + 1]
    BY <1>4 DEF SendConfigOnce, Pending
  <2>2. tries'[c] >= 1
    BY <1>0, <2>1
  <2> QED BY <1>3, <2>1, <2>2
<1>5. ASSUME NEW c \in ConfigCalls, Rejects(c) PROVE Turns'
  BY <1>3, <1>5 DEF Rejects, Pending
<1>6. ASSUME NEW m \in toHost, ConfigOk(m) PROVE Turns'
  <2>1. configWaiter \in ConfigCalls /\ Pending(configWaiter)
    BY <1>6 DEF ConfigOk, Inv, TypeOK, CallTypeOK, WaiterIsTimed, Pending
  <2> QED BY <1>3, <1>6, <2>1 DEF ConfigOk
<1> QED BY <1>1, <1>2, <1>4, <1>5, <1>6, CallMoves

\* While no attempt fails none has failed before, and no waiter is rejected.
LEMMA NoRetriesStep ==
  ASSUME Inv, Turns, NoRetries', [Next]_vars
  PROVE  NoRetries /\ \A c \in ConfigCalls : ~Rejects(c)
<1>0. /\ pc \in [ConfigCalls -> {"idle", "lock", "waiting", "ok", "failed"}]
      /\ tries \in [ConfigCalls -> Nat]
  BY DEF Inv, TypeOK, CallTypeOK
<1>1. \A c \in ConfigCalls :
        tries'[c] <= 1 /\ (tries'[c] = 1 => pc'[c] \in {"waiting", "ok"})
  BY DEF NoRetries
<1>2. ASSUME NEW c \in ConfigCalls, Rejects(c) PROVE FALSE
  <2>1. tries[c] >= 1 /\ tries' = tries /\ pc'[c] \in {"lock", "failed"}
    BY <1>0, <1>2 DEF Rejects, Turns
  <2> QED BY <1>0, <1>1, <2>1
<1>3. ASSUME NEW d \in ConfigCalls
      PROVE  tries[d] <= 1 /\ (tries[d] = 1 => pc[d] \in {"waiting", "ok"})
  <2>1. CASE UNCHANGED <<pc, tries>>
    BY <1>1, <2>1
  <2>2. ASSUME NEW c \in ConfigCalls, StartCall(c)
        PROVE  tries[d] <= 1 /\ (tries[d] = 1 => pc[d] \in {"waiting", "ok"})
    <3>1. pc' = [pc EXCEPT ![c] = "lock"] /\ tries' = tries
      BY <2>2 DEF StartCall
    <3> QED BY <1>0, <1>1, <3>1
  <2>3. ASSUME NEW c \in ConfigCalls, SendConfigOnce(c)
        PROVE  tries[d] <= 1 /\ (tries[d] = 1 => pc[d] \in {"waiting", "ok"})
    <3>1. pc' = [pc EXCEPT ![c] = "waiting"] /\ tries' = [tries EXCEPT ![c] = @ + 1]
      BY <2>3 DEF SendConfigOnce
    <3>2. tries'[c] = tries[c] + 1
      BY <1>0, <3>1
    <3>3. d # c => pc'[d] = pc[d] /\ tries'[d] = tries[d]
      BY <1>0, <3>1
    <3> QED BY <1>0, <1>1, <3>2, <3>3
  <2>4. ASSUME NEW m \in toHost, ConfigOk(m)
        PROVE  tries[d] <= 1 /\ (tries[d] = 1 => pc[d] \in {"waiting", "ok"})
    <3>1. pc' = [pc EXCEPT ![configWaiter] = "ok"] /\ tries' = tries
          /\ pc[configWaiter] = "waiting"
      BY <2>4 DEF ConfigOk, Inv, WaiterIsTimed
    <3> QED BY <1>0, <1>1, <3>1
  <2> QED BY <1>2, <2>1, <2>2, <2>3, <2>4, CallMoves
<1> QED BY <1>2, <1>3 DEF NoRetries

\* A waiter that is still installed after a late timeout or a failed send was not
\* there to be rejected.
LEMMA NothingRejected ==
  ASSUME Inv, Reject, UNCHANGED tries, \A c \in ConfigCalls : ~Rejects(c)
  PROVE  UNCHANGED <<mode, configWaiter, pc, tries>>
<1>1. ~Rejects(configWaiter)
  BY DEF Rejects
<1> QED BY <1>1, RejectMoves

-----------------------------------------------------------------------------
(* FramesSurviveConfig                                                     *)

\* A buffer in use belongs to a call that waits, and it holds what has arrived
\* last and was not emitted.
Survives ==
    Sequential /\ NoRetries =>
      /\ mode = "configuring" \/ configBuffer = <<>> => emitted \o configBuffer = arrived
      /\ configBuffer # <<>> => \E c \in ConfigCalls : pc[c] = "waiting"

LEMMA SurvivesData ==
  ASSUME Inv, Survives, Sequential, NoRetries, DataStep
  PROVE  Survives'
<1> PICK m \in toHost : Buffer(m) \/ ConfigOk(m) \/ Emit(m)
  BY DEF DataStep
<1>0. /\ m \in ToHost /\ configBuffer \in Seq(ToHost) /\ emitted \in Seq(ToHost)
      /\ emitted \o <<>> = emitted
      /\ mode = "configuring" => \E c \in ConfigCalls : pc[c] = "waiting"
  BY ConcatEmptySeq DEF Inv, TypeOK, DataTypeOK, CallTypeOK, WaiterIsTimed
<1>1. CASE Buffer(m)
  <2>1. /\ mode = "configuring" /\ mode' = mode /\ pc' = pc /\ emitted' = emitted
        /\ configBuffer' = Append(configBuffer, m) /\ arrived' = Append(arrived, m)
    BY <1>1 DEF Buffer, Arrives, IsAnswer, callVars
  <2>2. emitted \o configBuffer = arrived
    BY <2>1 DEF Survives
  <2>3. emitted \o Append(configBuffer, m) = Append(emitted \o configBuffer, m)
    <3>1. /\ Append(configBuffer, m) = configBuffer \o <<m>> /\ <<m>> \in Seq(ToHost)
          /\ emitted \o configBuffer \in Seq(ToHost)
      BY <1>0, AppendIsConcat, ConcatProperties
    <3>2. Append(emitted \o configBuffer, m) = (emitted \o configBuffer) \o <<m>>
      BY <1>0, <3>1, AppendIsConcat
    <3> QED BY <1>0, <3>1, <3>2, ConcatAssociative
  <2> QED BY <1>0, <2>1, <2>2, <2>3 DEF Survives
<1>2. CASE ConfigOk(m)
  <2>1. /\ mode = "configuring" /\ emitted' = emitted \o configBuffer /\ configBuffer' = <<>>
        /\ arrived' = arrived
    BY <1>2 DEF ConfigOk, Arrives, IsAnswer, EmitBefore, ResetConfigBuffer
  <2>2. emitted' = arrived' /\ emitted' \in Seq(ToHost)
    BY <1>0, <2>1, ConcatProperties DEF Survives
  <2>3. emitted' \o configBuffer' = arrived'
    BY <2>1, <2>2, ConcatEmptySeq
  <2> QED BY <2>1, <2>3 DEF Survives
<1>3. CASE Emit(m)
  <2>1. /\ mode # "configuring" /\ mode' = mode /\ pc' = pc /\ emitted' = Append(emitted, m)
        /\ configBuffer' = configBuffer /\ arrived' = Append(arrived, m)
    BY <1>3 DEF Emit, Arrives, callVars
  <2>2. configBuffer = <<>> => emitted' \o configBuffer' = arrived'
    <3> SUFFICES ASSUME configBuffer = <<>> PROVE emitted' \o configBuffer' = arrived'
      OBVIOUS
    <3>1. emitted = arrived
      BY <1>0 DEF Survives
    <3>2. emitted' \in Seq(ToHost)
      BY <1>0, <2>1, AppendProperties
    <3> QED BY <2>1, <3>1, <3>2, ConcatEmptySeq
  <2> QED BY <2>1, <2>2 DEF Survives
<1> QED BY <1>1, <1>2, <1>3

LEMMA SurvivesStep ==
  ASSUME Inv, Turns, Survives, [Next]_vars
  PROVE  Survives'
<1> SUFFICES ASSUME Sequential, NoRetries'
             PROVE  Survives'
  BY DEF Survives
<1>0. NoRetries /\ \A c \in ConfigCalls : ~Rejects(c)
  BY NoRetriesStep
<1>1. ASSUME UNCHANGED dataVars, mode' = "configuring" => mode = "configuring",
             \A c \in ConfigCalls : pc[c] = "waiting" => pc'[c] = "waiting"
      PROVE  Survives'
  BY <1>0, <1>1 DEF Survives, dataVars
<1>2. CASE SocketStep \/ TxStep \/ BoardStep \/ UNCHANGED vars
  <2>1. UNCHANGED <<dataVars, pc>> /\ (mode' = "configuring" => mode = "configuring")
    BY <1>2 DEF SocketStep, Close, Open, Bound, BindFailed, Closed, TxStep, Enqueue, TxSend, TxSent,
                AirtimeOver, BoardStep, PumpBridge, UsbConfig, EmitReceivedFrame, BoardRestarts, vars,
                callVars
  <2> QED BY <1>1, <2>1
<1>3. ASSUME NEW c \in ConfigCalls, StartCall(c) PROVE Survives'
  <2>1. UNCHANGED <<dataVars, mode>> /\ pc[c] = "idle" /\ pc' = [pc EXCEPT ![c] = "lock"]
    BY <1>3 DEF StartCall, MayCall
  <2>2. \A d \in ConfigCalls : pc[d] = "waiting" => pc'[d] = "waiting"
    BY <2>1 DEF Inv, TypeOK, CallTypeOK
  <2> QED BY <1>1, <2>1, <2>2
<1>4. ASSUME NEW c \in ConfigCalls, SendConfigOnce(c) PROVE Survives'
  <2>1. configBuffer = <<>>
    <3>1. \A d \in ConfigCalls : pc[d] # "waiting"
      BY <1>4 DEF SendConfigOnce, Turns, Pending
    <3> QED BY <1>0, <3>1 DEF Survives
  <2>2. configBuffer' = <<>> /\ UNCHANGED <<emitted, arrived>>
    BY <1>4 DEF SendConfigOnce, ResetConfigBuffer
  <2>3. emitted' \o configBuffer' = arrived'
    BY <1>0, <2>1, <2>2 DEF Survives
  <2> QED BY <2>2, <2>3 DEF Survives
<1>5. ASSUME (\E x \in timers : Timeout(x[1], x[2])) \/ (\E w \in failedWrites : WriteFailed(w))
      PROVE  Survives'
  <2>1. Reject /\ UNCHANGED <<tries, dataVars>>
    BY <1>5 DEF Timeout, WriteFailed
  <2>2. UNCHANGED <<mode, pc>>
    BY <1>0, <2>1, NothingRejected
  <2> QED BY <1>1, <2>1, <2>2
<1> QED BY <1>0, <1>2, <1>3, <1>4, <1>5, SurvivesData DEF Next, CallStep

\* What comes in while a configuration is under way is emitted after what came before
\* it and before what comes after it, all of it and once, if each call is awaited,
\* unless an attempt failed or the socket was closed during one.
THEOREM FramesSurvive == Spec => []FramesSurviveConfig
<1>1. Init => Turns /\ Survives
  BY ConcatEmptySeq, EmptyIsSeq DEF Init, Turns, Pending, Survives
<1>2. Inv /\ Turns /\ Survives /\ [Next]_vars => Turns' /\ Survives'
  BY TurnsStep, SurvivesStep
<1>3. Survives => FramesSurviveConfig
  BY DEF Survives, FramesSurviveConfig
<1> QED BY <1>1, <1>2, <1>3, Invariant, PTL DEF Spec

-----------------------------------------------------------------------------
(* ResolvedMeansApplied                                                    *)

Commands == {m \in toBoard : m[1] = "config"}
Answers == {m \in toHost : m[1] = "ok"}

\* One datagram at most is on its way for the call that waits, the command or its
\* answer; what is answered or resolved has been applied.
Exchange ==
    Sequential /\ NoRetries /\ usb = 0 =>
      /\ \A x, y \in Commands \cup Answers : x = y
      /\ \A x \in Commands \cup Answers : x[2][1] \in ConfigCalls /\ pc[x[2][1]] = "waiting"
      /\ \A x \in Answers : x[2][1] \in applied
                            /\ (x[2][1] \in TxConfigs => boardTx \in {x[2][1], None})
      /\ \A c \in ConfigCalls : pc[c] = "ok" => c \in applied
      /\ boardTx \in {lastTxConfig, None} \cup {c \in ConfigCalls : Pending(c)}

\* A step that adds nothing to the exchange and settles no call.
LEMMA ExchangeShrinks ==
  ASSUME Exchange, Sequential, NoRetries, usb = 0,
         Commands' \subseteq Commands, Answers' \subseteq Answers,
         boardTx' \in {boardTx, None}, UNCHANGED <<applied, lastTxConfig>>,
         \A c \in ConfigCalls : /\ pc[c] = "waiting" => pc'[c] = "waiting"
                                /\ pc'[c] = "ok" => pc[c] = "ok"
                                /\ Pending(c) => (Pending(c))'
  PROVE  Exchange'
<1>1. /\ \A x, y \in Commands' \cup Answers' : x = y
      /\ \A x \in Commands' \cup Answers' : x[2][1] \in ConfigCalls /\ pc'[x[2][1]] = "waiting"
  BY DEF Exchange
<1>2. \A x \in Answers' : x[2][1] \in applied'
                          /\ (x[2][1] \in TxConfigs => boardTx' \in {x[2][1], None})
  BY DEF Exchange
<1>3. \A c \in ConfigCalls : pc'[c] = "ok" => c \in applied'
  BY DEF Exchange
<1>4. boardTx' \in {lastTxConfig', None} \cup {c \in ConfigCalls : (Pending(c))'}
  BY DEF Exchange
<1> QED BY <1>1, <1>2, <1>3, <1>4 DEF Exchange

LEMMA ExchangeAsk ==
  ASSUME Inv, Turns, Exchange, Sequential, NoRetries, usb = 0, NEW c \in ConfigCalls,
         SendConfigOnce(c)
  PROVE  Exchange'
<1>0. pc \in [ConfigCalls -> {"idle", "lock", "waiting", "ok", "failed"}]
  BY DEF Inv, TypeOK, CallTypeOK
<1>1. \A d \in ConfigCalls : pc[d] # "waiting"
  BY DEF SendConfigOnce, Turns, Pending
<1>2. Commands = {} /\ Answers = {}
  BY <1>1 DEF Exchange
<1>3. Commands' \subseteq {<<"config", <<c, tries[c] + 1>>, socket>>} /\ Answers' = {}
  BY <1>2 DEF Commands, Answers, SendConfigOnce, SendUdp
<1>4. UNCHANGED <<applied, boardTx, lastTxConfig>> /\ pc' = [pc EXCEPT ![c] = "waiting"]
      /\ pc[c] = "lock"
  BY DEF SendConfigOnce, boardVars, txVars
<1>5. /\ \A x, y \in Commands' \cup Answers' : x = y
      /\ \A x \in Commands' \cup Answers' : x[2][1] \in ConfigCalls /\ pc'[x[2][1]] = "waiting"
  BY <1>0, <1>3, <1>4
<1>6. \A d \in ConfigCalls : pc'[d] = "ok" => d \in applied'
  BY <1>0, <1>4 DEF Exchange
<1>7. boardTx' \in {lastTxConfig', None} \cup {d \in ConfigCalls : (Pending(d))'}
  BY <1>0, <1>4 DEF Exchange, Pending
<1> QED BY <1>3, <1>5, <1>6, <1>7 DEF Exchange

LEMMA ExchangeAnswer ==
  ASSUME Inv, Exchange, Sequential, NoRetries, usb = 0, NEW q \in toBoard, q[1] = "config",
         PumpBridge(q)
  PROVE  Exchange'
<1> DEFINE c == q[2][1]
           a == <<"ok", q[2], q[3]>>
<1>1. q \in Commands
  BY DEF Commands
<1>2. c \in ConfigCalls /\ pc[c] = "waiting" /\ Commands = {q} /\ Answers = {}
  <2>1. \A x \in Answers : x = q
    BY <1>1 DEF Exchange
  <2>2. \A x \in Answers : x[1] = "ok"
    BY DEF Answers
  <2> QED BY <1>1, <2>1, <2>2 DEF Exchange
<1>3. /\ toBoard' = toBoard \ {q} /\ toHost' \in {toHost, toHost \cup {a}}
      /\ applied' = applied \cup {c} /\ boardTx' = (IF c \in TxConfigs THEN c ELSE boardTx)
      /\ UNCHANGED <<pc, lastTxConfig>>
  BY DEF PumpBridge, SendToHost, callVars, txVars
<1>4. Commands' = {} /\ Answers' \subseteq {a}
  BY <1>2, <1>3 DEF Commands, Answers
<1>5. a[2][1] = c
  OBVIOUS
<1> HIDE DEF c, a
<1>6. /\ \A x, y \in Commands' \cup Answers' : x = y
      /\ \A x \in Commands' \cup Answers' : x[2][1] \in ConfigCalls /\ pc'[x[2][1]] = "waiting"
      /\ \A x \in Answers' : x[2][1] \in applied'
                             /\ (x[2][1] \in TxConfigs => boardTx' \in {x[2][1], None})
  BY <1>2, <1>3, <1>4, <1>5
<1>7. \A d \in ConfigCalls : pc'[d] = "ok" => d \in applied'
  BY <1>3 DEF Exchange
<1>8. boardTx' \in {lastTxConfig', None} \cup {d \in ConfigCalls : (Pending(d))'}
  BY <1>2, <1>3 DEF Exchange, Pending
<1> QED BY <1>6, <1>7, <1>8 DEF Exchange

LEMMA ExchangeRead ==
  ASSUME Inv, Turns, Exchange, Sequential, NoRetries, usb = 0, NEW m \in toHost, ConfigOk(m)
  PROVE  Exchange'
<1> DEFINE c == configWaiter
<1>0. /\ pc \in [ConfigCalls -> {"idle", "lock", "waiting", "ok", "failed"}]
      /\ c \in ConfigCalls /\ pc[c] = "waiting" /\ boardTx \in TxConfigs \cup {None}
  BY DEF ConfigOk, Inv, TypeOK, CallTypeOK, BoardTypeOK, WaiterIsTimed
<1>1. m \in Answers /\ toHost' = toHost \ {m}
  BY DEF ConfigOk, IsAnswer, Arrives, Answers
<1>2. m[2][1] = c
  BY <1>0, <1>1 DEF Exchange, Turns, Pending
<1>3. /\ UNCHANGED <<toBoard, applied, boardTx>> /\ pc' = [pc EXCEPT ![c] = "ok"]
      /\ lastTxConfig' = IF c \in TxConfigs THEN c ELSE lastTxConfig
  BY DEF ConfigOk, RememberTx, boardVars
<1> HIDE DEF c
<1>4. Commands' = {} /\ Answers' = {}
  <2>1. \A x \in Commands : x = m
    BY <1>1 DEF Exchange
  <2>2. \A x \in Answers : x = m
    BY <1>1 DEF Exchange
  <2>3. \A x \in Commands : x[1] = "config"
    BY DEF Commands
  <2>4. m[1] = "ok"
    BY <1>1 DEF Answers
  <2>5. Commands' = Commands
    BY <1>3 DEF Commands
  <2>6. Answers' = Answers \ {m}
    BY <1>1 DEF Answers
  <2> QED BY <2>1, <2>2, <2>3, <2>4, <2>5, <2>6
<1>5. c \in applied /\ (c \in TxConfigs => boardTx \in {c, None})
  BY <1>1, <1>2 DEF Exchange
<1>6. \A d \in ConfigCalls : pc'[d] = "ok" => d \in applied'
  BY <1>0, <1>3, <1>5 DEF Exchange
<1>7. \A d \in ConfigCalls : Pending(d) => d = c
  BY <1>0 DEF Turns, Pending
<1>8. boardTx' \in {lastTxConfig', None}
  <2>1. boardTx \in {lastTxConfig, None, c}
    BY <1>7 DEF Exchange
  <2> QED BY <1>0, <1>3, <1>5, <2>1, NoneIsNoCall
<1> QED BY <1>4, <1>6, <1>8 DEF Exchange

LEMMA ExchangeStep ==
  ASSUME Inv, Turns, Exchange, [Next]_vars
  PROVE  Exchange'
<1> SUFFICES ASSUME Sequential, NoRetries', usb' = 0
             PROVE  Exchange'
  BY DEF Exchange
<1>0. NoRetries /\ (\A c \in ConfigCalls : ~Rejects(c)) /\ usb = 0 /\ usb \in Nat
      /\ pc \in [ConfigCalls -> {"idle", "lock", "waiting", "ok", "failed"}]
  <2>1. usb' = usb \/ usb' = usb + 1
    BY DEF Next, SocketStep, Close, Open, Bound, BindFailed, Closed, CallStep, StartCall,
           SendConfigOnce, Timeout, WriteFailed, DataStep, Buffer, ConfigOk, Emit, TxStep, Enqueue,
           TxSend, TxSent, AirtimeOver, BoardStep, PumpBridge, UsbConfig, EmitReceivedFrame,
           BoardRestarts, vars, boardVars
  <2>2. usb \in Nat /\ pc \in [ConfigCalls -> {"idle", "lock", "waiting", "ok", "failed"}]
    BY DEF Inv, TypeOK, BoardTypeOK, CallTypeOK
  <2> QED BY <2>1, <2>2, NoRetriesStep
<1>1. ASSUME UNCHANGED <<pc, applied, lastTxConfig>>, boardTx' \in {boardTx, None},
             Commands' \subseteq Commands, Answers' \subseteq Answers
      PROVE  Exchange'
  BY <1>0, <1>1, ExchangeShrinks DEF Pending
<1>2. CASE SocketStep
  <2>1. UNCHANGED <<pc, applied, lastTxConfig, boardTx, toHost>>
    BY <1>2 DEF SocketStep, Close, Open, Bound, BindFailed, Closed, callVars, boardVars, txVars
  <2>2. Commands' \subseteq Commands
    BY <1>2 DEF SocketStep, Close, Open, Bound, BindFailed, Closed, Commands
  <2> QED BY <1>1, <2>1, <2>2 DEF Answers
<1>3. ASSUME NEW c \in ConfigCalls, StartCall(c) PROVE Exchange'
  <2>1. /\ UNCHANGED <<toBoard, toHost, applied, lastTxConfig, boardTx>>
        /\ pc[c] = "idle" /\ pc' = [pc EXCEPT ![c] = "lock"]
    BY <1>3 DEF StartCall, MayCall, txVars, boardVars
  <2>2. \A d \in ConfigCalls : /\ pc[d] = "waiting" => pc'[d] = "waiting"
                               /\ pc'[d] = "ok" => pc[d] = "ok"
                               /\ Pending(d) => (Pending(d))'
    BY <1>0, <2>1 DEF Pending
  <2>3. Commands' \subseteq Commands /\ Answers' \subseteq Answers
    BY <2>1 DEF Commands, Answers
  <2> QED BY <1>0, <2>1, <2>2, <2>3, ExchangeShrinks
<1>4. ASSUME NEW c \in ConfigCalls, SendConfigOnce(c) PROVE Exchange'
  BY <1>0, <1>4, ExchangeAsk
<1>5. ASSUME (\E x \in timers : Timeout(x[1], x[2])) \/ (\E w \in failedWrites : WriteFailed(w))
      PROVE  Exchange'
  <2>1. Reject /\ UNCHANGED <<tries, toBoard, toHost, applied, lastTxConfig, boardTx>>
    BY <1>5 DEF Timeout, WriteFailed, txVars, boardVars
  <2>2. UNCHANGED pc
    BY <1>0, <2>1, NothingRejected
  <2> QED BY <1>1, <2>1, <2>2 DEF Commands, Answers
<1>6. CASE DataStep
  <2> PICK m \in toHost : Buffer(m) \/ ConfigOk(m) \/ Emit(m)
    BY <1>6 DEF DataStep
  <2>1. CASE ConfigOk(m)
    BY <1>0, <2>1, ExchangeRead
  <2>2. CASE Buffer(m) \/ Emit(m)
    <3>1. UNCHANGED <<pc, applied, lastTxConfig, boardTx, toBoard>> /\ toHost' \subseteq toHost
      BY <2>2 DEF Buffer, Emit, Arrives, callVars, txVars, boardVars
    <3> QED BY <1>1, <3>1 DEF Commands, Answers
  <2> QED BY <2>1, <2>2
<1>7. CASE TxStep
  <2>1. UNCHANGED <<pc, applied, lastTxConfig, boardTx, toHost>>
    BY <1>7 DEF TxStep, Enqueue, TxSend, TxSent, AirtimeOver, callVars, boardVars
  <2>2. Commands' \subseteq Commands
    <3>1. txQueue # <<>> => Head(txQueue) \in {"send", "text"}
      BY HeadTailProperties DEF Inv, TypeOK, TxTypeOK
    <3> QED BY <1>7, <3>1 DEF TxStep, Enqueue, TxSend, TxSent, AirtimeOver, Commands
  <2> QED BY <1>1, <2>1, <2>2 DEF Answers
<1>8. CASE BoardStep
  <2>1. ASSUME NEW q \in toBoard, PumpBridge(q) PROVE Exchange'
    <3>1. CASE q[1] = "config"
      BY <1>0, <2>1, <3>1, ExchangeAnswer
    <3>2. CASE q[1] # "config"
      <4>1. UNCHANGED <<pc, applied, lastTxConfig, boardTx, toHost>> /\ toBoard' \subseteq toBoard
        BY <2>1, <3>2 DEF PumpBridge, callVars, txVars
      <4> QED BY <1>1, <4>1 DEF Commands, Answers
    <3> QED BY <3>1, <3>2
  <2>2. ~UsbConfig
    BY <1>0 DEF UsbConfig
  <2>3. CASE EmitReceivedFrame
    <3>1. UNCHANGED <<pc, applied, lastTxConfig, boardTx, toBoard>>
      BY <2>3 DEF EmitReceivedFrame, callVars, txVars
    <3>2. Answers' \subseteq Answers
      BY <2>3 DEF EmitReceivedFrame, SendToHost, Answers
    <3> QED BY <1>1, <3>1, <3>2 DEF Commands
  <2>4. CASE BoardRestarts
    BY <1>1, <2>4 DEF BoardRestarts, callVars, txVars, Commands, Answers
  <2> QED BY <1>8, <2>1, <2>2, <2>3, <2>4 DEF BoardStep
<1>9. CASE UNCHANGED vars
  BY <1>1, <1>9 DEF vars, callVars, txVars, boardVars, Commands, Answers
<1> QED BY <1>2, <1>3, <1>4, <1>5, <1>6, <1>7, <1>8, <1>9 DEF Next, CallStep

\* If each call is awaited, no attempt failed and nobody configured the board over
\* USB, CONFIG_OK answers the very configuration that waits: it is in force, and the
\* driver computes the airtime from the board's settings, whatever the network
\* delayed and wherever the board answered to.
THEOREM ResolvedApplies == Spec => []ResolvedMeansApplied
<1>1. Init => Turns /\ Exchange
  BY DEF Init, Turns, Pending, Exchange, Commands, Answers
<1>2. Inv /\ Turns /\ Exchange /\ [Next]_vars => Turns' /\ Exchange'
  BY TurnsStep, ExchangeStep
<1>3. Exchange => ResolvedMeansApplied
  BY DEF Exchange, ResolvedMeansApplied
<1> QED BY <1>1, <1>2, <1>3, Invariant, PTL DEF Spec
-----------------------------------------------------------------------------
(* What loses a received frame                                             *)

\* The buffer of the mode, in which nothing else looks once the mode is another.
Buffered == IF mode = "configuring" THEN configBuffer ELSE <<>>

Holds(s, m) == \E i \in 1..Len(s) : s[i] = m

\* The radio frames on their way to the driver, and whatever it buffers or has
\* emitted.
Retained == {m \in ToHost : (m \in toHost /\ m[1] = "frame") \/ Holds(emitted, m) \/ Holds(Buffered, m)}

\* A 'close' event, an attempt that ends without an answer, a call that starts
\* while another one waits, a socket that is bound.
SocketClosed == \E s \in Sockets : Closed(s)
AttemptFails == \E c \in ConfigCalls : pc[c] = "waiting" /\ pc'[c] \in {"lock", "failed"}
TakenOver ==
    \E c, d \in ConfigCalls : pc[c] = "lock" /\ pc'[c] = "waiting" /\ pc[d] = "waiting"
SocketBound == \E s \in Sockets : Bound(s)

\* What is retained no longer was in the buffer when a 'close' event came, an
\* attempt failed, another call took over or another open() completed: nothing
\* gets lost on the way into the buffer and out of it.
OnlyFailuresLose ==
    [][\A m \in Retained \ Retained' :
         Holds(Buffered, m) /\ (SocketClosed \/ AttemptFails \/ TakenOver \/ SocketBound)]_vars

\* The members of a sequence after another one is put behind it.
LEMMA HoldsConcat ==
  ASSUME NEW S, NEW s \in Seq(S), NEW u \in Seq(S), NEW m, Holds(s, m) \/ Holds(u, m)
  PROVE  Holds(s \o u, m)
<1>1. /\ Len(s) \in Nat /\ Len(u) \in Nat /\ Len(s \o u) = Len(s) + Len(u)
      /\ \A i \in 1..(Len(s) + Len(u)) : (s \o u)[i] = IF i <= Len(s) THEN s[i] ELSE u[i - Len(s)]
  BY LenProperties, ConcatProperties
<1> DEFINE w == s \o u
<1> HIDE DEF w
<1>2. /\ Len(s) \in Nat /\ Len(u) \in Nat /\ Len(w) = Len(s) + Len(u)
      /\ \A i \in 1..(Len(s) + Len(u)) : w[i] = IF i <= Len(s) THEN s[i] ELSE u[i - Len(s)]
  BY <1>1 DEF w
<1>3. ASSUME NEW i \in 1..Len(s), s[i] = m
      PROVE  Holds(w, m)
  <2>1. i \in 1..Len(w) /\ w[i] = m
    BY <1>2, <1>3
  <2> QED BY <2>1 DEF Holds
<1>4. ASSUME NEW i \in 1..Len(u), u[i] = m
      PROVE  Holds(w, m)
  <2>1. Len(s) + i \in 1..Len(w) /\ w[Len(s) + i] = m
    <3>1. /\ Len(s) + i \in 1..(Len(s) + Len(u)) /\ ~(Len(s) + i <= Len(s))
          /\ (Len(s) + i) - Len(s) = i
      BY <1>2
    <3> QED BY <1>2, <1>4, <3>1
  <2> QED BY <2>1 DEF Holds
<1> QED BY <1>3, <1>4 DEF Holds, w

LEMMA HoldsAppend ==
  ASSUME NEW S, NEW s \in Seq(S), NEW e \in S, NEW m, Holds(s, m) \/ m = e
  PROVE  Holds(Append(s, e), m)
<1> DEFINE w == Append(s, e)
<1>1. /\ Len(s) \in Nat /\ Len(w) = Len(s) + 1
      /\ \A i \in 1..Len(s) : w[i] = s[i]
      /\ w[Len(s) + 1] = e
  BY LenProperties, AppendProperties
<1> HIDE DEF w
<1>2. ASSUME NEW i \in 1..Len(s), s[i] = m
      PROVE  Holds(w, m)
  <2>1. i \in 1..Len(w) /\ w[i] = m
    BY <1>1, <1>2
  <2> QED BY <2>1 DEF Holds
<1>3. m = e => Holds(w, m)
  <2>1. Len(s) + 1 \in 1..Len(w)
    BY <1>1
  <2> QED BY <1>1, <2>1 DEF Holds
<1> QED BY <1>2, <1>3 DEF Holds, w

LEMMA HoldsNothing == \A m : ~Holds(<<>>, m)
BY DEF Holds

\* A datagram the driver takes in stays, and so does what it had.
LEMMA DataRetains ==
  ASSUME Inv, DataStep, NEW m \in Retained
  PROVE  m \in Retained'
<1> PICK d \in toHost : Buffer(d) \/ ConfigOk(d) \/ Emit(d)
  BY DEF DataStep
<1>1. /\ d \in ToHost /\ m \in ToHost /\ configBuffer \in Seq(ToHost) /\ emitted \in Seq(ToHost)
      /\ (m \in toHost /\ m[1] = "frame") \/ Holds(emitted, m) \/ Holds(Buffered, m)
  BY DEF Inv, TypeOK, DataTypeOK, Retained
<1>2. toHost' = toHost \ {d}
  <2>1. Arrives(d)
    BY DEF Buffer, ConfigOk, Emit
  <2> QED BY <2>1 DEF Arrives
<1>3. CASE Buffer(d)
  <2>1. Buffered = configBuffer /\ Buffered' = Append(configBuffer, d) /\ emitted' = emitted
    BY <1>3 DEF Buffer, Buffered
  <2>2. m = d \/ Holds(Buffered, m) => Holds(Buffered', m)
    BY <1>1, <2>1, HoldsAppend
  <2> QED BY <1>1, <1>2, <2>1, <2>2 DEF Retained
<1>4. CASE ConfigOk(d)
  <2>1. /\ Buffered = configBuffer /\ Buffered' = <<>> /\ emitted' = emitted \o configBuffer
        /\ d[1] = "ok"
    BY <1>4 DEF ConfigOk, Buffered, EmitBefore, ResetConfigBuffer, IsAnswer
  <2>2. Holds(emitted, m) \/ Holds(Buffered, m) => Holds(emitted', m)
    BY <1>1, <2>1, HoldsConcat
  <2>3. m \in toHost /\ m[1] = "frame" => m \in toHost'
    BY <1>2, <2>1
  <2> QED BY <1>1, <2>2, <2>3 DEF Retained
<1>5. CASE Emit(d)
  <2>1. Buffered = <<>> /\ Buffered' = <<>> /\ emitted' = Append(emitted, d)
    BY <1>5 DEF Emit, Buffered
  <2>2. m = d \/ Holds(emitted, m) => Holds(emitted', m)
    BY <1>1, <2>1, HoldsAppend
  <2> QED BY <1>1, <1>2, <2>1, <2>2, HoldsNothing DEF Retained
<1> QED BY <1>3, <1>4, <1>5

\* The reasons, for one step.
LEMMA StepLoses ==
  ASSUME Inv, [Next]_vars, NEW m \in Retained, m \notin Retained'
  PROVE  Holds(Buffered, m) /\ (SocketClosed \/ AttemptFails \/ TakenOver \/ SocketBound)
<1>1. ASSUME UNCHANGED emitted, toHost \subseteq toHost'
      PROVE  Holds(Buffered, m) /\ Buffered' # Buffered
  BY <1>1 DEF Retained
<1>2. CASE SocketStep
  <2>1. UNCHANGED <<dataVars, toHost>>
    BY <1>2 DEF SocketStep, Close, Open, Bound, BindFailed, Closed
  <2>2. mode' # mode
    BY <1>1, <2>1 DEF Buffered, dataVars
  <2> QED BY <1>1, <1>2, <2>1, <2>2
          DEF SocketStep, Close, Open, BindFailed, SocketClosed, SocketBound, dataVars
<1>3. ASSUME NEW c \in ConfigCalls, StartCall(c)
      PROVE  FALSE
  BY <1>1, <1>3 DEF StartCall, dataVars, Buffered
<1>4. ASSUME NEW c \in ConfigCalls, SendConfigOnce(c)
      PROVE  Holds(Buffered, m) /\ TakenOver
  <2>1. UNCHANGED <<emitted, toHost>> /\ pc[c] = "lock"
    BY <1>4 DEF SendConfigOnce
  <2>2. pc'[c] = "waiting"
    BY <1>4 DEF SendConfigOnce, Inv, TypeOK, CallTypeOK
  <2>3. Holds(Buffered, m) /\ mode = "configuring"
    BY <1>1, <2>1, HoldsNothing DEF Buffered
  <2>4. configWaiter \in ConfigCalls /\ pc[configWaiter] = "waiting"
    BY <2>3 DEF Inv, WaiterIsTimed, TypeOK, CallTypeOK
  <2> QED BY <2>1, <2>2, <2>3, <2>4 DEF TakenOver
<1>5. ASSUME Reject, UNCHANGED <<dataVars, toHost>>
      PROVE  Holds(Buffered, m) /\ AttemptFails
  <2>1. Holds(Buffered, m) /\ mode = "configuring"
    BY <1>1, <1>5, HoldsNothing DEF Buffered, dataVars
  <2>2. configWaiter \in ConfigCalls /\ pc[configWaiter] = "waiting" /\ configWaiter # None
    BY <2>1 DEF Inv, WaiterIsTimed, TypeOK, CallTypeOK
  <2>3. pc'[configWaiter] \in {"lock", "failed"}
    BY <1>5, <2>2 DEF Reject, Inv, TypeOK, CallTypeOK
  <2> QED BY <2>1, <2>2, <2>3 DEF AttemptFails
<1>6. CASE CallStep
  BY <1>3, <1>4, <1>5, <1>6 DEF CallStep, Timeout, WriteFailed
<1>7. CASE DataStep
  BY <1>7, DataRetains
<1>8. CASE TxStep \/ BoardStep \/ UNCHANGED vars
  <2>1. UNCHANGED <<mode, configBuffer, emitted>> /\ toHost \subseteq toHost'
    BY <1>8 DEF TxStep, Enqueue, TxSend, TxSent, AirtimeOver, BoardStep, PumpBridge, UsbConfig,
                EmitReceivedFrame, BoardRestarts, SendToHost, vars, dataVars
  <2> QED BY <1>1, <2>1 DEF Buffered
<1> QED BY <1>2, <1>6, <1>7, <1>8 DEF Next

\* However calls and opens overlap, and whatever the network does, a frame that
\* reaches the driver's socket is lost only for one of these reasons.
THEOREM LossesHaveReasons == Spec => OnlyFailuresLose
<1>1. Inv /\ [Next]_vars
        => [\A m \in Retained \ Retained' :
              Holds(Buffered, m) /\ (SocketClosed \/ AttemptFails \/ TakenOver \/ SocketBound)]_vars
  BY StepLoses
<1> QED BY Invariant, <1>1, PTL DEF Spec, OnlyFailuresLose

\* The attempt whose answer the buffer waits for fails.
OwnAttemptFails ==
    pc[configWaiter] = "waiting" /\ pc'[configWaiter] \in {"lock", "failed"}

\* No call takes a buffer over, no open() drops it, and none but the attempt it
\* waits for empties it by failing.
OnlyOwnFailuresLose ==
    [][\A m \in Retained \ Retained' :
         Holds(Buffered, m) /\ (SocketClosed \/ OwnAttemptFails)]_vars

\* While a socket is being bound, a call that waits has received nothing.
NothingYet == (\E s \in Sockets : sockets[s] = "binding") => Buffered = <<>>

LEMMA NothingYetStep ==
  ASSUME Inv, OneSocket, NothingYet, [Next]_vars
  PROVE  NothingYet'
<1>1. ASSUME NEW s \in Sockets, sockets'[s] = "binding", sockets[s] # "binding"
      PROVE  Buffered' = <<>>
  <2>1. PICK k \in Sockets : Open(k)
    BY <1>1 DEF Inv, TypeOK, SocketTypeOK, Next, SocketStep, Close, Open, Bound, BindFailed, Closed,
           CallStep, StartCall, SendConfigOnce, Timeout, WriteFailed, DataStep, Buffer, ConfigOk,
           Emit, TxStep, Enqueue, TxSend, TxSent, AirtimeOver, BoardStep, PumpBridge, UsbConfig,
           EmitReceivedFrame, BoardRestarts, vars, socketVars
  <2> QED BY <2>1 DEF Open, Openable, Buffered
<1>2. ASSUME NEW s \in Sockets, sockets[s] = "binding", sockets'[s] = "binding"
      PROVE  Buffered' = <<>>
  <2>1. Buffered = <<>> /\ \A k \in Sockets : sockets[k] # "bound"
    BY <1>2 DEF NothingYet, OneSocket
  <2>2. CASE SocketStep
    <3>1. configBuffer' = configBuffer /\ mode' \in {mode, "normal", "closed"}
      BY <2>2 DEF SocketStep, Close, Open, Bound, BindFailed, Closed, dataVars
    <3> QED BY <2>1, <3>1 DEF Buffered
  <2>3. CASE CallStep
    <3>1. (mode' \in {mode, "normal"} /\ configBuffer' = configBuffer) \/ configBuffer' = <<>>
      BY <2>3 DEF CallStep, StartCall, SendConfigOnce, ResetConfigBuffer, Timeout, WriteFailed, Reject,
                  dataVars
    <3> QED BY <2>1, <3>1 DEF Buffered
  <2>4. ~DataStep
    <3> SUFFICES ASSUME NEW m \in toHost, Arrives(m) PROVE FALSE
      BY DEF DataStep, Buffer, ConfigOk, Emit
    <3>1. m[3] \in Sockets
      BY ToHostParts DEF Inv, TypeOK, DataTypeOK
    <3> QED BY <2>1, <3>1 DEF Arrives
  <2>5. CASE TxStep \/ BoardStep \/ UNCHANGED vars
    <3>1. UNCHANGED <<mode, configBuffer>>
      BY <2>5 DEF TxStep, Enqueue, TxSend, TxSent, AirtimeOver, BoardStep, PumpBridge, UsbConfig,
                  EmitReceivedFrame, BoardRestarts, vars, dataVars
    <3> QED BY <2>1, <3>1 DEF Buffered
  <2> QED BY <2>2, <2>3, <2>4, <2>5 DEF Next
<1> QED BY <1>1, <1>2 DEF NothingYet

\* For an application that awaits each call and each open(), what was received is
\* lost only with the attempt whose answer the buffer waits for, or with the socket.
THEOREM AwaitedLossesHaveReasons ==
  ASSUME Sequential, MaxOpening <= 1
  PROVE  Spec => OnlyOwnFailuresLose
<1>1. Init => OneSocket /\ NothingYet /\ Turns
  BY SocketIsNoNone DEF Init, OneSocket, NothingYet, Buffered, Turns, Pending
<1>2. Inv /\ OneSocket /\ NothingYet /\ [Next]_vars => OneSocket' /\ NothingYet'
  BY OneSocketStep, NothingYetStep DEF Inv, TypeOK
<1>3. Inv /\ Turns /\ [Next]_vars => Turns'
  BY TurnsStep
<1>4. Inv /\ OneSocket /\ NothingYet /\ Turns /\ [Next]_vars
        => [\A m \in Retained \ Retained' :
              Holds(Buffered, m) /\ (SocketClosed \/ OwnAttemptFails)]_vars
  <2> SUFFICES ASSUME Inv, NothingYet, Turns, [Next]_vars, NEW m \in Retained, m \notin Retained',
                      Holds(Buffered, m), AttemptFails \/ TakenOver \/ SocketBound
               PROVE  OwnAttemptFails
    BY StepLoses
  <2>1. mode = "configuring" /\ Buffered # <<>>
    BY HoldsNothing DEF Buffered
  <2>2. configWaiter \in ConfigCalls /\ pc[configWaiter] = "waiting"
    BY <2>1 DEF Inv, WaiterIsTimed, TypeOK, CallTypeOK
  <2>3. \A c \in ConfigCalls : Pending(c) => c = configWaiter
    BY <2>2 DEF Turns, Pending
  <2>4. ~SocketBound
    BY <2>1 DEF SocketBound, Bound, NothingYet
  <2>5. ~TakenOver
    BY <2>3 DEF TakenOver, Pending
  <2>6. PICK c \in ConfigCalls : pc[c] = "waiting" /\ pc'[c] \in {"lock", "failed"}
    BY <2>4, <2>5 DEF AttemptFails
  <2>7. c = configWaiter
    BY <2>3, <2>6 DEF Pending
  <2> QED BY <2>6, <2>7 DEF OwnAttemptFails
<1> QED BY Invariant, <1>1, <1>2, <1>3, <1>4, PTL DEF Spec, OnlyOwnFailuresLose
=============================================================================
