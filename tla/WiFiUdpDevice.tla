---------------------------- MODULE WiFiUdpDevice ----------------------------
(***************************************************************************)
(* The WiFi driver (src/device/WiFiUdpDevice.ts), the board's end of the   *)
(* bridge (pumpBridge and sendToHost of the firmware's main.cpp) and the   *)
(* network between them.  A datagram may arrive late, after others, or     *)
(* never; that it is accepted at most once is UdpLink's part.              *)
(*                                                                         *)
(* Calls, retries and timers are named as in HelionetDevice, and so is the *)
(* guard of the event loop.  Different here: close() lets go of the socket *)
(* at once and the 'close' event follows before any other event (Node      *)
(* raises it in process.nextTick); every open() makes a socket of its own, *)
(* and the board answers to the port the last datagram came from.          *)
(***************************************************************************)
EXTENDS Naturals, Sequences, FiniteSets

CONSTANTS
    ConfigCalls,    \* the calls of configureTx, configureRx and setTxChannel
    TxConfigs,      \* those of them that are configureTx
    None,           \* no call
    MaxTries,       \* CONFIG_MAX_TRIES (10 in the code)
    Sequential,     \* the application awaits each call before the next one
    MaxSockets,     \* bound: calls of open
    MaxOpening,     \* bound: calls of open that overlap
    MaxFrames,      \* bound: calls of sendRadioFrame and setDisplayText
    MaxRx,          \* bound: radio frames the board receives
    MaxFaults       \* bound: failed sends, failed binds, board restarts,
                    \* configurations given to the board over USB

ASSUME WiFiAssumption ==
    /\ TxConfigs \subseteq ConfigCalls /\ None \notin ConfigCalls
    /\ MaxTries \in Nat \ {0} /\ Sequential \in BOOLEAN
    /\ MaxSockets \in Nat /\ MaxOpening \in Nat /\ MaxFrames \in Nat
    /\ MaxRx \in Nat /\ MaxFaults \in Nat

Sockets == 1..MaxSockets
NoSocket == 0

VARIABLES
    sockets,        \* the state of every socket
    socket,         \* this.socket
    mode,           \* this.mode
    configWaiter,   \* the call this.configWaiter belongs to
    pc,             \* where each call stands
    tries,          \* attempts each call has started
    lockOn,         \* how many frames must end before each call passes txLock
    timers,         \* armed timeouts, <<call, attempt>>
    failedWrites,   \* sends that will fail, <<call, attempt, "now" or "later">>
    configBuffer,   \* this.configBuffer, as datagrams
    emitted,        \* what came out as 'data', in order
    arrived,        \* the datagrams onUdpMessage was given that answer nothing, in order
    enqueued,       \* frames ever chained on txLock
    txQueue,        \* those not finished yet
    txState,        \* what the head of txQueue is doing
    lastTxConfig,   \* this.lastTxConfig
    toBoard,        \* datagrams on their way to the board: kind, id, socket they came from
    toHost,         \* datagrams on their way to the host: kind, id, socket they go to
    replyTo,        \* the board's hostIp and hostPort, as the socket they belong to
    boardTx,        \* the configureTx call whose settings the board uses
    applied,        \* the configurations the board has applied
    rxSeq,          \* frames the board has received
    usb,            \* configurations given over USB
    faults          \* counter for the bound

socketVars == <<sockets, socket>>
callVars   == <<configWaiter, pc, tries, lockOn, timers, failedWrites>>
dataVars   == <<configBuffer, emitted, arrived>>
txVars     == <<enqueued, txQueue, txState, lastTxConfig>>
boardVars  == <<replyTo, boardTx, applied, rxSeq, usb>>
vars == <<socketVars, mode, callVars, dataVars, txVars, toBoard, toHost, boardVars, faults>>

Attempts == ConfigCalls \X Nat
Others == {None} \X Nat
ToBoard ==
    ({"config"} \X Attempts \X Sockets) \cup ({"wake", "send", "text"} \X Others \X Sockets)
ToHost ==
    ({"ok"} \X (Attempts \cup Others) \X Sockets) \cup ({"frame"} \X Others \X Sockets)

SocketTypeOK ==
    /\ sockets \in [Sockets -> {"unused", "binding", "bound", "closing", "closed"}]
    /\ socket \in Sockets \cup {NoSocket}
    /\ mode \in {"closed", "normal", "configuring"}

CallTypeOK ==
    /\ configWaiter \in ConfigCalls \cup {None}
    /\ pc \in [ConfigCalls -> {"idle", "lock", "waiting", "ok", "failed"}]
    /\ tries \in [ConfigCalls -> Nat] /\ lockOn \in [ConfigCalls -> Nat]
    /\ timers \subseteq Attempts
    /\ failedWrites \subseteq ConfigCalls \X Nat \X {"now", "later"}

DataTypeOK ==
    /\ configBuffer \in Seq(ToHost) /\ emitted \in Seq(ToHost) /\ arrived \in Seq(ToHost)
    /\ toBoard \subseteq ToBoard /\ toHost \subseteq ToHost

TxTypeOK ==
    /\ enqueued \in Nat /\ txQueue \in Seq({"send", "text"}) /\ Len(txQueue) <= enqueued
    /\ txState \in {"idle", "writing", "failing", "lost", "airing"}
    /\ txState # "idle" => txQueue # <<>>
    /\ lastTxConfig \in TxConfigs \cup {None}

BoardTypeOK ==
    /\ replyTo \in Sockets \cup {NoSocket}
    /\ boardTx \in TxConfigs \cup {None} /\ applied \subseteq ConfigCalls
    /\ rxSeq \in Nat /\ usb \in Nat /\ faults \in Nat

TypeOK == SocketTypeOK /\ CallTypeOK /\ DataTypeOK /\ TxTypeOK /\ BoardTypeOK

Init ==
    /\ sockets = [s \in Sockets |-> "unused"] /\ socket = NoSocket /\ mode = "closed"
    /\ configWaiter = None
    /\ pc = [c \in ConfigCalls |-> "idle"]
    /\ tries = [c \in ConfigCalls |-> 0] /\ lockOn = [c \in ConfigCalls |-> 0]
    /\ timers = {} /\ failedWrites = {}
    /\ configBuffer = <<>> /\ emitted = <<>> /\ arrived = <<>>
    /\ enqueued = 0 /\ txQueue = <<>> /\ txState = "idle" /\ lastTxConfig = None
    /\ toBoard = {} /\ toHost = {}
    /\ replyTo = NoSocket /\ boardTx = None /\ applied = {} /\ rxSeq = 0
    /\ usb = 0 /\ faults = 0

-----------------------------------------------------------------------------
(* Helpers                                                                 *)

InState(state) == {s \in Sockets : sockets[s] = state}

Finished == enqueued - Len(txQueue)

\* "await this.txLock" of call c is over: every frame chained before is done.
LockFree(c) == Finished >= lockOn[c]

\* No continuation is runnable and no 'close' event is due, so the event loop
\* may take the next event.
Quiet ==
    /\ InState("closing") = {}
    /\ \A c \in ConfigCalls : pc[c] = "lock" => ~LockFree(c)
    /\ \A w \in failedWrites : w[3] = "later"
    /\ ~(txState = "idle" /\ txQueue # <<>>)

Pending(c) == pc[c] \in {"lock", "waiting"}

\* What the application may call next.
MayCall(c) == pc[c] = "idle" /\ (Sequential => \A d \in ConfigCalls : ~Pending(d))

Fault == faults < MaxFaults /\ faults' = faults + 1

-----------------------------------------------------------------------------
(* open, close and the socket's events                                     *)

\* Mutant of Openable: open() is not refused.
OpenableAlways == mode \in {"closed", "normal", "configuring"}

Openable == mode = "closed"

\* open(): a new socket is bound.
Open(s) ==
    /\ Openable
    /\ s = Cardinality(Sockets \ InState("unused")) + 1
    /\ Cardinality(InState("binding")) < MaxOpening
    /\ sockets' = [sockets EXCEPT ![s] = "binding"]
    /\ UNCHANGED <<socket, mode, callVars, dataVars, txVars, toBoard, toHost, boardVars, faults>>

\* The callback of bind: the wake-up datagram goes out.
Bound(s) ==
    /\ Quiet /\ sockets[s] = "binding"
    /\ sockets' = [sockets EXCEPT ![s] = "bound"]
    /\ socket' = s /\ mode' = "normal"
    /\ toBoard' = toBoard \cup {<<"wake", <<None, 0>>, s>>}
    /\ UNCHANGED <<callVars, dataVars, txVars, toHost, boardVars, faults>>

\* bind fails: an 'error' event, and open() never settles.
BindFailed(s) ==
    /\ Quiet /\ sockets[s] = "binding" /\ Fault
    /\ sockets' = [sockets EXCEPT ![s] = "closed"]
    /\ UNCHANGED <<socket, mode, callVars, dataVars, txVars, toBoard, toHost, boardVars>>

\* close(): a send that is under way may never be called back.
Close ==
    /\ socket # NoSocket /\ mode # "closed"
    /\ sockets' = [sockets EXCEPT ![socket] = "closing"]
    /\ socket' = NoSocket
    /\ \/ UNCHANGED txState
       \/ txState \in {"writing", "failing"} /\ txState' = "lost"
    /\ UNCHANGED <<mode, callVars, dataVars, enqueued, txQueue, lastTxConfig,
                   toBoard, toHost, boardVars, faults>>

\* The 'close' event.
Closed(s) ==
    /\ sockets[s] = "closing"
    /\ sockets' = [sockets EXCEPT ![s] = "closed"]
    /\ mode' = "closed"
    /\ UNCHANGED <<socket, callVars, dataVars, txVars, toBoard, toHost, boardVars, faults>>

-----------------------------------------------------------------------------
(* configureTx, configureRx, setTxChannel: sendConfig                      *)

\* Entry of sendConfig: refused when closed, then "await this.txLock".
StartCall(c) ==
    /\ MayCall(c) /\ mode # "closed"
    /\ pc' = [pc EXCEPT ![c] = "lock"]
    /\ lockOn' = [lockOn EXCEPT ![c] = enqueued]
    /\ UNCHANGED <<socketVars, mode, configWaiter, tries, timers, failedWrites, dataVars,
                   txVars, toBoard, toHost, boardVars, faults>>

\* sendUdp: the datagram goes out, or the send fails: at once without a
\* socket, later as a fault.
SendUdp(c, n) ==
    \/ /\ socket # NoSocket
       /\ toBoard' = toBoard \cup {<<"config", <<c, n>>, socket>>}
       /\ UNCHANGED <<failedWrites, faults>>
    \/ /\ socket # NoSocket /\ Fault
       /\ failedWrites' = failedWrites \cup {<<c, n, "later">>}
       /\ UNCHANGED toBoard
    \/ /\ socket = NoSocket
       /\ failedWrites' = failedWrites \cup {<<c, n, "now">>}
       /\ UNCHANGED <<toBoard, faults>>

\* setTimeout for the attempt that starts.
ArmTimer(c) == timers' = timers \cup {<<c, tries[c] + 1>>}

\* Mutant of ResetConfigBuffer: what was buffered stays.
KeepConfigBuffer == UNCHANGED configBuffer

\* this.configBuffer = Buffer.alloc(0)
ResetConfigBuffer == configBuffer' = <<>>

\* sendConfigOnce.
SendConfigOnce(c) ==
    /\ pc[c] = "lock" /\ LockFree(c)
    /\ mode' = "configuring" /\ configWaiter' = c
    /\ ResetConfigBuffer
    /\ pc' = [pc EXCEPT ![c] = "waiting"]
    /\ tries' = [tries EXCEPT ![c] = @ + 1]
    /\ ArmTimer(c)
    /\ SendUdp(c, tries[c] + 1)
    /\ UNCHANGED <<socketVars, lockOn, emitted, arrived, txVars, toHost, boardVars>>

\* Mutant of Reject: the mode is not put back.
RejectKeepsMode ==
    IF configWaiter = None
    THEN UNCHANGED <<mode, configWaiter, pc, lockOn>>
    ELSE /\ configWaiter' = None
         /\ pc' = [pc EXCEPT ![configWaiter] =
                      IF tries[configWaiter] < MaxTries THEN "lock" ELSE "failed"]
         /\ lockOn' = [lockOn EXCEPT ![configWaiter] = enqueued]
         /\ UNCHANGED mode

\* Mutant of Reject: an error after the socket closed is ignored.
RejectUnlessClosed ==
    IF configWaiter = None \/ mode = "closed"
    THEN UNCHANGED <<mode, configWaiter, pc, lockOn>>
    ELSE /\ configWaiter' = None /\ mode' = "normal"
         /\ pc' = [pc EXCEPT ![configWaiter] =
                      IF tries[configWaiter] < MaxTries THEN "lock" ELSE "failed"]
         /\ lockOn' = [lockOn EXCEPT ![configWaiter] = enqueued]

\* this.configWaiter?.reject: whichever waiter is installed; sendConfig tries
\* again or gives up.
Reject ==
    IF configWaiter = None
    THEN UNCHANGED <<mode, configWaiter, pc, lockOn>>
    ELSE /\ mode' = "normal"
         /\ configWaiter' = None
         /\ pc' = [pc EXCEPT ![configWaiter] =
                      IF tries[configWaiter] < MaxTries THEN "lock" ELSE "failed"]
         /\ lockOn' = [lockOn EXCEPT ![configWaiter] = enqueued]

\* CONFIG_TIMEOUT_MS after attempt n of call c started.
Timeout(c, n) ==
    /\ Quiet /\ <<c, n>> \in timers
    /\ timers' = timers \ {<<c, n>>}
    /\ Reject
    /\ UNCHANGED <<socketVars, tries, failedWrites, dataVars, txVars, toBoard, toHost,
                   boardVars, faults>>

\* The send of an attempt failed.
WriteFailed(w) ==
    /\ w \in failedWrites /\ (w[3] = "later" => Quiet)
    /\ failedWrites' = failedWrites \ {w}
    /\ Reject
    /\ UNCHANGED <<socketVars, tries, timers, dataVars, txVars, toBoard, toHost, boardVars, faults>>

-----------------------------------------------------------------------------
(* onUdpMessage                                                            *)

\* Datagram m reaches the socket it is addressed to.
Arrives(m) ==
    /\ Quiet /\ m \in toHost /\ sockets[m[3]] = "bound"
    /\ toHost' = toHost \ {m}
    /\ arrived' = IF mode = "configuring" /\ m[1] = "ok" THEN arrived ELSE Append(arrived, m)

\* configureTx keeps its configuration once sendConfig resolved.
RememberTx(c) == lastTxConfig' = IF c \in TxConfigs THEN c ELSE lastTxConfig

\* Mutant of IsAnswer: whatever comes first.
IsAnything(m) == m[1] \in {"ok", "frame"}

\* CONFIG_OK, which does not say what it answers.
IsAnswer(m) == m[1] = "ok"

\* Mutant of EmitBefore: what was buffered before the answer is forgotten.
EmitNothing == UNCHANGED emitted

\* emitFrameOrLog of what precedes CONFIG_OK in the buffer.
EmitBefore == emitted' = emitted \o configBuffer

\* Mode 'configuring': buffered until CONFIG_OK is there.
Buffer(m) ==
    /\ Arrives(m) /\ mode = "configuring" /\ ~IsAnswer(m)
    /\ configBuffer' = Append(configBuffer, m)
    /\ UNCHANGED <<socketVars, mode, callVars, emitted, txVars, toBoard, boardVars, faults>>

\* Mode 'configuring', CONFIG_OK: the current waiter resolves.
ConfigOk(m) ==
    /\ Arrives(m) /\ mode = "configuring" /\ IsAnswer(m) /\ configWaiter # None
    /\ EmitBefore /\ ResetConfigBuffer
    /\ mode' = "normal" /\ configWaiter' = None
    /\ timers' = timers \ {<<configWaiter, tries[configWaiter]>>}
    /\ pc' = [pc EXCEPT ![configWaiter] = "ok"]
    /\ RememberTx(configWaiter)
    /\ UNCHANGED <<socketVars, tries, lockOn, failedWrites, enqueued, txQueue, txState,
                   toBoard, boardVars, faults>>

\* Any other mode: out as 'data', whatever it is.
Emit(m) ==
    /\ Arrives(m) /\ mode # "configuring"
    /\ emitted' = Append(emitted, m)
    /\ UNCHANGED <<socketVars, mode, callVars, configBuffer, txVars, toBoard, boardVars, faults>>

-----------------------------------------------------------------------------
(* The txLock chain: sendRadioFrame and setDisplayText                     *)

Enqueue(kind) ==
    /\ mode # "closed" /\ enqueued < MaxFrames
    /\ enqueued' = enqueued + 1
    /\ txQueue' = Append(txQueue, kind)
    /\ UNCHANGED <<socketVars, mode, callVars, dataVars, txState, lastTxConfig, toBoard, toHost,
                   boardVars, faults>>

\* The next link of the chain: sendUdp, which fails at once without a socket
\* and later as a fault.
TxSend ==
    /\ txState = "idle" /\ txQueue # <<>>
    /\ \/ /\ socket # NoSocket /\ txState' = "writing"
          /\ toBoard' = toBoard \cup {<<Head(txQueue), <<None, Finished + 1>>, socket>>}
          /\ UNCHANGED <<txQueue, faults>>
       \/ /\ socket # NoSocket /\ Fault /\ txState' = "failing"
          /\ UNCHANGED <<txQueue, toBoard>>
       \/ /\ socket = NoSocket /\ txQueue' = Tail(txQueue)
          /\ UNCHANGED <<txState, toBoard, faults>>
    /\ UNCHANGED <<socketVars, mode, callVars, dataVars, enqueued, lastTxConfig, toHost, boardVars>>

\* The send is called back: after success a frame sits out its airtime and the
\* backoff when the radio configuration is known.
TxSent ==
    /\ Quiet /\ txState \in {"writing", "failing"}
    /\ IF txState = "writing" /\ Head(txQueue) = "send" /\ lastTxConfig # None
       THEN txState' = "airing" /\ UNCHANGED txQueue
       ELSE txState' = "idle" /\ txQueue' = Tail(txQueue)
    /\ UNCHANGED <<socketVars, mode, callVars, dataVars, enqueued, lastTxConfig, toBoard, toHost,
                   boardVars, faults>>

\* Both delays of doSendFrame are over.
AirtimeOver ==
    /\ Quiet /\ txState = "airing"
    /\ txState' = "idle" /\ txQueue' = Tail(txQueue)
    /\ UNCHANGED <<socketVars, mode, callVars, dataVars, enqueued, lastTxConfig, toBoard, toHost,
                   boardVars, faults>>

-----------------------------------------------------------------------------
(* The board                                                               *)

\* sendToHost: to the last port heard from, if there is one.
SendToHost(kind, id, port) ==
    toHost' = IF port = NoSocket THEN toHost ELSE toHost \cup {<<kind, id, port>>}

\* pumpBridge: datagram m sets the reply target and is carried out.
PumpBridge(m) ==
    /\ m \in toBoard /\ toBoard' = toBoard \ {m}
    /\ replyTo' = m[3]
    /\ IF m[1] = "config"
       THEN /\ applied' = applied \cup {m[2][1]}
            /\ boardTx' = IF m[2][1] \in TxConfigs THEN m[2][1] ELSE boardTx
            /\ SendToHost("ok", m[2], m[3])
       ELSE UNCHANGED <<applied, boardTx, toHost>>
    /\ UNCHANGED <<socketVars, mode, callVars, dataVars, txVars, rxSeq, usb, faults>>

\* A configuration that comes over USB is answered to the WiFi host as well.
UsbConfig ==
    /\ Fault /\ usb' = usb + 1
    /\ SendToHost("ok", <<None, usb + 1>>, replyTo)
    /\ UNCHANGED <<socketVars, mode, callVars, dataVars, txVars, toBoard, replyTo, boardTx,
                   applied, rxSeq>>

\* emitReceivedFrame.
EmitReceivedFrame ==
    /\ rxSeq < MaxRx /\ rxSeq' = rxSeq + 1
    /\ SendToHost("frame", <<None, rxSeq + 1>>, replyTo)
    /\ UNCHANGED <<socketVars, mode, callVars, dataVars, txVars, toBoard, replyTo, boardTx,
                   applied, usb, faults>>

\* The board restarts: no reply target, default settings.
BoardRestarts ==
    /\ Fault /\ replyTo' = NoSocket /\ boardTx' = None
    /\ UNCHANGED <<socketVars, mode, callVars, dataVars, txVars, toBoard, toHost, applied,
                   rxSeq, usb>>

-----------------------------------------------------------------------------

SocketStep == Close \/ \E s \in Sockets : Open(s) \/ Bound(s) \/ BindFailed(s) \/ Closed(s)
CallStep ==
    \/ \E c \in ConfigCalls : StartCall(c) \/ SendConfigOnce(c)
    \/ \E t \in timers : Timeout(t[1], t[2])
    \/ \E w \in failedWrites : WriteFailed(w)
DataStep == \E m \in toHost : Buffer(m) \/ ConfigOk(m) \/ Emit(m)
TxStep == (\E kind \in {"send", "text"} : Enqueue(kind)) \/ TxSend \/ TxSent \/ AirtimeOver
BoardStep ==
    \/ \E m \in toBoard : PumpBridge(m)
    \/ UsbConfig \/ EmitReceivedFrame \/ BoardRestarts

Next == SocketStep \/ CallStep \/ DataStep \/ TxStep \/ BoardStep

Spec == Init /\ [][Next]_vars

\* What the JavaScript runtime guarantees: continuations run, timers fire, the
\* 'close' event comes, and a send on a socket that stays open is called back.
Fairness ==
    /\ \A s \in Sockets : WF_vars(Closed(s))
    /\ \A c \in ConfigCalls : WF_vars(SendConfigOnce(c))
    /\ \A c \in ConfigCalls, n \in 1..MaxTries :
         /\ WF_vars(Timeout(c, n))
         /\ \A when \in {"now", "later"} : WF_vars(WriteFailed(<<c, n, when>>))
    /\ WF_vars(TxSend) /\ WF_vars(TxSent) /\ WF_vars(AirtimeOver)

FairSpec == Spec /\ Fairness

-----------------------------------------------------------------------------
(* Properties                                                              *)

\* onUdpMessage never dereferences an undefined waiter, and a waiter always has
\* the timeout of its own attempt, so that nothing stale leaves it behind.
WaiterIsTimed ==
    /\ mode = "configuring" => configWaiter # None
    /\ configWaiter # None =>
         pc[configWaiter] = "waiting" /\ <<configWaiter, tries[configWaiter]>> \in timers

\* If calls of open do not overlap, the only socket that can still bring in
\* data is the one close() would close; a driver in mode 'closed' is silent.
OnlyCurrentSocketListens ==
    MaxOpening <= 1 =>
      \A s \in Sockets : sockets[s] = "bound" => socket = s /\ mode # "closed"

NoRetries == \A c \in ConfigCalls : tries[c] <= 1 /\ (tries[c] = 1 => pc[c] \in {"waiting", "ok"})

\* What came in and answers nothing, radio frames above all, comes out in its
\* order, nothing left out, nothing twice, if each call is awaited, unless an
\* attempt to configure failed or the socket was closed during one.
FramesSurviveConfig ==
    Sequential /\ NoRetries /\ (mode = "configuring" \/ configBuffer = <<>>) =>
      emitted \o configBuffer = arrived

\* A configuration whose call resolved is in force, and the airtime is computed
\* from the board's settings, as long as no attempt had to be repeated and nobody
\* else configures the board.
ResolvedMeansApplied ==
    Sequential /\ NoRetries /\ usb = 0 =>
      /\ \A c \in ConfigCalls : pc[c] = "ok" => c \in applied
      /\ lastTxConfig # None =>
           boardTx \in {lastTxConfig, None} \cup {c \in ConfigCalls : Pending(c)}

\* No radio frame is emitted twice or invented, whatever buffer it waited in
\* and however often an attempt was repeated.
EmitsOnce ==
    \A i, j \in 1..Len(emitted) :
      emitted[i] = emitted[j] => i = j /\ (emitted[i][1] = "frame" => emitted[i][2][2] \in 1..rxSeq)

\* Every call settles, unless the chain waits for a send that a close cut off.
Settles == \A c \in ConfigCalls : Pending(c) ~> (~Pending(c) \/ txState = "lost")
=============================================================================
