--------------------------- MODULE HelionetDevice ---------------------------
(***************************************************************************)
(* The serial driver of a Helionet board (src/device/HelionetDevice.ts)    *)
(* together with the board's side of the serial protocol as the driver     *)
(* relies on it.                                                           *)
(*                                                                         *)
(* JavaScript runs to completion: a timer, a serial event or a write       *)
(* callback (a macrotask) starts only when no continuation is runnable.    *)
(* The guard Quiet of those actions says so.  The continuations after      *)
(* "await this.txLock" and the next link of the txLock chain are actions   *)
(* of their own; the application calls in at any moment.                   *)
(*                                                                         *)
(* Every call of the driver is named by a constant: a member of            *)
(* ConfigCalls is one call that ends in sendConfig (configureTx for the    *)
(* members of TxConfigs; configureRx, setWifi, ... for the others), a      *)
(* member of InfoCalls one call of info.  Payloads are left out: what      *)
(* travels is the kind of a message and the call, or the number of the     *)
(* received frame, it belongs to.  A message is never split between two    *)
(* chunks of the serial port; several may arrive in one chunk.             *)
(*                                                                         *)
(* The clean-up in ".finally" (lines 313-317 and 412-416) runs right after *)
(* a waiter settled, when the waiter is already undefined, and does        *)
(* nothing; that is so as long as no listener of a 'log' or 'data' event   *)
(* calls the driver synchronously.                                         *)
(***************************************************************************)
EXTENDS Naturals, Sequences, FiniteSets

CONSTANTS
    ConfigCalls,    \* the calls that go through sendConfig
    TxConfigs,      \* those of them that are configureTx
    InfoCalls,      \* the calls of info
    None,           \* no call
    Unchecked,      \* a frame whose configuration is not checked
    MaxTries,       \* CONFIG_MAX_TRIES (10 in the code)
    InfoFlush,      \* messages buffered in info mode before a flush (4096 bytes)
    Keepalive,      \* opts.keepalive is given
    Sequential,     \* the application awaits each call before the next one
    MaxChunk,       \* bound: messages in one 'data' event
    MaxFrames,      \* bound: calls of sendRadioFrame and setDisplayText
    MaxRx,          \* bound: radio frames the board receives
    MaxOpening,     \* bound: calls of open that overlap
    MaxCloses,      \* bound: 'close' events
    MaxFaults       \* bound: lost messages, failed writes, board resets

Calls == ConfigCalls \cup InfoCalls

ASSUME CallsAssumption ==
    /\ TxConfigs \subseteq ConfigCalls
    /\ ConfigCalls \cap InfoCalls = {}
    /\ None \notin Calls
    /\ Unchecked \notin ConfigCalls \cup {None}

ASSUME BoundsAssumption ==
    /\ MaxTries \in Nat \ {0}
    /\ InfoFlush \in Nat /\ MaxChunk \in Nat /\ MaxFrames \in Nat /\ MaxRx \in Nat
    /\ MaxOpening \in Nat /\ MaxCloses \in Nat /\ MaxFaults \in Nat
    /\ Keepalive \in BOOLEAN /\ Sequential \in BOOLEAN

VARIABLES
    portOpen,       \* the SerialPort is open, its listeners attached
    opening,        \* SerialPort constructions whose callback is outstanding
    mode,           \* this.mode
    keepalive,      \* this.keepaliveTimer is set
    configWaiter,   \* the call this.configWaiter belongs to
    infoWaiter,     \* the call this.infoWaiter belongs to
    pc,             \* where each call stands
    tries,          \* attempts each call has started
    lockOn,         \* how many frames must end before each call passes txLock
    timers,         \* armed timeouts, <<call, attempt>>
    failedWrites,   \* command writes that will be called back with an error
    configBuffer,   \* this.configBuffer, as messages
    infoBuffer,     \* this.infoBuffer, as messages
    fed,            \* everything fed to this.splitter, in order
    enqueued,       \* frames ever chained on txLock
    txQueue,        \* those not finished yet
    txState,        \* what the head of txQueue is doing
    lastTxConfig,   \* this.lastTxConfig
    toBoard,        \* host to board: <<"config", call>>, <<"info", call>>, <<"send", config>>
    toHost,         \* board to host: <<"ok", call>>, <<"info", call>>, <<"bad", call>>, <<"frame", n>>
    boardTx,        \* the configureTx call whose settings the board uses
    applied,        \* the configurations the board has applied
    rxSeq,          \* frames the board has received
    closes, faults  \* counters for the bounds

portVars   == <<portOpen, opening, mode, keepalive, closes>>
callVars   == <<configWaiter, infoWaiter, pc, tries, lockOn, timers, failedWrites>>
bufferVars == <<configBuffer, infoBuffer, fed>>
txVars     == <<enqueued, txQueue, txState, lastTxConfig>>
boardVars  == <<boardTx, applied, rxSeq>>
vars == <<portVars, callVars, bufferVars, txVars, toBoard, toHost, boardVars, faults>>

Mode == {"closed", "normal", "configuring", "info"}
Frames == {"send", "text"} \X (ConfigCalls \cup {None, Unchecked})
ToBoard == ({"config"} \X ConfigCalls) \cup ({"info"} \X InfoCalls) \cup Frames
ToHost == ({"ok"} \X ConfigCalls) \cup ({"info", "bad"} \X InfoCalls) \cup ({"frame"} \X Nat)

PortTypeOK ==
    /\ portOpen \in BOOLEAN /\ opening \in Nat /\ mode \in Mode /\ keepalive \in BOOLEAN
    /\ closes \in Nat /\ faults \in Nat
CallTypeOK ==
    /\ configWaiter \in ConfigCalls \cup {None}
    /\ infoWaiter \in InfoCalls \cup {None}
    /\ pc \in [Calls -> {"idle", "lock", "waiting", "ok", "failed"}]
    /\ tries \in [Calls -> Nat]
    /\ lockOn \in [Calls -> Nat]
    /\ timers \subseteq Calls \X Nat /\ failedWrites \subseteq Calls \X Nat
BufferTypeOK ==
    configBuffer \in Seq(ToHost) /\ infoBuffer \in Seq(ToHost) /\ fed \in Seq(ToHost)
TxTypeOK ==
    /\ enqueued \in Nat /\ txQueue \in Seq(Frames)
    /\ txState \in {"idle", "writing", "lost", "airing"}
    /\ lastTxConfig \in TxConfigs \cup {None}
    /\ txState # "idle" => txQueue # <<>>
BoardTypeOK ==
    /\ toBoard \in Seq(ToBoard) /\ toHost \in Seq(ToHost)
    /\ boardTx \in TxConfigs \cup {None} /\ applied \subseteq ConfigCalls /\ rxSeq \in Nat

\* The type invariant of the driver, its application and the board.
TypeOK == PortTypeOK /\ CallTypeOK /\ BufferTypeOK /\ TxTypeOK /\ BoardTypeOK

Init ==
    /\ portOpen = FALSE /\ opening = 0 /\ mode = "closed" /\ keepalive = FALSE
    /\ configWaiter = None /\ infoWaiter = None
    /\ pc = [c \in Calls |-> "idle"]
    /\ tries = [c \in Calls |-> 0]
    /\ lockOn = [c \in Calls |-> 0]
    /\ timers = {} /\ failedWrites = {}
    /\ configBuffer = <<>> /\ infoBuffer = <<>> /\ fed = <<>>
    /\ enqueued = 0 /\ txQueue = <<>> /\ txState = "idle" /\ lastTxConfig = None
    /\ toBoard = <<>> /\ toHost = <<>>
    /\ boardTx = None /\ applied = {} /\ rxSeq = 0 /\ closes = 0 /\ faults = 0

-----------------------------------------------------------------------------
(* Helpers                                                                 *)

Finished == enqueued - Len(txQueue)

\* Mutant of LockFree: sendConfig does not wait for the queued frames.
LockIgnored(c) == Finished >= 0

\* "await this.txLock" of call c is over: every frame chained before is done.
LockFree(c) == Finished >= lockOn[c]

\* No continuation is runnable, so the event loop may take the next event.
Quiet ==
    /\ \A c \in Calls : pc[c] = "lock" => ~LockFree(c)
    /\ ~(txState = "idle" /\ txQueue # <<>>)

Pending(c) == pc[c] \in {"lock", "waiting"}

\* What the application may call next.
MayCall(c) == pc[c] = "idle" /\ (Sequential => \A d \in Calls : ~Pending(d))

Fault == faults < MaxFaults /\ faults' = faults + 1

\* The board's answers reach the host only through an open port.
Reply(message) == toHost' = IF portOpen THEN Append(toHost, message) ELSE toHost

-----------------------------------------------------------------------------
(* open, close and the 'close' event                                       *)

\* open(): refused unless the mode is 'closed'.
Open ==
    /\ mode = "closed" /\ opening < MaxOpening
    /\ opening' = opening + 1
    /\ UNCHANGED <<portOpen, mode, keepalive, closes, callVars, bufferVars, txVars,
                   toBoard, toHost, boardVars, faults>>

\* The constructor's callback: success, unless the operating system holds the
\* port for another SerialPort.
OpenDone ==
    /\ Quiet /\ opening > 0 /\ ~portOpen
    /\ opening' = opening - 1
    /\ portOpen' = TRUE /\ mode' = "normal" /\ keepalive' = Keepalive
    /\ UNCHANGED <<closes, callVars, bufferVars, txVars, toBoard, toHost, boardVars, faults>>

\* The callback's error branch.
OpenFailed ==
    /\ Quiet /\ opening > 0
    /\ opening' = opening - 1
    /\ UNCHANGED <<portOpen, mode, keepalive, closes, callVars, bufferVars, txVars,
                   toBoard, toHost, boardVars, faults>>

\* close(): the keepalive stops at once, the port closes later (PortClosed).
Close ==
    /\ mode # "closed" /\ keepalive
    /\ keepalive' = FALSE
    /\ UNCHANGED <<portOpen, opening, mode, closes, callVars, bufferVars, txVars,
                   toBoard, toHost, boardVars, faults>>

\* The port's 'close' event, after close() or because the board was unplugged;
\* an unplugged board loses the commands it had not read and its settings.
PortClosed ==
    /\ Quiet /\ portOpen /\ closes < MaxCloses
    /\ portOpen' = FALSE /\ mode' = "closed" /\ keepalive' = FALSE
    /\ closes' = closes + 1
    /\ toHost' = <<>>
    /\ txState' = IF txState = "writing" THEN "lost" ELSE txState
    /\ \/ UNCHANGED <<toBoard, boardTx>>
       \/ toBoard' = <<>> /\ boardTx' = None
    /\ UNCHANGED <<opening, callVars, bufferVars, enqueued, txQueue, lastTxConfig,
                   applied, rxSeq, faults>>

-----------------------------------------------------------------------------
(* Waiters: what resolving and rejecting the current one does              *)

\* configWaiter.reject: back to normal; sendConfig tries again or gives up.
RejectConfig ==
    IF configWaiter = None
    THEN UNCHANGED <<mode, configWaiter, pc, lockOn>>
    ELSE /\ mode' = "normal"
         /\ configWaiter' = None
         /\ pc' = [pc EXCEPT ![configWaiter] =
                      IF tries[configWaiter] < MaxTries THEN "lock" ELSE "failed"]
         /\ lockOn' = [lockOn EXCEPT ![configWaiter] = enqueued]

\* Mutant of RejectInfo: the mode is not put back.
RejectInfoKeepsMode ==
    IF infoWaiter = None
    THEN UNCHANGED <<mode, infoWaiter, pc>>
    ELSE /\ infoWaiter' = None
         /\ pc' = [pc EXCEPT ![infoWaiter] = "failed"]
         /\ UNCHANGED mode

\* infoWaiter.reject: back to normal; info has no second attempt.
RejectInfo ==
    IF infoWaiter = None
    THEN UNCHANGED <<mode, infoWaiter, pc>>
    ELSE /\ mode' = "normal"
         /\ infoWaiter' = None
         /\ pc' = [pc EXCEPT ![infoWaiter] = "failed"]

\* Mutant of RejectCurrent: an error after the port closed is ignored.
RejectUnlessClosed(c) ==
    \/ mode = "closed" /\ UNCHANGED <<mode, configWaiter, infoWaiter, pc, lockOn>>
    \/ mode # "closed" /\ c \in ConfigCalls /\ RejectConfig /\ UNCHANGED infoWaiter
    \/ mode # "closed" /\ c \in InfoCalls /\ RejectInfo /\ UNCHANGED <<configWaiter, lockOn>>

\* An error or a timeout of call c rejects whichever waiter of c's kind is
\* installed when it arrives.
RejectCurrent(c) ==
    \/ c \in ConfigCalls /\ RejectConfig /\ UNCHANGED infoWaiter
    \/ c \in InfoCalls /\ RejectInfo /\ UNCHANGED <<configWaiter, lockOn>>

\* setTimeout for the attempt that starts.
ArmTimer(c) == timers' = timers \cup {<<c, tries[c] + 1>>}

\* Mutant of ClearTimer: every timeout is cleared.
ClearTimers(c) == timers' = timers \ (Calls \X Nat)

\* clearTimeout for the current attempt.
ClearTimer(c) == timers' = timers \ {<<c, tries[c]>>}

\* Mutant of ResetConfigBuffer: what was buffered for an earlier attempt stays.
KeepConfigBuffer == UNCHANGED configBuffer

\* A new attempt starts with an empty buffer.
ResetConfigBuffer == configBuffer' = <<>>

\* Mutants of RememberTx: any configuration is kept; none is.
RememberAny(c) == lastTxConfig' = c
RememberNone(c) == UNCHANGED lastTxConfig

\* configureTx keeps its configuration once sendConfig resolved.
RememberTx(c) == lastTxConfig' = IF c \in TxConfigs THEN c ELSE lastTxConfig

\* Call c, in its attempt n, writes its command: it goes out, or the write
\* fails later (always on a closed port, otherwise as a fault).
WriteCommand(kind, c, n) ==
    \/ /\ portOpen
       /\ toBoard' = Append(toBoard, <<kind, c>>)
       /\ UNCHANGED <<failedWrites, faults>>
    \/ /\ IF portOpen THEN Fault ELSE UNCHANGED faults
       /\ failedWrites' = failedWrites \cup {<<c, n>>}
       /\ UNCHANGED toBoard

-----------------------------------------------------------------------------
(* sendConfig and info                                                     *)

\* Entry of sendConfig and info: refused when closed, then "await this.txLock".
StartCall(c) ==
    /\ MayCall(c) /\ mode # "closed"
    /\ pc' = [pc EXCEPT ![c] = "lock"]
    /\ lockOn' = [lockOn EXCEPT ![c] = enqueued]
    /\ UNCHANGED <<portVars, configWaiter, infoWaiter, tries, timers, failedWrites,
                   bufferVars, txVars, toBoard, toHost, boardVars, faults>>

\* sendConfigOnce.
SendConfigOnce(c) ==
    /\ pc[c] = "lock" /\ LockFree(c)
    /\ mode' = "configuring"
    /\ ResetConfigBuffer
    /\ configWaiter' = c
    /\ pc' = [pc EXCEPT ![c] = "waiting"]
    /\ tries' = [tries EXCEPT ![c] = @ + 1]
    /\ ArmTimer(c)
    /\ WriteCommand("config", c, tries[c] + 1)
    /\ UNCHANGED <<portOpen, opening, keepalive, closes, infoWaiter, lockOn, infoBuffer, fed,
                   txVars, toHost, boardVars>>

\* info after the lock.
SendInfo(c) ==
    /\ pc[c] = "lock" /\ LockFree(c)
    /\ mode' = "info"
    /\ infoBuffer' = <<>>
    /\ infoWaiter' = c
    /\ pc' = [pc EXCEPT ![c] = "waiting"]
    /\ tries' = [tries EXCEPT ![c] = @ + 1]
    /\ ArmTimer(c)
    /\ WriteCommand("info", c, tries[c] + 1)
    /\ UNCHANGED <<portOpen, opening, keepalive, closes, configWaiter, lockOn, configBuffer, fed,
                   txVars, toHost, boardVars>>

\* CONFIG_TIMEOUT_MS or INFO_TIMEOUT_MS after attempt n of call c started.
Timeout(c, n) ==
    /\ Quiet /\ <<c, n>> \in timers
    /\ timers' = timers \ {<<c, n>>}
    /\ RejectCurrent(c)
    /\ UNCHANGED <<portOpen, opening, keepalive, closes, tries, failedWrites, bufferVars,
                   txVars, toBoard, toHost, boardVars, faults>>

\* The write callback of attempt n of call c reports an error.
WriteFailed(c, n) ==
    /\ Quiet /\ <<c, n>> \in failedWrites
    /\ failedWrites' = failedWrites \ {<<c, n>>}
    /\ RejectCurrent(c)
    /\ UNCHANGED <<portOpen, opening, keepalive, closes, tries, timers, bufferVars,
                   txVars, toBoard, toHost, boardVars, faults>>

-----------------------------------------------------------------------------
(* onSerialData: the next k messages arrive in one chunk                   *)

Chunk(k) == SubSeq(toHost, 1, k)

Arrives(k) ==
    /\ Quiet /\ portOpen
    /\ k \in 1..Len(toHost)
    /\ toHost' = SubSeq(toHost, k + 1, Len(toHost))

\* i is the place of the first message of buffer whose kind is in kinds.
IsFirst(i, kinds, buffer) ==
    /\ i \in 1..Len(buffer)
    /\ buffer[i][1] \in kinds
    /\ \A j \in 1..(i - 1) : buffer[j][1] \notin kinds

Lacks(kinds, buffer) == \A j \in 1..Len(buffer) : buffer[j][1] \notin kinds

\* Mutant of FeedAllBut: what follows the answer in the buffer is dropped.
FeedBefore(i, buffer) == fed' = fed \o SubSeq(buffer, 1, i - 1)

\* All of a buffer but its i-th message goes to the splitter.
FeedAllBut(i, buffer) ==
    fed' = fed \o SubSeq(buffer, 1, i - 1) \o SubSeq(buffer, i + 1, Len(buffer))

\* Mode 'configuring', no CONFIG_OK yet.
BufferConfig(k) ==
    /\ Arrives(k) /\ mode = "configuring"
    /\ Lacks({"ok"}, configBuffer \o Chunk(k))
    /\ configBuffer' = configBuffer \o Chunk(k)
    /\ UNCHANGED <<portVars, callVars, infoBuffer, fed, txVars, toBoard, boardVars, faults>>

\* Mode 'configuring', CONFIG_OK found: the current waiter resolves.
ConfigOk(k) ==
    /\ Arrives(k) /\ mode = "configuring" /\ configWaiter # None
    /\ LET buffer == configBuffer \o Chunk(k) IN
         \E i \in 1..Len(buffer) : IsFirst(i, {"ok"}, buffer) /\ FeedAllBut(i, buffer)
    /\ configBuffer' = <<>>
    /\ ClearTimer(configWaiter)
    /\ mode' = "normal"
    /\ configWaiter' = None
    /\ pc' = [pc EXCEPT ![configWaiter] = "ok"]
    /\ RememberTx(configWaiter)
    /\ UNCHANGED <<portOpen, opening, keepalive, closes, infoWaiter, tries, lockOn, failedWrites,
                   infoBuffer, enqueued, txQueue, txState, toBoard, boardVars, faults>>

\* Mode 'info', no reply yet: buffered, and flushed to the splitter when long.
BufferInfo(k) ==
    /\ Arrives(k) /\ mode = "info"
    /\ Lacks({"info", "bad"}, infoBuffer \o Chunk(k))
    /\ IF Len(infoBuffer) + k > InfoFlush
       THEN fed' = fed \o infoBuffer \o Chunk(k) /\ infoBuffer' = <<>>
       ELSE infoBuffer' = infoBuffer \o Chunk(k) /\ UNCHANGED fed
    /\ UNCHANGED <<portVars, callVars, configBuffer, txVars, toBoard, boardVars, faults>>

\* Mode 'info', reply found: the waiter resolves, or rejects on bad JSON.
InfoReply(k) ==
    /\ Arrives(k) /\ mode = "info" /\ infoWaiter # None
    /\ LET buffer == infoBuffer \o Chunk(k) IN
         \E i \in 1..Len(buffer) :
            /\ IsFirst(i, {"info", "bad"}, buffer) /\ FeedAllBut(i, buffer)
            /\ pc' = [pc EXCEPT ![infoWaiter] = IF buffer[i][1] = "info" THEN "ok" ELSE "failed"]
    /\ infoBuffer' = <<>>
    /\ ClearTimer(infoWaiter)
    /\ mode' = "normal"
    /\ infoWaiter' = None
    /\ UNCHANGED <<portOpen, opening, keepalive, closes, configWaiter, tries, lockOn, failedWrites,
                   configBuffer, txVars, toBoard, boardVars, faults>>

\* Any other mode: straight to the splitter.
FeedSplitter(k) ==
    /\ Arrives(k) /\ mode \notin {"configuring", "info"}
    /\ fed' = fed \o Chunk(k)
    /\ UNCHANGED <<portVars, callVars, configBuffer, infoBuffer, txVars, toBoard, boardVars, faults>>

-----------------------------------------------------------------------------
(* The txLock chain: sendRadioFrame, setDisplayText, keepalive             *)

\* The configuration a frame sent now is meant for; Unchecked while one is changing.
Intended == IF \E c \in ConfigCalls : Pending(c) THEN Unchecked ELSE lastTxConfig

Enqueue(kind) ==
    /\ mode # "closed" /\ enqueued < MaxFrames
    /\ enqueued' = enqueued + 1
    /\ txQueue' = Append(txQueue, <<kind, IF kind = "send" THEN Intended ELSE Unchecked>>)
    /\ UNCHANGED <<portVars, callVars, bufferVars, txState, lastTxConfig, toBoard, toHost,
                   boardVars, faults>>

SendRadioFrame == Enqueue("send")
SetDisplayText == Enqueue("text")
KeepaliveTick == Quiet /\ keepalive /\ Enqueue("send")

\* The next link of the chain: port.write.  On a closed port the callback
\* comes with an error, or never.
TxWrite ==
    /\ txState = "idle" /\ txQueue # <<>>
    /\ \/ portOpen /\ txState' = "writing" /\ toBoard' = Append(toBoard, Head(txQueue))
       \/ ~portOpen /\ txState' = "lost" /\ UNCHANGED toBoard
    /\ UNCHANGED <<portVars, callVars, bufferVars, enqueued, txQueue, lastTxConfig, toHost,
                   boardVars, faults>>

\* The write succeeded: a frame sits out its airtime and the backoff when the
\* radio configuration is known.
TxWritten ==
    /\ Quiet /\ txState = "writing"
    /\ IF Head(txQueue)[1] = "send" /\ lastTxConfig # None
       THEN txState' = "airing" /\ UNCHANGED txQueue
       ELSE txState' = "idle" /\ txQueue' = Tail(txQueue)
    /\ UNCHANGED <<portVars, callVars, bufferVars, enqueued, lastTxConfig, toBoard, toHost,
                   boardVars, faults>>

\* The write failed: the frame's caller is told, the chain goes on.
TxFailed ==
    /\ Quiet
    /\ \/ txState = "lost" /\ UNCHANGED faults
       \/ txState = "writing" /\ Fault
    /\ txState' = "idle" /\ txQueue' = Tail(txQueue)
    /\ UNCHANGED <<portVars, callVars, bufferVars, enqueued, lastTxConfig, toBoard, toHost,
                   boardVars>>

\* Both delays of doSendFrame are over.
AirtimeOver ==
    /\ Quiet /\ txState = "airing"
    /\ txState' = "idle" /\ txQueue' = Tail(txQueue)
    /\ UNCHANGED <<portVars, callVars, bufferVars, enqueued, lastTxConfig, toBoard, toHost,
                   boardVars, faults>>

-----------------------------------------------------------------------------
(* The board (firmware/helionet/src/main.cpp), one command at a time       *)

NextCommand(kind) == toBoard # <<>> /\ Head(toBoard)[1] = kind /\ toBoard' = Tail(toBoard)

\* handleConfigBody: the settings are applied, then CONFIG_OK goes out.
BoardConfig ==
    /\ NextCommand("config")
    /\ LET c == Head(toBoard)[2] IN
         /\ boardTx' = IF c \in TxConfigs THEN c ELSE boardTx
         /\ applied' = applied \cup {c}
         /\ Reply(<<"ok", c>>)
    /\ UNCHANGED <<portVars, callVars, bufferVars, txVars, rxSeq, faults>>

\* handleInfo; as a fault the reply is damaged on its way.
BoardInfo ==
    /\ NextCommand("info")
    /\ \/ Reply(<<"info", Head(toBoard)[2]>>) /\ UNCHANGED faults
       \/ Reply(<<"bad", Head(toBoard)[2]>>) /\ Fault
    /\ UNCHANGED <<portVars, callVars, bufferVars, txVars, boardVars>>

\* handleSendBody and handleDisplayBody: nothing comes back that the driver uses.
BoardSend ==
    /\ NextCommand("send") \/ NextCommand("text")
    /\ UNCHANGED <<portVars, callVars, bufferVars, txVars, toHost, boardVars, faults>>

\* emitReceivedFrame.
BoardReceives ==
    /\ portOpen /\ rxSeq < MaxRx
    /\ rxSeq' = rxSeq + 1
    /\ Reply(<<"frame", rxSeq + 1>>)
    /\ UNCHANGED <<portVars, callVars, bufferVars, txVars, toBoard, boardTx, applied, faults>>

\* A command the board's parser does not recognise, or an answer that is lost.
LoseCommand ==
    /\ Fault /\ toBoard # <<>> /\ toBoard' = Tail(toBoard)
    /\ UNCHANGED <<portVars, callVars, bufferVars, txVars, toHost, boardVars>>
LoseReply ==
    /\ Fault /\ toHost # <<>> /\ toHost' = Tail(toHost)
    /\ UNCHANGED <<portVars, callVars, bufferVars, txVars, toBoard, boardVars>>

\* The board restarts with its default settings while the port stays open.
BoardReset ==
    /\ Fault /\ toBoard' = <<>> /\ boardTx' = None
    /\ UNCHANGED <<portVars, callVars, bufferVars, txVars, toHost, applied, rxSeq>>

-----------------------------------------------------------------------------

PortStep == Open \/ OpenDone \/ OpenFailed \/ Close \/ PortClosed
CallStep ==
    \/ \E c \in Calls : StartCall(c)
    \/ \E c \in ConfigCalls : SendConfigOnce(c)
    \/ \E c \in InfoCalls : SendInfo(c)
    \/ \E t \in timers : Timeout(t[1], t[2])
    \/ \E w \in failedWrites : WriteFailed(w[1], w[2])
DataStep ==
    \E k \in 1..MaxChunk :
       BufferConfig(k) \/ ConfigOk(k) \/ BufferInfo(k) \/ InfoReply(k) \/ FeedSplitter(k)
TxStep ==
    SendRadioFrame \/ SetDisplayText \/ KeepaliveTick \/ TxWrite \/ TxWritten \/ TxFailed \/ AirtimeOver
BoardStep ==
    BoardConfig \/ BoardInfo \/ BoardSend \/ BoardReceives \/ LoseCommand \/ LoseReply \/ BoardReset

Next == PortStep \/ CallStep \/ DataStep \/ TxStep \/ BoardStep

Spec == Init /\ [][Next]_vars

\* What the JavaScript runtime guarantees: continuations run, timers fire, and
\* a write on a port that stays open is called back.
Fairness ==
    /\ \A c \in ConfigCalls : WF_vars(SendConfigOnce(c))
    /\ \A c \in InfoCalls : WF_vars(SendInfo(c))
    /\ \A c \in Calls, n \in 1..MaxTries : WF_vars(Timeout(c, n))
    /\ WF_vars(TxWrite) /\ WF_vars(TxWritten) /\ WF_vars(AirtimeOver)

FairSpec == Spec /\ Fairness

-----------------------------------------------------------------------------
(* Properties                                                              *)

\* The non-null assertions "this.configWaiter!" and "this.infoWaiter!" of
\* onSerialData never meet undefined, and data never arrives in mode 'closed'.
WaiterMatchesMode ==
    /\ mode = "configuring" => configWaiter # None
    /\ mode = "info" => infoWaiter # None
    /\ portOpen => mode # "closed"

\* An installed waiter has its own timeout armed, so no stale timer, failed
\* write, overlapping call or reopened port leaves a waiter nobody will settle.
WaiterHasTimer ==
    /\ configWaiter # None => <<configWaiter, tries[configWaiter]>> \in timers
    /\ infoWaiter # None => <<infoWaiter, tries[infoWaiter]>> \in timers

\* Radio frames come out of the splitter in the order the board received them
\* and never twice, whatever buffer each of them waited in.
DeliveredInOrder ==
    \A i, j \in 1..Len(fed) :
      i < j /\ fed[i][1] = "frame" /\ fed[j][1] = "frame" => fed[i][2] < fed[j][2]

\* The history so far: nothing lost, the port never closed, every attempt was
\* the first of its call and none of them failed.
Smooth ==
    /\ faults = 0 /\ closes = 0
    /\ \A c \in Calls : pc[c] # "failed" /\ tries[c] <= 1 /\ (pc[c] = "lock" => tries[c] = 0)

\* No received frame gets lost in configBuffer or infoBuffer while every
\* attempt succeeds: each one is delivered, in the buffer of the current mode,
\* or still in the port.
NoFrameLost ==
    Smooth =>
      \A n \in 1..rxSeq : \E s \in
            {fed, toHost} \cup (IF mode = "configuring" THEN {configBuffer} ELSE {})
                          \cup (IF mode = "info" THEN {infoBuffer} ELSE {}) :
         \E i \in 1..Len(s) : s[i] = <<"frame", n>>

\* A configuration that succeeded at the first attempt, in a smooth history,
\* has been applied, and the airtime is computed from the board's settings.
FirstTryOkMeansApplied ==
    Smooth =>
      /\ \A c \in ConfigCalls : pc[c] = "ok" => c \in applied
      /\ (\A c \in ConfigCalls : ~Pending(c)) => lastTxConfig = boardTx

\* The board transmits a frame with the settings in force when it was sent: no
\* later configuration overtakes the frames queued before it on txLock.
FrameKeepsItsConfig ==
    Smooth /\ toBoard # <<>> /\ Head(toBoard)[1] = "send" => Head(toBoard)[2] \in {Unchecked, boardTx}

\* Every call of sendConfig and info settles, unless the chain waits for a
\* write made on a closed port, which need not be called back.
Settles == \A c \in Calls : Pending(c) ~> (~Pending(c) \/ txState = "lost")

\* sendConfig resolves on CONFIG_OK, which the firmware README documents as
\* sent "after a successful config" (firmware/helionet/README.md:87).
OkMeansApplied == \A c \in ConfigCalls : pc[c] = "ok" => c \in applied

\* open() fails with 'HelionetDevice already open' only if the port is open.
AlreadyOpenMeansOpen == mode # "closed" => portOpen
=============================================================================
