----------------------------- MODULE LogSplitter -----------------------------
(***************************************************************************)
(* What the serial driver makes of the bytes it is sent: FrameLogSplitter  *)
(* and the buffer of a pending configuration (src/device/HelionetDevice.ts)*)
(* against what the firmware writes: log lines, received frames announced  *)
(* by a log line, CONFIG_OK, and noise at a reset.                         *)
(*                                                                         *)
(* A symbol is a byte, except that "rxev n=.. st=0" is one symbol and so   *)
(* is CONFIG_OK.  A symbol knows the item it belongs to and its place      *)
(* there, for the properties; the driver looks at its word only.           *)
(***************************************************************************)
EXTENDS Naturals, Sequences

CONSTANTS
    MaxBody,        \* the longest frame (255 in the code)
    MaxItems,       \* bound: items the board writes
    MaxResets,      \* bound: resets of the board
    MaxAttempts     \* bound: attempts to configure

Hash == <<"#", 0>>
NewLine == <<"nl", 0>>
Text == <<"x", 0>>      \* the rest of a line that announces nothing
Ok == <<"CONFIG_OK", 0>>
Announcement(n) == <<"rxev", n>>

\* The bytes that matter to the splitter, in frames and noise.
Bytes == {Hash, NewLine}
BytesUpTo(n) == UNION {[1..k -> Bytes] : k \in 1..n}

\* What the board writes at a time.
Log == <<Hash, Text, NewLine>>
Frame(body) == <<Hash, Announcement(Len(body)), NewLine>> \o body

\* The symbols of an item.
Symbols(words, number, kind) ==
    [i \in 1..Len(words) |->
       [word |-> words[i], of |-> number, at |-> i, last |-> i = Len(words), kind |-> kind]]

VARIABLES
    item,           \* what the board has left to write of an item
    items,          \* items begun
    owed,           \* answers to attempts that the board has not written
    mode,           \* the splitter's
    logLine,        \* the line so far
    frameRemaining, \* bytes of the frame still to come
    frameBuf,       \* the frame so far
    configuring,    \* the driver's mode is 'configuring'
    configBuffer,   \* what came since the attempt started
    feeding,        \* what the splitter is being fed
    out,            \* the frame that the last symbol fed made come out
    fed,            \* the last symbol fed
    aligned,        \* it continues an item that began in 'scan'
    upset,          \* what has gone wrong since an item last began in 'scan'
    resets, attempts

boardVars    == <<item, items, owed, resets>>
splitterVars == <<mode, logLine, frameRemaining, frameBuf>>
seenVars     == <<out, fed, aligned, upset>>
vars == <<boardVars, splitterVars, configuring, configBuffer, feeding, seenVars, attempts>>

NothingFed == [word |-> Text, of |-> 0, at |-> 1, last |-> TRUE, kind |-> "noise"]

Init ==
    /\ item = <<>> /\ items = 0 /\ owed = 0 /\ resets = 0
    /\ mode = "scan" /\ logLine = <<>> /\ frameRemaining = 0 /\ frameBuf = <<>>
    /\ configuring = FALSE /\ configBuffer = <<>> /\ feeding = <<>>
    /\ out = <<>> /\ fed = NothingFed /\ aligned = FALSE /\ upset = {}
    /\ attempts = 0

-----------------------------------------------------------------------------
(* FrameLogSplitter.feed, one symbol                                       *)

\* Mutant of Announces: the longest frame is not accepted.
AnnouncesShort(line) ==
    Len(line) = 2 /\ line[2].word \in {Announcement(n) : n \in 1..(MaxBody - 1)}

\* /^#rxev n=(\d+) st=0/ with a length of 1 to 255
Announces(line) ==
    Len(line) = 2 /\ line[2].word \in {Announcement(n) : n \in 1..MaxBody}

\* Mutant of BodyLength: the byte that completes the frame is not counted.
BodyLengthAndOne(line) == line[2].word[2] + 1

BodyLength(line) == line[2].word[2]

\* 'frame-body'
FeedBody(s) ==
    /\ mode = "frame-body"
    /\ frameRemaining' = frameRemaining - 1
    /\ IF frameRemaining = 1
       THEN mode' = "scan" /\ frameBuf' = <<>> /\ out' = Append(frameBuf, s)
       ELSE UNCHANGED mode /\ frameBuf' = Append(frameBuf, s) /\ out' = <<>>
    /\ UNCHANGED logLine

\* 'in-log', the end of the line
FeedLineEnd(s) ==
    /\ mode = "in-log" /\ s.word = NewLine
    /\ logLine' = <<>>
    /\ IF Announces(logLine)
       THEN mode' = "frame-body" /\ frameRemaining' = BodyLength(logLine)
       ELSE mode' = "scan" /\ UNCHANGED frameRemaining
    /\ out' = <<>>
    /\ UNCHANGED frameBuf

\* 'in-log'.  A line that is too long to announce anything stays so.
FeedLine(s) ==
    /\ mode = "in-log" /\ s.word # NewLine
    /\ logLine' = IF Len(logLine) < 3 THEN Append(logLine, s) ELSE logLine
    /\ out' = <<>>
    /\ UNCHANGED <<mode, frameRemaining, frameBuf>>

\* 'scan'
FeedScan(s) ==
    /\ mode = "scan"
    /\ IF s.word = Hash
       THEN mode' = "in-log" /\ logLine' = <<s>>
       ELSE UNCHANGED <<mode, logLine>>
    /\ out' = <<>>
    /\ UNCHANGED <<frameRemaining, frameBuf>>

\* The next symbol of what onSerialData hands to the splitter.
Feed ==
    LET s == Head(feeding)
        begins == s.at = 1 /\ mode = "scan"
        gap == IF s.at = 1 THEN ~fed.last ELSE fed.of # s.of \/ fed.at + 1 # s.at IN
    /\ feeding # <<>> /\ feeding' = Tail(feeding)
    /\ FeedBody(s) \/ FeedLineEnd(s) \/ FeedLine(s) \/ FeedScan(s)
    /\ fed' = s
    /\ aligned' = IF s.at = 1 THEN begins ELSE aligned /\ ~gap
    /\ upset' = (IF begins THEN {} ELSE upset)
                \cup (IF s.kind = "noise" THEN {"reset"} ELSE IF gap THEN {"retry"} ELSE {})
    /\ UNCHANGED <<boardVars, configuring, configBuffer, attempts>>

-----------------------------------------------------------------------------
(* onSerialData and sendConfigOnce                                         *)

\* The next symbol reaches the driver.  The bytes before CONFIG_OK go to the
\* splitter.
Receive ==
    LET s == Head(item) IN
    /\ feeding = <<>> /\ item # <<>> /\ item' = Tail(item)
    /\ IF ~configuring
       THEN feeding' = <<s>> /\ UNCHANGED <<configuring, configBuffer>>
       ELSE IF s.word # Ok
       THEN configBuffer' = Append(configBuffer, s) /\ UNCHANGED <<feeding, configuring>>
       ELSE feeding' = configBuffer /\ configBuffer' = <<>> /\ configuring' = FALSE
    /\ UNCHANGED <<items, owed, resets, splitterVars, seenVars, attempts>>

\* An attempt starts, with an empty buffer.
SendConfigOnce ==
    /\ feeding = <<>> /\ ~configuring /\ attempts < MaxAttempts
    /\ attempts' = attempts + 1 /\ owed' = owed + 1
    /\ configuring' = TRUE /\ configBuffer' = <<>>
    /\ UNCHANGED <<item, items, resets, splitterVars, feeding, seenVars>>

\* The timeout: the buffer is not looked at again.
Timeout ==
    /\ feeding = <<>> /\ configuring /\ configuring' = FALSE
    /\ UNCHANGED <<boardVars, splitterVars, configBuffer, feeding, seenVars, attempts>>

-----------------------------------------------------------------------------
(* The board                                                               *)

Begin(words, kind) ==
    /\ items < MaxItems /\ items' = items + 1
    /\ item' = Symbols(words, items + 1, kind)

\* A log line, or a received frame and its announcement.
Write ==
    /\ item = <<>>
    /\ \/ Begin(Log, "log")
       \/ \E body \in BytesUpTo(MaxBody) : Begin(Frame(body), "frame")
    /\ UNCHANGED <<owed, resets, splitterVars, configuring, configBuffer, feeding, seenVars, attempts>>

\* replyConfigOk
WriteOk ==
    /\ item = <<>> /\ owed > 0 /\ owed' = owed - 1
    /\ Begin(<<Ok>>, "ok")
    /\ UNCHANGED <<resets, splitterVars, configuring, configBuffer, feeding, seenVars, attempts>>

\* The board resets, in the middle of an item or not, and the line carries noise.
Reset ==
    /\ resets < MaxResets /\ resets' = resets + 1 /\ owed' = 0
    /\ \E noise \in BytesUpTo(2) : Begin(noise, "noise")
    /\ UNCHANGED <<splitterVars, configuring, configBuffer, feeding, seenVars, attempts>>

Next == Feed \/ Receive \/ SendConfigOnce \/ Timeout \/ Write \/ WriteOk \/ Reset

Spec == Init /\ [][Next]_vars

-----------------------------------------------------------------------------
(* Properties                                                              *)

\* Frame f is the whole body of one frame the board received.
IsReceived(f) ==
    /\ \A i \in 1..Len(f) : f[i].kind = "frame" /\ f[i].of = f[1].of /\ f[i].at = i + 3
    /\ f[Len(f)].last

\* A frame that begins while the splitter scans, and is fed to it without a gap,
\* comes out as it was received with its last byte, whatever it contains and
\* whatever came before.
AlignedFrameComesOut == aligned /\ fed.last /\ fed.kind = "frame" => out # <<>> /\ IsReceived(out)

\* Nothing else comes out as a frame, unless a reset or a repeated attempt tore a
\* frame, and then only until an item begins while the splitter scans.
OnlyReceivedFrames == upset = {} /\ out # <<>> => IsReceived(out)
=============================================================================
