--------------------------- MODULE FirmwareParser ---------------------------
(***************************************************************************)
(* feedParser of firmware/helionet/src/main.cpp and the two sources that   *)
(* feed it, byte by byte: USB, and in the bridge builds UDP.  pumpBridge   *)
(* feeds a datagram as a whole; bytes from USB are fed as they are there,  *)
(* so a datagram may come between any two of them.  Bytes get lost on USB  *)
(* when the receive buffer overflows, and when the host stops halfway.     *)
(*                                                                         *)
(* Bytes are the numbers below Base.  A command on its way is a record     *)
(* with the position of its next byte.                                     *)
(***************************************************************************)
EXTENDS Naturals, Sequences

CONSTANTS
    Base,           \* how many values a byte has (256 in the code)
    BodyCommands,   \* CMD_SEND, CMD_CONFIG, CMD_DISPLAY
    InfoCommand,    \* CMD_INFO
    InBufSize,      \* IN_BUF_SIZE (259 in the code)
    Bodies,         \* the bodies hosts send, each shorter than Base * Base bytes
    Sources         \* {"usb"}, or {"usb", "udp"} for a bridge build

Commands == [code : BodyCommands \cup {InfoCommand}, body : Bodies]

\* The bytes of a command: its code, the length in little-endian order, the body.
Wire(c) == <<c.code, Len(c.body) % Base, Len(c.body) \div Base>> \o c.body

None == [code |-> Base, body |-> <<>>]
Silent == [of |-> None, next |-> 1, heard |-> FALSE, intact |-> FALSE]

VARIABLES
    pState, pCmd, pLen, pHave,  \* the parser
    pLenLo,     \* the first byte of the length
    pBuf,       \* the body so far: pBuf[0 .. pHave - 1]
    line,       \* of each source: the command on its way, its next byte, whether
                \* all its bytes were fed from an idle parser on, and nothing between
    result,     \* the command the last byte completed
    ended,      \* the command whose bytes ended with the last byte
    upset       \* what has happened since the parser was idle between commands

parserVars == <<pState, pCmd, pLen, pHave, pLenLo, pBuf>>
vars == <<parserVars, line, result, ended, upset>>

Init ==
    /\ pState = "IDLE" /\ pCmd = 0 /\ pLen = 0 /\ pHave = 0 /\ pLenLo = 0 /\ pBuf = <<>>
    /\ line = [s \in Sources |-> Silent]
    /\ result = None /\ ended = [of |-> None, intact |-> FALSE]
    /\ upset = {}

-----------------------------------------------------------------------------
(* feedParser                                                              *)

\* Mutant of Oversize: one byte too many fits.
OversizeLate(len) == len > InBufSize + 1

Oversize(len) == len > InBufSize

ResetParser == pState' = "IDLE" /\ pHave' = 0 /\ pBuf' = <<>>

\* IDLE: skips to a command code.
Opens(b) ==
    /\ pState = "IDLE"
    /\ IF b \in BodyCommands \cup {InfoCommand}
       THEN pState' = "NEED_LEN" /\ pCmd' = b /\ pHave' = 0
       ELSE UNCHANGED <<pState, pCmd, pHave>>
    /\ result' = None
    /\ UNCHANGED <<pLen, pLenLo, pBuf>>

LowByte(b) ==
    /\ pState = "NEED_LEN" /\ pHave = 0
    /\ pLenLo' = b /\ pHave' = 1
    /\ result' = None
    /\ UNCHANGED <<pState, pCmd, pLen, pBuf>>

\* Mutant of Length: the bytes in the other order.
LengthBigEndian(low, high) == low * Base + high

Length(low, high) == low + Base * high

\* The length is known: an info query is complete, a length that is zero or too
\* large ends the command, any other is followed by the body.
HighByte(b) ==
    LET len == Length(pLenLo, b) IN
    /\ pState = "NEED_LEN" /\ pHave = 1
    /\ pLen' = len
    /\ IF len = 0 \/ Oversize(len)
       THEN ResetParser
       ELSE pState' = "NEED_BODY" /\ pHave' = 0 /\ UNCHANGED pBuf
    /\ result' = IF pCmd = InfoCommand /\ len = 0
                 THEN [code |-> pCmd, body |-> <<>>] ELSE None
    /\ UNCHANGED <<pCmd, pLenLo>>

\* pBuf[pHave++] = b, and at the end the handler is called.  What an info query
\* brings as a body is skipped.
BodyByte(b) ==
    /\ pState = "NEED_BODY"
    /\ IF pHave + 1 >= pLen
       THEN /\ ResetParser
            /\ result' = IF pCmd \in BodyCommands
                         THEN [code |-> pCmd, body |-> Append(pBuf, b)] ELSE None
       ELSE /\ pHave' = pHave + 1 /\ pBuf' = Append(pBuf, b)
            /\ result' = None /\ UNCHANGED pState
    /\ UNCHANGED <<pCmd, pLen, pLenLo>>

FeedParser(b) == Opens(b) \/ LowByte(b) \/ HighByte(b) \/ BodyByte(b)

-----------------------------------------------------------------------------
(* The sources                                                             *)

Under(s) == line[s].of # None           \* a command of s is under way
Begun(s) == Under(s) /\ line[s].next > 1

Valid(c) ==
    \/ c.code = InfoCommand /\ c.body = <<>>
    \/ c.code \in BodyCommands /\ Len(c.body) \in 1..InBufSize

\* A host starts to send a command.  The next datagram is looked at after the
\* one before.
HostSends(s, c) ==
    /\ ~Under(s)
    /\ line' = [line EXCEPT ![s] = [Silent EXCEPT !.of = c]]
    /\ UNCHANGED <<parserVars, result, ended, upset>>

\* Serial.read or the loop over the payload: the next byte of s.
Feed(s) ==
    LET c == line[s].of
        k == line[s].next
        heard == IF k = 1 THEN pState = "IDLE" ELSE line[s].heard
        intact == IF k = 1 THEN heard ELSE line[s].intact
        last == k = Len(Wire(c))
        mixed == \E t \in Sources \ {s} : Begun(t)
        before == IF k = 1 /\ pState = "IDLE" /\ ~mixed THEN {} ELSE upset IN
    /\ Under(s) /\ (s = "usb" => \A t \in Sources \ {s} : ~Begun(t))
    /\ FeedParser(Wire(c)[k])
    /\ line' = [t \in Sources |->
                  IF t = s
                  THEN IF last THEN Silent
                       ELSE [of |-> c, next |-> k + 1, heard |-> heard, intact |-> intact]
                  ELSE [line[t] EXCEPT !.intact = @ /\ line[t].next = 1]]
    /\ ended' = IF last /\ heard THEN [of |-> c, intact |-> intact]
                ELSE [of |-> None, intact |-> FALSE]
    /\ upset' = before \cup (IF mixed THEN {"mixed"} ELSE {})
                      \cup (IF Valid(c) THEN {} ELSE {"size"})

\* The rest of a command on USB, or its next byte, never reaches the parser.
Lose(s) ==
    /\ s = "usb" /\ Under(s)
    /\ \A t \in Sources \ {s} : ~Begun(t)
    /\ line' = [line EXCEPT ![s] =
                  IF line[s].next = Len(Wire(line[s].of)) THEN Silent
                  ELSE [of |-> line[s].of, next |-> line[s].next + 1,
                        heard |-> FALSE, intact |-> FALSE]]
    /\ upset' = upset \cup {"lost"}
    /\ result' = None /\ ended' = [of |-> None, intact |-> FALSE]
    /\ UNCHANGED parserVars

Next ==
    \E s \in Sources :
        \/ \E c \in Commands : HostSends(s, c)
        \/ Feed(s)
        \/ Lose(s)

Spec == Init /\ [][Next]_vars

-----------------------------------------------------------------------------
(* Properties                                                              *)

\* The parser never writes past the end of pBuf, whatever bytes it is fed.
WithinBuffer == pState = "NEED_BODY" => pHave < InBufSize /\ pHave < pLen

\* A valid command is carried out as it was sent if the parser was idle when its
\* first byte came and no byte was lost or came from elsewhere in between -
\* whatever happened before: nothing of an earlier command is left in the parser.
AlignedIsCarriedOut ==
    ended.of # None /\ ended.intact /\ Valid(ended.of) => result = ended.of

\* Nothing but a command that was sent is carried out, unless bytes were lost,
\* a body was too long or the sources got mixed since the parser was last idle
\* at the start of a command: the parser recovers then, and only then.
OnlyWhatWasSent == upset = {} /\ result # None => result = ended.of
=============================================================================
