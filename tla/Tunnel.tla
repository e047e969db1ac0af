------------------------------- MODULE Tunnel -------------------------------
(***************************************************************************)
(* Frames between tunnels as a stream of bytes: onTunPacket and            *)
(* onSerialBytes of src/net/Ip2LoraTunnel.ts with encodeFrame and          *)
(* decodeFrame of src/frame/Ip2LoraCodec.ts, without AEAD (AeadLink).      *)
(*                                                                         *)
(* Byte k of the n-th frame is <<n, k>>.  What decodeFrame would read from *)
(* the bytes that begin there is its claim: a length, 0 if the size field  *)
(* is invalid, and an address.  The first byte of a frame claims the       *)
(* truth, since no segment ends inside a header; the others claim anything *)
(* that the payload and what follows it may spell.  A byte is heard once,  *)
(* so that its claim is the same whenever it is read.  The CRC is taken as *)
(* working: it fits exactly where a frame stands in one piece.             *)
(*                                                                         *)
(* Segments of all tunnels are on the air together.  One that was sent may *)
(* arrive late, after others (the UDP link reorders), or never.            *)
(***************************************************************************)
EXTENDS Integers, Sequences, Functions

CONSTANTS
    Addrs, Local,   \* LoRa addresses; the one of the receiving tunnel
    MinFrame,       \* MIN_FRAME_SIZE
    SegmentSize,    \* maxLoraFrameSize
    Shapes,         \* the claims of the bytes of the frames that may be sent
    MaxFrames,      \* bound: frames sent
    MaxStops        \* bound: stop() of the receiving tunnel

Claims == [len : Nat, addr : Addrs]

ASSUME TunnelAssumption ==
    /\ Local \in Addrs
    /\ MinFrame \in Nat \ {0} /\ SegmentSize \in Nat \ {0}
    /\ MaxFrames \in Nat /\ MaxStops \in Nat
    /\ \A s \in Shapes :
         /\ s \in Seq(Claims) /\ Len(s) >= MinFrame /\ s[1].len = Len(s)
         /\ \A k \in 1..Len(s) : s[k].len # 0 => s[k].len >= MinFrame

VARIABLES
    frames,         \* the frames sent, as their bytes' claims
    air,            \* segments that have not arrived
    wire,           \* bytes on their way from the board to the host
    running,        \* this.running: the listeners are installed
    rxBuffer,       \* this.rxBuffer
    looping,        \* in the loop of onSerialBytes
    at,             \* its i
    heard,          \* every byte onSerialBytes was given
    skipped,        \* bytes passed over with a frame for someone else
    delivered,      \* frames written to the TUN interface
    stops           \* counts for the bound

rxVars == <<rxBuffer, looping, at, heard, skipped, delivered>>
vars == <<frames, air, wire, running, rxVars, stops>>

Bytes == UNION {{<<n, k>> : k \in DOMAIN frames[n]} : n \in DOMAIN frames}
Claim(b) == frames[b[1]][b[2]]

TypeOK ==
    /\ frames \in Seq(Shapes)
    /\ air \subseteq Seq(Bytes) /\ wire \in Seq(Bytes)
    /\ running \in BOOLEAN /\ looping \in BOOLEAN
    /\ rxBuffer \in Seq(Bytes) /\ heard \in Seq(Bytes)
    /\ at \in 0..Len(rxBuffer)
    /\ skipped \subseteq Bytes
    /\ delivered \in Seq(DOMAIN frames)
    /\ stops \in Nat

Init ==
    /\ frames = <<>> /\ air = {} /\ wire = <<>>
    /\ running = TRUE
    /\ rxBuffer = <<>> /\ looping = FALSE /\ at = 0
    /\ heard = <<>> /\ skipped = {} /\ delivered = <<>>
    /\ stops = 0

-----------------------------------------------------------------------------
(* The sending tunnels and what lies between                               *)

Lesser(a, b) == IF a < b THEN a ELSE b

\* Where the segments of a frame of len bytes begin.
Offsets(len) == {off \in 0..(len - 1) : off % SegmentSize = 0}

\* Mutant of Segments: the last segment is not cut at the end of the frame.
SegmentsUncut(n, len) ==
    {[k \in 1..SegmentSize |-> <<n, off + k>>] : off \in Offsets(len)}

\* The segments of the n-th frame.
Segments(n, len) ==
    {[k \in 1..Lesser(SegmentSize, len - off) |-> <<n, off + k>>] : off \in Offsets(len)}

\* onTunPacket of any tunnel: a packet becomes a frame and its segments.
OnTunPacket(s) ==
    /\ ~looping /\ Len(frames) < MaxFrames
    /\ frames' = Append(frames, s)
    /\ air' = air \cup Segments(Len(frames'), Len(s))
    /\ UNCHANGED <<wire, running, rxVars, stops>>

\* The receiver's board hears a segment and passes it on.
Arrive(seg) ==
    /\ running /\ ~looping
    /\ air' = air \ {seg} /\ wire' = wire \o seg
    /\ UNCHANGED <<frames, running, rxVars, stops>>

-----------------------------------------------------------------------------
(* The receiving tunnel.  onSerialBytes runs to completion: while looping, *)
(* only its own iterations change the tunnel.                              *)

\* The next k bytes come as one chunk.
OnSerialBytes(k) ==
    /\ running /\ ~looping
    /\ LET chunk == SubSeq(wire, 1, k) IN
         /\ rxBuffer' = rxBuffer \o chunk /\ heard' = heard \o chunk
    /\ wire' = SubSeq(wire, k + 1, Len(wire))
    /\ looping' = TRUE
    /\ UNCHANGED <<frames, air, running, at, skipped, delivered, stops>>

Left == Len(rxBuffer) - at          \* bytes not looked at yet
Header == Claim(rxBuffer[at + 1])   \* what decodeFrame reads there

\* The end of the buffer, "short header" and "short frame".
ShortFrame == Left >= MinFrame => Header.len # 0 /\ Left < Header.len

\* Mutants of Rest: all of it stays; nothing does.
RestUntrimmed == rxBuffer
RestDropped == <<>>

\* rxBuffer.subarray(i)
Rest == SubSeq(rxBuffer, at + 1, Len(rxBuffer))

\* The loop ends.
Break ==
    /\ ShortFrame
    /\ rxBuffer' = Rest /\ at' = 0 /\ looping' = FALSE
    /\ UNCHANGED <<skipped, delivered>>

\* Frame n stands in s after the first i bytes, in one piece.
WholeAt(s, i, n) ==
    /\ i + Len(frames[n]) <= Len(s)
    /\ \A k \in 1..Len(frames[n]) : s[i + k] = <<n, k>>

\* The frame the claim at the loop's position belongs to.
Here == rxBuffer[at + 1][1]

Advance(k) ==
    /\ ~ShortFrame
    /\ at' = at + k
    /\ UNCHANGED <<rxBuffer, looping>>

InvalidSize ==
    /\ Advance(1)
    /\ Header.len = 0
    /\ UNCHANGED <<skipped, delivered>>

\* Mutant of AddrMismatch: goes on with the next byte.
AddrMismatchByOne ==
    /\ Advance(1)
    /\ Header.len # 0 /\ Header.addr # Local
    /\ skipped' = skipped \cup {rxBuffer[at + 1]}
    /\ UNCHANGED delivered

\* A frame for someone else is passed over by the length it claims.
AddrMismatch ==
    /\ Advance(Header.len)
    /\ Header.len # 0 /\ Header.addr # Local
    /\ skipped' = skipped \cup {rxBuffer[at + k] : k \in 1..Header.len}
    /\ UNCHANGED delivered

\* Mutant of CrcMismatch: trusts the length of what failed the check.
CrcMismatchSkips ==
    /\ Advance(Header.len)
    /\ Header.len # 0 /\ Header.addr = Local
    /\ ~WholeAt(rxBuffer, at, Here)
    /\ UNCHANGED <<skipped, delivered>>

\* "crc-mismatch", or recoverClearPayload failed: go on with the next byte.
CrcMismatch ==
    /\ Advance(1)
    /\ Header.len # 0 /\ Header.addr = Local
    /\ ~WholeAt(rxBuffer, at, Here)
    /\ UNCHANGED <<skipped, delivered>>

Deliver ==
    /\ Advance(Header.len)
    /\ Header.len # 0 /\ Header.addr = Local
    /\ WholeAt(rxBuffer, at, Here)
    /\ delivered' = Append(delivered, Here)
    /\ UNCHANGED skipped

\* One iteration of the loop.
Iterate ==
    /\ looping
    /\ Break \/ InvalidSize \/ AddrMismatch \/ CrcMismatch \/ Deliver
    /\ UNCHANGED <<frames, air, wire, running, heard, stops>>

\* stop() removes the listeners and closes the device; start() installs them
\* again.  rxBuffer keeps what it has.
Stop ==
    /\ running /\ ~looping
    /\ stops < MaxStops /\ stops' = stops + 1
    /\ running' = FALSE /\ wire' = <<>>
    /\ UNCHANGED <<frames, air, rxVars>>

Start ==
    /\ ~running /\ running' = TRUE
    /\ UNCHANGED <<frames, air, wire, rxVars, stops>>

Next ==
    \/ \E s \in Shapes : OnTunPacket(s)
    \/ \E seg \in air : Arrive(seg)
    \/ \E k \in 1..Len(wire) : OnSerialBytes(k)
    \/ Iterate \/ Stop \/ Start

Spec == Init /\ [][Next]_vars

-----------------------------------------------------------------------------
(* Properties                                                              *)

ForLocal(n) == frames[n][1].addr = Local

\* How many of the bytes heard precede the buffer.
Base == Len(heard) - Len(rxBuffer)

\* A frame for this tunnel that came in one piece is delivered once
\* onSerialBytes returns, with two exceptions: a header read in the wrong place
\* claimed it for someone else (line 243), or it waits behind a header that
\* claims more bytes than have come (line 235).
WholeFramesGetThrough ==
    ~looping =>
      \A n \in DOMAIN frames, i \in 0..Len(heard) :
        WholeAt(heard, i, n) /\ ForLocal(n) =>
          \/ n \in Range(delivered)
          \/ <<n, 1>> \in skipped
          \/ Base < i /\ Len(rxBuffer) < Claim(rxBuffer[1]).len

\* The bytes heard are whole frames, one after the other, the last one perhaps
\* still incomplete: around each byte stand the others of its frame.
Aligned ==
    \A i \in 1..Len(heard) :
      LET n == heard[i][1]
          k == heard[i][2] IN
        /\ k <= i
        /\ \A j \in 1..Len(heard) :
             k + j - i \in 1..Len(frames[n]) => heard[j] = <<n, k + j - i>>

\* What one chunk with all of s would give, for the property below: what
\* decodeFrame reads after the first i bytes; whether the loop ends there; whether
\* it delivers; how far it goes on.  fs are the frames that were sent.
ReadAt(fs, s, i) == fs[s[i + 1][1]][s[i + 1][2]]

StopsAt(fs, s, i) ==
    Len(s) - i >= MinFrame => ReadAt(fs, s, i).len > Len(s) - i

DeliversAt(fs, s, i) ==
    LET n == s[i + 1][1] IN
    /\ ReadAt(fs, s, i).addr = Local
    /\ i + Len(fs[n]) <= Len(s) /\ \A k \in 1..Len(fs[n]) : s[i + k] = <<n, k>>

StepAt(fs, s, i) ==
    IF DeliversAt(fs, s, i) \/ (ReadAt(fs, s, i).len # 0 /\ ReadAt(fs, s, i).addr # Local)
    THEN ReadAt(fs, s, i).len ELSE 1

\* The frames it delivers after the first i bytes.
Decoded(fs, s) ==
    LET rest[i \in 0..Len(s)] ==
          IF StopsAt(fs, s, i) THEN <<>>
          ELSE (IF DeliversAt(fs, s, i) THEN <<s[i + 1][1]>> ELSE <<>>)
               \o rest[i + StepAt(fs, s, i)]
    IN rest

\* How the board, the serial line and the event loop cut the bytes into chunks
\* makes no difference: when onSerialBytes returns, the frames delivered so far
\* are those that one chunk with everything heard would have given.
ChunksDoNotMatter == ~looping => delivered = Decoded(frames, heard)[0]

\* As long as no segment is missing or out of place, nothing in a payload can
\* make the loop lose its place: every frame for this tunnel is delivered as
\* soon as its last byte was heard.
AlignedLosesNothing ==
    Aligned /\ ~looping =>
      \A n \in DOMAIN frames :
        ForLocal(n) /\ <<n, Len(frames[n])>> \in Range(heard) => n \in Range(delivered)

\* Whatever is lost, late or stopped, the TUN interface gets each frame that
\* was sent to this tunnel at most once, and nothing else.
Channel == INSTANCE OnceChannel
    WITH sent <- {n \in DOMAIN frames : ForLocal(n)}, handed <- delivered
DeliversOnce == Channel!OneSession
=============================================================================
