---------------------------- MODULE TunnelProofs ----------------------------
(***************************************************************************)
(* What the receive loop of the tunnel guarantees for all frames, claims   *)
(* and cuts of the stream.                                                 *)
(***************************************************************************)
EXTENDS Tunnel, SequenceFacts, WellFoundedInduction

USE TunnelAssumption

-----------------------------------------------------------------------------

\* What a frame is.
LEMMA FrameFacts ==
  ASSUME TypeOK, NEW n \in DOMAIN frames
  PROVE  /\ frames[n] \in Seq(Claims) /\ DOMAIN frames[n] = 1..Len(frames[n])
         /\ Len(frames[n]) \in Nat /\ Len(frames[n]) >= MinFrame
         /\ frames[n][1].len = Len(frames[n])
         /\ \A k \in 1..Len(frames[n]) :
              frames[n][k] \in Claims /\ (frames[n][k].len # 0 => frames[n][k].len >= MinFrame)
<1>1. frames \in Seq(Shapes)
  BY DEF TypeOK
<1>2. frames[n] \in Shapes
  BY <1>1, LenProperties, ElementOfSeq
<1>3. frames[n] \in Seq(Claims)
  BY <1>2
<1>4. Len(frames[n]) \in Nat /\ DOMAIN frames[n] = 1..Len(frames[n])
  BY <1>3, LenProperties
<1>5. \A k \in 1..Len(frames[n]) : frames[n][k] \in Claims
  BY <1>3, ElementOfSeq
<1> QED BY <1>2, <1>3, <1>4, <1>5

\* The bytes are pairs of a frame and a position in it.
LEMMA ByteFacts ==
  ASSUME TypeOK
  PROVE  /\ \A b \in Bytes : /\ b[1] \in DOMAIN frames /\ b[2] \in 1..Len(frames[b[1]])
                             /\ b = <<b[1], b[2]>>
         /\ \A n \in DOMAIN frames : \A k \in 1..Len(frames[n]) : <<n, k>> \in Bytes
<1>1. \A n \in DOMAIN frames : DOMAIN frames[n] = 1..Len(frames[n])
  BY FrameFacts
<1>2. ASSUME NEW b \in Bytes
      PROVE  b[1] \in DOMAIN frames /\ b[2] \in 1..Len(frames[b[1]]) /\ b = <<b[1], b[2]>>
  <2>1. PICK n \in DOMAIN frames : b \in {<<n, k>> : k \in DOMAIN frames[n]}
    BY DEF Bytes
  <2>2. PICK k \in DOMAIN frames[n] : b = <<n, k>>
    BY <2>1
  <2>3. QED BY <1>1, <2>2
<1>3. ASSUME NEW n \in DOMAIN frames, NEW k \in 1..Len(frames[n])
      PROVE  <<n, k>> \in Bytes
  BY <1>1 DEF Bytes
<1> QED BY <1>2, <1>3

\* What is read at the loop's position.
LEMMA ReadFacts ==
  ASSUME TypeOK
  PROVE  /\ Len(rxBuffer) \in Nat /\ at \in Nat /\ Left \in Nat
         /\ \A i \in 1..Len(rxBuffer) : rxBuffer[i] \in Bytes
         /\ ~ShortFrame => /\ rxBuffer[at + 1] \in Bytes /\ Here \in DOMAIN frames
                           /\ at + 1 \in 1..Len(rxBuffer)
                           /\ Header \in Claims /\ Header.len \in Nat
                           /\ Header.len # 0 => Header.len \in 1..Left
<1>1. Len(rxBuffer) \in Nat /\ at \in 0..Len(rxBuffer) /\ Left \in Nat
  BY LenProperties DEF TypeOK, Left
<1>2. \A i \in 1..Len(rxBuffer) : rxBuffer[i] \in Bytes
  BY ElementOfSeq DEF TypeOK
<1>3. ASSUME ~ShortFrame
      PROVE  /\ rxBuffer[at + 1] \in Bytes /\ Here \in DOMAIN frames
             /\ at + 1 \in 1..Len(rxBuffer)
             /\ Header \in Claims /\ Header.len \in Nat
             /\ Header.len # 0 => Header.len \in 1..Left
  <2>1. Left >= MinFrame /\ ~(Header.len # 0 /\ Left < Header.len)
    BY <1>3 DEF ShortFrame
  <2>2. at + 1 \in 1..Len(rxBuffer)
    BY <1>1, <2>1 DEF Left
  <2>3. rxBuffer[at + 1] \in Bytes
    BY <1>2, <2>2
  <2>4. Here \in DOMAIN frames /\ Header \in Claims
    BY <2>3, ByteFacts, FrameFacts DEF Here, Header, Claim
  <2>5. Header.len \in Nat
    BY <2>4 DEF Claims
  <2>6. QED BY <1>1, <2>1, <2>2, <2>3, <2>4, <2>5
<1> QED BY <1>1, <1>2, <1>3

-----------------------------------------------------------------------------
(* Segments                                                                *)

\* Two segments of a frame begin at least a segment's size apart.
LEMMA OffsetsApart ==
  ASSUME NEW len \in Nat, NEW a \in Offsets(len), NEW b \in Offsets(len), a < b
  PROVE  a + SegmentSize <= b
<1> DEFINE p == a \div SegmentSize
           q == b \div SegmentSize
<1>1. a \in Nat /\ b \in Nat /\ a % SegmentSize = 0 /\ b % SegmentSize = 0
  BY DEF Offsets
<1>2. a = SegmentSize * p /\ b = SegmentSize * q /\ p \in Int /\ q \in Int
  BY <1>1
<1>3. q >= p + 1
  BY <1>1, <1>2
<1>4. SegmentSize * (q - p - 1) >= 0
  BY <1>2, <1>3
<1>5. QED BY <1>2, <1>4

\* The members of A are sequences of bytes of frame n, and no byte is in two
\* places.
Disjoint(A, n, len) ==
    /\ \A s \in A : s \in Seq({n} \X (1..len)) /\ \A i \in 1..Len(s) : s[i][1] = n
    /\ \A s \in A, t \in A : \A i \in 1..Len(s), j \in 1..Len(t) :
         s[i] = t[j] => s = t /\ i = j

LEMMA SegmentFacts ==
  ASSUME NEW n \in Nat, NEW len \in Nat
  PROVE  Disjoint(Segments(n, len), n, len)
<1>1. ASSUME NEW off \in Offsets(len), NEW s,
             s = [k \in 1..Lesser(SegmentSize, len - off) |-> <<n, off + k>>]
      PROVE  /\ s \in Seq({n} \X (1..len))
             /\ Len(s) \in 0..SegmentSize
             /\ \A i \in 1..Len(s) : s[i] = <<n, off + i>>
  <2>1. off \in 0..(len - 1)
    BY DEF Offsets
  <2>2. Lesser(SegmentSize, len - off) \in 0..SegmentSize /\ off + Lesser(SegmentSize, len - off) <= len
    BY <2>1 DEF Lesser
  <2> DEFINE m == Lesser(SegmentSize, len - off)
  <2>3. \A k \in 1..m : <<n, off + k>> \in {n} \X (1..len)
    BY <2>1, <2>2
  <2>4. m \in Nat
    BY <2>2
  <2>5. Len(s) = m /\ s \in Seq({n} \X (1..len))
    <3> HIDE DEF m
    <3>1. s = [k \in 1..m |-> <<n, off + k>>]
      BY <1>1 DEF m
    <3>2. QED BY <2>3, <2>4, <3>1
  <2>6. QED BY <1>1, <2>2, <2>5
<1>2. ASSUME NEW s \in Segments(n, len), NEW t \in Segments(n, len),
             NEW i \in 1..Len(s), NEW j \in 1..Len(t), s[i] = t[j]
      PROVE  s = t /\ i = j
  <2>1. PICK a \in Offsets(len) : s = [k \in 1..Lesser(SegmentSize, len - a) |-> <<n, a + k>>]
    BY DEF Segments
  <2>2. PICK b \in Offsets(len) : t = [k \in 1..Lesser(SegmentSize, len - b) |-> <<n, b + k>>]
    BY DEF Segments
  <2>3. s[i] = <<n, a + i>> /\ i \in 1..SegmentSize
    <3>1. Len(s) \in 0..SegmentSize /\ s[i] = <<n, a + i>>
      BY <1>1, <2>1
    <3>2. QED BY <3>1
  <2>3a. t[j] = <<n, b + j>> /\ j \in 1..SegmentSize
    <3>1. Len(t) \in 0..SegmentSize /\ t[j] = <<n, b + j>>
      BY <1>1, <2>2
    <3>2. QED BY <3>1
  <2>3b. a \in Nat /\ b \in Nat
    BY DEF Offsets
  <2>4. a + i = b + j
    <3>1. <<n, a + i>> = <<n, b + j>>
      BY <1>2, <2>3, <2>3a
    <3>2. <<n, a + i>>[2] = <<n, b + j>>[2]
      BY <3>1
    <3>3. QED BY <3>2
  <2>5. a = b
    <3>1. CASE a < b
      BY <2>3, <2>3a, <2>3b, <2>4, <3>1, OffsetsApart
    <3>2. CASE b < a
      BY <2>3, <2>3a, <2>3b, <2>4, <3>2, OffsetsApart
    <3>3. QED BY <2>3b, <2>4, <3>1, <3>2
  <2>6. QED BY <2>1, <2>2, <2>3, <2>3a, <2>3b, <2>4, <2>5
<1>3. ASSUME NEW s \in Segments(n, len)
      PROVE  s \in Seq({n} \X (1..len)) /\ \A i \in 1..Len(s) : s[i][1] = n
  <2>1. PICK a \in Offsets(len) : s = [k \in 1..Lesser(SegmentSize, len - a) |-> <<n, a + k>>]
    BY DEF Segments
  <2>2. s \in Seq({n} \X (1..len)) /\ \A i \in 1..Len(s) : s[i] = <<n, a + i>>
    BY <1>1, <2>1
  <2>3. QED BY <2>2
<1> QED BY <1>2, <1>3 DEF Disjoint

-----------------------------------------------------------------------------
(* Type correctness                                                        *)

\* A new frame leaves the others and their bytes as they are.
LEMMA NewFrame ==
  ASSUME TypeOK, NEW s \in Shapes, OnTunPacket(s)
  PROVE  /\ Len(frames) \in Nat /\ DOMAIN frames = 1..Len(frames)
         /\ DOMAIN frames' = 1..(Len(frames) + 1) /\ Len(frames') = Len(frames) + 1
         /\ \A n \in DOMAIN frames : frames'[n] = frames[n]
         /\ frames'[Len(frames) + 1] = s
         /\ Bytes \subseteq Bytes'
         /\ Len(s) \in Nat /\ {Len(frames) + 1} \X (1..Len(s)) \subseteq Bytes'
         /\ frames' \in Seq(Shapes)
<1>1. frames \in Seq(Shapes) /\ frames' = Append(frames, s)
  BY DEF TypeOK, OnTunPacket
<1>2. Len(frames) \in Nat /\ DOMAIN frames = 1..Len(frames)
  BY <1>1, LenProperties
<1>3. /\ frames' \in Seq(Shapes) /\ Len(frames') = Len(frames) + 1
      /\ \A n \in 1..Len(frames) : frames'[n] = frames[n]
      /\ frames'[Len(frames) + 1] = s
  BY <1>1, AppendProperties
<1>4. DOMAIN frames' = 1..(Len(frames) + 1)
  BY <1>3, LenProperties
<1>5. Len(s) \in Nat /\ DOMAIN s = 1..Len(s)
  BY LenProperties
<1>6. Bytes \subseteq Bytes'
  BY <1>2, <1>3, <1>4 DEF Bytes
<1>7. ASSUME NEW k \in 1..Len(s)
      PROVE  <<Len(frames) + 1, k>> \in Bytes'
  <2>1. Len(frames) + 1 \in DOMAIN frames' /\ k \in DOMAIN frames'[Len(frames) + 1]
    BY <1>2, <1>3, <1>4, <1>5
  <2>2. QED BY <2>1 DEF Bytes
<1> QED BY <1>2, <1>3, <1>4, <1>5, <1>6, <1>7

LEMMA InitTypes == Init => TypeOK
<1> SUFFICES ASSUME Init PROVE TypeOK
  OBVIOUS
<1>1. <<>> \in Seq(Shapes) /\ <<>> \in Seq(Bytes) /\ <<>> \in Seq(DOMAIN frames) /\ Len(<<>>) = 0
  BY EmptySeq
<1>2. air \subseteq Seq(Bytes) /\ skipped \subseteq Bytes /\ at \in 0..Len(rxBuffer) /\ stops \in Nat
  BY <1>1 DEF Init
<1>3. frames \in Seq(Shapes) /\ wire \in Seq(Bytes) /\ rxBuffer \in Seq(Bytes)
  BY <1>1 DEF Init
<1>4. heard \in Seq(Bytes) /\ delivered \in Seq(DOMAIN frames)
  BY <1>1 DEF Init
<1> QED BY <1>2, <1>3, <1>4 DEF Init, TypeOK

LEMMA OnTunPacketTypes ==
  ASSUME TypeOK, NEW s \in Shapes, OnTunPacket(s)
  PROVE  TypeOK'
<1>1. air' \subseteq Seq(Bytes')
  <2>1. \A seg \in air : seg \in Seq(Bytes')
    BY NewFrame, SeqMonotonic DEF TypeOK
  <2>2. ASSUME NEW seg \in Segments(Len(frames'), Len(s))
        PROVE  seg \in Seq(Bytes')
    <3>0. Len(frames') \in Nat /\ Len(s) \in Nat
      BY NewFrame
    <3>1. seg \in Seq({Len(frames')} \X (1..Len(s)))
      BY <3>0, SegmentFacts DEF Disjoint
    <3>2. QED BY <3>1, NewFrame, SeqMonotonic
  <2>3. QED BY <2>1, <2>2 DEF OnTunPacket
<1>2. /\ wire \in Seq(Bytes') /\ rxBuffer \in Seq(Bytes') /\ heard \in Seq(Bytes')
      /\ delivered \in Seq(DOMAIN frames')
  <2>1. DOMAIN frames \subseteq DOMAIN frames'
    BY NewFrame
  <2>2. QED BY <2>1, NewFrame, SeqMonotonic DEF TypeOK
<1> QED BY <1>1, <1>2, NewFrame DEF OnTunPacket, TypeOK, rxVars

\* When the frames stay, so do the bytes.
LEMMA SameBytes == UNCHANGED frames => UNCHANGED Bytes
  BY DEF Bytes

LEMMA ArriveTypes ==
  ASSUME TypeOK, NEW seg \in air, Arrive(seg)
  PROVE  TypeOK'
<1>1. UNCHANGED Bytes
  BY SameBytes DEF Arrive
<1>2. wire \o seg \in Seq(Bytes)
  BY ConcatProperties DEF TypeOK
<1> QED BY <1>1, <1>2 DEF Arrive, TypeOK, rxVars

\* The chunk and what follows it on the wire.
LEMMA ChunkFacts ==
  ASSUME TypeOK, NEW k \in 1..Len(wire), OnSerialBytes(k)
  PROVE  LET chunk == SubSeq(wire, 1, k) IN
         /\ Len(wire) \in Nat
         /\ chunk \in Seq(Bytes) /\ Len(chunk) = k
         /\ \A i \in 1..k : chunk[i] = wire[i]
         /\ wire' \in Seq(Bytes) /\ Len(wire') = Len(wire) - k
         /\ \A i \in 1..(Len(wire) - k) : wire'[i] = wire[k + i]
         /\ heard' \in Seq(Bytes) /\ Len(heard') = Len(heard) + k
         /\ \A i \in 1..Len(heard) : heard'[i] = heard[i]
         /\ \A i \in 1..k : heard'[Len(heard) + i] = wire[i]
         /\ rxBuffer' \in Seq(Bytes) /\ Len(rxBuffer') = Len(rxBuffer) + k
         /\ \A i \in 1..Len(rxBuffer) : rxBuffer'[i] = rxBuffer[i]
         /\ \A i \in 1..k : rxBuffer'[Len(rxBuffer) + i] = wire[i]
<1> DEFINE chunk == SubSeq(wire, 1, k)
<1>1. Len(wire) \in Nat /\ Len(heard) \in Nat /\ Len(rxBuffer) \in Nat
  BY LenProperties DEF TypeOK
<1>2. \A i \in 1..Len(wire) : wire[i] \in Bytes
  BY ElementOfSeq DEF TypeOK
<1>3. chunk \in Seq(Bytes) /\ Len(chunk) = k /\ \A i \in 1..k : chunk[i] = wire[i]
  BY <1>1, <1>2, SubSeqProperties
<1>4. wire' = SubSeq(wire, k + 1, Len(wire)) /\ heard' = heard \o chunk /\ rxBuffer' = rxBuffer \o chunk
  BY DEF OnSerialBytes
<1> DEFINE rest == SubSeq(wire, k + 1, Len(wire))
<1>5. /\ wire' \in Seq(Bytes) /\ Len(wire') = Len(wire) - k
      /\ \A i \in 1..(Len(wire) - k) : wire'[i] = wire[k + i]
  <2>1. wire \in Seq(Bytes) /\ k + 1 \in 1..(Len(wire) + 1) /\ Len(wire) \in Nat
    BY ONLY TypeOK, <1>1, k \in 1..Len(wire) DEF TypeOK
  <2>2. rest \in Seq(Bytes)
    BY ONLY <1>2, <2>1, SubSeqProperties
  <2>3. Len(rest) = Len(wire) - (k + 1) + 1 /\ \A i \in 1..Len(rest) : rest[i] = wire[(k + 1) + i - 1]
    BY ONLY <2>1, SubSeqProperties
  <2> HIDE DEF rest
  <2>4. Len(rest) = Len(wire) - k /\ \A i \in 1..(Len(wire) - k) : (k + 1) + i - 1 = k + i
    BY ONLY <2>1, <2>3, k \in 1..Len(wire)
  <2>5. wire' = rest
    BY <1>4 DEF rest
  <2>6. QED BY ONLY <2>2, <2>3, <2>4, <2>5
<1> HIDE DEF chunk
<1>6. /\ heard' \in Seq(Bytes) /\ Len(heard') = Len(heard) + k
      /\ \A i \in 1..Len(heard) : heard'[i] = heard[i]
      /\ \A i \in 1..k : heard'[Len(heard) + i] = chunk[i]
  <2>1. heard \in Seq(Bytes) /\ chunk \in Seq(Bytes)
    BY <1>3 DEF TypeOK
  <2>2. /\ heard \o chunk \in Seq(Bytes) /\ Len(heard \o chunk) = Len(heard) + Len(chunk)
        /\ \A i \in 1..Len(heard) : (heard \o chunk)[i] = heard[i]
        /\ \A i \in 1..Len(chunk) : (heard \o chunk)[Len(heard) + i] = chunk[i]
    BY ONLY <2>1, ConcatParts
  <2>3. QED BY <1>3, <1>4, <2>2
<1>7. /\ rxBuffer' \in Seq(Bytes) /\ Len(rxBuffer') = Len(rxBuffer) + k
      /\ \A i \in 1..Len(rxBuffer) : rxBuffer'[i] = rxBuffer[i]
      /\ \A i \in 1..k : rxBuffer'[Len(rxBuffer) + i] = chunk[i]
  <2>1. rxBuffer \in Seq(Bytes) /\ chunk \in Seq(Bytes)
    BY <1>3 DEF TypeOK
  <2>2. /\ rxBuffer \o chunk \in Seq(Bytes) /\ Len(rxBuffer \o chunk) = Len(rxBuffer) + Len(chunk)
        /\ \A i \in 1..Len(rxBuffer) : (rxBuffer \o chunk)[i] = rxBuffer[i]
        /\ \A i \in 1..Len(chunk) : (rxBuffer \o chunk)[Len(rxBuffer) + i] = chunk[i]
    BY ONLY <2>1, ConcatParts
  <2>3. QED BY <1>3, <1>4, <2>2
<1>8. \A i \in 1..k : heard'[Len(heard) + i] = wire[i] /\ rxBuffer'[Len(rxBuffer) + i] = wire[i]
  BY <1>3, <1>6, <1>7
<1> QED BY <1>1, <1>3, <1>5, <1>6, <1>7, <1>8 DEF chunk

LEMMA OnSerialBytesTypes ==
  ASSUME TypeOK, NEW k \in 1..Len(wire), OnSerialBytes(k)
  PROVE  TypeOK'
<1>1. UNCHANGED Bytes
  BY SameBytes DEF OnSerialBytes
<1>2. wire' \in Seq(Bytes) /\ heard' \in Seq(Bytes) /\ rxBuffer' \in Seq(Bytes)
      /\ Len(rxBuffer') = Len(rxBuffer) + k
  BY ChunkFacts
<1>3. at' \in 0..Len(rxBuffer')
  BY <1>2, ReadFacts DEF OnSerialBytes, TypeOK
<1> QED BY <1>1, <1>2, <1>3 DEF OnSerialBytes, TypeOK

\* The rest of the buffer.
LEMMA BreakFacts ==
  ASSUME TypeOK, Break
  PROVE  /\ rxBuffer' \in Seq(Bytes) /\ Len(rxBuffer') = Left
         /\ \A i \in 1..Left : rxBuffer'[i] = rxBuffer[at + i]
<1>1. Len(rxBuffer) \in Nat /\ at \in 0..Len(rxBuffer)
  BY ReadFacts DEF TypeOK
<1>2. \A i \in (at + 1)..Len(rxBuffer) : rxBuffer[i] \in Bytes
  BY <1>1, ReadFacts
<1>3. rxBuffer' = SubSeq(rxBuffer, at + 1, Len(rxBuffer))
  BY DEF Break, Rest
<1> QED BY <1>1, <1>2, <1>3, SubSeqProperties DEF Left

LEMMA IterateTypes ==
  ASSUME TypeOK, Iterate
  PROVE  TypeOK'
<1>1. UNCHANGED Bytes /\ UNCHANGED <<frames, air, wire, running, heard, stops>>
  BY SameBytes DEF Iterate
<1>2. CASE Break
  <2>1. at' \in 0..Len(rxBuffer')
    BY <1>2, BreakFacts, ReadFacts DEF Break
  <2>2. QED BY <1>1, <1>2, <2>1, BreakFacts DEF Break, TypeOK
<1>3. CASE InvalidSize
  <2>1. at' \in 0..Len(rxBuffer')
    BY <1>3, ReadFacts DEF InvalidSize, Advance
  <2>2. QED BY <1>1, <1>3, <2>1 DEF InvalidSize, Advance, TypeOK
<1>4. CASE AddrMismatch
  <2>1. at' \in 0..Len(rxBuffer')
    <3>1. /\ Header.len \in 1..Left /\ at' = at + Header.len /\ rxBuffer' = rxBuffer
      BY <1>4, ReadFacts DEF AddrMismatch, Advance
    <3>2. at \in Nat /\ Len(rxBuffer) \in Nat
      BY ReadFacts
    <3>3. QED BY ONLY <3>1, <3>2 DEF Left
  <2>2. \A k \in 1..Header.len : rxBuffer[at + k] \in Bytes
    <3>1. Header.len \in 1..Left
      BY <1>4, ReadFacts DEF AddrMismatch, Advance
    <3>2. QED BY <3>1, ReadFacts DEF Left
  <2>3. QED BY <1>1, <1>4, <2>1, <2>2 DEF AddrMismatch, Advance, TypeOK
<1>5. CASE CrcMismatch
  <2>1. at' \in 0..Len(rxBuffer')
    BY <1>5, ReadFacts DEF CrcMismatch, Advance
  <2>2. QED BY <1>1, <1>5, <2>1 DEF CrcMismatch, Advance, TypeOK
<1>6. CASE Deliver
  <2>1. at' \in 0..Len(rxBuffer')
    <3>1. Header.len \in 1..Left
      BY <1>6, ReadFacts DEF Deliver, Advance
    <3>2. QED BY <1>6, <3>1, ReadFacts DEF Deliver, Advance, Left
  <2>2. delivered' \in Seq(DOMAIN frames)
    BY <1>6, ReadFacts, AppendProperties DEF Deliver, Advance, TypeOK
  <2>3. QED BY <1>1, <1>6, <2>1, <2>2 DEF Deliver, Advance, TypeOK
<1> QED BY <1>2, <1>3, <1>4, <1>5, <1>6 DEF Iterate

LEMMA StopStartTypes ==
  ASSUME TypeOK, Stop \/ Start
  PROVE  TypeOK'
<1>1. UNCHANGED Bytes
  BY SameBytes DEF Stop, Start
<1>2. <<>> \in Seq(Bytes)
  BY EmptySeq
<1>3. CASE Stop
  <2>1. wire' \in Seq(Bytes)
    BY <1>2, <1>3 DEF Stop
  <2>2. UNCHANGED <<frames, air, rxBuffer, looping, at, heard, skipped, delivered>>
    BY <1>3 DEF Stop, rxVars
  <2>3. stops' \in Nat
    BY <1>3 DEF Stop, TypeOK
  <2>4. running' \in BOOLEAN
    BY <1>3 DEF Stop
  <2>5. QED BY <1>1, <2>1, <2>2, <2>3, <2>4 DEF TypeOK
<1>4. CASE Start
  BY <1>1, <1>4 DEF Start, TypeOK, rxVars
<1> QED BY <1>3, <1>4

LEMMA StepTypes == TypeOK /\ [Next]_vars => TypeOK'
<1> SUFFICES ASSUME TypeOK, [Next]_vars PROVE TypeOK'
  OBVIOUS
<1>1. CASE UNCHANGED vars
  <2>1. UNCHANGED Bytes
    BY <1>1, SameBytes DEF vars
  <2>2. QED BY <1>1, <2>1 DEF vars, rxVars, TypeOK
<1>2. CASE Next
  BY <1>2, OnTunPacketTypes, ArriveTypes, OnSerialBytesTypes, IterateTypes, StopStartTypes DEF Next
<1> QED BY <1>1, <1>2

\* The tunnel's state is well typed; in particular the loop never reads beyond
\* the buffer.
THEOREM TunnelTypes == Spec => []TypeOK
  BY InitTypes, StepTypes, PTL DEF Spec

-----------------------------------------------------------------------------
(* No byte is heard twice                                                  *)

Distinct(s) == \A i, j \in 1..Len(s) : s[i] = s[j] => i = j
Apart(s, t) == \A i \in 1..Len(s), j \in 1..Len(t) : s[i] # t[j]

\* What was heard, what is on the wire and what is in the air are disjoint.
OnceOnly ==
    /\ Distinct(heard) /\ Distinct(wire) /\ Apart(heard, wire)
    /\ \A s \in air : /\ Distinct(s) /\ Apart(heard, s) /\ Apart(wire, s)
                      /\ \A t \in air : s # t => Apart(s, t)

LEMMA ConcatDistinct ==
  ASSUME NEW S, NEW s \in Seq(S), NEW t \in Seq(S), Distinct(s), Distinct(t), Apart(s, t)
  PROVE  Distinct(s \o t)
<1> DEFINE u == s \o t
<1>1. /\ Len(s) \in Nat /\ Len(t) \in Nat /\ Len(u) = Len(s) + Len(t)
      /\ \A i \in 1..Len(s) : u[i] = s[i]
      /\ \A i \in 1..Len(t) : u[Len(s) + i] = t[i]
  BY LenProperties, ConcatParts
<1> HIDE DEF u
<1>2. ASSUME NEW i \in 1..Len(u)
      PROVE  i \in 1..Len(s) \/ \E k \in 1..Len(t) : i = Len(s) + k
  <2>1. CASE i <= Len(s)
    BY <1>1, <2>1
  <2>2. CASE i > Len(s)
    <3>1. i - Len(s) \in 1..Len(t) /\ i = Len(s) + (i - Len(s))
      BY <1>1, <2>2
    <3>2. QED BY <3>1
  <2>3. QED BY <1>1, <2>1, <2>2
<1>3. ASSUME NEW i \in 1..Len(u), NEW j \in 1..Len(u), u[i] = u[j]
      PROVE  i = j
  <2>1. CASE i \in 1..Len(s) /\ j \in 1..Len(s)
    BY <1>1, <1>3, <2>1 DEF Distinct
  <2>2. ASSUME NEW k \in 1..Len(t), i = Len(s) + k, j \in 1..Len(s)
        PROVE  FALSE
    BY <1>1, <1>3, <2>2 DEF Apart
  <2>3. ASSUME NEW k \in 1..Len(t), j = Len(s) + k, i \in 1..Len(s)
        PROVE  FALSE
    BY <1>1, <1>3, <2>3 DEF Apart
  <2>4. ASSUME NEW k \in 1..Len(t), i = Len(s) + k, NEW l \in 1..Len(t), j = Len(s) + l
        PROVE  i = j
    BY <1>1, <1>3, <2>4 DEF Distinct
  <2>5. QED BY <1>2, <2>1, <2>2, <2>3, <2>4
<1> QED BY <1>3 DEF Distinct, u

LEMMA ConcatApart ==
  ASSUME NEW S, NEW s \in Seq(S), NEW t \in Seq(S), NEW r, Apart(s, r), Apart(t, r)
  PROVE  Apart(s \o t, r)
<1> DEFINE u == s \o t
<1>1. /\ Len(s) \in Nat /\ Len(t) \in Nat /\ Len(u) = Len(s) + Len(t)
      /\ \A i \in 1..Len(s) : u[i] = s[i]
      /\ \A i \in 1..Len(t) : u[Len(s) + i] = t[i]
  BY LenProperties, ConcatParts
<1> HIDE DEF u
<1>2. ASSUME NEW i \in 1..Len(u), NEW j \in 1..Len(r)
      PROVE  u[i] # r[j]
  <2>1. CASE i <= Len(s)
    <3>1. i \in 1..Len(s)
      BY <1>1, <2>1
    <3>2. QED BY <1>1, <3>1 DEF Apart
  <2>2. CASE i > Len(s)
    <3>1. PICK k \in 1..Len(t) : i = Len(s) + k
      <4>1. i - Len(s) \in 1..Len(t) /\ i = Len(s) + (i - Len(s))
        BY ONLY <1>1, <2>2, i \in 1..Len(u)
      <4>2. QED BY ONLY <4>1
    <3>2. u[i] = t[k]
      BY ONLY <1>1, <3>1
    <3>3. t[k] # r[j]
      BY ONLY Apart(t, r), k \in 1..Len(t), j \in 1..Len(r) DEF Apart
    <3>4. QED BY ONLY <3>2, <3>3
  <2>3. QED BY <1>1, <2>1, <2>2
<1> QED BY <1>2 DEF Apart, u

LEMMA OnTunPacketOnce ==
  ASSUME TypeOK, OnceOnly, NEW s \in Shapes, OnTunPacket(s)
  PROVE  OnceOnly'
<1>0. PICK m \in Nat, l \in Nat : m = Len(frames) + 1 /\ l = Len(s)
  BY NewFrame
<1> DEFINE New == Segments(m, l)
<1>1. air' = air \cup New /\ UNCHANGED <<heard, wire>>
  BY <1>0, NewFrame DEF OnTunPacket, rxVars
<1> HIDE DEF New
<1>1a. Disjoint(New, m, l)
  BY SegmentFacts DEF New
<1>2. \A t \in New : \A i \in 1..Len(t) : t[i][1] = m
  BY <1>1a DEF Disjoint
<1>3. ASSUME NEW t \in Seq(Bytes), NEW i \in 1..Len(t)
      PROVE  t[i][1] # m
  <2>1. t[i] \in Bytes
    BY ElementOfSeq
  <2>2. t[i][1] \in 1..Len(frames)
    BY <2>1, ByteFacts, NewFrame
  <2>3. QED BY <1>0, <2>2, NewFrame
<1>4. ASSUME NEW t \in Seq(Bytes), NEW r \in New
      PROVE  Apart(t, r) /\ Apart(r, t)
  BY <1>2, <1>3 DEF Apart
<1>5. \A r \in New : Distinct(r) /\ \A t \in New : r # t => Apart(r, t)
  <2>1. \A r \in New, t \in New :
          \A i \in 1..Len(r), j \in 1..Len(t) : r[i] = t[j] => r = t /\ i = j
    BY <1>1a DEF Disjoint
  <2> HIDE DEF New
  <2>2. QED BY <2>1 DEF Distinct, Apart
<1>6. heard \in Seq(Bytes) /\ wire \in Seq(Bytes) /\ air \subseteq Seq(Bytes)
  BY DEF TypeOK
<1> HIDE DEF New
<1>7. Distinct(heard') /\ Distinct(wire') /\ Apart(heard', wire')
  BY <1>1 DEF OnceOnly
<1>8. ASSUME NEW r \in air'
      PROVE  Distinct(r) /\ Apart(heard', r) /\ Apart(wire', r)
  BY <1>1, <1>4, <1>5, <1>6 DEF OnceOnly
<1>9. ASSUME NEW r \in air', NEW t \in air', r # t
      PROVE  Apart(r, t)
  BY <1>1, <1>4, <1>5, <1>6, <1>9 DEF OnceOnly
<1> QED BY <1>7, <1>8, <1>9 DEF OnceOnly

LEMMA ArriveOnce ==
  ASSUME TypeOK, OnceOnly, NEW seg \in air, Arrive(seg)
  PROVE  OnceOnly'
<1>1. heard \in Seq(Bytes) /\ wire \in Seq(Bytes) /\ seg \in Seq(Bytes)
  BY DEF TypeOK
<1>2. heard' = heard /\ wire' = wire \o seg /\ air' = air \ {seg}
  BY DEF Arrive, rxVars
<1>3. Distinct(heard) /\ Distinct(wire) /\ Distinct(seg)
      /\ Apart(wire, seg) /\ Apart(heard, wire) /\ Apart(heard, seg)
  BY DEF OnceOnly
<1>4. Distinct(wire')
  BY <1>1, <1>2, <1>3, ConcatDistinct
<1>5. Apart(heard', wire')
  <2>1. Apart(wire, heard) /\ Apart(seg, heard)
    BY <1>3 DEF Apart
  <2>2. Apart(wire \o seg, heard)
    BY <1>1, <2>1, ConcatApart
  <2>3. QED BY <1>2, <2>2 DEF Apart
<1>6. ASSUME NEW r \in air'
      PROVE  Apart(wire', r)
  BY <1>1, <1>2, ConcatApart DEF OnceOnly
<1> QED BY <1>2, <1>3, <1>4, <1>5, <1>6 DEF OnceOnly

\* c is the first k elements of w and r is the rest.
CutInto(w, c, r, k) ==
    /\ k \in Nat /\ Len(w) \in Nat /\ k <= Len(w)
    /\ Len(c) = k /\ \A i \in 1..k : c[i] = w[i]
    /\ Len(r) = Len(w) - k /\ \A i \in 1..(Len(w) - k) : r[i] = w[k + i]

LEMMA CutDistinct ==
  ASSUME NEW w, NEW c, NEW r, NEW k, CutInto(w, c, r, k)
  PROVE  /\ Distinct(w) => Distinct(c) /\ Distinct(r) /\ Apart(c, r)
         /\ \A x : Apart(x, w) => Apart(x, c) /\ Apart(x, r)
         /\ \A x : Apart(w, x) => Apart(c, x) /\ Apart(r, x)
<1> USE DEF CutInto
<1>1. \A i \in 1..k : i \in 1..Len(w)
  OBVIOUS
<1>2. \A i \in 1..(Len(w) - k) : k + i \in 1..Len(w)
  OBVIOUS
<1>3. ASSUME Distinct(w)
      PROVE  Distinct(c) /\ Distinct(r) /\ Apart(c, r)
  <2>1. Distinct(c)
    BY <1>1, <1>3 DEF Distinct
  <2>2. ASSUME NEW i \in 1..Len(r), NEW j \in 1..Len(r), r[i] = r[j]
        PROVE  i = j
    <3>1. w[k + i] = w[k + j]
      BY <2>2
    <3>2. k + i = k + j
      BY <1>2, <1>3, <3>1 DEF Distinct
    <3>3. QED BY <3>2
  <2>3. ASSUME NEW i \in 1..Len(c), NEW j \in 1..Len(r), c[i] = r[j]
        PROVE  FALSE
    <3>1. w[i] = w[k + j]
      BY <2>3
    <3>2. i = k + j
      BY <1>1, <1>2, <1>3, <3>1 DEF Distinct
    <3>3. QED BY <3>2
  <2>4. QED BY <2>1, <2>2, <2>3 DEF Distinct, Apart
<1>4. ASSUME NEW x, Apart(x, w)
      PROVE  Apart(x, c) /\ Apart(x, r)
  BY <1>1, <1>2, <1>4 DEF Apart
<1>5. ASSUME NEW x, Apart(w, x)
      PROVE  Apart(c, x) /\ Apart(r, x)
  BY <1>1, <1>2, <1>5 DEF Apart
<1> QED BY <1>3, <1>4, <1>5

LEMMA OnSerialBytesOnce ==
  ASSUME TypeOK, OnceOnly, NEW k \in 1..Len(wire), OnSerialBytes(k)
  PROVE  OnceOnly'
<1> DEFINE chunk == SubSeq(wire, 1, k)
<1>1. /\ Len(wire) \in Nat /\ Len(chunk) = k /\ chunk \in Seq(Bytes) /\ heard \in Seq(Bytes)
      /\ \A i \in 1..k : chunk[i] = wire[i]
      /\ Len(wire') = Len(wire) - k
      /\ \A i \in 1..(Len(wire) - k) : wire'[i] = wire[k + i]
      /\ heard' = heard \o chunk /\ air' = air
  BY ChunkFacts DEF OnSerialBytes, TypeOK
<1> HIDE DEF chunk
<1>1a. CutInto(wire, chunk, wire', k)
  BY <1>1 DEF CutInto
<1>2. Distinct(chunk) /\ Distinct(wire') /\ Apart(chunk, wire')
  BY <1>1, <1>1a, CutDistinct DEF OnceOnly
<1>3. Apart(heard, chunk) /\ Apart(heard, wire')
  BY <1>1, <1>1a, CutDistinct DEF OnceOnly
<1>4. \A r \in air : Apart(heard, r) /\ Apart(chunk, r) /\ Apart(wire', r)
  BY <1>1, <1>1a, CutDistinct DEF OnceOnly
<1>5. Distinct(heard')
  BY <1>1, <1>2, <1>3, ConcatDistinct DEF OnceOnly
<1>6. Apart(heard', wire')
  BY <1>1, <1>2, <1>3, ConcatApart
<1>7. \A r \in air : Apart(heard', r)
  BY <1>1, <1>4, ConcatApart
<1> QED BY <1>1, <1>2, <1>4, <1>5, <1>6, <1>7 DEF OnceOnly

LEMMA StepOnce == TypeOK /\ OnceOnly /\ [Next]_vars => OnceOnly'
<1> SUFFICES ASSUME TypeOK, OnceOnly, [Next]_vars PROVE OnceOnly'
  OBVIOUS
<1>1. CASE Iterate \/ Start \/ UNCHANGED vars
  BY <1>1 DEF Iterate, Start, vars, rxVars, OnceOnly
<1>2. CASE Stop
  <2>1. Len(wire') = 0 /\ UNCHANGED <<heard, air>>
    BY <1>2, EmptySeq DEF Stop, rxVars
  <2>2. QED BY <2>1 DEF OnceOnly, Distinct, Apart
<1> QED BY <1>1, <1>2, OnTunPacketOnce, ArriveOnce, OnSerialBytesOnce DEF Next

-----------------------------------------------------------------------------
(* The inductive invariant                                                 *)

\* How many of the bytes heard the loop has passed.
Position == Len(heard) - Left

\* The buffer is the end of what was heard.
Placed ==
    /\ Len(rxBuffer) <= Len(heard)
    /\ \A i \in 1..Len(rxBuffer) : rxBuffer[i] = heard[Base + i]
    /\ ~looping => at = 0

\* Something else than the rest of frame n follows.
Torn(i, n) == i + Len(frames[n]) <= Len(heard) /\ ~WholeAt(heard, i, n)

\* What may have become of a header for this tunnel.
PassedAt(i) ==
    heard[i][2] = 1 /\ ForLocal(heard[i][1]) =>
      \/ heard[i][1] \in Range(delivered)
      \/ heard[i] \in skipped
      \/ Torn(i - 1, heard[i][1])

Passed == \A i \in 1..Position : PassedAt(i)

\* Between two chunks the first header in the buffer waits for more.
Waits == ~looping /\ Len(rxBuffer) >= MinFrame => Len(rxBuffer) < Claim(rxBuffer[1]).len

\* In an aligned stream the loop is always at the end of a frame.
InStep ==
    Aligned =>
      /\ \A b \in skipped : ~ForLocal(b[1])
      /\ Position > 0 => heard[Position][2] = Len(frames[heard[Position][1]])

\* What was delivered was for this tunnel, and its header has been passed.
Handed == \A n \in Range(delivered) : ForLocal(n) /\ \E i \in 1..Position : heard[i] = <<n, 1>>

LoopInv == Placed /\ Passed /\ Waits /\ InStep /\ Handed
TunnelInv == TypeOK /\ OnceOnly /\ LoopInv

-----------------------------------------------------------------------------

LEMMA InitInv == Init => TunnelInv
<1> SUFFICES ASSUME Init PROVE TunnelInv
  OBVIOUS
<1>1. Len(rxBuffer) = 0 /\ Len(heard) = 0 /\ Len(wire) = 0
  BY EmptySeq DEF Init
<1>2. OnceOnly
  BY <1>1 DEF Init, OnceOnly, Distinct, Apart
<1>3. Position = 0
  BY <1>1 DEF Position, Left, Init
<1>4. Range(delivered) = {}
  BY RangeEmpty DEF Init
<1>5. LoopInv
  BY <1>1, <1>3, <1>4 DEF LoopInv, Placed, Passed, Waits, InStep, Handed, Init
<1> QED BY <1>2, <1>5, InitTypes DEF TunnelInv

\* The loop's position in the buffer and in what was heard.
LEMMA PositionFacts ==
  ASSUME TypeOK, Placed
  PROVE  /\ Len(heard) \in Nat /\ Position \in Nat /\ Left \in Nat /\ Position + Left = Len(heard)
         /\ Base \in Nat /\ Position = Base + at
         /\ \A i \in 1..Len(heard) : heard[i] \in Bytes
         /\ \A k \in 1..Left : rxBuffer[at + k] = heard[Position + k]
         /\ \A n \in DOMAIN frames : WholeAt(rxBuffer, at, n) <=> WholeAt(heard, Position, n)
<1>1. /\ Len(heard) \in Nat /\ Len(rxBuffer) \in Nat /\ at \in 0..Len(rxBuffer)
      /\ \A i \in 1..Len(heard) : heard[i] \in Bytes
  BY LenProperties, ElementOfSeq DEF TypeOK
<1>2. Left \in Nat /\ Base \in Nat /\ Position \in Nat /\ Position = Base + at /\ Position + Left = Len(heard)
  BY <1>1 DEF Placed, Position, Base, Left
<1>3. ASSUME NEW k \in 1..Left
      PROVE  rxBuffer[at + k] = heard[Position + k]
  <2>1. at + k \in 1..Len(rxBuffer) /\ Base + (at + k) = Position + k
    BY ONLY <1>1, <1>2, k \in 1..Left, SMTT(30) DEF Left
  <2>2. QED BY <2>1 DEF Placed
<1>4. ASSUME NEW n \in DOMAIN frames
      PROVE  WholeAt(rxBuffer, at, n) <=> WholeAt(heard, Position, n)
  <2> DEFINE len == Len(frames[n])
  <2>1. len \in Nat
    BY FrameFacts
  <2>2. at + len <= Len(rxBuffer) <=> len <= Left
    BY <1>1, <2>1 DEF Left
  <2>3. Position + len <= Len(heard) <=> len <= Left
    BY <1>1, <1>2, <2>1
  <2>4. len <= Left => \A k \in 1..len : rxBuffer[at + k] = heard[Position + k]
    BY <1>2, <1>3, <2>1
  <2>5. QED BY <2>2, <2>3, <2>4 DEF WholeAt
<1> QED BY <1>1, <1>2, <1>3, <1>4

\* What concerns the receiving tunnel does not change while it does nothing,
\* whatever is sent.
LEMMA OthersKeep ==
  ASSUME TypeOK, LoopInv, UNCHANGED rxVars,
         \A n \in DOMAIN frames : n \in DOMAIN frames' /\ frames'[n] = frames[n]
  PROVE  LoopInv'
<1>1. UNCHANGED <<rxBuffer, looping, at, heard, skipped, delivered>> /\ UNCHANGED <<Base, Left, Position>>
  BY DEF rxVars, Base, Left, Position
<1>2. /\ \A i \in 1..Len(heard) : heard[i] \in Bytes
      /\ \A i \in 1..Len(rxBuffer) : rxBuffer[i] \in Bytes
      /\ Position \in Nat /\ Len(heard) \in Nat /\ Len(rxBuffer) \in Nat /\ Position <= Len(heard)
  BY PositionFacts, ReadFacts DEF LoopInv
<1>3. \A n \in DOMAIN frames : ForLocal(n)' = ForLocal(n)
  BY DEF ForLocal
<1>4. \A n \in DOMAIN frames, i \in Nat :
        /\ WholeAt(heard, i, n)' <=> WholeAt(heard, i, n)
        /\ Torn(i, n)' <=> Torn(i, n)
  BY <1>1 DEF WholeAt, Torn
<1>5. \A b \in Bytes : b[1] \in DOMAIN frames
  BY ByteFacts
<1>6. Placed'
  BY <1>1 DEF LoopInv, Placed
<1>7. Passed'
  <2> SUFFICES ASSUME NEW i \in 1..Position PROVE PassedAt(i)'
    BY <1>1 DEF Passed
  <2>1. PassedAt(i) /\ heard[i][1] \in DOMAIN frames /\ i - 1 \in Nat
    BY <1>2, <1>5 DEF LoopInv, Passed
  <2>2. QED BY <1>1, <1>3, <1>4, <2>1 DEF PassedAt
<1>8. Waits'
  <2> SUFFICES ASSUME ~looping, Len(rxBuffer) >= MinFrame
               PROVE  Len(rxBuffer) < Claim(rxBuffer[1])'.len
    BY <1>1 DEF Waits
  <2>1. rxBuffer[1] \in Bytes
    BY <1>2
  <2>2. Claim(rxBuffer[1])' = Claim(rxBuffer[1])
    BY <1>1, <1>5, <2>1 DEF Claim
  <2>3. QED BY <2>2 DEF LoopInv, Waits
<1>9. InStep'
  <2> SUFFICES ASSUME Aligned' PROVE (/\ \A b \in skipped : ~ForLocal(b[1])
                                      /\ Position > 0 => heard[Position][2] = Len(frames[heard[Position][1]]))'
    BY DEF InStep
  <2>1. Aligned
    BY <1>1, <1>2, <1>5 DEF Aligned
  <2>2. skipped \subseteq Bytes
    BY DEF TypeOK
  <2>3. Position > 0 => heard[Position][1] \in DOMAIN frames
    BY <1>2, <1>5
  <2>4. QED BY <1>1, <1>3, <1>5, <2>1, <2>2, <2>3 DEF LoopInv, InStep
<1>10. Handed'
  <2>1. \A n \in Range(delivered) : n \in DOMAIN frames
    BY RangeType DEF TypeOK
  <2>2. QED BY <1>1, <1>3, <2>1 DEF LoopInv, Handed
<1> QED BY <1>6, <1>7, <1>8, <1>9, <1>10 DEF LoopInv

\* A chunk only adds bytes behind those the loop has passed.
LEMMA OnSerialBytesKeeps ==
  ASSUME TypeOK, LoopInv, NEW k \in 1..Len(wire), OnSerialBytes(k)
  PROVE  LoopInv'
<1> USE DEF LoopInv
<1>1. /\ UNCHANGED <<frames, at, skipped, delivered>> /\ ~looping /\ looping' /\ at = 0
  BY DEF OnSerialBytes, Placed
<1>2. /\ Len(heard) \in Nat /\ Len(rxBuffer) \in Nat /\ k \in Nat
      /\ Len(heard') = Len(heard) + k /\ Len(rxBuffer') = Len(rxBuffer) + k
      /\ \A i \in 1..Len(heard) : heard'[i] = heard[i]
  BY ChunkFacts, PositionFacts, ReadFacts
<1>2a. Len(heard) \in Nat /\ k \in Nat /\ Len(heard') = Len(heard) + k
  BY <1>2
<1>3. /\ UNCHANGED <<Base, Position>> /\ Position \in Nat /\ Position <= Len(heard)
      /\ Base \in Nat /\ Base + Len(rxBuffer) = Len(heard)
  BY <1>1, <1>2, PositionFacts DEF Base, Position, Left
<1>4. /\ \A i \in 1..Len(heard) : heard[i][1] \in DOMAIN frames
      /\ \A n \in DOMAIN frames : Len(frames[n]) \in Nat
  BY PositionFacts, ByteFacts, FrameFacts
<1>5. Placed'
  <2> SUFFICES ASSUME NEW i \in 1..Len(rxBuffer')
               PROVE  rxBuffer'[i] = heard'[Base + i]
    BY <1>1, <1>2, <1>3 DEF Placed
  <2>1. CASE i \in 1..Len(rxBuffer)
    <3>1. Base + i \in 1..Len(heard)
      BY <1>3, <2>1
    <3>2. rxBuffer'[i] = rxBuffer[i] /\ heard'[Base + i] = heard[Base + i] /\ rxBuffer[i] = heard[Base + i]
      BY <1>2, <2>1, <3>1, ChunkFacts DEF Placed
    <3>3. QED BY <3>2
  <2>2. CASE i > Len(rxBuffer)
    <3> DEFINE j == i - Len(rxBuffer)
    <3>0. Len(rxBuffer) \in Nat /\ Len(rxBuffer') = Len(rxBuffer) + k
      BY <1>2
    <3>1. j \in 1..k /\ i = Len(rxBuffer) + j /\ Base + i = Len(heard) + j
      <4>1. i \in Nat /\ i <= Len(rxBuffer) + k
        BY ONLY <1>2a, <3>0, i \in 1..Len(rxBuffer')
      <4>2. j \in 1..k /\ i = Len(rxBuffer) + j
        BY ONLY <1>2a, <2>2, <3>0, <4>1
      <4> HIDE DEF j
      <4>3. QED BY ONLY <1>2a, <1>3, <3>0, <4>2, SMTT(30)
    <3> HIDE DEF j
    <3>2. rxBuffer'[Len(rxBuffer) + j] = wire[j] /\ heard'[Len(heard) + j] = wire[j]
      BY <3>1, ChunkFacts
    <3>3. QED BY <3>1, <3>2
  <2>3. QED BY <1>2, <2>1, <2>2
<1>6. Passed'
  <2> SUFFICES ASSUME NEW i \in 1..Position PROVE PassedAt(i)'
    BY <1>3 DEF Passed
  <2> DEFINE n == heard[i][1]
  <2>1. i \in 1..Len(heard) /\ heard'[i] = heard[i] /\ n \in DOMAIN frames /\ Len(frames[n]) \in Nat
    BY <1>2, <1>3, <1>4
  <2>2. PassedAt(i)
    BY DEF Passed
  <2>3. Torn(i - 1, n) => Torn(i - 1, n)'
    <3> SUFFICES ASSUME Torn(i - 1, n) PROVE Torn(i - 1, n)'
      OBVIOUS
    <3>1. PICK d \in 1..Len(frames[n]) : heard[(i - 1) + d] # <<n, d>>
      BY DEF Torn, WholeAt
    <3>1a. (i - 1) + Len(frames[n]) <= Len(heard)
      BY DEF Torn
    <3>1b. Len(heard) \in Nat /\ Len(heard') \in Nat /\ Len(heard) <= Len(heard')
      BY ONLY <1>2a
    <3>2. (i - 1) + d \in 1..Len(heard) /\ (i - 1) + Len(frames[n]) <= Len(heard')
      <4> DEFINE l == Len(frames[n]) h == Len(heard) h1 == Len(heard')
      <4>1. i \in 1..h /\ l \in Nat /\ d \in 1..l /\ (i - 1) + l <= h /\ h \in Nat /\ h1 \in Nat /\ h <= h1
        BY ONLY <2>1, <3>1, <3>1a, <3>1b
      <4> HIDE DEF l, h, h1
      <4>2. (i - 1) + d \in 1..h /\ (i - 1) + l <= h1
        BY ONLY <4>1
      <4> QED BY ONLY <4>2 DEF l, h, h1
    <3>3. heard'[(i - 1) + d] # <<n, d>>
      BY ONLY <1>2, <3>1, <3>2
    <3>4. QED BY <1>1, <2>1, <3>2, <3>3 DEF Torn, WholeAt
  <2>4. QED BY <1>1, <2>1, <2>2, <2>3 DEF PassedAt, ForLocal
<1>7. Waits'
  BY <1>1 DEF Waits
<1>8. InStep'
  <2> SUFFICES ASSUME Aligned' PROVE InStep'
    BY DEF InStep
  <2>1. Aligned
    <3> SUFFICES ASSUME NEW i \in 1..Len(heard)
                 PROVE  /\ heard[i][2] <= i
                        /\ \A j \in 1..Len(heard) :
                             heard[i][2] + j - i \in 1..Len(frames[heard[i][1]])
                               => heard[j] = <<heard[i][1], heard[i][2] + j - i>>
      BY DEF Aligned
    <3>1. i \in 1..Len(heard') /\ \A j \in 1..Len(heard) : j \in 1..Len(heard')
      BY <1>2
    <3>2. QED BY <1>1, <1>2, <3>1 DEF Aligned
  <2>2. Position > 0 => Position \in 1..Len(heard)
    BY <1>3
  <2>3. QED BY <1>1, <1>2, <1>3, <2>1, <2>2 DEF InStep, ForLocal
<1>9. Handed'
  <2> SUFFICES ASSUME NEW n \in Range(delivered)
               PROVE  ForLocal(n) /\ \E i \in 1..Position : heard'[i] = <<n, 1>>
    BY <1>1, <1>3 DEF Handed, ForLocal
  <2>1. PICK i \in 1..Position : heard[i] = <<n, 1>>
    BY DEF Handed
  <2>2. i \in 1..Len(heard)
    BY <1>3
  <2>3. QED BY <1>2, <2>1, <2>2 DEF Handed
<1> QED BY <1>5, <1>6, <1>7, <1>8, <1>9

\* The loop ends where it is.
LEMMA BreakKeeps ==
  ASSUME TypeOK, LoopInv, looping, Break, UNCHANGED <<frames, heard>>
  PROVE  LoopInv'
<1> USE DEF LoopInv
<1>1. UNCHANGED <<frames, heard, skipped, delivered>> /\ ~looping' /\ at' = 0
  BY DEF Break
<1>2. Len(rxBuffer') = Left /\ \A i \in 1..Left : rxBuffer'[i] = rxBuffer[at + i]
  BY BreakFacts
<1>3. UNCHANGED Position /\ Base' = Position /\ Left \in Nat /\ Len(heard) \in Nat
      /\ Position \in Nat /\ Position + Left = Len(heard)
  BY <1>1, <1>2, PositionFacts DEF Position, Base, Left
<1>4. Placed'
  <2>1. \A i \in 1..Left : rxBuffer'[i] = heard[Position + i]
    BY <1>2, PositionFacts
  <2>2. QED BY <1>1, <1>2, <1>3, <2>1 DEF Placed
<1>5. Passed'
  BY <1>1, <1>3 DEF Passed, PassedAt, ForLocal, Torn, WholeAt
<1>6. Waits'
  <2> SUFFICES ASSUME Left >= MinFrame PROVE Left < Claim(rxBuffer'[1]).len
    BY <1>1, <1>2 DEF Waits, Claim
  <2>1. Left < Header.len
    BY DEF Break, ShortFrame
  <2>2. rxBuffer'[1] = rxBuffer[at + 1]
    BY <1>2, <1>3
  <2>3. QED BY <2>1, <2>2 DEF Header
<1>7. InStep'
  BY <1>1, <1>3 DEF InStep, Aligned, ForLocal
<1>8. Handed'
  BY <1>1, <1>3 DEF Handed, ForLocal
<1> QED BY <1>4, <1>5, <1>6, <1>7, <1>8

-----------------------------------------------------------------------------
(* One iteration that goes on                                              *)

\* What every iteration that passes step bytes keeps; the rest is what it says
\* of those bytes.
LEMMA AdvanceKeeps ==
  ASSUME TypeOK, LoopInv, looping, UNCHANGED <<frames, heard>>,
         NEW step \in 1..Left, Advance(step),
         skipped \subseteq skipped', Range(delivered) \subseteq Range(delivered'),
         \A i \in (Position + 1)..(Position + step) : PassedAt(i)'
  PROVE  /\ Position' = Position + step
         /\ Placed' /\ Passed' /\ Waits'
<1> USE DEF LoopInv
<1>1. UNCHANGED <<frames, heard, rxBuffer, looping>> /\ at' = at + step
  BY DEF Advance
<1>2. /\ Position \in Nat /\ Left \in Nat /\ step \in Nat /\ at \in Nat
      /\ Len(rxBuffer) \in Nat /\ Len(heard) \in Nat
  BY PositionFacts, ReadFacts
<1>3. Position' = Position + step
  BY ONLY <1>1, <1>2, SMTT(30) DEF Position, Left
<1>4. Placed' /\ Waits'
  BY <1>1 DEF Placed, Base, Waits
<1>5. ASSUME NEW i \in 1..Position
      PROVE  PassedAt(i)'
  <2>1. PassedAt(i)
    BY DEF Passed
  <2>2. QED BY <1>1, <2>1 DEF PassedAt, ForLocal, Torn, WholeAt
<1>6. Passed'
  <2> SUFFICES ASSUME NEW i \in 1..(Position + step) PROVE PassedAt(i)'
    BY <1>3 DEF Passed
  <2>1. CASE i <= Position
    BY <1>2, <1>5, <2>1
  <2>2. CASE i > Position
    BY <1>2, <2>2
  <2>3. QED BY <1>2, <2>1, <2>2
<1> QED BY <1>3, <1>4, <1>6

\* In an aligned stream the loop reads a true header, and of the bytes that
\* follow it those that were heard are the frame's.
LEMMA AlignedHeader ==
  ASSUME TypeOK, LoopInv, Aligned, 1 \in 1..Left
  PROVE  /\ Here \in DOMAIN frames /\ rxBuffer[at + 1] = <<Here, 1>>
         /\ Header = frames[Here][1] /\ Header.len = Len(frames[Here])
         /\ \A j \in 1..Len(heard) :
              j - Position \in 1..Len(frames[Here]) => heard[j] = <<Here, j - Position>>
<1> USE DEF LoopInv
<1> DEFINE n == Here
           k == rxBuffer[at + 1][2]
           c == Position
<1>1. /\ n \in DOMAIN frames /\ k \in 1..Len(frames[n]) /\ rxBuffer[at + 1] = <<n, k>>
      /\ Len(frames[n]) \in Nat /\ frames[n][1].len = Len(frames[n])
  <2>1. at + 1 \in 1..Len(rxBuffer)
    BY ReadFacts DEF Left
  <2>2. rxBuffer[at + 1] \in Bytes
    BY <2>1, ReadFacts
  <2>3. QED BY <2>2, ByteFacts, FrameFacts DEF Here
<1>2. c \in Nat /\ Left \in Nat /\ c + Left = Len(heard) /\ heard[c + 1] = <<n, k>>
  BY <1>1, PositionFacts
<1> HIDE DEF n, k, c
<1>3. /\ c + 1 \in 1..Len(heard) /\ k <= c + 1
      /\ \A j \in 1..Len(heard) : k + j - (c + 1) \in 1..Len(frames[n]) => heard[j] = <<n, k + j - (c + 1)>>
  <2>1. c + 1 \in 1..Len(heard)
    BY <1>2
  <2>2. heard[c + 1][1] = n /\ heard[c + 1][2] = k
    BY <1>2
  <2>3. QED BY <2>1, <2>2 DEF Aligned
<1>4. k = 1
  <2> SUFFICES ASSUME k # 1 PROVE FALSE
    OBVIOUS
  <2>1. c \in 1..Len(heard) /\ k + c - (c + 1) = k - 1 /\ k - 1 \in 1..Len(frames[n])
    BY <1>1, <1>2, <1>3
  <2>2. heard[c] = <<n, k - 1>>
    BY <1>3, <2>1
  <2>3. heard[c][2] = Len(frames[heard[c][1]])
    BY <1>2, <2>1 DEF InStep, c
  <2>4. k - 1 = Len(frames[n])
    BY <2>2, <2>3
  <2>5. QED BY <1>1, <2>4
<1>5. Header = frames[n][1] /\ Header.len = Len(frames[n])
  BY <1>1, <1>4 DEF Header, Claim
<1>6. ASSUME NEW j \in 1..Len(heard), j - c \in 1..Len(frames[n])
      PROVE  heard[j] = <<n, j - c>>
  <2>1. k + j - (c + 1) = j - c
    BY <1>2, <1>4
  <2>2. QED BY <1>3, <1>6, <2>1
<1> QED BY <1>1, <1>4, <1>5, <1>6 DEF n, c

\* When the header is followed by as many bytes as it claims, they are a frame.
LEMMA AlignedHere ==
  ASSUME TypeOK, LoopInv, Aligned, ~ShortFrame
  PROVE  /\ Here \in DOMAIN frames /\ Header = frames[Here][1]
         /\ Header.len = Len(frames[Here]) /\ Header.len \in 1..Left
         /\ WholeAt(heard, Position, Here)
<1> DEFINE c == Position
           n == Here
<1>1. 1 \in 1..Left
  BY ReadFacts DEF Left
<1>2. /\ n \in DOMAIN frames /\ Header = frames[n][1] /\ Header.len = Len(frames[n])
      /\ \A j \in 1..Len(heard) : j - c \in 1..Len(frames[n]) => heard[j] = <<n, j - c>>
  BY <1>1, AlignedHeader
<1>3. Len(frames[n]) \in 1..Left
  BY <1>2, FrameFacts, ReadFacts
<1>4. c \in Nat /\ Left \in Nat /\ c + Left = Len(heard)
  BY PositionFacts DEF LoopInv
<1> HIDE DEF c, n
<1>5. ASSUME NEW j \in 1..Len(frames[n])
      PROVE  heard[c + j] = <<n, j>>
  <2>1. c + j \in 1..Len(heard) /\ (c + j) - c = j
    BY <1>3, <1>4
  <2>2. QED BY <1>2, <2>1
<1>6. WholeAt(heard, c, n)
  BY <1>3, <1>4, <1>5 DEF WholeAt
<1> QED BY <1>2, <1>3, <1>6 DEF c, n

\* The last byte of a whole frame is a place where the loop may stand.
LEMMA EndOfFrame ==
  ASSUME TypeOK, NEW i \in Nat, NEW n \in DOMAIN frames, WholeAt(heard, i, n)
  PROVE  LET e == i + Len(frames[n]) IN heard[e][2] = Len(frames[heard[e][1]])
<1>1. Len(frames[n]) \in 1..Len(frames[n])
  BY FrameFacts
<1>2. heard[i + Len(frames[n])] = <<n, Len(frames[n])>>
  BY <1>1 DEF WholeAt
<1> QED BY <1>2

\* Frames delivered before stay behind the position.
LEMMA HandedKeeps ==
  ASSUME Handed, UNCHANGED <<frames, heard, delivered>>, Position \in Nat,
         NEW step \in Nat, Position' = Position + step
  PROVE  Handed'
<1>1. \A i \in 1..Position : i \in 1..(Position + step)
  OBVIOUS
<1> SUFFICES ASSUME NEW n \in Range(delivered)
             PROVE  ForLocal(n) /\ \E i \in 1..(Position + step) : heard[i] = <<n, 1>>
  BY DEF Handed, ForLocal
<1>2. QED BY <1>1 DEF Handed

LEMMA InvalidSizeKeeps ==
  ASSUME TypeOK, LoopInv, looping, UNCHANGED <<frames, heard>>, InvalidSize
  PROVE  LoopInv'
<1> USE DEF LoopInv
<1>1. Advance(1) /\ ~ShortFrame /\ Header.len = 0 /\ UNCHANGED <<skipped, delivered>>
  BY DEF InvalidSize, Advance
<1>2. 1 \in 1..Left /\ Position \in Nat /\ heard[Position + 1] = rxBuffer[at + 1]
  <2>1. /\ Left >= MinFrame /\ Left \in Nat
    BY <1>1, ReadFacts DEF ShortFrame
  <2>2. 1 \in 1..Left
    BY ONLY <2>1, TunnelAssumption
  <2>3. Position \in Nat /\ heard[Position + 1] = rxBuffer[at + 1]
    BY <2>2, PositionFacts
  <2>4. QED BY ONLY <2>2, <2>3
<1>3. ASSUME NEW i \in (Position + 1)..(Position + 1)
      PROVE  PassedAt(i)'
  <2> SUFFICES ASSUME heard[Position + 1][2] = 1 PROVE FALSE
    <3>1. i = Position + 1
      BY <1>2
    <3>2. QED BY <3>1 DEF PassedAt
  <2>1. Here \in DOMAIN frames /\ rxBuffer[at + 1] = <<Here, 1>>
    BY <1>1, <1>2, ReadFacts, ByteFacts DEF Here
  <2>2. Header.len = Len(frames[Here]) /\ Len(frames[Here]) >= MinFrame
    BY <2>1, FrameFacts DEF Header, Claim
  <2>3. QED BY <1>1, <2>2
<1>4. Position' = Position + 1 /\ Placed' /\ Passed' /\ Waits'
  BY <1>1, <1>2, <1>3, AdvanceKeeps
<1>5. InStep'
  <2>1. ~Aligned
    BY <1>1, AlignedHere
  <2>2. QED BY <2>1 DEF InStep, Aligned
<1>6. Handed'
  BY <1>1, <1>2, <1>4, HandedKeeps
<1> QED BY <1>4, <1>5, <1>6

LEMMA CrcMismatchKeeps ==
  ASSUME TypeOK, LoopInv, looping, UNCHANGED <<frames, heard>>, CrcMismatch
  PROVE  LoopInv'
<1> USE DEF LoopInv
<1>1. /\ Advance(1) /\ ~ShortFrame /\ Header.len # 0 /\ UNCHANGED <<skipped, delivered>>
      /\ ~WholeAt(rxBuffer, at, Here)
  BY DEF CrcMismatch, Advance
<1>2. /\ 1 \in 1..Left /\ Position \in Nat /\ Left \in Nat /\ Position + Left = Len(heard)
      /\ heard[Position + 1] = rxBuffer[at + 1]
      /\ Here \in DOMAIN frames /\ Header.len \in 1..Left
  <2>1. /\ Here \in DOMAIN frames /\ Header.len \in 1..Left
        /\ Position \in Nat /\ Left \in Nat /\ Position + Left = Len(heard)
    BY <1>1, ReadFacts, PositionFacts
  <2>2. 1 \in 1..Left
    BY ONLY <2>1
  <2>3. heard[Position + 1] = rxBuffer[at + 1]
    BY <2>2, PositionFacts
  <2>4. QED BY ONLY <2>1, <2>2, <2>3
<1>3. ~WholeAt(heard, Position, Here)
  BY <1>1, <1>2, PositionFacts
<1>4. ASSUME NEW i \in (Position + 1)..(Position + 1)
      PROVE  PassedAt(i)'
  <2> SUFFICES ASSUME heard[Position + 1][2] = 1 PROVE Torn(i - 1, heard[i][1])'
    <3>1. i = Position + 1
      BY <1>2
    <3>2. QED BY <3>1 DEF PassedAt
  <2>1. rxBuffer[at + 1] = <<Here, 1>>
    BY <1>1, <1>2, ReadFacts, ByteFacts DEF Here
  <2>2. Header.len = Len(frames[Here])
    BY <1>2, <2>1, FrameFacts DEF Header, Claim
  <2>3. Position + Len(frames[Here]) <= Len(heard)
    BY <1>2, <2>2
  <2>4. i - 1 = Position /\ heard[i][1] = Here
    BY <1>2, <2>1
  <2>5. Torn(i - 1, heard[i][1])
    BY <1>3, <2>3, <2>4 DEF Torn
  <2>6. QED BY <2>5 DEF Torn, WholeAt
<1>5. Position' = Position + 1 /\ Placed' /\ Passed' /\ Waits'
  BY <1>1, <1>2, <1>4, AdvanceKeeps
<1>6. InStep'
  <2>1. ~Aligned
    BY <1>1, <1>3, AlignedHere
  <2>2. QED BY <2>1 DEF InStep, Aligned
<1>7. Handed'
  BY <1>1, <1>2, <1>5, HandedKeeps
<1> QED BY <1>5, <1>6, <1>7

LEMMA AddrMismatchKeeps ==
  ASSUME TypeOK, LoopInv, looping, UNCHANGED <<frames, heard>>, AddrMismatch
  PROVE  LoopInv'
<1> USE DEF LoopInv
<1> DEFINE len == Header.len
<1>1. /\ Advance(len) /\ ~ShortFrame /\ len # 0 /\ Header.addr # Local /\ UNCHANGED delivered
      /\ skipped' = skipped \cup {rxBuffer[at + k] : k \in 1..len}
  BY DEF AddrMismatch, Advance
<1>2. /\ len \in 1..Left /\ Position \in Nat /\ Left \in Nat /\ Position + Left = Len(heard)
      /\ \A k \in 1..len : rxBuffer[at + k] = heard[Position + k]
  BY <1>1, ReadFacts, PositionFacts
<1> HIDE DEF len
<1>3. ASSUME NEW i \in (Position + 1)..(Position + len)
      PROVE  PassedAt(i)'
  <2> DEFINE k == i - Position
  <2>1. k \in 1..len /\ i = Position + k
    BY <1>2
  <2>2. heard[i] \in skipped'
    BY <1>1, <1>2, <2>1
  <2>3. QED BY <2>2 DEF PassedAt
<1>4. Position' = Position + len /\ Placed' /\ Passed' /\ Waits'
  BY <1>1, <1>2, <1>3, AdvanceKeeps
<1>5. InStep'
  <2> SUFFICES ASSUME Aligned PROVE InStep'
    BY DEF InStep, Aligned
  <2>1. /\ Here \in DOMAIN frames /\ Header = frames[Here][1] /\ len = Len(frames[Here])
        /\ WholeAt(heard, Position, Here)
    BY <1>1, AlignedHere DEF len
  <2>2. ~ForLocal(Here)
    BY <1>1, <2>1 DEF ForLocal
  <2>3. ASSUME NEW b \in skipped'
        PROVE  ~ForLocal(b[1])
    <3>1. CASE b \in skipped
      BY <3>1 DEF InStep
    <3>2. ASSUME NEW k \in 1..len, b = rxBuffer[at + k]
          PROVE  ~ForLocal(b[1])
      BY <1>2, <2>1, <2>2, <3>2 DEF WholeAt
    <3>3. QED BY <1>1, <3>1, <3>2
  <2>4. heard[Position + len][2] = Len(frames[heard[Position + len][1]])
    BY <1>2, <2>1, EndOfFrame
  <2>5. QED BY <1>4, <2>3, <2>4 DEF InStep, ForLocal
<1>6. Handed'
  BY <1>1, <1>2, <1>4, HandedKeeps
<1> QED BY <1>4, <1>5, <1>6

\* A delivered frame stood in one piece at the loop's position.
LEMMA DeliverFacts ==
  ASSUME TypeOK, LoopInv, Deliver
  PROVE  /\ Here \in DOMAIN frames /\ ForLocal(Here)
         /\ WholeAt(heard, Position, Here)
         /\ Header.len = Len(frames[Here]) /\ Header.len \in 1..Left
         /\ Position \in Nat /\ Left \in Nat /\ Position + Left = Len(heard)
         /\ heard[Position + 1] = <<Here, 1>>
<1> USE DEF LoopInv
<1>1. /\ ~ShortFrame /\ Header.len # 0 /\ Header.addr = Local
      /\ WholeAt(rxBuffer, at, Here)
  BY DEF Deliver, Advance
<1>2. /\ Here \in DOMAIN frames /\ Header.len \in 1..Left
      /\ Position \in Nat /\ Left \in Nat /\ Position + Left = Len(heard)
      /\ WholeAt(heard, Position, Here)
  BY <1>1, ReadFacts, PositionFacts
<1>3. 1 \in 1..Len(frames[Here])
  BY <1>2, FrameFacts
<1>4. rxBuffer[at + 1] = <<Here, 1>> /\ heard[Position + 1] = <<Here, 1>>
  BY <1>1, <1>2, <1>3 DEF WholeAt
<1>5. Header = frames[Here][1] /\ Header.len = Len(frames[Here])
  BY <1>2, <1>4, FrameFacts DEF Header, Claim
<1> QED BY <1>1, <1>2, <1>4, <1>5 DEF ForLocal

LEMMA DeliverKeeps ==
  ASSUME TypeOK, LoopInv, looping, UNCHANGED <<frames, heard>>, Deliver
  PROVE  LoopInv'
<1> USE DEF LoopInv
<1> DEFINE len == Header.len
<1>1. Advance(len) /\ UNCHANGED skipped /\ delivered' = Append(delivered, Here)
  BY DEF Deliver
<1>2. Range(delivered') = Range(delivered) \cup {Here}
  BY <1>1, DeliverFacts, RangeAppend DEF TypeOK
<1>3. len \in 1..Left /\ len = Len(frames[Here])
  BY DeliverFacts
<1> HIDE DEF len
<1>4. ASSUME NEW i \in (Position + 1)..(Position + len)
      PROVE  PassedAt(i)'
  <2>1. i - Position \in 1..len /\ i = Position + (i - Position)
    BY <1>3, DeliverFacts
  <2>2. heard[i] = <<Here, i - Position>>
    BY <1>3, <2>1, DeliverFacts DEF WholeAt
  <2>3. QED BY <1>2, <2>2 DEF PassedAt
<1>5. Position' = Position + len /\ Placed' /\ Passed' /\ Waits'
  BY <1>1, <1>2, <1>3, <1>4, AdvanceKeeps
<1>6. InStep'
  <2> SUFFICES ASSUME Aligned PROVE InStep'
    BY DEF InStep, Aligned
  <2>1. heard[Position + len][2] = Len(frames[heard[Position + len][1]])
    BY <1>3, DeliverFacts, EndOfFrame
  <2>2. QED BY <1>1, <1>5, <2>1 DEF InStep, ForLocal
<1>7. Handed'
  <2> SUFFICES ASSUME NEW n \in Range(delivered')
               PROVE  ForLocal(n) /\ \E i \in 1..(Position + len) : heard[i] = <<n, 1>>
    BY <1>5 DEF Handed, ForLocal
  <2>1. \A i \in 1..Position : i \in 1..(Position + len)
    BY <1>3, DeliverFacts
  <2>2. Position + 1 \in 1..(Position + len)
    BY <1>3, DeliverFacts
  <2>3. QED BY <1>2, <2>1, <2>2, DeliverFacts DEF Handed
<1> QED BY <1>5, <1>6, <1>7

-----------------------------------------------------------------------------

LEMMA StepInv == TunnelInv /\ [Next]_vars => TunnelInv'
<1> SUFFICES ASSUME TunnelInv, [Next]_vars PROVE TunnelInv'
  OBVIOUS
<1> USE DEF TunnelInv
<1>1. ASSUME NEW s \in Shapes, OnTunPacket(s)
      PROVE  LoopInv'
  <2>1. \A n \in DOMAIN frames : n \in DOMAIN frames' /\ frames'[n] = frames[n]
    BY <1>1, NewFrame
  <2>2. QED BY <1>1, <2>1, OthersKeep DEF OnTunPacket
<1>2. ASSUME (\E seg \in air : Arrive(seg)) \/ Stop \/ Start \/ UNCHANGED vars
      PROVE  LoopInv'
  <2>1. UNCHANGED frames /\ UNCHANGED rxVars
    BY <1>2 DEF Arrive, Stop, Start, vars
  <2>2. QED BY <2>1, OthersKeep
<1>3. ASSUME NEW k \in 1..Len(wire), OnSerialBytes(k)
      PROVE  LoopInv'
  BY <1>3, OnSerialBytesKeeps
<1>4. ASSUME Iterate
      PROVE  LoopInv'
  <2>1. looping /\ UNCHANGED <<frames, heard>>
    BY <1>4 DEF Iterate
  <2>2. QED BY <1>4, <2>1, BreakKeeps, InvalidSizeKeeps, AddrMismatchKeeps, CrcMismatchKeeps, DeliverKeeps
            DEF Iterate
<1>5. LoopInv'
  BY <1>1, <1>2, <1>3, <1>4 DEF Next
<1> QED BY <1>5, StepTypes, StepOnce

LEMMA TunnelInvariant == Spec => []TunnelInv
  BY InitInv, StepInv, PTL DEF Spec

-----------------------------------------------------------------------------

LEMMA WholeServedNow == TunnelInv => WholeFramesGetThrough
<1> SUFFICES ASSUME TunnelInv PROVE WholeFramesGetThrough
  OBVIOUS
<1> USE DEF TunnelInv, LoopInv
<1> SUFFICES ASSUME ~looping, NEW n \in DOMAIN frames, NEW i \in 0..Len(heard),
                    WholeAt(heard, i, n), ForLocal(n),
                    n \notin Range(delivered), <<n, 1>> \notin skipped
             PROVE  Base < i /\ Len(rxBuffer) < Claim(rxBuffer[1]).len
  BY DEF WholeFramesGetThrough
<1> DEFINE len == Len(frames[n])
<1>1. /\ len \in Nat /\ len >= MinFrame /\ frames[n][1].len = len
      /\ i \in Nat /\ i + len <= Len(heard) /\ heard[i + 1] = <<n, 1>>
  <2>1. len \in Nat /\ len >= MinFrame /\ frames[n][1].len = len
    BY FrameFacts
  <2>2. Len(heard) \in Nat /\ 1 \in 1..len
    BY <2>1, PositionFacts
  <2>3. QED BY <2>1, <2>2 DEF WholeAt
<1>2. /\ Len(heard) \in Nat /\ Len(rxBuffer) \in Nat /\ Base \in Nat /\ Base + Len(rxBuffer) = Len(heard)
      /\ Position = Base /\ at = 0
  BY PositionFacts, ReadFacts DEF Base, Placed
<1> HIDE DEF len
<1>3. i >= Base
  <2> SUFFICES ASSUME i < Base PROVE FALSE
    BY <1>1, <1>2
  <2>1. i + 1 \in 1..Position
    BY <1>1, <1>2
  <2>2. PassedAt(i + 1)
    BY <2>1 DEF Passed
  <2>3. Torn((i + 1) - 1, n)
    BY <1>1, <2>2 DEF PassedAt
  <2>4. (i + 1) - 1 = i
    BY <1>1
  <2>5. QED BY <2>3, <2>4 DEF Torn
<1>4. Len(rxBuffer) >= len /\ Len(rxBuffer) < Claim(rxBuffer[1]).len
  <2>1. Len(rxBuffer) >= len
    BY <1>1, <1>2, <1>3
  <2>2. QED BY <1>1, <2>1 DEF Waits
<1>5. i # Base
  <2> SUFFICES ASSUME i = Base PROVE FALSE
    OBVIOUS
  <2>1. 1 \in 1..Len(rxBuffer)
    BY <1>1, <1>2, <1>4
  <2>2. rxBuffer[1] = <<n, 1>>
    BY <1>1, <2>1 DEF Placed
  <2>3. Claim(rxBuffer[1]).len = len
    BY <1>1, <2>2 DEF Claim
  <2>4. QED BY <1>1, <1>2, <1>4, <2>3
<1> QED BY <1>1, <1>2, <1>3, <1>4, <1>5

\* Whatever is lost or out of order, a frame for this tunnel that came in one
\* piece is delivered when onSerialBytes returns, unless a misplaced header took
\* it for someone else's or a claim for more bytes is still open.
THEOREM WholeFramesServed == Spec => []WholeFramesGetThrough
  BY TunnelInvariant, WholeServedNow, PTL

LEMMA AlignedServedNow == TunnelInv => AlignedLosesNothing
<1> SUFFICES ASSUME TunnelInv PROVE AlignedLosesNothing
  OBVIOUS
<1> USE DEF TunnelInv, LoopInv
<1> SUFFICES ASSUME Aligned, ~looping, NEW n \in DOMAIN frames, ForLocal(n),
                    <<n, Len(frames[n])>> \in Range(heard)
             PROVE  n \in Range(delivered)
  BY DEF AlignedLosesNothing
<1> DEFINE len == Len(frames[n])
<1>1. len \in Nat /\ len >= MinFrame /\ 1 \in 1..len /\ len \in 1..len
  BY FrameFacts
<1>2. /\ Len(heard) \in Nat /\ Len(rxBuffer) \in Nat /\ Base \in Nat /\ Base + Len(rxBuffer) = Len(heard)
      /\ Position = Base /\ at = 0 /\ Left = Len(rxBuffer)
  BY PositionFacts, ReadFacts DEF Base, Placed, Left
<1>3. PICK p \in 1..Len(heard) : heard[p] = <<n, len>>
  <2>1. DOMAIN heard = 1..Len(heard)
    BY LenProperties DEF TypeOK
  <2>2. QED BY <2>1 DEF Range
<1>4. /\ len <= p
      /\ \A j \in 1..Len(heard) : len + j - p \in 1..len => heard[j] = <<n, len + j - p>>
  <2>1. heard[p][1] = n /\ heard[p][2] = len
    BY <1>3
  <2>2. QED BY <2>1 DEF Aligned
<1> HIDE DEF len
<1> DEFINE i == p - len
<1>5. i \in 0..Len(heard) /\ i + len = p
  BY <1>1, <1>2, <1>4
<1>6. WholeAt(heard, i, n)
  <2>1. i + Len(frames[n]) <= Len(heard)
    BY <1>5 DEF len
  <2>2. ASSUME NEW k \in 1..len
        PROVE  heard[i + k] = <<n, k>>
    <3>1. i \in Nat /\ k \in Nat /\ p \in Nat /\ k <= len
      BY <1>1, <1>5
    <3> HIDE DEF i
    <3>2. i + k \in 1..Len(heard) /\ len + (i + k) - p = k
      BY <1>1, <1>2, <1>5, <3>1
    <3>3. QED BY <1>4, <3>2
  <2>3. QED BY <2>1, <2>2 DEF WholeAt, len
<1>7. <<n, 1>> \notin skipped
  BY DEF InStep
<1>8. ASSUME Base < i, Len(rxBuffer) < Claim(rxBuffer[1]).len
      PROVE  FALSE
  <2>1. 1 \in 1..Left
    BY <1>1, <1>2, <1>5, <1>8
  <2>2. /\ Claim(rxBuffer[1]).len = Len(frames[Here])
        /\ p - Base \in 1..Len(frames[Here]) => heard[p] = <<Here, p - Base>>
    <3>1. Header = Claim(rxBuffer[1])
      BY <1>2 DEF Header
    <3>2. QED BY <1>2, <2>1, <3>1, AlignedHeader
  <2>3. p - Base \in 1..Len(frames[Here])
    <3>1. Len(frames[Here]) \in Nat
      BY <2>1, AlignedHeader, FrameFacts
    <3>2. QED BY <1>1, <1>2, <1>5, <1>8, <2>2, <3>1
  <2>4. len = p - Base
    BY <1>3, <2>2, <2>3
  <2>5. QED BY <1>1, <1>2, <1>5, <1>8, <2>4
<1> QED BY <1>5, <1>6, <1>7, <1>8, WholeServedNow DEF WholeFramesGetThrough

\* Without a missing or misplaced segment the loop never loses its place: each
\* frame for this tunnel is delivered with its last byte, whatever the payloads
\* contain.
THEOREM AlignedServed == Spec => []AlignedLosesNothing
  BY TunnelInvariant, AlignedServedNow, PTL

-----------------------------------------------------------------------------

\* The tunnel implements the channel that hands over what was sent, once.
THEOREM ImplementsChannel == Spec => DeliversOnce
<1> DEFINE sent == {n \in DOMAIN frames : ForLocal(n)}
<1>1. Init => Channel!Init
  <2> SUFFICES ASSUME Init PROVE Channel!Init
    OBVIOUS
  <2>1. DOMAIN frames = {}
    BY DEF Init
  <2>2. QED BY <2>1 DEF Init, Channel!Init
<1>2. TunnelInv /\ [Next]_vars => [Channel!Send \/ Channel!Hand]_<<sent, delivered>>
  <2> SUFFICES ASSUME TunnelInv, [Next]_vars
               PROVE  Channel!Send \/ Channel!Hand \/ UNCHANGED <<sent, delivered>>
    OBVIOUS
  <2> USE DEF TunnelInv
  <2>1. ASSUME NEW s \in Shapes, OnTunPacket(s)
        PROVE  Channel!Send \/ UNCHANGED <<sent, delivered>>
    <3> DEFINE m == Len(frames) + 1
    <3>1. /\ Len(frames) \in Nat /\ DOMAIN frames = 1..Len(frames) /\ DOMAIN frames' = 1..m
          /\ \A n \in DOMAIN frames : frames'[n] = frames[n]
      BY <2>1, NewFrame
    <3>2. delivered' = delivered
      BY <2>1 DEF OnTunPacket, rxVars
    <3>3. \A n \in DOMAIN frames : ForLocal(n)' <=> ForLocal(n)
      BY <3>1 DEF ForLocal
    <3>4. \A n : n \in DOMAIN frames' <=> n \in DOMAIN frames \/ n = m
      BY <3>1
    <3> HIDE DEF m
    <3>5. sent' = sent \/ (sent' = sent \cup {m} /\ m \in sent')
      BY <3>3, <3>4
    <3>6. QED BY <3>2, <3>5 DEF Channel!Send
  <2>2. ASSUME UNCHANGED frames, UNCHANGED delivered
        PROVE  UNCHANGED <<sent, delivered>>
    BY <2>2 DEF ForLocal
  <2>3. ASSUME Deliver, UNCHANGED <<frames, heard>>
        PROVE  Channel!Hand
    <3>1. Here \in sent
      BY DeliverFacts, <2>3
    <3>2. Here \notin Range(delivered)
      <4> SUFFICES ASSUME Here \in Range(delivered) PROVE FALSE
        OBVIOUS
      <4>1. PICK i \in 1..Position : heard[i] = <<Here, 1>>
        BY DEF LoopInv, Handed
      <4>2. /\ Position \in Nat /\ Left \in Nat /\ Position + Left = Len(heard) /\ 1 <= Left
            /\ heard[Position + 1] = <<Here, 1>>
        BY <2>3, DeliverFacts
      <4>3. i \in 1..Len(heard) /\ Position + 1 \in 1..Len(heard) /\ i # Position + 1
        BY <4>2
      <4>4. Distinct(heard)
        BY DEF OnceOnly
      <4>5. QED BY <4>1, <4>2, <4>3, <4>4 DEF Distinct
    <3>3. delivered' = Append(delivered, Here) /\ UNCHANGED sent
      BY <2>3 DEF Deliver, ForLocal
    <3>4. QED BY <3>1, <3>2, <3>3 DEF Channel!Hand, Channel!Range, Range
  <2>4. QED BY <2>1, <2>2, <2>3
            DEF Next, Iterate, Break, InvalidSize, AddrMismatch, CrcMismatch, Arrive, OnSerialBytes,
                Stop, Start, vars, rxVars
<1> QED BY TunnelInvariant, <1>1, <1>2, PTL DEF Spec, DeliversOnce, Channel!OneSession

-----------------------------------------------------------------------------
(* The chunks do not matter                                                *)

\* Every set of numbers that is not empty has a least one.  In place of an
\* induction the proofs below look at the least counterexample.
LEMMA LeastNumber ==
  ASSUME NEW T, T \subseteq Nat, T # {}
  PROVE  \E m \in T : \A k \in T : m <= k
<1>1. PICK m \in T : \A k \in T : <<k, m>> \notin OpToRel(<, Nat)
  BY NatLessThanWellFounded, WFMin, Zenon
<1>2. \A k \in T : ~(k < m)
  BY <1>1 DEF OpToRel
<1> QED BY <1>2

\* One step of a recursion over the positions 0..n of a sequence, from each one
\* to a later one unless it halts there.
Unfolded(f, i, halts, jump, out) == IF i \in halts THEN <<>> ELSE out[i] \o f[jump[i]]

\* f is defined by it from position m on.
Unfolds(f, m, n, halts, jump, out) ==
    f = [i \in m..n |-> Unfolded(f, i, halts, jump, out)]

LEMMA UnfoldsBackwards ==
  ASSUME NEW n \in Nat, NEW m \in 0..n, NEW halts, NEW jump, NEW out, NEW g,
         \A i \in 0..n : i \notin halts => jump[i] \in (i + 1)..n,
         \A i \in (m + 1)..n : g[i] = Unfolded(g, i, halts, jump, out)
  PROVE  \E f : Unfolds(f, m, n, halts, jump, out)
<1> DEFINE f == [i \in m..n |-> IF i = m THEN Unfolded(g, m, halts, jump, out) ELSE g[i]]
<1>1. ASSUME NEW i \in m..n
      PROVE  f[i] = Unfolded(f, i, halts, jump, out)
  <2>1. f[i] = Unfolded(g, i, halts, jump, out)
    <3>1. CASE i = m
      BY <3>1
    <3>2. CASE i # m
      <4>1. i \in (m + 1)..n
        BY <3>2
      <4> QED BY <3>2, <4>1
    <3> QED BY <3>1, <3>2
  <2>2. ASSUME i \notin halts
        PROVE  f[jump[i]] = g[jump[i]]
    <3>1. jump[i] \in (i + 1)..n
      BY <2>2
    <3>2. jump[i] \in m..n /\ jump[i] # m
      BY <3>1
    <3> QED BY <3>2
  <2> HIDE DEF f
  <2> QED BY <2>1, <2>2 DEF Unfolded
<1>2. f = [i \in m..n |-> f[i]]
  OBVIOUS
<1> HIDE DEF f
<1>3. f = [i \in m..n |-> Unfolded(f, i, halts, jump, out)]
  BY <1>1, <1>2
<1> QED BY <1>3 DEF Unfolds

\* So a function defined this way exists.
LEMMA RecursionExists ==
  ASSUME NEW n \in Nat, NEW halts, NEW jump, NEW out,
         \A i \in 0..n : i \notin halts => jump[i] \in (i + 1)..n
  PROVE  \E f : Unfolds(f, 0, n, halts, jump, out)
<1> DEFINE Exists(k) == \E f : Unfolds(f, n - k, n, halts, jump, out)
           bad == {k \in 0..n : ~Exists(k)}
<1>1. SUFFICES ASSUME bad # {} PROVE FALSE
  <2>1. ASSUME bad = {} PROVE Exists(n)
    <3>1. n \in 0..n /\ n \notin bad
      BY <2>1
    <3> HIDE DEF Exists
    <3> QED BY <3>1
  <2>2. n - n = 0
    OBVIOUS
  <2> QED BY <2>1, <2>2
<1>2. PICK k \in bad : \A j \in bad : k <= j
  <2>1. bad \subseteq Nat
    OBVIOUS
  <2> HIDE DEF bad
  <2> QED BY <1>1, <2>1, LeastNumber
<1>3. k \in 0..n /\ ~Exists(k)
  OBVIOUS
<1>4. PICK g : \A i \in (n - k + 1)..n : g[i] = Unfolded(g, i, halts, jump, out)
  <2>1. CASE k = 0
    <3>1. \A i : i \notin (n - k + 1)..n
      BY <2>1
    <3> QED BY <3>1
  <2>2. CASE k # 0
    <3>1. k - 1 \in 0..n /\ ~(k <= k - 1)
      BY <1>3, <2>2
    <3>2. k - 1 \notin bad
      <4> HIDE DEF bad
      <4> QED BY <1>2, <3>1
    <3>3. Exists(k - 1)
      BY <3>1, <3>2
    <3>4. PICK g : Unfolds(g, n - (k - 1), n, halts, jump, out)
      BY <3>3
    <3>5. n - (k - 1) = n - k + 1
      BY <1>3
    <3>6. \A i \in (n - k + 1)..n : g[i] = Unfolded(g, i, halts, jump, out)
      BY <3>4, <3>5 DEF Unfolds
    <3> QED BY <3>6
  <2> QED BY <2>1, <2>2
<1>5. n - k \in 0..n
  BY <1>3
<1>6. \E f : Unfolds(f, n - k, n, halts, jump, out)
  BY <1>4, <1>5, UnfoldsBackwards
<1> QED BY <1>3, <1>6

-----------------------------------------------------------------------------

\* The bytes of the frames fs.
BytesOf(fs) == UNION {{<<n, k>> : k \in DOMAIN fs[n]} : n \in DOMAIN fs}

\* What is read from a byte of such a frame.
LEMMA ClaimFacts ==
  ASSUME NEW fs \in Seq(Shapes), NEW b \in BytesOf(fs)
  PROVE  /\ b[1] \in DOMAIN fs /\ b[2] \in 1..Len(fs[b[1]]) /\ Len(fs[b[1]]) \in Nat
         /\ Len(fs[b[1]]) >= MinFrame /\ fs[b[1]][1].len = Len(fs[b[1]])
         /\ fs[b[1]][b[2]].len \in Nat
<1>1. PICK n \in DOMAIN fs : b \in {<<n, k>> : k \in DOMAIN fs[n]}
  BY DEF BytesOf
<1>2. PICK k \in DOMAIN fs[n] : b = <<n, k>>
  BY <1>1
<1>3. fs[n] \in Shapes
  BY LenProperties, ElementOfSeq
<1>4. fs[n] \in Seq(Claims) /\ Len(fs[n]) >= MinFrame /\ fs[n][1].len = Len(fs[n])
  BY <1>3
<1>5. DOMAIN fs[n] = 1..Len(fs[n]) /\ Len(fs[n]) \in Nat
  BY <1>4, LenProperties
<1>6. fs[n][k] \in Claims
  BY <1>2, <1>4, <1>5, ElementOfSeq
<1> QED BY <1>2, <1>4, <1>5, <1>6 DEF Claims

\* A whole frame begins with a true claim.
LEMMA DeliversTrue ==
  ASSUME NEW fs \in Seq(Shapes), NEW s \in Seq(BytesOf(fs)), NEW i \in 0..(Len(s) - 1),
         DeliversAt(fs, s, i)
  PROVE  ReadAt(fs, s, i).len = Len(fs[s[i + 1][1]]) /\ ReadAt(fs, s, i).len # 0
<1> DEFINE n == s[i + 1][1]
<1>1. s[i + 1] \in BytesOf(fs)
  <2>1. Len(s) \in Nat /\ i + 1 \in 1..Len(s)
    BY LenProperties
  <2> QED BY <2>1, ElementOfSeq
<1>2. Len(fs[n]) \in Nat /\ Len(fs[n]) >= MinFrame /\ fs[n][1].len = Len(fs[n])
  BY <1>1, ClaimFacts
<1>3. 1 \in 1..Len(fs[n]) /\ Len(fs[n]) # 0
  <2>1. MinFrame \in Nat \ {0}
    OBVIOUS
  <2> HIDE DEF n
  <2> QED BY ONLY <1>2, <2>1
<1>4. s[i + 1] = <<n, 1>>
  BY <1>3 DEF DeliversAt
<1>5. s[i + 1][2] = 1
  BY <1>4
<1> QED BY <1>2, <1>3, <1>5 DEF ReadAt

\* The loop moves forward and stays within what it was given.
LEMMA StepForward ==
  ASSUME NEW fs \in Seq(Shapes), NEW s \in Seq(BytesOf(fs)), NEW i \in 0..Len(s),
         ~StopsAt(fs, s, i)
  PROVE  i + StepAt(fs, s, i) \in (i + 1)..Len(s) /\ s[i + 1][1] \in DOMAIN fs /\ i + 1 \in 1..Len(s)
<1> DEFINE len == ReadAt(fs, s, i).len
           size == Len(s)
<1>1. size \in Nat
  BY LenProperties
<1>2. size - i >= MinFrame /\ ~(len > size - i) /\ MinFrame \in Nat \ {0}
  BY DEF StopsAt
<1>3. i + 1 \in 1..size /\ i \in 0..(size - 1)
  <2> HIDE DEF len, size
  <2>1. i \in 0..size
    BY DEF size
  <2> QED BY ONLY <1>1, <1>2, <2>1
<1>4. s[i + 1] \in BytesOf(fs)
  BY <1>3, ElementOfSeq
<1>5. len \in Nat /\ s[i + 1][1] \in DOMAIN fs
  BY <1>4, ClaimFacts DEF ReadAt
<1>6. StepAt(fs, s, i) = 1 \/ (StepAt(fs, s, i) = len /\ len # 0)
  <2>1. DeliversAt(fs, s, i) => len # 0
    BY <1>3, DeliversTrue
  <2> HIDE DEF len
  <2> QED BY <2>1 DEF StepAt, len
<1> HIDE DEF len, size
<1>7. i + StepAt(fs, s, i) \in (i + 1)..size
  BY ONLY <1>1, <1>2, <1>3, <1>5, <1>6
<1> QED BY <1>3, <1>5, <1>7 DEF size

\* What is delivered where the loop stands.
Found(fs, s, i) == IF DeliversAt(fs, s, i) THEN <<s[i + 1][1]>> ELSE <<>>

LEMMA FoundType ==
  ASSUME NEW S, NEW fs, NEW s, NEW i, s[i + 1][1] \in S
  PROVE  Found(fs, s, i) \in Seq(S)
<1>1. \A x \in S : <<x>> \in Seq(S)
  OBVIOUS
<1>2. <<>> \in Seq(S)
  BY EmptySeq
<1> QED BY <1>1, <1>2 DEF Found

\* The recursion of Decoded is one that can be unfolded.
LEMMA DecodedUnfolds ==
  ASSUME NEW fs \in Seq(Shapes), NEW s \in Seq(BytesOf(fs)), NEW i \in 0..Len(s)
  PROVE  Decoded(fs, s)[i] =
           IF StopsAt(fs, s, i) THEN <<>>
           ELSE Found(fs, s, i) \o Decoded(fs, s)[i + StepAt(fs, s, i)]
<1> DEFINE n == Len(s)
           halts == {k \in 0..n : StopsAt(fs, s, k)}
           jump == [k \in 0..n |-> k + StepAt(fs, s, k)]
           out == [k \in 0..n |-> Found(fs, s, k)]
           Value(f, k) == IF StopsAt(fs, s, k) THEN <<>> ELSE Found(fs, s, k) \o f[k + StepAt(fs, s, k)]
<1>1. n \in Nat
  BY LenProperties
<1>2. \A k \in 0..n : k \notin halts => jump[k] \in (k + 1)..n
  BY StepForward
<1>3. PICK f : Unfolds(f, 0, n, halts, jump, out)
  <2> HIDE DEF n, halts, jump, out
  <2> QED BY <1>1, <1>2, RecursionExists
<1>4. f = [k \in 0..n |-> Value(f, k)]
  <2>1. f = [k \in 0..n |-> Unfolded(f, k, halts, jump, out)]
    BY <1>3 DEF Unfolds
  <2>2. \A k \in 0..n : Unfolded(f, k, halts, jump, out) = Value(f, k)
    BY DEF Unfolded
  <2> HIDE DEF Value, halts, jump, out
  <2> QED BY <2>1, <2>2
<1>5. Decoded(fs, s) = CHOOSE g : g = [k \in 0..n |-> Value(g, k)]
  BY DEF Decoded, Found
<1> HIDE DEF Value
<1>6. Decoded(fs, s) = [k \in 0..n |-> Value(Decoded(fs, s), k)]
  BY <1>4, <1>5
<1>7. Decoded(fs, s)[i] = Value(Decoded(fs, s), i)
  BY <1>6
<1> QED BY <1>7 DEF Value

\* What is decoded are frames.
LEMMA DecodedType ==
  ASSUME NEW fs \in Seq(Shapes), NEW s \in Seq(BytesOf(fs)), NEW i \in 0..Len(s)
  PROVE  Decoded(fs, s)[i] \in Seq(DOMAIN fs)
<1> DEFINE n == Len(s)
           d == Decoded(fs, s)
           bad == {k \in 0..n : d[n - k] \notin Seq(DOMAIN fs)}
<1>1. n \in Nat
  BY LenProperties
<1>2. SUFFICES ASSUME bad # {} PROVE FALSE
  <2>1. n - i \in 0..n /\ n - (n - i) = i
    BY <1>1
  <2> QED BY <2>1
<1>3. PICK k \in bad : \A j \in bad : k <= j
  <2>1. bad \subseteq Nat
    OBVIOUS
  <2> HIDE DEF bad
  <2> QED BY <1>2, <2>1, LeastNumber
<1> DEFINE p == n - k
<1>4. k \in 0..n /\ p \in 0..n /\ d[p] \notin Seq(DOMAIN fs)
  BY <1>1
<1>5. \A q \in (p + 1)..n : d[q] \in Seq(DOMAIN fs)
  <2> SUFFICES ASSUME NEW q \in (p + 1)..n, d[q] \notin Seq(DOMAIN fs) PROVE FALSE
    OBVIOUS
  <2>1. n - q \in 0..n /\ ~(k <= n - q) /\ n - (n - q) = q
    BY <1>1, <1>4
  <2>2. n - q \in bad
    BY <2>1
  <2> HIDE DEF bad
  <2> QED BY <1>3, <2>1, <2>2
<1>6. CASE StopsAt(fs, s, p)
  <2>1. d[p] = <<>>
    BY <1>4, <1>6, DecodedUnfolds
  <2> QED BY <1>4, <2>1, EmptySeq
<1>7. CASE ~StopsAt(fs, s, p)
  <2> DEFINE q == p + StepAt(fs, s, p)
  <2>1. d[p] = Found(fs, s, p) \o d[q]
    BY <1>4, <1>7, DecodedUnfolds
  <2>2. q \in (p + 1)..n /\ s[p + 1][1] \in DOMAIN fs
    BY <1>4, <1>7, StepForward
  <2>3. Found(fs, s, p) \in Seq(DOMAIN fs)
    BY <2>2, FoundType
  <2>4. d[q] \in Seq(DOMAIN fs)
    BY <1>5, <2>2
  <2> HIDE DEF d, q, p
  <2>5. d[p] \in Seq(DOMAIN fs)
    BY <2>1, <2>3, <2>4, ConcatProperties
  <2> QED BY <1>4, <2>5 DEF p
<1> QED BY <1>6, <1>7

-----------------------------------------------------------------------------
(* The inductive invariant of the chunks                                   *)

\* The frames may become fs and ext may be heard next.
Extends(fs, ext) ==
    /\ fs \in Seq(Shapes) /\ ext \in Seq(BytesOf(fs))
    /\ \A n \in DOMAIN frames : n \in DOMAIN fs /\ fs[n] = frames[n]

\* Whatever is sent and heard from here on, one chunk with all of it would give
\* what was delivered and then what follows the loop's position.
Explained ==
    \A fs, ext : Extends(fs, ext) =>
      Decoded(fs, heard \o ext)[0] = delivered \o Decoded(fs, heard \o ext)[Position]

LEMMA ExtendsFacts ==
  ASSUME TypeOK, LoopInv, NEW fs, NEW ext, Extends(fs, ext)
  PROVE  LET s == heard \o ext IN
         /\ fs \in Seq(Shapes) /\ s \in Seq(BytesOf(fs))
         /\ Len(ext) \in Nat /\ Len(s) \in Nat /\ Len(s) = Len(heard) + Len(ext)
         /\ \A i \in 1..Len(heard) : s[i] = heard[i]
         /\ Position \in 0..Len(s) /\ 0 \in 0..Len(s)
         /\ DOMAIN frames \subseteq DOMAIN fs /\ Bytes \subseteq BytesOf(fs)
         /\ delivered \in Seq(DOMAIN fs)
         /\ heard \in Seq(BytesOf(fs)) /\ ext \in Seq(BytesOf(fs))
<1> DEFINE s == heard \o ext
<1>1. /\ fs \in Seq(Shapes) /\ ext \in Seq(BytesOf(fs))
      /\ \A n \in DOMAIN frames : n \in DOMAIN fs /\ fs[n] = frames[n]
  BY DEF Extends
<1>2. Bytes \subseteq BytesOf(fs) /\ DOMAIN frames \subseteq DOMAIN fs
  BY <1>1 DEF Bytes, BytesOf
<1>3. heard \in Seq(BytesOf(fs)) /\ delivered \in Seq(DOMAIN fs)
  BY <1>2, SeqMonotonic DEF TypeOK
<1>4. /\ s \in Seq(BytesOf(fs)) /\ Len(s) = Len(heard) + Len(ext)
      /\ \A i \in 1..Len(heard) : s[i] = heard[i]
  BY <1>1, <1>3, ConcatParts
<1>5. Len(ext) \in Nat /\ Len(heard) \in Nat
  BY <1>1, <1>3, LenProperties
<1>6. Position \in Nat /\ Left \in Nat /\ Position + Left = Len(heard)
  BY PositionFacts DEF LoopInv
<1>7. Position \in 0..Len(s) /\ 0 \in 0..Len(s) /\ Len(s) \in Nat
  <2> HIDE DEF s
  <2> QED BY ONLY <1>4, <1>5, <1>6
<1> QED BY <1>1, <1>2, <1>3, <1>4, <1>5, <1>7

LEMMA InitExplained == Init => Explained
<1> SUFFICES ASSUME Init, NEW fs, NEW ext, Extends(fs, ext)
             PROVE  Decoded(fs, heard \o ext)[0] = delivered \o Decoded(fs, heard \o ext)[Position]
  BY DEF Explained
<1>1. TypeOK /\ LoopInv
  BY InitInv DEF TunnelInv
<1> DEFINE d == Decoded(fs, heard \o ext)[0]
<1>2. delivered = <<>> /\ Position = 0
  BY EmptySeq DEF Init, Position, Left
<1>3. d \in Seq(DOMAIN fs)
  BY <1>1, ExtendsFacts, DecodedType
<1>4. d = <<>> \o d
  <2> HIDE DEF d
  <2> QED BY <1>3, ConcatEmptySeq
<1> QED BY <1>2, <1>4

\* Nothing that the loop does not see makes a difference.
LEMMA OthersExplained ==
  ASSUME Explained, UNCHANGED <<heard, delivered, Position>>,
         \A n \in DOMAIN frames : n \in DOMAIN frames' /\ frames'[n] = frames[n]
  PROVE  Explained'
<1>1. \A fs, ext : Extends(fs, ext)' => Extends(fs, ext)
  BY DEF Extends
<1> QED BY <1>1 DEF Explained

\* The chunk was among what might be heard next.
LEMMA OnSerialBytesExplained ==
  ASSUME TypeOK, LoopInv, Explained, NEW k \in 1..Len(wire), OnSerialBytes(k)
  PROVE  Explained'
<1> DEFINE chunk == SubSeq(wire, 1, k)
<1>1. /\ UNCHANGED <<frames, delivered, at>> /\ heard' = heard \o chunk
  BY DEF OnSerialBytes
<1>2. chunk \in Seq(Bytes)
  BY ChunkFacts
<1>3. UNCHANGED Position
  <2>1. /\ Len(heard) \in Nat /\ Len(rxBuffer) \in Nat /\ at \in Nat
        /\ Len(heard') = Len(heard) + k /\ Len(rxBuffer') = Len(rxBuffer) + k
    BY ChunkFacts, PositionFacts, ReadFacts DEF LoopInv
  <2> QED BY ONLY <1>1, <2>1, k \in 1..Len(wire) DEF Position, Left
<1> SUFFICES ASSUME NEW fs, NEW ext, Extends(fs, ext)'
             PROVE  Decoded(fs, heard' \o ext)[0] = delivered \o Decoded(fs, heard' \o ext)[Position]
  BY <1>1, <1>3 DEF Explained
<1>4. /\ fs \in Seq(Shapes) /\ ext \in Seq(BytesOf(fs))
      /\ \A n \in DOMAIN frames : n \in DOMAIN fs /\ fs[n] = frames[n]
  BY <1>1 DEF Extends
<1> HIDE DEF chunk
<1>5. Bytes \subseteq BytesOf(fs)
  BY <1>4 DEF Bytes, BytesOf
<1>6. heard \in Seq(BytesOf(fs)) /\ chunk \in Seq(BytesOf(fs))
  BY <1>2, <1>5, SeqMonotonic DEF TypeOK
<1>7. chunk \o ext \in Seq(BytesOf(fs)) /\ (heard \o chunk) \o ext = heard \o (chunk \o ext)
  <2> DEFINE B == BytesOf(fs)
  <2>1. heard \in Seq(B) /\ chunk \in Seq(B) /\ ext \in Seq(B)
    BY <1>4, <1>6
  <2> HIDE DEF B
  <2>2. chunk \o ext \in Seq(B)
    BY ONLY <2>1, ConcatProperties
  <2>3. (heard \o chunk) \o ext = heard \o (chunk \o ext)
    BY ONLY <2>1, ConcatAssociative
  <2> QED BY <2>2, <2>3 DEF B
<1>8. Extends(fs, chunk \o ext)
  BY <1>4, <1>7 DEF Extends
<1> QED BY <1>1, <1>7, <1>8 DEF Explained

\* Where the loop goes on, it does so as if everything came in one chunk: what
\* follows does not change what is read, nor whether a frame stands there.
LEMMA ReadsTheSame ==
  ASSUME TypeOK, LoopInv, ~ShortFrame, NEW fs, NEW ext, Extends(fs, ext)
  PROVE  LET s == heard \o ext IN
         /\ ~StopsAt(fs, s, Position)
         /\ ReadAt(fs, s, Position) = Header
         /\ s[Position + 1][1] = Here
         /\ DeliversAt(fs, s, Position) <=> Header.addr = Local /\ WholeAt(rxBuffer, at, Here)
         /\ DeliversAt(fs, s, Position) => Header.len # 0
<1> DEFINE s == heard \o ext
           p == Position
           n == Here
           len == Len(frames[Here])
<1>1. /\ fs \in Seq(Shapes) /\ s \in Seq(BytesOf(fs)) /\ Len(ext) \in Nat /\ Len(s) = Len(heard) + Len(ext)
      /\ \A i \in 1..Len(heard) : s[i] = heard[i]
  BY ExtendsFacts
<1>2. /\ rxBuffer[at + 1] \in Bytes /\ n \in DOMAIN frames /\ Left >= MinFrame
      /\ Header.len \in Nat /\ Header.len <= Left
  <2>1. /\ rxBuffer[at + 1] \in Bytes /\ n \in DOMAIN frames /\ Header.len \in Nat /\ Left \in Nat
        /\ Header.len # 0 => Header.len \in 1..Left
    BY ReadFacts
  <2>2. Left >= MinFrame
    BY DEF ShortFrame
  <2> QED BY <2>1, <2>2
<1>3. /\ p \in Nat /\ Left \in Nat /\ Len(heard) \in Nat /\ p + Left = Len(heard)
      /\ \A k \in 1..Left : rxBuffer[at + k] = heard[p + k]
      /\ WholeAt(rxBuffer, at, n) <=> WholeAt(heard, p, n)
  BY <1>2, PositionFacts DEF LoopInv
<1>4. len \in Nat /\ fs[n] = frames[n]
  BY <1>2, FrameFacts DEF Extends
<1> HIDE DEF s, p, n, len
<1>5. \A k \in 1..Left : p + k \in 1..Len(heard)
  BY ONLY <1>3
<1>6. /\ Len(s) - p >= MinFrame /\ ~(Header.len > Len(s) - p) /\ p \in 0..(Len(s) - 1)
      /\ 1 \in 1..Left
  <2>1. MinFrame \in Nat \ {0}
    OBVIOUS
  <2> QED BY ONLY <1>1, <1>2, <1>3, <2>1
<1>7. s[p + 1] = rxBuffer[at + 1]
  BY <1>1, <1>3, <1>5, <1>6
<1>8. ReadAt(fs, s, p) = Header /\ s[p + 1][1] = n
  BY <1>4, <1>7 DEF ReadAt, Header, Claim, Here, n
<1>9. ~StopsAt(fs, s, p)
  BY <1>6, <1>8 DEF StopsAt
<1>10. ASSUME DeliversAt(fs, s, p)
       PROVE  Header.len # 0 /\ len <= Left
  <2>1. Header.len = Len(fs[n]) /\ Header.len # 0
    BY <1>1, <1>6, <1>8, <1>10, DeliversTrue
  <2> QED BY <1>2, <1>4, <2>1 DEF len, n
<1>11. /\ p + len <= Len(heard) <=> len <= Left
       /\ len <= Left => p + len <= Len(s)
  BY ONLY <1>1, <1>3, <1>4
<1>12. ASSUME len <= Left
       PROVE  \A k \in 1..len : s[p + k] = heard[p + k]
  <2> TAKE k \in 1..len
  <2>1. k \in 1..Left
    BY ONLY <1>3, <1>4, <1>12
  <2> QED BY <1>1, <1>5, <2>1
<1>13. DeliversAt(fs, s, p) <=> Header.addr = Local /\ WholeAt(heard, p, n)
  BY <1>4, <1>8, <1>10, <1>11, <1>12 DEF DeliversAt, WholeAt, len, n
<1> QED BY <1>3, <1>8, <1>9, <1>10, <1>13 DEF s, p, n

\* So an iteration is a step of the recursion.
LEMMA IterationExplained ==
  ASSUME TypeOK, LoopInv, Explained, UNCHANGED <<frames, heard>>,
         InvalidSize \/ AddrMismatch \/ CrcMismatch \/ Deliver
  PROVE  Explained'
<1> SUFFICES ASSUME NEW fs, NEW ext, Extends(fs, ext)
             PROVE  Decoded(fs, heard \o ext)[0] = delivered' \o Decoded(fs, heard \o ext)[Position']
  BY DEF Explained, Extends
<1> DEFINE s == heard \o ext
           d == Decoded(fs, s)
           step == StepAt(fs, s, Position)
           q == Position + step
<1>1. ~ShortFrame /\ UNCHANGED rxBuffer
  BY DEF InvalidSize, AddrMismatch, CrcMismatch, Deliver, Advance
<1>2. /\ ~StopsAt(fs, s, Position) /\ ReadAt(fs, s, Position) = Header /\ s[Position + 1][1] = Here
      /\ DeliversAt(fs, s, Position) <=> Header.addr = Local /\ WholeAt(rxBuffer, at, Here)
      /\ DeliversAt(fs, s, Position) => Header.len # 0
  BY <1>1, ReadsTheSame
<1>3. /\ fs \in Seq(Shapes) /\ s \in Seq(BytesOf(fs)) /\ Position \in 0..Len(s) /\ Len(s) \in Nat
      /\ delivered \in Seq(DOMAIN fs) /\ Here \in DOMAIN fs
  BY <1>1, ExtendsFacts, ReadFacts
<1> HIDE DEF s
<1>4. d[Position] = Found(fs, s, Position) \o d[q] /\ q \in 0..Len(s)
  <2>1. q \in (Position + 1)..Len(s)
    BY <1>2, <1>3, StepForward
  <2>2. q \in 0..Len(s)
    <3> HIDE DEF q
    <3> QED BY ONLY <1>3, <2>1
  <2> QED BY <1>2, <1>3, <2>2, DecodedUnfolds
<1>5. /\ Found(fs, s, Position) \in Seq(DOMAIN fs) /\ d[q] \in Seq(DOMAIN fs)
  <2>1. Found(fs, s, Position) \in Seq(DOMAIN fs)
    BY <1>2, <1>3, FoundType
  <2> QED BY <1>3, <1>4, <2>1, DecodedType
<1>6. at' = at + step /\ delivered' = delivered \o Found(fs, s, Position)
  <2>1. ASSUME InvalidSize \/ AddrMismatch \/ CrcMismatch
        PROVE  ~DeliversAt(fs, s, Position) /\ delivered' = delivered
    BY <1>2, <2>1 DEF InvalidSize, AddrMismatch, CrcMismatch
  <2>2. ASSUME InvalidSize \/ AddrMismatch \/ CrcMismatch
        PROVE  Found(fs, s, Position) = <<>> /\ delivered' = delivered \o <<>>
    BY <1>3, <2>1, <2>2, ConcatEmptySeq DEF Found
  <2>3. CASE InvalidSize
    BY <1>2, <2>1, <2>2, <2>3 DEF InvalidSize, Advance, StepAt
  <2>4. CASE AddrMismatch
    BY <1>2, <2>1, <2>2, <2>4 DEF AddrMismatch, Advance, StepAt
  <2>5. CASE CrcMismatch
    BY <1>2, <2>1, <2>2, <2>5 DEF CrcMismatch, Advance, StepAt
  <2>6. CASE Deliver
    <3>1. DeliversAt(fs, s, Position) /\ at' = at + Header.len /\ delivered' = Append(delivered, Here)
      BY <1>2, <2>6 DEF Deliver, Advance
    <3>2. Found(fs, s, Position) = <<Here>> /\ step = Header.len
      BY <1>2, <3>1 DEF Found, StepAt
    <3>3. Append(delivered, Here) = delivered \o <<Here>>
      BY <1>3, AppendIsConcat
    <3> QED BY <3>1, <3>2, <3>3
  <2> QED BY <2>3, <2>4, <2>5, <2>6
<1>7. Position' = q
  <2>1. at \in Nat /\ Len(heard) \in Nat /\ Len(rxBuffer) \in Nat
    BY PositionFacts, ReadFacts DEF LoopInv
  <2>2. step \in Int
    <3>1. Header.len \in Nat
      BY <1>1, ReadFacts
    <3> QED BY <1>2, <3>1 DEF StepAt
  <2> HIDE DEF step
  <2> QED BY ONLY <1>1, <1>6, <2>1, <2>2, UNCHANGED heard DEF Position, Left
<1>8. d[0] = delivered \o d[Position]
  BY DEF Explained, s
<1> HIDE DEF d, q
<1>9. delivered \o (Found(fs, s, Position) \o d[q]) = (delivered \o Found(fs, s, Position)) \o d[q]
  <2> DEFINE found == Found(fs, s, Position)
             rest == d[q]
  <2>1. delivered \in Seq(DOMAIN fs) /\ found \in Seq(DOMAIN fs) /\ rest \in Seq(DOMAIN fs)
    BY <1>3, <1>5
  <2> HIDE DEF found, rest
  <2>2. (delivered \o found) \o rest = delivered \o (found \o rest)
    BY ONLY <2>1, ConcatAssociative
  <2> QED BY <2>2 DEF found, rest
<1>10. d[0] = delivered' \o d[Position']
  BY ONLY <1>4, <1>6, <1>7, <1>8, <1>9
<1> QED BY <1>10 DEF d, s

LEMMA StepExplained == TunnelInv /\ Explained /\ [Next]_vars => Explained'
<1> SUFFICES ASSUME TunnelInv, Explained, [Next]_vars PROVE Explained'
  OBVIOUS
<1> USE DEF TunnelInv
<1>1. ASSUME UNCHANGED rxVars,
             \A n \in DOMAIN frames : n \in DOMAIN frames' /\ frames'[n] = frames[n]
      PROVE  Explained'
  <2>1. UNCHANGED <<heard, delivered, Position>>
    BY <1>1 DEF rxVars, Position, Left
  <2> QED BY <1>1, <2>1, OthersExplained
<1>2. ASSUME NEW t \in Shapes, OnTunPacket(t)
      PROVE  Explained'
  <2>1. \A n \in DOMAIN frames : n \in DOMAIN frames' /\ frames'[n] = frames[n]
    BY <1>2, NewFrame
  <2> QED BY <1>1, <1>2, <2>1 DEF OnTunPacket
<1>3. ASSUME (\E seg \in air : Arrive(seg)) \/ Stop \/ Start \/ UNCHANGED vars
      PROVE  Explained'
  <2>1. UNCHANGED frames /\ UNCHANGED rxVars
    BY <1>3 DEF Arrive, Stop, Start, vars
  <2> QED BY <1>1, <2>1
<1>4. ASSUME NEW k \in 1..Len(wire), OnSerialBytes(k)
      PROVE  Explained'
  BY <1>4, OnSerialBytesExplained
<1>5. ASSUME Break, UNCHANGED <<frames, heard>>
      PROVE  Explained'
  <2>1. Len(rxBuffer') = Left /\ at' = 0 /\ delivered' = delivered /\ Left \in Nat /\ Len(heard) \in Nat
    BY <1>5, BreakFacts, PositionFacts DEF Break, LoopInv
  <2>2. UNCHANGED Position
    BY <1>5, <2>1 DEF Position, Left
  <2> QED BY <1>5, <2>1, <2>2, OthersExplained
<1>6. ASSUME Iterate
      PROVE  Explained'
  <2>1. UNCHANGED <<frames, heard>>
    BY <1>6 DEF Iterate
  <2> QED BY <1>5, <1>6, <2>1, IterationExplained DEF Iterate
<1> QED BY <1>2, <1>3, <1>4, <1>6 DEF Next

\* When onSerialBytes returns, nothing can follow the loop's position yet.
LEMMA ExplainedNow == TunnelInv /\ Explained => ChunksDoNotMatter
<1> SUFFICES ASSUME TunnelInv, Explained, ~looping
             PROVE  delivered = Decoded(frames, heard)[0]
  BY DEF ChunksDoNotMatter
<1> USE DEF TunnelInv
<1>1. /\ heard \in Seq(Bytes) /\ delivered \in Seq(DOMAIN frames) /\ frames \in Seq(Shapes)
      /\ Bytes = BytesOf(frames)
  BY DEF TypeOK, Bytes, BytesOf
<1>2. Extends(frames, <<>>)
  BY <1>1, EmptySeq DEF Extends
<1>3. heard \o <<>> = heard /\ delivered \o <<>> = delivered
  BY <1>1, ConcatEmptySeq
<1>4. Decoded(frames, heard)[0] = delivered \o Decoded(frames, heard)[Position]
  <2>1. Decoded(frames, heard \o <<>>)[0] = delivered \o Decoded(frames, heard \o <<>>)[Position]
    BY <1>2 DEF Explained
  <2> QED BY <1>3, <2>1
<1>5. /\ Position \in Nat /\ Left \in Nat /\ Len(heard) \in Nat /\ Position + Left = Len(heard)
      /\ \A k \in 1..Left : rxBuffer[at + k] = heard[Position + k]
      /\ at = 0 /\ Left = Len(rxBuffer)
  BY PositionFacts, ReadFacts DEF LoopInv, Placed, Left
<1>6. StopsAt(frames, heard, Position)
  <2> SUFFICES ASSUME Len(heard) - Position >= MinFrame
               PROVE  ReadAt(frames, heard, Position).len > Len(heard) - Position
    BY DEF StopsAt
  <2>1. Len(heard) - Position = Left /\ 1 \in 1..Left
    <3>1. MinFrame \in Nat \ {0}
      OBVIOUS
    <3> QED BY ONLY <1>5, <3>1, Len(heard) - Position >= MinFrame
  <2>2. Left < Claim(rxBuffer[1]).len
    BY <1>5, <2>1 DEF LoopInv, Waits
  <2>3. heard[Position + 1] = rxBuffer[1]
    BY <1>5, <2>1
  <2>4. ReadAt(frames, heard, Position) = Claim(rxBuffer[1])
    BY <2>3 DEF ReadAt, Claim
  <2>5. Claim(rxBuffer[1]).len > Left
    <3>1. rxBuffer[1] \in Bytes
      BY <1>5, <2>1, ReadFacts
    <3>2. Claim(rxBuffer[1]) \in Claims
      BY <3>1, ByteFacts, FrameFacts DEF Claim
    <3>3. Claim(rxBuffer[1]).len \in Nat
      BY <3>2 DEF Claims
    <3> QED BY <1>5, <2>2, <3>3
  <2> QED BY <2>1, <2>4, <2>5
<1>7. Decoded(frames, heard)[Position] = <<>>
  <2>1. Position \in 0..Len(heard)
    BY ONLY <1>5
  <2> QED BY <1>1, <1>6, <2>1, DecodedUnfolds
<1> QED BY <1>3, <1>4, <1>7

\* However the board, the serial line and the event loop cut the bytes into
\* chunks, and whatever the payloads spell: when onSerialBytes returns, what it
\* has delivered so far is what one chunk with all the bytes would have given.
THEOREM ChunksMakeNoDifference == Spec => []ChunksDoNotMatter
<1>1. Spec => [](TunnelInv /\ Explained)
  BY TunnelInvariant, InitExplained, StepExplained, PTL DEF Spec
<1> QED BY <1>1, ExplainedNow, PTL
=============================================================================
