---------------------------- MODULE TunnelPayload ----------------------------
(***************************************************************************)
(* What Ip2LoraTunnel makes of an IP packet and of the frame that arrives: *)
(* ROHC, zlib, XOR cipher, AEAD and CRC, each of them optional at either   *)
(* end (onTunPacket, encodeFrame, recoverClearPayload, onSerialBytes).     *)
(*                                                                         *)
(* A payload is the sequence of the layers around the packet, outermost    *)
(* last.  Libraries are taken as working: what was compressed with one is  *)
(* read by it again, inflate and AEAD refuse everything else, and a CRC    *)
(* fits what it was computed of.  Nonces are AeadLink's part, addresses,   *)
(* lengths and segments are Tunnel's.                                      *)
(***************************************************************************)
EXTENDS SequencesExt

CONSTANTS Keys, NoKey   \* keys of the XOR cipher and of AEAD, and none

Flags == {"compress", "cipher", "aead"}

\* The options of a tunnel: useZlib, useRohc, cipherKey, aeadKey.
Options == [zlib : BOOLEAN, rohc : BOOLEAN, cipher : Keys \cup {NoKey}, aead : Keys \cup {NoKey}]
NoOptions == [zlib |-> FALSE, rohc |-> FALSE, cipher |-> NoKey, aead |-> NoKey]

Packet == <<>>                  \* a packet without any layer
Failed == <<<<"failed">>>>      \* a step that throws or returns undefined

NoFrame == [flags |-> {}, wire |-> Failed, crc |-> <<{}, Failed>>]

VARIABLES
    ends,       \* the options of the sender and of the receiver
    stage,      \* "new", "ready", "sent", "received"
    frame,      \* the frame on its way
    damaged,    \* something happened to it
    written     \* what the receiver wrote to its TUN interface, or Failed

vars == <<ends, stage, frame, damaged, written>>

Init ==
    /\ ends = [from |-> NoOptions, to |-> NoOptions] /\ stage = "new"
    /\ frame = NoFrame /\ damaged = FALSE /\ written = Failed

-----------------------------------------------------------------------------
(* The layers                                                              *)

\* XorCipher.apply, which undoes itself.
Xor(p, key) ==
    IF p # <<>> /\ Last(p) = <<"xor", key>> THEN Front(p) ELSE Append(p, <<"xor", key>>)

\* zlibDecompress and aeadDecrypt: p without its outermost layer, if it is that.
Strip(p, layer) == IF p # <<>> /\ Last(p) = layer THEN Front(p) ELSE Failed

\* RohcCodec.decompress, which throws or returns something for what it did not
\* compress.
Decompressions(p) ==
    IF p # <<>> /\ Last(p) = <<"rohc">> THEN {Front(p)} ELSE {Failed, Append(p, <<"unrohc">>)}

-----------------------------------------------------------------------------
(* onTunPacket                                                             *)

\* clearPayload, which is the packet after ROHC.
ClearPayload(o) == IF o.rohc THEN Append(Packet, <<"rohc">>) ELSE Packet

\* The flags encodeFrame puts into the header.  zlib is used if it makes the
\* payload smaller.
FrameFlags(o, smaller) ==
    {f \in Flags : \/ f = "compress" /\ o.zlib /\ smaller
                   \/ f = "cipher" /\ o.cipher # NoKey
                   \/ f = "aead" /\ o.aead # NoKey}

\* Mutant of Aad: the flag of AEAD itself is left out.
AadWithoutAead(o, smaller) == FrameFlags(o, smaller) \ {"aead"}

\* aadByte, which is put together before the frame is.
Aad(o, smaller) ==
    {f \in Flags : \/ f = "compress" /\ o.zlib /\ smaller
                   \/ f = "cipher" /\ o.cipher # NoKey
                   \/ f = "aead"}

\* The payload on the wire: zlib, XOR, AEAD.
WirePayload(o, smaller) ==
    LET compressed == IF o.zlib /\ smaller THEN Append(ClearPayload(o), <<"zlib">>)
                      ELSE ClearPayload(o)
        ciphered == IF o.cipher # NoKey THEN Xor(compressed, o.cipher) ELSE compressed IN
    IF o.aead # NoKey THEN Append(ciphered, <<"aead", o.aead, Aad(o, smaller)>>) ELSE ciphered

\* Two tunnels are set up.
Configure(from, to) ==
    /\ stage = "new" /\ stage' = "ready"
    /\ ends' = [from |-> from, to |-> to]
    /\ UNCHANGED <<frame, damaged, written>>

\* onTunPacket up to encodeFrame: the CRC is that of flags and clearPayload.
OnTunPacket(smaller) ==
    LET o == ends.from
        flags == FrameFlags(o, smaller) IN
    /\ stage = "ready" /\ stage' = "sent"
    /\ frame' = [flags |-> flags, wire |-> WirePayload(o, smaller),
                 crc |-> <<flags, ClearPayload(o)>>]
    /\ UNCHANGED <<ends, damaged, written>>

\* Bytes of the payload, the CRC or the flags change on the way.
Damage ==
    /\ stage = "sent" /\ damaged' = TRUE
    /\ frame' \in
         {[frame EXCEPT !.wire = Append(@, <<"damage">>)],
          [frame EXCEPT !.crc = <<{}, Failed>>]}
         \cup {[frame EXCEPT !.flags = flags] : flags \in SUBSET Flags}
    /\ ~damaged
    /\ UNCHANGED <<ends, stage, written>>

-----------------------------------------------------------------------------
(* onSerialBytes and recoverClearPayload                                   *)

\* Each step returns undefined when it cannot do its part.
Opened(o, f) ==
    IF "aead" \notin f.flags THEN f.wire
    ELSE IF o.aead = NoKey THEN Failed ELSE Strip(f.wire, <<"aead", o.aead, f.flags>>)

Deciphered(o, f) ==
    IF "cipher" \notin f.flags \/ Opened(o, f) = Failed THEN Opened(o, f)
    ELSE IF o.cipher = NoKey THEN Failed ELSE Xor(Opened(o, f), o.cipher)

Inflated(o, f) ==
    IF "compress" \notin f.flags \/ Deciphered(o, f) = Failed THEN Deciphered(o, f)
    ELSE Strip(Deciphered(o, f), <<"zlib">>)

Recovered(o, f) ==
    IF ~o.rohc \/ Inflated(o, f) = Failed THEN {Inflated(o, f)}
    ELSE Decompressions(Inflated(o, f))

\* Mutant of CrcFits: the CRC is not looked at.
CrcIgnored(f, clear) == f.flags \subseteq Flags

\* Frames with AEAD do without the CRC, others must match it.
CrcFits(f, clear) == "aead" \in f.flags \/ f.crc = <<f.flags, clear>>

\* The packet is written to the interface, or the frame is dropped.
OnSerialBytes ==
    /\ stage = "sent" /\ stage' = "received"
    /\ \E clear \in Recovered(ends.to, frame) :
         written' = IF clear # Failed /\ CrcFits(frame, clear) THEN clear ELSE Failed
    /\ UNCHANGED <<ends, frame, damaged>>

Next ==
    \/ \E from, to \in Options : Configure(from, to)
    \/ \E smaller \in BOOLEAN : OnTunPacket(smaller)
    \/ Damage \/ OnSerialBytes

Spec == Init /\ [][Next]_vars

-----------------------------------------------------------------------------
(* Properties                                                              *)

\* The receiver reads what the sender uses.
Agree ==
    /\ ends.from.rohc = ends.to.rohc
    /\ ends.from.cipher \in {NoKey, ends.to.cipher}
    /\ ends.from.aead \in {NoKey, ends.to.aead}

\* Whatever the ends are set to otherwise and whatever happens to the frame, the
\* receiver writes the packet that was sent or nothing, as long as both use ROHC
\* or neither does, and an AEAD frame, whose CRC is not looked at, meets a
\* receiver with the sender's XOR key.
OnlySentIsWritten ==
    /\ ends.from.rohc = ends.to.rohc
    /\ ends.from.aead # NoKey => ends.from.cipher \in {NoKey, ends.to.cipher}
    => written \in {Packet, Failed}

\* Ends that agree understand each other: an intact frame is written as the
\* packet it was.  This needs AEAD if they use ROHC: the CRC of a frame without
\* it is computed before ROHC is undone on the one side, and after on the other.
AgreeingEndsDeliver ==
    /\ stage = "received" /\ ~damaged /\ Agree
    /\ ends.from.rohc => ends.from.aead # NoKey
    => written = Packet
=============================================================================
