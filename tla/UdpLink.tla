------------------------------- MODULE UdpLink -------------------------------
(***************************************************************************)
(* One direction of the authenticated UDP link between a host              *)
(* (src/device/WiFiUdpDevice.ts with src/frame/UdpAuth.ts) and a board     *)
(* (firmware main.cpp): the sender numbers its packets within a session,   *)
(* the network loses, duplicates and reorders them, the receiver filters   *)
(* them through a replay window that starts afresh whenever the session of *)
(* a packet differs from the last one.  Both sides implement both roles,   *)
(* alike.  Authentication itself is taken as working: only packets that    *)
(* were sent pass unwrapUdp.  Sessions are random 32-bit numbers in the    *)
(* code; here every start of the sender gets a session of its own.         *)
(***************************************************************************)
EXTENDS ReplayWindow, Sequences, Functions

CONSTANTS
    SeqMod,         \* numbers wrap at SeqMod, 2^32 in the code
    MaxSends,       \* bound: packets sent
    MaxStarts,      \* bound: restarts of the sender
    MaxReceivers    \* bound: restarts of the receiver

ASSUME LinkAssumption ==
    /\ SeqMod \in Nat \ {0}
    /\ MaxSends \in Nat /\ MaxStarts \in Nat /\ MaxReceivers \in Nat

VARIABLES
    session, outSeq,    \* the sender's session and next number
    sent,               \* every packet sent; the network holds them
    peerSession,        \* the receiver: session of the last accepted packet
    window,             \*   and its replay window
    accepted,           \* packets handed over since the window started afresh, in order
    everAccepted,       \* packets handed over since the receiver started
    sends, receivers    \* counters for the bounds

senderVars == <<session, outSeq, sent, sends>>
receiverVars == <<peerSession, window, accepted, everAccepted, receivers>>
vars == <<senderVars, receiverVars>>

\* Packets are told apart by id: a number comes back when the counter wraps.
Packets == [id : Nat, session : Nat, seq : 0..(SeqMod - 1)]
NoSession == -1

TypeOK ==
    /\ session \in Nat /\ outSeq \in 0..(SeqMod - 1) /\ sends \in Nat /\ receivers \in Nat
    /\ sent \subseteq Packets /\ accepted \in Seq(sent) /\ everAccepted \subseteq sent
    /\ peerSession \in Nat \cup {NoSession}
    /\ window \in Windows

Init ==
    /\ session = 0 /\ outSeq = 0 /\ sent = {} /\ sends = 0
    /\ peerSession = NoSession /\ window = Fresh
    /\ accepted = <<>> /\ everAccepted = {} /\ receivers = 0

-----------------------------------------------------------------------------

\* Mutant of NextSeq: the number does not wrap.
NextSeqUnbounded == outSeq + 1

\* (outSeq + 1) >>> 0, uint32_t myOutSeq++.
NextSeq == (outSeq + 1) % SeqMod

\* sendUdp and sendToHost: number, sign and send one packet.
Send ==
    /\ sends < MaxSends
    /\ sends' = sends + 1
    /\ outSeq' = NextSeq
    /\ sent' = sent \cup {[id |-> sends, session |-> session, seq |-> outSeq]}
    /\ UNCHANGED <<session, receiverVars>>

\* A new WiFiUdpDevice, or the board's boot: a new session, numbered from 0.
SenderStarts ==
    /\ session < MaxStarts
    /\ session' = session + 1
    /\ outSeq' = 0
    /\ UNCHANGED <<sent, sends, receiverVars>>

\* The receiver starts again and remembers nothing.
ReceiverStarts ==
    /\ receivers < MaxReceivers
    /\ receivers' = receivers + 1
    /\ peerSession' = NoSession /\ window' = Fresh
    /\ accepted' = <<>> /\ everAccepted' = {}
    /\ UNCHANGED senderVars

\* p is the first packet ever, or one of another session than the last one.
StartsAfresh(p) == p.session # peerSession

\* check, when p starts the window afresh.
AcceptFirst(p) ==
    /\ StartsAfresh(p)
    /\ peerSession' = p.session
    /\ window' = FirstSeen(p.seq)
    /\ accepted' = <<p>>

\* check, within the session: accepted and marked.
AcceptNext(p) ==
    /\ ~StartsAfresh(p) /\ Accepts(window, p.seq)
    /\ window' = After(window, p.seq)
    /\ accepted' = Append(accepted, p)
    /\ UNCHANGED peerSession

\* onUdpMessage and pumpBridge: packet p arrives, for the first time or again,
\* and is handed over.  A packet that never arrives is lost.
Accept(p) ==
    /\ AcceptFirst(p) \/ AcceptNext(p)
    /\ everAccepted' = everAccepted \cup {p}
    /\ UNCHANGED <<senderVars, receivers>>

\* "UDP replay drop".
Drop(p) ==
    /\ ~StartsAfresh(p) /\ ~Accepts(window, p.seq)
    /\ UNCHANGED vars

Next ==
    \/ Send \/ SenderStarts \/ ReceiverStarts
    \/ \E p \in sent : Accept(p) \/ Drop(p)

Spec == Init /\ [][Next]_vars

-----------------------------------------------------------------------------
(* Properties                                                              *)

\* What was accepted since the last change of session belongs to that session,
\* and the window knows exactly which numbers it was: the highest, and each of
\* the W - 1 below it.
WindowIsHistory ==
    /\ \A p \in Range(accepted) : p.session = peerSession
    /\ Reflects(window, {p.seq : p \in Range(accepted)})

\* The link is a channel that hands no packet over twice between two changes
\* of session, whatever the network repeats or reorders.
Channel == INSTANCE OnceChannel WITH handed <- accepted
HandsOverOnce == Channel!Spec

\* A packet of the receiver's session is dropped only if its number was accepted
\* before or is W or more behind the highest: until the counter wraps, a packet
\* overtaken by fewer than W others still gets through.
Droppable(p) ==
    \E q \in Range(accepted) : q.seq = p.seq \/ p.seq + W <= q.seq
DropsOnlyOldOrSeen ==
    \A p \in sent : ~StartsAfresh(p) /\ ~Accepts(window, p.seq) => Droppable(p)

\* "Within a session, accepts each seq at most once" (src/frame/UdpAuth.ts:86),
\* for as long as the receiver runs.
AcceptsEachSeqOnce ==
    [][\A p \in everAccepted : ~Accept(p)]_vars
=============================================================================
