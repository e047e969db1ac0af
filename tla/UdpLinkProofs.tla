---------------------------- MODULE UdpLinkProofs ----------------------------
(***************************************************************************)
(* The authenticated UDP link hands no packet over twice between two       *)
(* changes of session and drops none that is new and inside the window,    *)
(* for every window width, modulus, number of packets and of restarts.     *)
(***************************************************************************)
EXTENDS UdpLink, ReplayWindowProofs, SequenceFacts

\* The inductive invariant.  The types are needed for the arithmetic of the
\* window; that the window is the history of what was accepted is what decides
\* every later packet.
LinkInv == TypeOK /\ WindowIsHistory

Numbers == {p.seq : p \in Range(accepted)}

USE LinkAssumption

-----------------------------------------------------------------------------

\* What an arriving packet is: one that was sent.
LEMMA SentTypes ==
  ASSUME TypeOK, NEW p \in sent
  PROVE  p \in Packets /\ p.session \in Nat /\ p.seq \in Nat
  BY DEF TypeOK, Packets

LEMMA NumbersAreNat ==
  ASSUME TypeOK
  PROVE  Range(accepted) \subseteq sent /\ Numbers \in SUBSET Nat
<1>1. Range(accepted) \subseteq sent
  BY RangeType DEF TypeOK
<1>2. \A p \in Range(accepted) : p.seq \in Nat
  BY <1>1, SentTypes
<1> QED BY <1>1, <1>2 DEF Numbers

LEMMA InitLink == Init => LinkInv
<1> SUFFICES ASSUME Init PROVE LinkInv
  OBVIOUS
<1>1. Range(accepted) = {} /\ Numbers = {}
  BY RangeEmpty DEF Init, Numbers
<1>2. TypeOK
  BY FreshReflects, EmptySeq DEF Init, TypeOK, NoSession
<1>3. WindowIsHistory
  BY <1>1, FreshReflects DEF Init, WindowIsHistory, Numbers
<1> QED BY <1>2, <1>3 DEF LinkInv

\* The sender's steps concern the receiver only in that more packets exist.
LEMMA SenderKeeps ==
  ASSUME LinkInv, Send \/ SenderStarts
  PROVE  LinkInv'
<1> USE DEF LinkInv
<1>0. UNCHANGED receiverVars
  BY DEF Send, SenderStarts
<1>1. session' \in Nat /\ outSeq' \in 0..(SeqMod - 1) /\ sends' \in Nat /\ sent' \subseteq Packets
  <2>1. CASE Send
    <3>1. (outSeq + 1) % SeqMod \in 0..(SeqMod - 1)
      BY DEF TypeOK
    <3>2. [id |-> sends, session |-> session, seq |-> outSeq] \in Packets
      BY DEF TypeOK, Packets
    <3>3. QED BY <2>1, <3>1, <3>2 DEF Send, NextSeq, TypeOK
  <2>2. CASE SenderStarts
    BY <2>2 DEF SenderStarts, TypeOK
  <2>3. QED BY <2>1, <2>2
<1>2. sent \subseteq sent'
  BY DEF Send, SenderStarts
<1>3. accepted \in Seq(sent')
  BY <1>2, SeqMonotonic DEF TypeOK
<1>4. TypeOK'
  BY <1>0, <1>1, <1>2, <1>3 DEF TypeOK, receiverVars
<1>5. WindowIsHistory'
  BY <1>0 DEF WindowIsHistory, receiverVars
<1> QED BY <1>4, <1>5

LEMMA ReceiverStartKeeps ==
  ASSUME LinkInv, ReceiverStarts
  PROVE  LinkInv'
<1> USE DEF LinkInv, ReceiverStarts
<1>1. TypeOK'
  BY FreshReflects, EmptySeq DEF TypeOK, NoSession, senderVars
<1>2. Range(accepted') = {} /\ Numbers' = {}
  BY RangeEmpty DEF Numbers
<1>3. WindowIsHistory'
  BY <1>2, FreshReflects DEF WindowIsHistory, Numbers
<1> QED BY <1>1, <1>3

LEMMA AcceptFirstKeeps ==
  ASSUME LinkInv, NEW p \in sent, Accept(p), AcceptFirst(p)
  PROVE  LinkInv'
<1> USE DEF LinkInv, Accept, AcceptFirst
<1>0. p \in Packets /\ p.session \in Nat /\ p.seq \in Nat
  BY SentTypes
<1>1. Range(accepted') = {p} /\ Numbers' = {p.seq}
  BY RangeOne DEF Numbers
<1>2. TypeOK'
  <2>1. accepted' \in Seq(sent)
    OBVIOUS
  <2>2. QED BY <1>0, <2>1, FirstSeenReflects DEF TypeOK, senderVars
<1>3. WindowIsHistory'
  BY <1>0, <1>1, FirstSeenReflects DEF WindowIsHistory, Numbers
<1> QED BY <1>2, <1>3

LEMMA AcceptNextKeeps ==
  ASSUME LinkInv, NEW p \in sent, Accept(p), AcceptNext(p)
  PROVE  LinkInv' /\ p \notin Range(accepted)
<1> USE DEF LinkInv, Accept, AcceptNext
<1>0. p \in Packets /\ p.session \in Nat /\ p.seq \in Nat /\ window \in Windows
  BY SentTypes DEF TypeOK
<1>1. Numbers \in SUBSET Nat /\ Reflects(window, Numbers)
  BY NumbersAreNat DEF WindowIsHistory, Numbers
<1>2. p.seq \notin Numbers
  BY <1>0, <1>1, AcceptsOnlyNew
<1>3. Range(accepted') = Range(accepted) \cup {p} /\ accepted' \in Seq(sent)
  BY RangeAppend, AppendProperties DEF TypeOK
<1>4. Numbers' = Numbers \cup {p.seq}
  BY <1>3 DEF Numbers
<1>5. TypeOK'
  BY <1>0, <1>3, AfterType DEF TypeOK, senderVars
<1>6. Reflects(window', Numbers')
  BY <1>0, <1>1, <1>4, AfterReflects
<1>7. \A q \in Range(accepted') : q.session = peerSession'
  BY <1>3 DEF WindowIsHistory, StartsAfresh
<1> QED BY <1>2, <1>5, <1>6, <1>7 DEF WindowIsHistory, Numbers

LEMMA StepLink == LinkInv /\ [Next]_vars => LinkInv'
<1> SUFFICES ASSUME LinkInv, [Next]_vars PROVE LinkInv'
  OBVIOUS
<1>1. CASE Send \/ SenderStarts
  BY <1>1, SenderKeeps
<1>2. CASE ReceiverStarts
  BY <1>2, ReceiverStartKeeps
<1>3. CASE UNCHANGED vars
  BY <1>3 DEF LinkInv, TypeOK, WindowIsHistory, vars, senderVars, receiverVars
<1>4. ASSUME NEW p \in sent, Accept(p) \/ Drop(p)
      PROVE  LinkInv'
  <2>1. CASE Drop(p)
    BY <1>3, <2>1 DEF Drop
  <2>2. CASE Accept(p)
    BY <2>2, AcceptFirstKeeps, AcceptNextKeeps DEF Accept
  <2>3. QED BY <1>4, <2>1, <2>2
<1> QED BY <1>1, <1>2, <1>3, <1>4 DEF Next

LEMMA LinkInvariant == Spec => []LinkInv
  BY InitLink, StepLink, PTL DEF Spec

-----------------------------------------------------------------------------

\* Sender, network and receiver stay well typed.
THEOREM LinkTypes == Spec => []TypeOK
<1>1. LinkInv => TypeOK
  BY DEF LinkInv
<1> QED BY LinkInvariant, <1>1, PTL

\* Since the last change of session the window is the history of what was
\* accepted.
THEOREM WindowCorrect == Spec => []WindowIsHistory
<1>1. LinkInv => WindowIsHistory
  BY DEF LinkInv
<1> QED BY LinkInvariant, <1>1, PTL

\* No packet is dropped whose number is new and fewer than W behind the highest
\* accepted one.
THEOREM DropsJustified == Spec => []DropsOnlyOldOrSeen
<1>1. LinkInv => DropsOnlyOldOrSeen
  <2> SUFFICES ASSUME LinkInv, NEW p \in sent, ~StartsAfresh(p), ~Accepts(window, p.seq)
               PROVE  Droppable(p)
    BY DEF DropsOnlyOldOrSeen
  <2> USE DEF LinkInv
  <2>1. p \in Packets /\ p.seq \in Nat /\ window \in Windows
    BY SentTypes DEF TypeOK
  <2>2. Numbers \in SUBSET Nat /\ Reflects(window, Numbers) /\ Range(accepted) \subseteq sent
    BY NumbersAreNat DEF WindowIsHistory, Numbers
  <2>3. p.seq \in Numbers \/ \E t \in Numbers : p.seq + W <= t
    BY <2>1, <2>2, DropsOnlyOld
  <2>4. QED BY <2>3 DEF Numbers, Droppable
<1> QED BY LinkInvariant, <1>1, PTL

\* The link implements the channel that hands no packet over twice between two
\* changes of session.
THEOREM ImplementsChannel == Spec => HandsOverOnce
<1>1. Init => Channel!Init
  BY DEF Init, Channel!Init
<1>2. LinkInv /\ [Next]_vars => [Channel!Next]_<<sent, accepted>>
  <2> SUFFICES ASSUME LinkInv, [Next]_vars
               PROVE  Channel!Next \/ UNCHANGED <<sent, accepted>>
    OBVIOUS
  <2> USE DEF Channel!Next
  <2>1. CASE Send
    BY <2>1 DEF Send, Channel!Send, receiverVars
  <2>2. CASE SenderStarts \/ UNCHANGED vars
    BY <2>2 DEF SenderStarts, vars, senderVars, receiverVars
  <2>3. CASE ReceiverStarts
    BY <2>3 DEF ReceiverStarts, Channel!Restart, senderVars
  <2>4. ASSUME NEW p \in sent, Accept(p) \/ Drop(p)
        PROVE  Channel!Next \/ UNCHANGED <<sent, accepted>>
    <3>1. CASE Drop(p)
      BY <3>1 DEF Drop, vars, senderVars, receiverVars
    <3>2. CASE Accept(p) /\ AcceptFirst(p)
      BY <3>2 DEF Accept, AcceptFirst, Channel!Turn, senderVars
    <3>3. CASE Accept(p) /\ AcceptNext(p)
      <4>1. p \notin Range(accepted)
        BY <3>3, AcceptNextKeeps
      <4>2. QED BY <3>3, <4>1 DEF Accept, AcceptNext, Channel!Hand, Channel!Range, Range, senderVars
    <3>4. QED BY <2>4, <3>1, <3>2, <3>3 DEF Accept
  <2>5. QED BY <2>1, <2>2, <2>3, <2>4 DEF Next
<1> QED BY LinkInvariant, <1>1, <1>2, PTL DEF Spec, HandsOverOnce, Channel!Spec
=============================================================================
