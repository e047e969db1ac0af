---------------------------- MODULE AeadLinkProofs ----------------------------
(***************************************************************************)
(* The receiving tunnel hands no frame over twice and its window is the    *)
(* history of the numbers that passed, for every set of peers, width of    *)
(* the window, modulus of the counters and number of frames, restarts and  *)
(* damaged frames.  With a single sender whose frames arrive undamaged it  *)
(* rejects nothing that is new and recent.                                 *)
(***************************************************************************)
EXTENDS AeadLink, ReplayWindowProofs, SequenceFacts

\* The inductive invariant.  That delivered frames passed the check, and that
\* the window remembers what passed, is what keeps a frame from passing twice.
AeadInv == TypeOK /\ WindowIsHistory

Nonces == {f.nonce : f \in checked}

USE AeadAssumption

-----------------------------------------------------------------------------

\* What may arrive: a frame that was sent, or a damaged copy of one.
LEMMA AirTypes ==
  ASSUME TypeOK, NEW f \in air
  PROVE  f \in Frames /\ f.nonce \in Nat
  BY DEF TypeOK, Frames

LEMMA NoncesAreNat ==
  ASSUME TypeOK
  PROVE  Nonces \in SUBSET Nat
  BY AirTypes DEF TypeOK, Nonces

LEMMA InitAead == Init => AeadInv
<1> SUFFICES ASSUME Init PROVE AeadInv
  OBVIOUS
<1>1. Nonces = {} /\ Range(delivered) = {}
  BY RangeEmpty DEF Init, Nonces
<1>2. TypeOK
  BY FreshReflects, EmptySeq DEF Init, TypeOK
<1>3. WindowIsHistory
  BY <1>1, FreshReflects DEF Init, WindowIsHistory, Nonces
<1> QED BY <1>2, <1>3 DEF AeadInv

\* A step of a sender or of the radio concerns the receiver only in that more
\* may arrive.
LEMMA MoreAir ==
  ASSUME AeadInv, air \subseteq air', air' \subseteq Frames,
         counter' \in [Peers -> 0..(NonceMod - 1)],
         frames' \in Nat, starts' \in Nat, damaged' \in Nat,
         UNCHANGED <<window, checked, delivered>>
  PROVE  AeadInv'
<1>1. delivered \in Seq(air')
  BY SeqMonotonic DEF AeadInv, TypeOK
<1>2. TypeOK'
  BY <1>1 DEF AeadInv, TypeOK
<1>3. WindowIsHistory'
  BY DEF AeadInv, WindowIsHistory
<1> QED BY <1>2, <1>3 DEF AeadInv

LEMMA SendFrameKeeps ==
  ASSUME AeadInv, NEW p \in Peers, SendFrame(p)
  PROVE  AeadInv'
<1> USE DEF SendFrame
<1>1. counter[p] \in 0..(NonceMod - 1) /\ frames \in Nat
  BY DEF AeadInv, TypeOK
<1>2. [id |-> frames, from |-> p, nonce |-> counter[p], intact |-> TRUE] \in Frames
  BY <1>1 DEF Frames
<1>3. NextNonce(p) \in 0..(NonceMod - 1)
  BY <1>1 DEF NextNonce
<1>4. counter' \in [Peers -> 0..(NonceMod - 1)]
  BY <1>3 DEF AeadInv, TypeOK
<1>5. air \subseteq air' /\ air' \subseteq Frames
  BY <1>2 DEF AeadInv, TypeOK
<1>6. frames' \in Nat /\ starts' \in Nat /\ damaged' \in Nat
  BY DEF AeadInv, TypeOK
<1>7. UNCHANGED <<window, checked, delivered>>
  OBVIOUS
<1> QED BY <1>4, <1>5, <1>6, <1>7, MoreAir

LEMMA SenderStartKeeps ==
  ASSUME AeadInv, NEW p \in Peers, SenderStarts(p)
  PROVE  AeadInv'
<1>1. counter' \in [Peers -> 0..(NonceMod - 1)]
  BY DEF SenderStarts, AeadInv, TypeOK
<1> QED BY <1>1, MoreAir DEF SenderStarts, AeadInv, TypeOK

LEMMA DamageKeeps ==
  ASSUME AeadInv, NEW f \in air, Damage(f)
  PROVE  AeadInv'
<1>1. PICK n \in 0..(NonceMod - 1) :
        air' = air \cup {[f EXCEPT !.nonce = n, !.intact = FALSE]}
  BY DEF Damage
<1>2. [f EXCEPT !.nonce = n, !.intact = FALSE] \in Frames
  BY <1>1, AirTypes DEF AeadInv, Frames
<1> QED BY <1>1, <1>2, MoreAir DEF Damage, AeadInv, TypeOK

LEMMA ReceiverStartKeeps ==
  ASSUME AeadInv, ReceiverStarts
  PROVE  AeadInv'
<1> USE DEF AeadInv, ReceiverStarts
<1>1. TypeOK'
  BY FreshReflects, EmptySeq DEF TypeOK
<1>2. Nonces' = {} /\ Range(delivered') = {}
  BY RangeEmpty DEF Nonces
<1>3. WindowIsHistory'
  BY <1>2, FreshReflects DEF WindowIsHistory, Nonces
<1> QED BY <1>1, <1>3

\* A frame that passes was not delivered before.
LEMMA ReceiveKeeps ==
  ASSUME AeadInv, NEW f \in air, OnFrame(f), Receive(f)
  PROVE  AeadInv' /\ f \notin Range(delivered)
<1> USE DEF AeadInv, OnFrame, Receive
<1>0. f.nonce \in Nat /\ window \in Windows
  BY AirTypes DEF TypeOK
<1>1. Nonces \in SUBSET Nat /\ Reflects(window, Nonces)
  BY NoncesAreNat DEF WindowIsHistory, Nonces
<1>2. f.nonce \notin Nonces
  BY <1>0, <1>1, AcceptsOnlyNew
<1>3. f \notin Range(delivered)
  BY <1>2 DEF WindowIsHistory, Nonces
<1>4. Nonces' = Nonces \cup {f.nonce}
  BY DEF Nonces
<1>5. delivered' \in Seq(air) /\ Range(delivered') \subseteq Range(delivered) \cup {f}
  <2>1. CASE f.intact
    <3>1. delivered \in Seq(air) /\ delivered' = Append(delivered, f)
      BY <2>1 DEF TypeOK
    <3>2. QED BY <3>1, RangeAppend, AppendProperties
  <2>2. CASE ~f.intact
    BY <2>2 DEF TypeOK
  <2>3. QED BY <2>1, <2>2
<1>6. TypeOK'
  BY <1>0, <1>5, AfterType DEF TypeOK
<1>7. Reflects(window', Nonces')
  BY <1>0, <1>1, <1>4, AfterReflects
<1>8. \A g \in Range(delivered') : g \in checked' /\ g.intact
  <2>1. CASE f.intact
    BY <1>5, <2>1 DEF WindowIsHistory
  <2>2. CASE ~f.intact
    BY <2>2 DEF WindowIsHistory
  <2>3. QED BY <2>1, <2>2
<1> QED BY <1>3, <1>6, <1>7, <1>8 DEF WindowIsHistory, Nonces

LEMMA StepAead == AeadInv /\ [Next]_vars => AeadInv'
<1> SUFFICES ASSUME AeadInv, [Next]_vars PROVE AeadInv'
  OBVIOUS
<1>1. ASSUME NEW p \in Peers, SendFrame(p) \/ SenderStarts(p)
      PROVE  AeadInv'
  BY <1>1, SendFrameKeeps, SenderStartKeeps
<1>2. CASE ReceiverStarts
  BY <1>2, ReceiverStartKeeps
<1>3. CASE UNCHANGED vars
  BY <1>3 DEF AeadInv, TypeOK, WindowIsHistory, vars
<1>4. ASSUME NEW f \in air, Damage(f) \/ OnFrame(f)
      PROVE  AeadInv'
  <2>1. CASE Damage(f)
    BY <2>1, DamageKeeps
  <2>2. CASE OnFrame(f) /\ Receive(f)
    BY <2>2, ReceiveKeeps
  <2>3. CASE OnFrame(f) /\ Replayed(f)
    BY <2>3 DEF OnFrame, Replayed, AeadInv, TypeOK, WindowIsHistory
  <2>4. QED BY <1>4, <2>1, <2>2, <2>3 DEF OnFrame
<1> QED BY <1>1, <1>2, <1>3, <1>4 DEF Next

LEMMA AeadInvariant == Spec => []AeadInv
  BY InitAead, StepAead, PTL DEF Spec

-----------------------------------------------------------------------------

\* Counters, frames and the window stay well typed.
THEOREM AeadTypes == Spec => []TypeOK
<1>1. AeadInv => TypeOK
  BY DEF AeadInv
<1> QED BY AeadInvariant, <1>1, PTL

\* The window is the history of the numbers that passed, and every frame on
\* the TUN interface is intact and passed.
THEOREM AeadWindowCorrect == Spec => []WindowIsHistory
<1>1. AeadInv => WindowIsHistory
  BY DEF AeadInv
<1> QED BY AeadInvariant, <1>1, PTL

\* With a single sender and no damaged frames nothing new and recent is
\* rejected.
THEOREM AloneIsServed == Spec => []RejectsOnlyOldAlone
<1>1. AeadInv => RejectsOnlyOldAlone
  <2> SUFFICES ASSUME AeadInv, \A f, g \in air : f.from = g.from,
                      NEW f \in air, NewFromPeer(f), ~Accepts(window, f.nonce)
               PROVE  FALSE
    BY DEF RejectsOnlyOldAlone, RejectsOnlyPerPeer
  <2> USE DEF AeadInv
  <2>1. f.nonce \in Nat /\ window \in Windows /\ checked \subseteq air
    BY AirTypes DEF TypeOK
  <2>2. Nonces \in SUBSET Nat /\ Reflects(window, Nonces)
    BY NoncesAreNat DEF WindowIsHistory, Nonces
  <2>3. f.nonce \in Nonces \/ \E t \in Nonces : f.nonce + W <= t
    BY <2>1, <2>2, DropsOnlyOld
  <2>4. f.nonce \notin Nonces
    BY DEF NewFromPeer, Nonces
  <2>5. PICK g \in checked : f.nonce + W <= g.nonce
    BY <2>3, <2>4 DEF Nonces
  <2>6. f.nonce - g.nonce \in (1 - W)..(W - 1)
    BY <2>1 DEF NewFromPeer
  <2>7. g.nonce \in Nat
    BY <2>1, AirTypes
  <2>8. QED BY <2>1, <2>5, <2>6, <2>7, WidthAssumption
<1> QED BY AeadInvariant, <1>1, PTL

\* The tunnel implements the channel that hands no frame over twice.
THEOREM AeadImplementsChannel == Spec => DeliversOnce
<1> DEFINE intact == {f \in air : f.intact}
<1>1. Init => Channel!Init
  BY DEF Init, Channel!Init
<1>2. AeadInv /\ [Next]_vars => [Channel!Next]_<<intact, delivered>>
  <2> SUFFICES ASSUME AeadInv, [Next]_vars
               PROVE  Channel!Next \/ UNCHANGED <<intact, delivered>>
    OBVIOUS
  <2> USE DEF Channel!Next
  <2>1. ASSUME NEW p \in Peers, SendFrame(p) \/ SenderStarts(p)
        PROVE  Channel!Next \/ UNCHANGED <<intact, delivered>>
    <3>1. CASE SenderStarts(p)
      BY <3>1 DEF SenderStarts
    <3>2. CASE SendFrame(p)
      <4> DEFINE f == [id |-> frames, from |-> p, nonce |-> counter[p], intact |-> TRUE]
      <4>1. air' = air \cup {f} /\ f.intact /\ UNCHANGED delivered
        BY <3>2 DEF SendFrame
      <4>2. f \in intact' /\ intact' = intact \cup {f}
        BY <4>1
      <4>3. QED BY <4>1, <4>2 DEF Channel!Send
    <3>3. QED BY <2>1, <3>1, <3>2
  <2>2. CASE ReceiverStarts
    BY <2>2 DEF ReceiverStarts, Channel!Restart
  <2>3. CASE UNCHANGED vars
    BY <2>3 DEF vars
  <2>4. ASSUME NEW f \in air, Damage(f) \/ OnFrame(f)
        PROVE  Channel!Next \/ UNCHANGED <<intact, delivered>>
    <3>1. CASE Damage(f)
      <4>1. PICK n \in 0..(NonceMod - 1) :
              air' = air \cup {[f EXCEPT !.nonce = n, !.intact = FALSE]}
        BY <3>1 DEF Damage
      <4>2. f \in Frames
        BY AirTypes DEF AeadInv
      <4>3. [f EXCEPT !.nonce = n, !.intact = FALSE].intact = FALSE
        BY <4>2 DEF Frames
      <4>4. QED BY <3>1, <4>1, <4>3 DEF Damage
    <3>2. CASE OnFrame(f) /\ Receive(f) /\ f.intact
      <4>1. f \in intact \ Range(delivered)
        BY <3>2, ReceiveKeeps
      <4>2. delivered' = Append(delivered, f) /\ UNCHANGED intact
        BY <3>2 DEF OnFrame, Receive
      <4>3. QED BY <4>1, <4>2 DEF Channel!Hand, Channel!Range, Range
    <3>3. CASE OnFrame(f) /\ (Replayed(f) \/ ~f.intact)
      BY <3>3 DEF OnFrame, Replayed, Receive
    <3>4. QED BY <2>4, <3>1, <3>2, <3>3 DEF OnFrame
  <2>5. QED BY <2>1, <2>2, <2>3, <2>4 DEF Next
<1> QED BY AeadInvariant, <1>1, <1>2, PTL DEF Spec, DeliversOnce, Channel!Spec
=============================================================================
