------------------------------ MODULE AeadLink ------------------------------
(***************************************************************************)
(* AEAD frames between tunnels that share a key: NonceCounter on the       *)
(* sending side, and on the receiving side recoverClearPayload of          *)
(* src/net/Ip2LoraTunnel.ts with the ReplayWindow of                       *)
(* src/frame/AeadCodec.ts.  Several peers send to one receiver.  The       *)
(* receiver looks its window up by the address in the frame, which is the  *)
(* address of the RECEIVER (any other was dropped before, line 241), so    *)
(* one window serves all senders.  The window is checked before the tag:   *)
(* the number of a damaged frame counts as seen.                           *)
(*                                                                         *)
(* A frame is one unit here; how the byte stream is cut into frames is not *)
(* part of this module.  Between a tunnel and its board there may be a UDP *)
(* link, which loses and reorders packets and, after a change of session,  *)
(* hands over old ones again (UdpLink): so a frame that was sent may       *)
(* arrive never, late, and repeatedly.                                     *)
(***************************************************************************)
EXTENDS ReplayWindow, Sequences, Functions

CONSTANTS
    Peers,          \* the sending tunnels
    Offsets,        \* where a NonceCounter may start (random in the code)
    NonceMod,       \* the counter wraps here, 2^64 in the code
    MaxFrames,      \* bound: frames sent
    MaxStarts,      \* bound: restarts of senders and of the receiver
    MaxDamaged      \* bound: frames damaged on their way

ASSUME AeadAssumption ==
    /\ NonceMod \in Nat \ {0} /\ Offsets \subseteq 0..(NonceMod - 1)
    /\ MaxFrames \in Nat /\ MaxStarts \in Nat /\ MaxDamaged \in Nat

VARIABLES
    counter,        \* each peer's this.nonceCounter
    air,            \* every frame that was sent, and damaged copies
    window,         \* the receiver's replay window
    checked,        \* frames whose number passed the check since it started
    delivered,      \* frames written to the TUN interface since it started
    frames, starts, damaged \* counters for the bounds

vars == <<counter, air, window, checked, delivered, frames, starts, damaged>>

\* Frames are told apart by id; a damaged one does not authenticate.
Frames == [id : Nat, from : Peers, nonce : 0..(NonceMod - 1), intact : BOOLEAN]

TypeOK ==
    /\ counter \in [Peers -> 0..(NonceMod - 1)]
    /\ air \subseteq Frames
    /\ window \in Windows
    /\ checked \subseteq air /\ delivered \in Seq(air)
    /\ frames \in Nat /\ starts \in Nat /\ damaged \in Nat

Init ==
    /\ counter \in [Peers -> Offsets]
    /\ air = {} /\ window = Fresh
    /\ checked = {} /\ delivered = <<>>
    /\ frames = 0 /\ starts = 0 /\ damaged = 0

-----------------------------------------------------------------------------

\* Mutant of NextNonce: the mask is forgotten.
NextNonceUnmasked(p) == counter[p] + 1

\* NonceCounter.next.
NextNonce(p) == (counter[p] + 1) % NonceMod

\* onTunPacket: a packet leaves under the next number.
SendFrame(p) ==
    /\ frames < MaxFrames /\ frames' = frames + 1
    /\ air' = air \cup {[id |-> frames, from |-> p, nonce |-> counter[p], intact |-> TRUE]}
    /\ counter' = [counter EXCEPT ![p] = NextNonce(p)]
    /\ UNCHANGED <<window, checked, delivered, starts, damaged>>

\* A new Ip2LoraTunnel on peer p starts its counter at random.
SenderStarts(p) ==
    /\ starts < MaxStarts /\ starts' = starts + 1
    /\ \E o \in Offsets : counter' = [counter EXCEPT ![p] = o]
    /\ UNCHANGED <<air, window, checked, delivered, frames, damaged>>

\* A new Ip2LoraTunnel on the receiver has an empty window.
ReceiverStarts ==
    /\ starts < MaxStarts /\ starts' = starts + 1
    /\ window' = Fresh /\ checked' = {} /\ delivered' = <<>>
    /\ UNCHANGED <<counter, air, frames, damaged>>

\* Bytes of frame f change on the radio: its number may, its tag fails.
Damage(f) ==
    /\ damaged < MaxDamaged /\ damaged' = damaged + 1
    /\ \E n \in 0..(NonceMod - 1) :
         air' = air \cup {[f EXCEPT !.nonce = n, !.intact = FALSE]}
    /\ UNCHANGED <<counter, window, checked, delivered, frames, starts>>

\* window.check passed: the number counts as seen.  An intact frame goes to the
\* TUN interface, a damaged one is an "aead-tag-mismatch".
Receive(f) ==
    /\ Accepts(window, f.nonce)
    /\ window' = After(window, f.nonce)
    /\ checked' = checked \cup {f}
    /\ \/ f.intact /\ delivered' = Append(delivered, f)
       \/ ~f.intact /\ UNCHANGED delivered

\* "aead-replay".
Replayed(f) ==
    /\ ~Accepts(window, f.nonce)
    /\ UNCHANGED <<window, checked, delivered>>

\* recoverClearPayload and deliverToTun for frame f.
OnFrame(f) ==
    /\ Receive(f) \/ Replayed(f)
    /\ UNCHANGED <<counter, air, frames, starts, damaged>>

Next ==
    \/ \E p \in Peers : SendFrame(p) \/ SenderStarts(p)
    \/ ReceiverStarts
    \/ \E f \in air : Damage(f) \/ OnFrame(f)

Spec == Init /\ [][Next]_vars

-----------------------------------------------------------------------------
(* Properties                                                              *)

\* The window is the history of the numbers that passed the check, and every
\* frame on the TUN interface passed it and is intact.
WindowIsHistory ==
    /\ Reflects(window, {f.nonce : f \in checked})
    /\ \A f \in Range(delivered) : f \in checked /\ f.intact

\* The tunnel is a channel that hands no frame over twice, whatever arrives
\* again and in whatever order.
Channel == INSTANCE OnceChannel WITH sent <- {f \in air : f.intact}, handed <- delivered
DeliversOnce == Channel!Spec

\* Frame f has a number nobody used before, near those that came from its sender.
NewFromPeer(f) ==
    /\ f.intact
    /\ \A g \in checked :
         /\ f.nonce # g.nonce
         /\ f.from = g.from => f.nonce - g.nonce \in (1 - W)..(W - 1)

\* "Tracks the 64 most recent nonces seen from a particular peer; rejects
\* duplicates and anything older than the window" (src/frame/AeadCodec.ts:86):
\* a frame that is new, and recent among its sender's, is not rejected.
RejectsOnlyPerPeer == \A f \in air : NewFromPeer(f) => Accepts(window, f.nonce)

\* The same with a single sender and nothing damaged: whatever is lost, late or
\* repeated and whoever restarts, only duplicates and old frames are rejected.
RejectsOnlyOldAlone ==
    (\A f, g \in air : f.from = g.from) /\ damaged = 0 => RejectsOnlyPerPeer
=============================================================================
