----------------------------- MODULE OnceChannel -----------------------------
(***************************************************************************)
(* What an authenticated link promises between two changes of session: a   *)
(* packet handed over was sent, and no packet is handed over twice.        *)
(* Packets may be lost and may overtake each other.                        *)
(***************************************************************************)
EXTENDS Sequences, Functions

VARIABLES sent, handed      \* packets sent; handed over in the current session

Init == sent = {} /\ handed = <<>>

Send == (\E p \in sent' : sent' = sent \cup {p}) /\ UNCHANGED handed

Hand == \E p \in sent \ Range(handed) : handed' = Append(handed, p) /\ UNCHANGED sent

\* The receiver turns to another session, with its first packet.
Turn == \E p \in sent : handed' = <<p>> /\ UNCHANGED sent

\* The receiver restarts.
Restart == handed' = <<>> /\ UNCHANGED sent

Next == Send \/ Hand \/ Turn \/ Restart

Spec == Init /\ [][Next]_<<sent, handed>>

\* A channel whose session never changes.
OneSession == Init /\ [][Send \/ Hand]_<<sent, handed>>
=============================================================================
