------------------------------ MODULE MCTunnel ------------------------------
(* Tunnel for TLC: the frames that are sent.                                 *)
EXTENDS Tunnel

CONSTANTS here, other, MaxLen

\* What the bytes of a payload may claim: an invalid size, the least frame for
\* someone else, or so much for the tunnel that a whole frame may follow and
\* the claim still wait for more.
Invalid == [len |-> 0, addr |-> here]
Short == [len |-> MinFrame, addr |-> other]
Long == [len |-> MaxLen + MinFrame, addr |-> here]
PayloadClaims == {Invalid, Short, Long}

Frame(l, a, payload) == <<[len |-> l, addr |-> a]>> \o payload

\* Every frame of MinFrame to MaxLen bytes with such a payload.
AllShapes ==
    UNION {{Frame(l, a, payload) : a \in Addrs, payload \in [1..(l - 1) -> PayloadClaims]}
             : l \in MinFrame..MaxLen}

\* For longer histories: long frames for the tunnel whose payload claims little
\* or nothing, and a short frame for someone else that claims too much.
FewShapes ==
    {Frame(MaxLen, here, [k \in 1..(MaxLen - 1) |-> c]) : c \in {Short, Invalid}}
    \cup {Frame(MinFrame, other, [k \in 1..(MinFrame - 1) |-> Long])}
=============================================================================
