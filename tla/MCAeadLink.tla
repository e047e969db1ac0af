----------------------------- MODULE MCAeadLink -----------------------------
(* AeadLink for TLC: peers are interchangeable.                             *)
EXTENDS AeadLink, TLC

CONSTANTS p1, p2

ExchangePeers == Permutations(Peers)
=============================================================================
