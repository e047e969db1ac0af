---------------------------- MODULE ReplayWindow ----------------------------
(***************************************************************************)
(* The sliding replay window that appears three times in the code:         *)
(* Seq32ReplayWindow (src/frame/UdpAuth.ts), ReplayWindow                  *)
(* (src/frame/AeadCodec.ts) and udpReplayAccept (firmware main.cpp).  They *)
(* differ in the width of the numbers and in what resets them, not in the  *)
(* check.  The 64-bit bitmap is the set of the positions of its one bits:  *)
(* i is in bits when number highest - i has been seen.                     *)
(***************************************************************************)
EXTENDS Integers

CONSTANT W          \* width of the bitmap, 64 in the code

ASSUME WidthAssumption == W \in Nat \ {0}

Windows == [initialised : BOOLEAN, highest : Nat, bits : SUBSET (0..(W - 1))]

\* A window that has seen nothing, and one that has seen only s.
Fresh == [initialised |-> FALSE, highest |-> 0, bits |-> {}]
FirstSeen(s) == [initialised |-> TRUE, highest |-> s, bits |-> {0}]

\* Mutant of ShiftLeft: bits that leave the window wrap around.
RotateLeft(bits, n) == {(b + n) % W : b \in bits}

\* bits << n, cut to W bits (n >= W leaves none).
ShiftLeft(bits, n) == {b + n : b \in bits} \cap 0..(W - 1)

\* Mutants of InWindow: one number too many, or one too few, counts as inside.
InWiderWindow(w, s) == w.highest - s <= W
InNarrowerWindow(w, s) == w.highest - s < W - 1

\* s is new enough to be judged by its bit.
InWindow(w, s) == w.highest - s < W

\* Mutant of Accepts: the highest number seen is taken for a new one.
AcceptsHighest(w, s) ==
    \/ ~w.initialised
    \/ s >= w.highest
    \/ InWindow(w, s) /\ w.highest - s \notin w.bits

\* The result of check for number s.
Accepts(w, s) ==
    \/ ~w.initialised
    \/ s > w.highest
    \/ InWindow(w, s) /\ w.highest - s \notin w.bits

\* The window after check for number s.
After(w, s) ==
    IF ~Accepts(w, s) THEN w
    ELSE IF ~w.initialised THEN FirstSeen(s)
    ELSE IF s > w.highest
         THEN [w EXCEPT !.highest = s, !.bits = ShiftLeft(w.bits, s - w.highest) \cup {0}]
         ELSE [w EXCEPT !.bits = w.bits \cup {w.highest - s}]

-----------------------------------------------------------------------------
\* Window w says of the numbers accepted so far exactly what it should: their
\* maximum, and which of the last W numbers are among them.
Reflects(w, accepted) ==
    /\ w.initialised <=> accepted # {}
    /\ w.initialised =>
         /\ w.highest \in accepted
         /\ \A s \in accepted : s <= w.highest
         /\ \A i \in 0..(W - 1) : i \in w.bits <=> w.highest - i \in accepted
=============================================================================
