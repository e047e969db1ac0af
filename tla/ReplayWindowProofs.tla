------------------------- MODULE ReplayWindowProofs -------------------------
(***************************************************************************)
(* The replay window for every width W: a window that reflects a set of    *)
(* accepted numbers lets no member of the set through, drops no number     *)
(* that is new and inside the window, and reflects the set that includes   *)
(* the accepted number afterwards.                                         *)
(***************************************************************************)
EXTENDS ReplayWindow, TLAPS

USE WidthAssumption

LEMMA FreshReflects == Fresh \in Windows /\ Reflects(Fresh, {})
  BY DEF Fresh, Windows, Reflects

LEMMA FirstSeenReflects ==
  ASSUME NEW s \in Nat
  PROVE  FirstSeen(s) \in Windows /\ Reflects(FirstSeen(s), {s})
<1>1. FirstSeen(s) \in Windows
  BY DEF FirstSeen, Windows
<1>2. \A i \in 0..(W - 1) : i \in {0} <=> s - i \in {s}
  OBVIOUS
<1> QED BY <1>1, <1>2 DEF FirstSeen, Reflects

\* The window stays a window of W bits.
LEMMA AfterType ==
  ASSUME NEW w \in Windows, NEW s \in Nat
  PROVE  After(w, s) \in Windows
<1>1. CASE ~Accepts(w, s)
  BY <1>1 DEF After
<1>2. CASE Accepts(w, s) /\ ~w.initialised
  BY <1>2, FirstSeenReflects DEF After
<1>3. CASE Accepts(w, s) /\ w.initialised /\ s > w.highest
  <2>1. After(w, s) = [w EXCEPT !.highest = s, !.bits = ShiftLeft(w.bits, s - w.highest) \cup {0}]
    BY <1>3 DEF After
  <2>2. ShiftLeft(w.bits, s - w.highest) \cup {0} \in SUBSET (0..(W - 1))
    BY DEF ShiftLeft
  <2>3. QED BY <2>1, <2>2 DEF Windows
<1>4. CASE Accepts(w, s) /\ w.initialised /\ ~(s > w.highest)
  <2>1. After(w, s) = [w EXCEPT !.bits = w.bits \cup {w.highest - s}]
    BY <1>4 DEF After
  <2>2. w.highest - s \in 0..(W - 1)
    BY <1>4 DEF Accepts, InWindow, Windows
  <2>3. QED BY <2>1, <2>2 DEF Windows
<1> QED BY <1>1, <1>2, <1>3, <1>4

\* A number that was accepted before is never accepted again.
THEOREM AcceptsOnlyNew ==
  ASSUME NEW w \in Windows, NEW S \in SUBSET Nat, Reflects(w, S),
         NEW s \in Nat, Accepts(w, s)
  PROVE  s \notin S
<1>1. CASE ~w.initialised
  BY <1>1 DEF Reflects
<1>2. CASE w.initialised /\ s > w.highest
  BY <1>2 DEF Reflects, Windows
<1>3. CASE w.initialised /\ ~(s > w.highest)
  <2>1. w.highest \in Nat /\ InWindow(w, s) /\ w.highest - s \notin w.bits
    BY <1>3 DEF Accepts, Windows
  <2>2. w.highest - s \in 0..(W - 1)
    BY <1>3, <2>1 DEF InWindow
  <2>3. w.highest - (w.highest - s) \notin S
    BY <1>3, <2>1, <2>2 DEF Reflects
  <2>4. QED BY <2>1, <2>3
<1> QED BY <1>1, <1>2, <1>3

\* A number is dropped only if it was accepted before, or is W or more behind.
THEOREM DropsOnlyOld ==
  ASSUME NEW w \in Windows, NEW S \in SUBSET Nat, Reflects(w, S),
         NEW s \in Nat, ~Accepts(w, s)
  PROVE  s \in S \/ \E t \in S : s + W <= t
<1>1. w.initialised /\ w.highest \in Nat /\ s <= w.highest
  BY DEF Accepts, Windows
<1>2. CASE InWindow(w, s)
  <2>1. w.highest - s \in w.bits /\ w.highest - s \in 0..(W - 1)
    BY <1>1, <1>2 DEF Accepts, InWindow
  <2>2. w.highest - (w.highest - s) \in S
    BY <1>1, <2>1 DEF Reflects
  <2>3. QED BY <1>1, <2>2
<1>3. CASE ~InWindow(w, s)
  BY <1>1, <1>3 DEF InWindow, Reflects
<1> QED BY <1>2, <1>3

\* After an accepted number the window reflects it too.
THEOREM AfterReflects ==
  ASSUME NEW w \in Windows, NEW S \in SUBSET Nat, Reflects(w, S),
         NEW s \in Nat, Accepts(w, s)
  PROVE  Reflects(After(w, s), S \cup {s})
<1> DEFINE T == S \cup {s}
<1>1. CASE ~w.initialised
  <2>1. S = {} /\ After(w, s) = FirstSeen(s)
    BY <1>1 DEF Reflects, After
  <2>2. QED BY <2>1, FirstSeenReflects
<1>2. CASE w.initialised /\ s > w.highest
  <2> DEFINE n == s - w.highest
             v == [w EXCEPT !.highest = s, !.bits = ShiftLeft(w.bits, n) \cup {0}]
  <2>0. w.highest \in Nat /\ n \in Nat \ {0} /\ After(w, s) = v
    BY <1>2 DEF After, Windows
  <2>1. v.initialised /\ v.highest = s /\ v.bits = ShiftLeft(w.bits, n) \cup {0}
    BY <1>2 DEF Windows
  <2>2. \A t \in T : t <= s
    BY <1>2, <2>0 DEF Reflects
  <2>3. ASSUME NEW i \in 0..(W - 1)
        PROVE  i \in v.bits <=> s - i \in T
    <3>1. CASE i = 0
      BY <2>1, <3>1
    <3>2. CASE i # 0 /\ i < n
      <4>1. i \notin ShiftLeft(w.bits, n)
        BY <2>0, <3>2 DEF ShiftLeft, Windows
      <4>2. s - i > w.highest /\ s - i # s
        BY <2>0, <3>2
      <4>3. s - i \notin S
        BY <1>2, <2>0, <4>2 DEF Reflects
      <4>4. QED BY <2>1, <3>2, <4>1, <4>2, <4>3
    <3>3. CASE i >= n
      <4>1. i - n \in 0..(W - 1) /\ s - i = w.highest - (i - n) /\ s - i # s /\ i # 0
        BY <2>0, <3>3
      <4>2. i \in ShiftLeft(w.bits, n) <=> i - n \in w.bits
        BY <2>0, <3>3, <4>1 DEF ShiftLeft, Windows
      <4>3. i - n \in w.bits <=> s - i \in S
        BY <1>2, <4>1 DEF Reflects
      <4>4. QED BY <2>1, <4>1, <4>2, <4>3
    <3>4. QED BY <2>0, <3>1, <3>2, <3>3
  <2>4. QED BY <2>0, <2>1, <2>2, <2>3 DEF Reflects
<1>3. CASE w.initialised /\ ~(s > w.highest)
  <2> DEFINE d == w.highest - s
             v == [w EXCEPT !.bits = w.bits \cup {d}]
  <2>0. w.highest \in Nat /\ d \in 0..(W - 1) /\ After(w, s) = v
    BY <1>3 DEF After, Accepts, InWindow, Windows
  <2>1. v.initialised /\ v.highest = w.highest /\ v.bits = w.bits \cup {d}
    BY <1>3 DEF Windows
  <2>2. v.highest \in T /\ \A t \in T : t <= v.highest
    BY <1>3, <2>0, <2>1 DEF Reflects
  <2>3. ASSUME NEW i \in 0..(W - 1)
        PROVE  i \in v.bits <=> v.highest - i \in T
    <3>1. i = d <=> v.highest - i = s
      BY <2>0, <2>1
    <3>2. i \in w.bits <=> v.highest - i \in S
      BY <1>3, <2>1 DEF Reflects
    <3>3. QED BY <2>1, <3>1, <3>2
  <2>4. QED BY <2>0, <2>1, <2>2, <2>3 DEF Reflects
<1> QED BY <1>1, <1>2, <1>3
=============================================================================
