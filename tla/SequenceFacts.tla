---------------------------- MODULE SequenceFacts ----------------------------
(***************************************************************************)
(* The set of the members of a sequence, which the history variables of    *)
(* the links are read as.                                                  *)
(***************************************************************************)
EXTENDS Sequences, Integers, Functions, SequenceTheorems, TLAPS

\* An empty sequence has no members, one of length one has one.
LEMMA RangeEmpty == Range(<<>>) = {}
  BY DEF Range

LEMMA RangeOne == \A p : Range(<<p>>) = {p}
  BY DEF Range

\* Appending adds one member.
LEMMA RangeAppend ==
  ASSUME NEW S, NEW s \in Seq(S), NEW p \in S
  PROVE  Range(Append(s, p)) = Range(s) \cup {p}
<1> DEFINE t == Append(s, p)
<1>1. DOMAIN s = 1..Len(s) /\ DOMAIN t = 1..(Len(s) + 1) /\ Len(s) \in Nat
  BY LenProperties, AppendProperties
<1>2. \A i \in 1..Len(s) : t[i] = s[i]
  BY AppendProperties
<1>3. t[Len(s) + 1] = p
  BY AppendProperties
<1>4. Range(t) \subseteq Range(s) \cup {p}
  <2> SUFFICES ASSUME NEW i \in DOMAIN t PROVE t[i] \in Range(s) \cup {p}
    BY DEF Range
  <2>1. CASE i = Len(s) + 1
    BY <1>3, <2>1
  <2>2. CASE i # Len(s) + 1
    <3>1. i \in 1..Len(s)
      BY <1>1, <2>2
    <3>2. QED BY <1>1, <1>2, <3>1 DEF Range
  <2>3. QED BY <2>1, <2>2
<1>5. Range(s) \cup {p} \subseteq Range(t)
  <2>1. \A i \in DOMAIN s : s[i] \in Range(t)
    <3> TAKE i \in DOMAIN s
    <3>1. i \in DOMAIN t /\ t[i] = s[i]
      BY <1>1, <1>2
    <3>2. QED BY <3>1 DEF Range
  <2>2. p \in Range(t)
    <3>1. Len(s) + 1 \in DOMAIN t
      BY <1>1
    <3>2. QED BY <1>3, <3>1 DEF Range
  <2>3. QED BY <2>1, <2>2 DEF Range
<1> QED BY <1>4, <1>5

\* The members of a sequence over S are in S.
LEMMA RangeType ==
  ASSUME NEW S, NEW s \in Seq(S)
  PROVE  Range(s) \subseteq S
<1>1. DOMAIN s = 1..Len(s)
  BY LenProperties
<1>2. \A i \in 1..Len(s) : s[i] \in S
  BY ElementOfSeq
<1> QED BY <1>1, <1>2 DEF Range

\* What stands where in a concatenation.
LEMMA ConcatParts ==
  ASSUME NEW S, NEW s \in Seq(S), NEW t \in Seq(S)
  PROVE  /\ s \o t \in Seq(S) /\ Len(s \o t) = Len(s) + Len(t)
         /\ \A i \in 1..Len(s) : (s \o t)[i] = s[i]
         /\ \A i \in 1..Len(t) : (s \o t)[Len(s) + i] = t[i]
<1>1. Len(s) \in Nat /\ Len(t) \in Nat
  BY LenProperties
<1> DEFINE u == s \o t
<1>2. /\ u \in Seq(S) /\ Len(u) = Len(s) + Len(t)
      /\ \A i \in 1..(Len(s) + Len(t)) : u[i] = IF i <= Len(s) THEN s[i] ELSE t[i - Len(s)]
  BY ConcatProperties
<1> HIDE DEF u
<1>3. ASSUME NEW i \in 1..Len(s)
      PROVE  u[i] = s[i]
  BY <1>1, <1>2
<1>4. ASSUME NEW i \in 1..Len(t)
      PROVE  u[Len(s) + i] = t[i]
  <2>1. Len(s) + i \in 1..(Len(s) + Len(t)) /\ ~(Len(s) + i <= Len(s)) /\ (Len(s) + i) - Len(s) = i
    BY <1>1
  <2>2. QED BY <1>2, <2>1
<1> QED BY <1>2, <1>3, <1>4 DEF u
=============================================================================
