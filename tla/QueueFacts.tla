----------------------------- MODULE QueueFacts -----------------------------
(***************************************************************************)
(* Facts about queues that the proofs of several modules rest on.          *)
(***************************************************************************)
EXTENDS Integers, Sequences, SequenceTheorems, WellFoundedInduction, TLAPS

(* A nonempty set of positions of a queue has a greatest element.          *)
LEMMA GreatestExists ==
  ASSUME NEW n \in Nat, NEW T \in SUBSET (1..n), T # {}
  PROVE  \E i \in T : \A j \in T : j <= i
<1> DEFINE U == {m \in Nat : \E i \in T : m = n - i}
<1>1. U \subseteq Nat /\ U # {}
  <2>1. PICK i \in T : TRUE
    OBVIOUS
  <2>2. n - i \in Nat
    OBVIOUS
  <2> QED BY <2>2
<1>2. \E x \in U : \A y \in U : <<y, x>> \notin OpToRel(<, Nat)
  BY <1>1, NatLessThanWellFounded, WFMin, Zenon
<1>3. PICK x \in U : \A y \in U : ~(y < x)
  BY <1>1, <1>2 DEF OpToRel
<1>4. PICK i \in T : x = n - i
  OBVIOUS
<1>5. ASSUME NEW j \in T PROVE j <= i
  <2>1. n - j \in U
    OBVIOUS
  <2>2. ~(n - j < n - i)
    BY <2>1, <1>3, <1>4
  <2> HIDE DEF U
  <2>3. i \in 1..n /\ j \in 1..n
    OBVIOUS
  <2> QED BY <2>2, <2>3
<1> QED BY <1>5

(* What a queue of elements of S is after its first element.               *)
LEMMA TailFacts ==
  ASSUME NEW S, NEW q \in Seq(S), q # << >>
  PROVE  /\ Tail(q) \in Seq(S) /\ Head(q) \in S /\ Head(q) = q[1]
         /\ Len(q) \in Nat /\ Len(Tail(q)) + 1 = Len(q)
         /\ \A i \in 1..Len(Tail(q)) : Tail(q)[i] = q[i + 1]
<1>1. Len(q) \in Nat /\ Len(Tail(q)) = Len(q) - 1
  BY HeadTailProperties, LenProperties
<1>2. /\ Tail(q) \in Seq(S) /\ Head(q) \in S /\ Head(q) = q[1]
      /\ \A i \in 1..Len(Tail(q)) : Tail(q)[i] = q[i + 1]
  BY HeadTailProperties
<1> QED BY <1>1, <1>2

(* A queue with its i-th element taken out.                                *)
LEMMA WithoutFacts ==
  ASSUME NEW S, NEW q \in Seq(S), NEW i \in 1..Len(q)
  PROVE  LET w == SubSeq(q, 1, i - 1) \o SubSeq(q, i + 1, Len(q))
         IN  /\ w \in Seq(S)
             /\ Len(q) \in Nat /\ Len(w) + 1 = Len(q)
             /\ \A j \in 1..Len(w) : w[j] = q[IF j < i THEN j ELSE j + 1]
<1> DEFINE l == SubSeq(q, 1, i - 1)
           r == SubSeq(q, i + 1, Len(q))
           w == l \o r
<1>1. Len(q) \in Nat /\ i \in Nat /\ 1 <= i /\ i <= Len(q)
  BY LenProperties
<1>2. /\ l \in Seq(S) /\ Len(l) = IF 1 <= i - 1 THEN (i - 1) - 1 + 1 ELSE 0
      /\ \A j \in 1..((i - 1) - 1 + 1) : l[j] = q[1 + j - 1]
  BY <1>1, SubSeqProperties
<1>3. /\ r \in Seq(S) /\ Len(r) = IF i + 1 <= Len(q) THEN Len(q) - (i + 1) + 1 ELSE 0
      /\ \A j \in 1..(Len(q) - (i + 1) + 1) : r[j] = q[(i + 1) + j - 1]
  BY <1>1, SubSeqProperties
<1> HIDE DEF l, r
<1>4. /\ w \in Seq(S) /\ Len(w) = Len(l) + Len(r)
      /\ \A j \in 1..(Len(l) + Len(r)) : w[j] = IF j <= Len(l) THEN l[j] ELSE r[j - Len(l)]
  BY <1>2, <1>3, ConcatProperties
<1> HIDE DEF w
<1>5. Len(l) = i - 1 /\ Len(r) = Len(q) - i
  BY <1>1, <1>2, <1>3
<1>6. Len(w) + 1 = Len(q)
  BY <1>1, <1>4, <1>5
<1>7. ASSUME NEW j \in 1..Len(w)
      PROVE  w[j] = q[IF j < i THEN j ELSE j + 1]
  <2>1. w[j] = IF j <= i - 1 THEN l[j] ELSE r[j - (i - 1)]
    BY <1>4, <1>5
  <2>2. CASE j < i
    BY <1>1, <1>2, <2>1, <2>2
  <2>3. CASE ~(j < i)
    <3>1. j - (i - 1) \in 1..(Len(q) - (i + 1) + 1)
      BY <1>1, <1>6, <2>3
    <3>2. r[j - (i - 1)] = q[(i + 1) + (j - (i - 1)) - 1]
      BY <1>3, <3>1
    <3> QED BY <1>1, <2>1, <2>3, <3>2
  <2> QED BY <2>2, <2>3
<1> QED BY <1>1, <1>4, <1>6, <1>7 DEF w, l, r
=============================================================================
