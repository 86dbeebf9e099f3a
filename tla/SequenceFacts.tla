--------------------------- MODULE SequenceFacts ---------------------------
(***************************************************************************)
(* Facts about numbers and sequences that the proofs about the queues of   *)
(* every component need: what an append, a pop from the front and an erase *)
(* from the middle keep, said without arithmetic on the positions.         *)
(***************************************************************************)
EXTENDS Naturals, Sequences, SequencesExt, SequenceTheorems, FiniteSetTheorems,
        TLAPS

(* A set of numbers that is not empty has a least element: the intervals   *)
(* 0 .. i are ordered by inclusion, which is well-founded.                 *)
LEMMA LeastElement ==
  ASSUME NEW S, S \subseteq Nat, S # {}
  PROVE  \E i \in S : \A j \in S : i <= j
<1>. DEFINE Below(i)  == 0 .. i
            Belows == {Below(i) : i \in S}
<1>1. Belows # {} /\ Belows \subseteq FiniteSubsetsOf(Nat)
  <2>1. \A i \in S : Below(i) \subseteq Nat
    OBVIOUS
  <2>2. \A i \in S : IsFiniteSet(Below(i))
    BY FS_Interval
  <2>. QED BY <2>1, <2>2 DEF FiniteSubsetsOf
<1>2. PICK B \in Belows : \A C \in Belows : ~ (<<C, B>> \in StrictSubsetOrdering(Nat))
  <2>. HIDE DEF Belows
  <2>. QED BY <1>1, FS_StrictSubsetOrderingWellFounded, WFMin, Zenon
<1>3. PICK i \in S : B = Below(i)
  OBVIOUS
<1>4. ASSUME NEW j \in S, ~ (i <= j)
      PROVE  FALSE
  <2>1. Below(j) \subseteq Below(i) /\ Below(i) \subseteq Nat
    BY <1>4
  <2>2. Below(j) # Below(i)
    <3>1. i \in Below(i) /\ i \notin Below(j)
      BY <1>4
    <3>. QED BY <3>1
  <2>. HIDE DEF Below
  <2>3. <<Below(j), Below(i)>> \in StrictSubsetOrdering(Nat)
    BY <2>1, <2>2, Zenon DEF StrictSubsetOrdering
  <2>. QED BY <2>3, <1>2, <1>3
<1>5. \A j \in S : i <= j
  BY <1>4
<1>. QED
  BY <1>5

(* Erasing entry i keeps the other entries, in order.                      *)
LEMMA RemoveAtProperties ==
  ASSUME NEW S, NEW s \in Seq(S), NEW i \in 1 .. Len(s)
  PROVE  /\ RemoveAt(s, i) \in Seq(S)
         /\ Len(RemoveAt(s, i)) = Len(s) - 1
         /\ \A j \in 1 .. Len(s) - 1 :
              RemoveAt(s, i)[j] = IF j < i THEN s[j] ELSE s[j + 1]
<1>. DEFINE a == SubSeq(s, 1, i - 1)
            b == SubSeq(s, i + 1, Len(s))
<1>1. a \in Seq(S) /\ Len(a) = i - 1 /\ \A j \in 1 .. i - 1 : a[j] = s[j]
  <2>1. \A j \in 1 .. i - 1 : s[j] \in S
    BY ElementOfSeq
  <2>. QED BY <2>1, SubSeqProperties
<1>2. /\ b \in Seq(S) /\ Len(b) = Len(s) - i
      /\ \A j \in 1 .. Len(s) - i : b[j] = s[i + j]
  <2>1. \A j \in i + 1 .. Len(s) : s[j] \in S
    BY ElementOfSeq
  <2>. QED BY <2>1, SubSeqProperties
<1>3. /\ a \o b \in Seq(S)
      /\ Len(a \o b) = Len(a) + Len(b)
      /\ \A j \in 1 .. Len(a) + Len(b) :
           (a \o b)[j] = IF j <= Len(a) THEN a[j] ELSE b[j - Len(a)]
  <2>. HIDE DEF a, b
  <2>. QED BY <1>1, <1>2, ConcatProperties
<1>4. RemoveAt(s, i) = a \o b
  BY DEF RemoveAt
<1>5. Len(s) \in Nat
  BY LenProperties
<1>. HIDE DEF a, b
<1>6. Len(a) + Len(b) = Len(s) - 1
  BY <1>1, <1>2, <1>5
<1>7. ASSUME NEW j \in 1 .. Len(s) - 1
      PROVE  (a \o b)[j] = IF j < i THEN s[j] ELSE s[j + 1]
  <2>1. CASE j < i
    <3>1. j \in 1 .. i - 1 /\ j <= Len(a)
      BY <2>1, <1>1, <1>5
    <3>. QED BY <3>1, <2>1, <1>1, <1>3, <1>6
  <2>2. CASE ~ (j < i)
    <3>1. j - Len(a) \in 1 .. Len(s) - i /\ ~ (j <= Len(a))
      BY <2>2, <1>1, <1>5
    <3>2. b[j - Len(a)] = s[i + (j - Len(a))] /\ i + (j - Len(a)) = j + 1
      BY <3>1, <1>1, <1>2, <1>5
    <3>. QED BY <3>1, <3>2, <2>2, <1>3, <1>6
  <2>. QED BY <2>1, <2>2
<1>. QED
  BY <1>3, <1>4, <1>6, <1>7

Holds(s, x) == \E i \in DOMAIN s : s[i] = x

(* r is s with e added at a new position, the others kept.                 *)
With(r, s, e) ==
  \E k : /\ k \notin DOMAIN s
         /\ DOMAIN r = DOMAIN s \cup {k}
         /\ r[k] = e
         /\ \A i \in DOMAIN s : r[i] = s[i]

(* r is s without its position k: the other positions of s and those of r  *)
(* are in one-to-one correspondence.                                       *)
Without(r, s, k) ==
  \E h \in [DOMAIN r -> DOMAIN s] :
    /\ \A i, j \in DOMAIN r : h[i] = h[j] => i = j
    /\ \A j \in DOMAIN r : r[j] = s[h[j]] /\ h[j] # k
    /\ \A i \in DOMAIN s \ {k} : \E j \in DOMAIN r : h[j] = i

LEMMA AppendIsWith ==
  ASSUME NEW S, NEW s \in Seq(S), NEW e \in S
  PROVE  Append(s, e) \in Seq(S) /\ Append(s, e) # <<>> /\ With(Append(s, e), s, e)
<1>. DEFINE k == Len(s) + 1
            r == Append(s, e)
<1>1. /\ r \in Seq(S) /\ r # <<>> /\ Len(r) = k /\ r[k] = e
      /\ \A i \in 1 .. Len(s) : r[i] = s[i]
  BY AppendProperties
<1>2. Len(s) \in Nat /\ DOMAIN s = 1 .. Len(s) /\ DOMAIN r = 1 .. Len(r)
  BY <1>1, LenProperties
<1>. HIDE DEF r
<1>3. k \notin DOMAIN s /\ DOMAIN r = DOMAIN s \cup {k}
  BY <1>1, <1>2
<1>. HIDE DEF k
<1>. QED
  BY <1>1, <1>2, <1>3 DEF With, r

LEMMA RemoveAtIsWithout ==
  ASSUME NEW S, NEW s \in Seq(S), NEW i \in DOMAIN s
  PROVE  RemoveAt(s, i) \in Seq(S) /\ Without(RemoveAt(s, i), s, i)
<1>. DEFINE r == RemoveAt(s, i)
            h == [j \in DOMAIN r |-> IF j < i THEN j ELSE j + 1]
<1>1. Len(s) \in Nat /\ DOMAIN s = 1 .. Len(s) /\ i \in 1 .. Len(s)
  BY LenProperties
<1>2. /\ r \in Seq(S) /\ Len(r) = Len(s) - 1
      /\ \A j \in 1 .. Len(s) - 1 : r[j] = IF j < i THEN s[j] ELSE s[j + 1]
  BY <1>1, RemoveAtProperties
<1>3. DOMAIN r = 1 .. Len(s) - 1
  BY <1>2, LenProperties
<1>. HIDE DEF r
<1>4. /\ h \in [DOMAIN r -> DOMAIN s]
      /\ \A j, k \in DOMAIN r : h[j] = h[k] => j = k
  BY <1>1, <1>3
<1>5. \A j \in DOMAIN r : r[j] = s[h[j]] /\ h[j] # i
  BY <1>1, <1>2, <1>3
<1>6. ASSUME NEW m \in DOMAIN s \ {i}
      PROVE  \E j \in DOMAIN r : h[j] = m
  <2>1. CASE m < i
    <3>1. m \in DOMAIN r /\ h[m] = m
      BY <1>1, <1>3, <2>1
    <3>. QED BY <3>1
  <2>2. CASE ~ (m < i)
    <3>1. m - 1 \in DOMAIN r /\ h[m - 1] = m
      BY <1>1, <1>3, <2>2
    <3>. QED BY <3>1
  <2>. QED BY <2>1, <2>2
<1>. HIDE DEF h
<1>. QED
  BY <1>2, <1>4, <1>5, <1>6 DEF Without, r

LEMMA TailIsWithout ==
  ASSUME NEW S, NEW s \in Seq(S), s # <<>>
  PROVE  /\ 1 \in DOMAIN s /\ Head(s) = s[1] /\ Head(s) \in S
         /\ Tail(s) \in Seq(S) /\ Without(Tail(s), s, 1)
<1>. DEFINE r == Tail(s)
            h == [j \in DOMAIN r |-> j + 1]
<1>1. Len(s) \in Nat \ {0} /\ DOMAIN s = 1 .. Len(s)
  BY LenProperties, EmptySeq
<1>2. /\ r \in Seq(S) /\ Len(r) = Len(s) - 1 /\ Head(s) = s[1] /\ Head(s) \in S
      /\ \A j \in 1 .. Len(r) : r[j] = s[j + 1]
  BY HeadTailProperties
<1>3. DOMAIN r = 1 .. Len(s) - 1
  BY <1>2, LenProperties
<1>. HIDE DEF r
<1>4. /\ h \in [DOMAIN r -> DOMAIN s]
      /\ \A j, k \in DOMAIN r : h[j] = h[k] => j = k
      /\ \A j \in DOMAIN r : r[j] = s[h[j]] /\ h[j] # 1
  BY <1>1, <1>2, <1>3
<1>5. ASSUME NEW m \in DOMAIN s \ {1}
      PROVE  \E j \in DOMAIN r : h[j] = m
  <2>1. m - 1 \in DOMAIN r /\ h[m - 1] = m
    BY <1>1, <1>3
  <2>. QED BY <2>1
<1>6. 1 \in DOMAIN s
  BY <1>1
<1>. HIDE DEF h
<1>. QED
  BY <1>2, <1>4, <1>5, <1>6 DEF Without, r
=============================================================================
