-------------------------- MODULE WordIndexProofs --------------------------
(***************************************************************************)
(* Theorems about WordIndex, for any listing, any texts and any buffer of  *)
(* at least two characters: what the dictionary holds when it is printed,  *)
(* and in which order.                                                     *)
(*                                                                         *)
(* What the recursive functions merge and sort compute is shown without    *)
(* induction.  A function is given that satisfies the recursion, so the     *)
(* chosen one does; and of the places where it is not the function given,  *)
(* one with the least left to do is picked and unfolded (LeastElement).    *)
(***************************************************************************)
EXTENDS WordIndex, SequenceFacts

Word == Seq(Nat)

(* Before, said of the first position at which the words part.             *)
PartAt(a, b, i) ==
  /\ \A j \in 1 .. i - 1 : j <= Len(a) /\ j <= Len(b) /\ a[j] = b[j]
  /\ i <= Len(b)
  /\ i <= Len(a) => a[i] < b[i]

(* The two disjuncts of Before are the two cases of PartAt.                *)
LEMMA PrefixMeans ==
  ASSUME NEW a \in Word, NEW b \in Word
  PROVE  IsStrictPrefix(a, b) <=>
           Len(a) < Len(b) /\ \A j \in 1 .. Len(a) : a[j] = b[j]
<1>1. Len(a) \in Nat /\ Len(b) \in Nat
  BY LenProperties DEF Word
<1>2. ASSUME Len(a) <= Len(b)
      PROVE  SubSeq(a, 1, Len(a)) = SubSeq(b, 1, Len(a)) <=> \A j \in 1 .. Len(a) : a[j] = b[j]
  <2>. DEFINE p == SubSeq(a, 1, Len(a))
              q == SubSeq(b, 1, Len(a))
  <2>1. \A i \in 1 .. Len(a) : a[i] \in Nat /\ b[i] \in Nat
    BY <1>1, <1>2, ElementOfSeq DEF Word
  <2>2. p \in Seq(Nat) /\ Len(p) = Len(a) /\ \A i \in 1 .. Len(a) : p[i] = a[i]
    BY <1>1, <2>1, SubSeqProperties
  <2>3. q \in Seq(Nat) /\ Len(q) = Len(a) /\ \A i \in 1 .. Len(a) : q[i] = b[i]
    BY <1>1, <2>1, SubSeqProperties
  <2>. HIDE DEF p, q
  <2>4. p = q <=> \A i \in 1 .. Len(a) : p[i] = q[i]
    BY <2>2, <2>3, SeqEqual
  <2>. QED BY <2>2, <2>3, <2>4 DEF p, q
<1>3. Len(a) = Len(b) /\ (\A j \in 1 .. Len(a) : a[j] = b[j]) => a = b
  BY SeqEqual DEF Word
<1>. QED BY <1>1, <1>2, <1>3 DEF IsStrictPrefix, IsPrefix

(* Where they part, the earlier word has the smaller letter or ends.       *)
LEMMA BeforeParts ==
  ASSUME NEW a \in Word, NEW b \in Word
  PROVE  Before(a, b) <=> \E i \in Nat \ {0} : PartAt(a, b, i)
<1>1. /\ Len(a) \in Nat /\ DOMAIN a = 1 .. Len(a)
      /\ Len(b) \in Nat /\ DOMAIN b = 1 .. Len(b)
  BY LenProperties DEF Word
<1>2. ASSUME IsStrictPrefix(a, b) PROVE PartAt(a, b, Len(a) + 1)
  BY <1>1, <1>2, PrefixMeans DEF PartAt
<1>3. ASSUME NEW i \in DOMAIN a \cap DOMAIN b, a[i] < b[i], \A j \in 1 .. i - 1 : a[j] = b[j]
      PROVE  PartAt(a, b, i)
  BY <1>1, <1>3 DEF PartAt
<1>4. ASSUME NEW i \in Nat \ {0}, PartAt(a, b, i) PROVE Before(a, b)
  <2>1. CASE i <= Len(a)
    BY <1>1, <1>4, <2>1 DEF PartAt, Before
  <2>2. CASE ~ (i <= Len(a))
    <3>1. i - 1 = Len(a)
      <4>1. i - 1 \in 1 .. i - 1 \/ i = 1
        OBVIOUS
      <4>. QED BY <1>1, <1>4, <2>2, <4>1 DEF PartAt
    <3>. QED BY <1>1, <1>4, <3>1, PrefixMeans DEF PartAt, Before
  <2>. QED BY <2>1, <2>2
<1>5. ASSUME Before(a, b) PROVE \E i \in Nat \ {0} : PartAt(a, b, i)
  <2>1. CASE IsStrictPrefix(a, b)
    <3>1. Len(a) + 1 \in Nat \ {0}
      BY <1>1
    <3>. QED BY <1>2, <2>1, <3>1
  <2>2. CASE \E i \in DOMAIN a \cap DOMAIN b : a[i] < b[i] /\ \A j \in 1 .. i - 1 : a[j] = b[j]
    <3>1. DOMAIN a \cap DOMAIN b \subseteq Nat \ {0}
      BY <1>1
    <3>. QED BY <1>3, <2>2, <3>1
  <2>. QED BY <1>5, <2>1, <2>2 DEF Before
<1>. QED BY <1>4, <1>5

(* Before is a strict total order of the words.                            *)
LEMMA BeforeIrreflexive ==
  ASSUME NEW a \in Word
  PROVE  ~ Before(a, a)
<1>1. ASSUME NEW i \in Nat \ {0}, PartAt(a, a, i) PROVE FALSE
  <2>1. i \in 1 .. Len(a) /\ a[i] < a[i]
    BY <1>1, LenProperties DEF PartAt, Word
  <2>2. a[i] \in Nat
    BY <2>1, ElementOfSeq DEF Word
  <2>. QED BY <2>1, <2>2
<1>. QED BY <1>1, BeforeParts

LEMMA BeforeTransitive ==
  ASSUME NEW a \in Word, NEW b \in Word, NEW c \in Word, Before(a, b), Before(b, c)
  PROVE  Before(a, c)
<1>1. /\ Len(a) \in Nat /\ Len(b) \in Nat /\ Len(c) \in Nat
      /\ \A j \in 1 .. Len(a) : a[j] \in Nat
      /\ \A j \in 1 .. Len(b) : b[j] \in Nat
      /\ \A j \in 1 .. Len(c) : c[j] \in Nat
  BY LenProperties, ElementOfSeq DEF Word
<1>2. PICK i \in Nat \ {0} : PartAt(a, b, i)
  BY BeforeParts
<1>3. PICK k \in Nat \ {0} : PartAt(b, c, k)
  BY BeforeParts
<1>4. CASE i <= k
  <2>1. PartAt(a, c, i)
    <3>1. \A j \in 1 .. i - 1 : j <= Len(a) /\ j <= Len(c) /\ a[j] = c[j]
      BY <1>2, <1>3, <1>4 DEF PartAt
    <3>2. i <= Len(b) /\ (i <= Len(a) => a[i] < b[i])
      BY <1>2 DEF PartAt
    <3>3. i < k => i <= Len(c) /\ b[i] = c[i]
      BY <1>3, <1>4 DEF PartAt
    <3>4. i = k => i <= Len(c) /\ b[i] < c[i]
      BY <1>3, <3>2 DEF PartAt
    <3>5. i <= Len(c)
      BY <1>4, <3>3, <3>4
    <3>6. i <= Len(a) => a[i] < c[i]
      BY <1>1, <1>4, <3>2, <3>3, <3>4, <3>5
    <3>. QED BY <3>1, <3>5, <3>6 DEF PartAt
  <2>. QED BY <2>1, BeforeParts
<1>5. CASE k < i
  <2>1. PartAt(a, c, k)
    <3>1. \A j \in 1 .. k - 1 : j <= Len(a) /\ j <= Len(c) /\ a[j] = c[j]
      BY <1>2, <1>3, <1>5 DEF PartAt
    <3>2. k <= Len(a) /\ k <= Len(b) /\ a[k] = b[k]
      BY <1>2, <1>5 DEF PartAt
    <3>3. k <= Len(c) /\ b[k] < c[k]
      BY <1>3, <3>2 DEF PartAt
    <3>. QED BY <3>1, <3>2, <3>3 DEF PartAt
  <2>. QED BY <2>1, BeforeParts
<1>. QED BY <1>4, <1>5

(* The words differ at i.                                                  *)
Apart(a, b, i) ==
  \/ i <= Len(a) /\ ~ (i <= Len(b))
  \/ i <= Len(b) /\ ~ (i <= Len(a))
  \/ i <= Len(a) /\ i <= Len(b) /\ a[i] # b[i]

LEMMA BeforeTotal ==
  ASSUME NEW a \in Word, NEW b \in Word, a # b
  PROVE  Before(a, b) \/ Before(b, a)
<1>1. /\ Len(a) \in Nat /\ Len(b) \in Nat
      /\ \A j \in 1 .. Len(a) : a[j] \in Nat
      /\ \A j \in 1 .. Len(b) : b[j] \in Nat
  BY LenProperties, ElementOfSeq DEF Word
<1>. DEFINE D == {i \in Nat \ {0} : Apart(a, b, i)}
<1>2. D # {}
  <2>1. ASSUME \A i \in Nat \ {0} : ~ Apart(a, b, i) PROVE FALSE
    <3>1. Len(a) = Len(b)
      <4>1. CASE Len(a) < Len(b)
        <5>1. Len(b) \in Nat \ {0} /\ Apart(a, b, Len(b))
          BY <1>1, <4>1 DEF Apart
        <5>. QED BY <2>1, <5>1
      <4>2. CASE Len(b) < Len(a)
        <5>1. Len(a) \in Nat \ {0} /\ Apart(a, b, Len(a))
          BY <1>1, <4>2 DEF Apart
        <5>. QED BY <2>1, <5>1
      <4>. QED BY <1>1, <4>1, <4>2
    <3>2. \A i \in 1 .. Len(a) : a[i] = b[i]
      BY <1>1, <2>1, <3>1 DEF Apart
    <3>. QED BY <3>1, <3>2, SeqEqual DEF Word
  <2>. QED BY <2>1
<1>3. PICK i \in D : \A j \in D : i <= j
  <2>1. D \subseteq Nat
    OBVIOUS
  <2>. HIDE DEF D
  <2>. QED BY <1>2, <2>1, LeastElement
<1>4. i \in Nat \ {0} /\ Apart(a, b, i)
  OBVIOUS
<1>5. ASSUME NEW j \in 1 .. i - 1 PROVE j <= Len(a) /\ j <= Len(b) /\ a[j] = b[j]
  <2>1. j \in Nat \ {0} /\ ~ (i <= j)
    BY <1>4
  <2>2. ~ Apart(a, b, j)
    BY <1>3, <2>1
  <2>. QED BY <1>1, <1>4, <2>1, <2>2 DEF Apart
<1>6. PartAt(a, b, i) \/ PartAt(b, a, i)
  <2>1. \/ i <= Len(a) /\ ~ (i <= Len(b))
        \/ i <= Len(b) /\ ~ (i <= Len(a))
        \/ i <= Len(a) /\ i <= Len(b) /\ (a[i] < b[i] \/ b[i] < a[i])
    BY <1>1, <1>4 DEF Apart
  <2>. HIDE DEF D
  <2>. QED BY <1>5, <2>1 DEF PartAt
<1>. QED BY <1>4, <1>6, BeforeParts

-----------------------------------------------------------------------------
(* How many words of S come before w.                                      *)
Rank(S, w) == Cardinality({v \in S : Before(v, w)})

(* A word has fewer words before it than any word that comes after it.     *)
LEMMA RankMonotonic ==
  ASSUME NEW S, S \subseteq Word, IsFiniteSet(S), NEW v \in S, NEW w \in S
  PROVE  /\ Rank(S, w) \in 0 .. Cardinality(S) - 1
         /\ Before(v, w) => Rank(S, v) < Rank(S, w)
<1>. DEFINE below(u) == {x \in S : Before(x, u)}
<1>1. \A u : below(u) \in SUBSET S
  OBVIOUS
<1>2. \A u : /\ IsFiniteSet(below(u))
             /\ Cardinality(below(u)) \in Nat
             /\ Rank(S, u) = Cardinality(below(u))
  <2>. HIDE DEF below
  <2>1. \A u : IsFiniteSet(below(u))
    BY <1>1, FS_Subset
  <2>2. \A u : Cardinality(below(u)) \in Nat
    BY <2>1, FS_CardinalityType
  <2>. QED BY <2>1, <2>2 DEF Rank, below
<1>3. ~ Before(w, w) /\ ~ Before(v, v)
  BY BeforeIrreflexive
<1>4. Cardinality(below(w)) <= Cardinality(S) - 1
  <2>1. below(w) \in SUBSET (S \ {w})
    BY <1>3
  <2>. HIDE DEF below
  <2>2. IsFiniteSet(S \ {w}) /\ Cardinality(S \ {w}) = Cardinality(S) - 1
    BY FS_RemoveElement
  <2>. QED BY <2>1, <2>2, FS_Subset
<1>5. ASSUME Before(v, w) PROVE Cardinality(below(v)) < Cardinality(below(w))
  <2>1. below(v) \in SUBSET (below(w) \ {v})
    <3>1. \A x \in S : Before(x, v) => Before(x, w)
      BY <1>5, BeforeTransitive
    <3>. QED BY <1>3, <3>1
  <2>2. v \in below(w)
    BY <1>5
  <2>. HIDE DEF below
  <2>3. IsFiniteSet(below(w) \ {v}) /\ Cardinality(below(w) \ {v}) = Cardinality(below(w)) - 1
    BY <1>2, <2>2, FS_RemoveElement
  <2>4. Cardinality(below(v)) <= Cardinality(below(w)) - 1
    BY <2>1, <2>3, FS_Subset
  <2>. QED BY <1>2, <2>4
<1>6. Cardinality(S) \in Nat
  BY FS_CardinalityType
<1>. HIDE DEF below
<1>. QED BY <1>2, <1>4, <1>5, <1>6

(* Every number is the rank of a word.                                     *)
LEMMA RanksExist ==
  ASSUME NEW S, S \subseteq Word, IsFiniteSet(S), NEW k \in 0 .. Cardinality(S) - 1
  PROVE  \E w \in S : Rank(S, w) = k
<1>. DEFINE n == Cardinality(S)
            T == 0 .. n - 1
            f == [w \in S |-> Rank(S, w)]
<1>1. n \in Nat
  BY FS_CardinalityType
<1>2. IsFiniteSet(T) /\ Cardinality(T) = n
  <2>. HIDE DEF n
  <2>2. 0 \in Int /\ n - 1 \in Int
    BY <1>1
  <2>1. /\ IsFiniteSet(0 .. n - 1)
        /\ Cardinality(0 .. n - 1) = IF 0 > n - 1 THEN 0 ELSE n - 1 - 0 + 1
    BY <2>2, FS_Interval
  <2>. QED BY <1>1, <2>1
<1>3. f \in [S -> T]
  BY RankMonotonic
<1>4. \A v, w \in S : f[v] = f[w] => v = w
  <2>1. ASSUME NEW v \in S, NEW w \in S, v # w PROVE Rank(S, v) # Rank(S, w)
    <3>1. Before(v, w) \/ Before(w, v)
      BY <2>1, BeforeTotal
    <3>2. Rank(S, v) \in 0 .. n - 1 /\ Rank(S, w) \in 0 .. n - 1
      BY RankMonotonic
    <3>3. Rank(S, v) < Rank(S, w) \/ Rank(S, w) < Rank(S, v)
      BY <3>1, RankMonotonic
    <3>. HIDE DEF n
    <3>. QED BY <1>1, <3>2, <3>3
  <2>. QED BY <2>1
<1>5. f \in Surjection(S, T)
  <2>. HIDE DEF f, T, n
  <2>1. f \in Injection(S, T)
    BY <1>3, <1>4 DEF Injection, IsInjective
  <2>2. Cardinality(S) = Cardinality(T)
    BY <1>2 DEF n
  <2>. QED BY <1>2, <2>1, <2>2, FS_Injection
<1>6. k \in T
  OBVIOUS
<1>7. \E w \in S : f[w] = k
  <2>. HIDE DEF f, T, n
  <2>. QED BY <1>5, <1>6 DEF Surjection
<1>. QED BY <1>7

(* Keys lists the words of the map, each once, in their order.             *)
LEMMA KeysInOrder ==
  ASSUME IsFiniteSet(DOMAIN dict), DOMAIN dict \subseteq Word
  PROVE  /\ Keys \in Seq(Word)
         /\ Len(Keys) = Cardinality(DOMAIN dict)
         /\ \A i, j \in 1 .. Len(Keys) : i < j => Before(Keys[i], Keys[j])
<1>. DEFINE S == DOMAIN dict
            n == Cardinality(S)
            key(i) == CHOOSE w \in S : Rank(S, w) = i - 1
<1>1. n \in Nat
  BY FS_CardinalityType
<1>2. Keys = [i \in 1 .. n |-> key(i)]
  BY DEF Keys, Rank
<1>3. \A i \in 1 .. n : key(i) \in S /\ Rank(S, key(i)) = i - 1
  <2>1. ASSUME NEW i \in 1 .. n PROVE \E w \in S : Rank(S, w) = i - 1
    <3>1. i - 1 \in 0 .. n - 1
      <4>. HIDE DEF n
      <4>. QED BY <1>1
    <3>. QED BY <3>1, RanksExist
  <2>. QED BY <2>1
<1>. HIDE DEF key
<1>4. DOMAIN Keys = 1 .. n /\ \A i \in 1 .. n : Keys[i] = key(i)
  BY <1>2
<1>5. Keys \in [1 .. n -> Word]
  BY <1>2, <1>3
<1>6. Keys \in Seq(Word) /\ Len(Keys) = n
  <2>. HIDE DEF n
  <2>1. Keys \in Seq(Word)
    BY <1>1, <1>5, SeqDef
  <2>. QED BY <1>1, <1>4, <2>1, LenProperties
<1>7. ASSUME NEW i \in 1 .. n, NEW j \in 1 .. n, i < j
      PROVE  Before(key(i), key(j))
  <2>1. key(i) \in S /\ key(j) \in S /\ Rank(S, key(i)) = i - 1 /\ Rank(S, key(j)) = j - 1
    BY <1>3
  <2>2. i \in Int /\ j \in Int
    <3>. HIDE DEF n
    <3>. QED BY <1>1
  <2>. HIDE DEF n
  <2>3. key(i) # key(j) /\ ~ (Rank(S, key(j)) < Rank(S, key(i)))
    BY <1>7, <2>1, <2>2
  <2>4. Before(key(i), key(j)) \/ Before(key(j), key(i))
    BY <2>1, <2>3, BeforeTotal
  <2>. QED BY <2>1, <2>3, <2>4, RankMonotonic
<1>. QED BY <1>4, <1>6, <1>7

-----------------------------------------------------------------------------
(* compare_str says of any two different words that one goes first.        *)
LEMMA DifferentGoFirst ==
  ASSUME NEW a \in Word, NEW b \in Word, a # b
  PROVE  GoesFirst(a, b)
<1>1. Len(a) \in Nat /\ DOMAIN a = 1 .. Len(a) /\ Len(b) \in Nat /\ DOMAIN b = 1 .. Len(b)
  BY LenProperties DEF Word
<1>. DEFINE differ == {i \in DOMAIN a \cap DOMAIN b : a[i] # b[i]}
<1>2. ASSUME Len(a) = Len(b), differ = {} PROVE FALSE
  <2>1. \A i \in 1 .. Len(a) : a[i] = b[i]
    BY <1>1, <1>2
  <2>. HIDE DEF differ
  <2>. QED BY <1>2, <2>1, SeqEqual, Zenon DEF Word
<1>3. CASE differ # {}
  <2>. HIDE DEF differ
  <2>. DEFINE first == CHOOSE i \in differ : \A j \in differ : i <= j
  <2>1. CompareStr(a, b) = IF a[first] > b[first] THEN 1 ELSE -1
    BY <1>3 DEF CompareStr, differ
  <2>. HIDE DEF first
  <2>. QED BY <2>1 DEF GoesFirst
<1>4. CASE differ = {}
  <2>. HIDE DEF differ
  <2>1. Len(a) # Len(b)
    BY <1>2, <1>4, Zenon
  <2>2. CompareStr(a, b) = IF Len(a) < Len(b) THEN 1 ELSE -1
    BY <1>4, <2>1, Zenon DEF CompareStr, differ
  <2>3. \A c : (IF c THEN 1 ELSE -1) # 0
    OBVIOUS
  <2>. QED BY <2>2, <2>3, Zenon DEF GoesFirst
<1>. QED BY <1>3, <1>4

-----------------------------------------------------------------------------
(* One step of merge, from what the next ones return.                      *)
Pick(p, q, r, f) ==
  IF r[1] = Len(p) THEN SubSeq(q, r[2] + 1, Len(q))
  ELSE IF r[2] = Len(q) THEN SubSeq(p, r[1] + 1, Len(p))
  ELSE IF GoesFirst(q[r[2] + 1], p[r[1] + 1])
       THEN <<q[r[2] + 1]>> \o f[<<r[1], r[2] + 1>>]
       ELSE <<p[r[1] + 1]>> \o f[<<r[1] + 1, r[2]>>]

Places(p, q) == (0 .. Len(p)) \X (0 .. Len(q))

Merging(p, q, f) == f = [r \in Places(p, q) |-> Pick(p, q, r, f)]

(* The two lists have no common word.                                      *)
Foreign(p, q) == \A i \in DOMAIN p, j \in DOMAIN q : p[i] # q[j]

(* Two lists without a common word are not merged, but swapped: the rest   *)
(* of q and the rest of p are what merge returns from any place.           *)
LEMMA SwappingIsMerging ==
  ASSUME NEW p \in Seq(Word), NEW q \in Seq(Word), Foreign(p, q)
  PROVE  Merging(p, q, [r \in Places(p, q) |->
                          SubSeq(q, r[2] + 1, Len(q)) \o SubSeq(p, r[1] + 1, Len(p))])
<1>. DEFINE P(i) == SubSeq(p, i + 1, Len(p))
            Q(j) == SubSeq(q, j + 1, Len(q))
            f == [r \in Places(p, q) |-> Q(r[2]) \o P(r[1])]
<1>1. Len(p) \in Nat /\ DOMAIN p = 1 .. Len(p) /\ Len(q) \in Nat /\ DOMAIN q = 1 .. Len(q)
  BY LenProperties
<1>2. \A i \in 0 .. Len(p) : P(i) \in Seq(Word)
  <2>1. \A i \in 0 .. Len(p) : \A k \in i + 1 .. Len(p) : p[k] \in Word
    BY <1>1, ElementOfSeq
  <2>2. \A i \in 0 .. Len(p) : i + 1 \in Int /\ Len(p) \in Int
    BY <1>1
  <2>. QED BY <2>1, <2>2, SubSeqProperties
<1>3. \A j \in 0 .. Len(q) : Q(j) \in Seq(Word)
  <2>1. \A j \in 0 .. Len(q) : \A k \in j + 1 .. Len(q) : q[k] \in Word
    BY <1>1, ElementOfSeq
  <2>2. \A j \in 0 .. Len(q) : j + 1 \in Int /\ Len(q) \in Int
    BY <1>1
  <2>. QED BY <2>1, <2>2, SubSeqProperties
<1>4. ASSUME NEW i \in 0 .. Len(p), NEW j \in 0 .. Len(q)
      PROVE  Q(j) \o P(i) = Pick(p, q, <<i, j>>, f)
  <2>1. CASE i = Len(p)
    <3>1. P(i) = <<>>
      BY <1>1, <2>1, SubSeqEmpty
    <3>2. Q(j) \o <<>> = Q(j)
      BY <1>3, ConcatEmptySeq
    <3>. QED BY <2>1, <3>1, <3>2 DEF Pick
  <2>2. CASE i # Len(p) /\ j = Len(q)
    <3>1. Q(j) = <<>>
      <4>1. Len(q) + 1 \in Int /\ Len(q) \in Int /\ Len(q) < Len(q) + 1
        BY <1>1
      <4>. QED BY <2>2, <4>1, SubSeqEmpty
    <3>2. <<>> \o P(i) = P(i)
      BY <1>2, ConcatEmptySeq
    <3>. QED BY <2>2, <3>1, <3>2 DEF Pick
  <2>3. CASE i # Len(p) /\ j # Len(q)
    <3>1. /\ i + 1 \in 1 .. Len(p) /\ i \in 0 .. Len(p)
          /\ j + 1 \in 1 .. Len(q) /\ j + 1 \in 0 .. Len(q)
      <4>. HIDE DEF P, Q, f
      <4>1. \A m, n \in Nat : m \in 0 .. n /\ m # n => m + 1 \in 1 .. n /\ m + 1 \in 0 .. n
        OBVIOUS
      <4>2. Len(p) \in Nat /\ Len(q) \in Nat
        BY <1>1
      <4>. QED BY <2>3, <4>1, <4>2
    <3>2. p[i + 1] \in Word /\ q[j + 1] \in Word /\ q[j + 1] # p[i + 1]
      BY <1>1, <3>1, ElementOfSeq DEF Foreign
    <3>3. GoesFirst(q[j + 1], p[i + 1])
      BY <3>2, DifferentGoFirst
    <3>4. Q(j) = <<q[j + 1]>> \o Q(j + 1)
      <4>1. Len(q) \in j + 1 .. Len(q)
        BY <1>1, <3>1
      <4>2. SubSeq(q, j + 1, Len(q)) = <<q[j + 1]>> \o SubSeq(q, (j + 1) + 1, Len(q))
        BY <3>1, <4>1, SubSeqRecursiveFirst
      <4>. QED BY <4>2
    <3>5. <<q[j + 1]>> \in Seq(Word)
      BY <3>2
    <3>6. (<<q[j + 1]>> \o Q(j + 1)) \o P(i) = <<q[j + 1]>> \o (Q(j + 1) \o P(i))
      <4>. HIDE DEF P, Q, f
      <4>1. Q(j + 1) \in Seq(Word) /\ P(i) \in Seq(Word)
        BY <1>2, <1>3, <3>1
      <4>. DEFINE x == <<q[j + 1]>>
                  y == Q(j + 1)
                  z == P(i)
      <4>2. x \in Seq(Word) /\ y \in Seq(Word) /\ z \in Seq(Word)
        BY <3>5, <4>1
      <4>. HIDE DEF x, y, z
      <4>3. (x \o y) \o z = x \o (y \o z)
        BY <4>2, ConcatAssociative, SMTT(30)
      <4>. QED BY <4>3 DEF x, y, z
    <3>7. f[<<i, j + 1>>] = Q(j + 1) \o P(i)
      <4>. HIDE DEF P, Q
      <4>. QED BY <3>1 DEF Places
    <3>. HIDE DEF P, Q, f
    <3>. QED BY <2>3, <3>3, <3>4, <3>6, <3>7 DEF Pick
  <2>. QED BY <2>1, <2>2, <2>3
<1>5. ASSUME NEW r \in Places(p, q) PROVE Q(r[2]) \o P(r[1]) = Pick(p, q, r, f)
  <2>1. r[1] \in 0 .. Len(p) /\ r[2] \in 0 .. Len(q) /\ r = <<r[1], r[2]>>
    BY DEF Places
  <2>2. Q(r[2]) \o P(r[1]) = Pick(p, q, <<r[1], r[2]>>, f)
    BY <1>4, <2>1
  <2>. HIDE DEF P, Q, f
  <2>. QED BY <2>1, <2>2
<1>6. f = [r \in Places(p, q) |-> Pick(p, q, r, f)]
  <2>. HIDE DEF P, Q
  <2>1. [r \in Places(p, q) |-> Q(r[2]) \o P(r[1])] = [r \in Places(p, q) |-> Pick(p, q, r, f)]
    <3>. HIDE DEF f
    <3>. QED BY <1>5
  <2>. QED BY <2>1
<1>. QED BY <1>6 DEF Merging

(* The function that Merge chooses is one of those that satisfy Merging.   *)
LEMMA MergeUnfolds ==
  ASSUME NEW p, NEW q
  PROVE  Merge(p, q) = (CHOOSE f : Merging(p, q, f))[<<0, 0>>]
BY DEF Merge, Merging, Pick, Places

-----------------------------------------------------------------------------
LEMMA CountDown ==
  ASSUME NEW n \in Nat, NEW d \in 0 .. n
  PROVE  /\ n - d \in 0 .. n
         /\ d = 0 => n - d = n
         /\ d # 0 => /\ d - 1 \in 0 .. n /\ ~ (d <= d - 1)
                    /\ n - (d - 1) = (n - d) + 1
OBVIOUS

(* compare_str makes merge put its second list before its first.           *)
LEMMA MergeSwaps ==
  ASSUME NEW p \in Seq(Word), NEW q \in Seq(Word), Foreign(p, q)
  PROVE  Merge(p, q) = q \o p
<1>. DEFINE f == CHOOSE f : Merging(p, q, f)
            R(j) == SubSeq(q, j + 1, Len(q)) \o p
            S == {d \in 0 .. Len(q) : f[<<0, Len(q) - d>>] # R(Len(q) - d)}
<1>1. /\ Len(p) \in Nat /\ DOMAIN p = 1 .. Len(p)
      /\ Len(q) \in Nat /\ DOMAIN q = 1 .. Len(q)
      /\ 0 + 1 = 1
  BY LenProperties
<1>2. Merging(p, q, f)
  BY SwappingIsMerging
<1>. HIDE DEF f
<1>3. \A j \in 0 .. Len(q) : f[<<0, j>>] = Pick(p, q, <<0, j>>, f)
  <2>1. \A j \in 0 .. Len(q) : <<0, j>> \in Places(p, q)
    BY <1>1 DEF Places
  <2>. QED BY <1>2, <2>1 DEF Merging
<1>4. \A j \in 0 .. Len(q) : SubSeq(q, j + 1, Len(q)) \in Seq(Word)
  <2>1. \A j \in 0 .. Len(q) : \A k \in j + 1 .. Len(q) : q[k] \in Word
    BY <1>1, ElementOfSeq
  <2>2. \A j \in 0 .. Len(q) : j + 1 \in Int /\ Len(q) \in Int
    BY <1>1
  <2>. QED BY <2>1, <2>2, SubSeqProperties
<1>5. CASE Len(p) = 0
  <2>1. p = <<>>
    BY <1>5, EmptySeq
  <2>2. f[<<0, 0>>] = SubSeq(q, 1, Len(q))
    BY <1>1, <1>3, <1>5 DEF Pick
  <2>. QED BY <2>1, <2>2, MergeUnfolds, SubSeqFull, ConcatEmptySeq DEF f
<1>6. CASE Len(p) # 0
  <2>1. ASSUME NEW j \in 0 .. Len(q), j = Len(q) \/ f[<<0, j + 1>>] = R(j + 1)
        PROVE  f[<<0, j>>] = R(j)
    <3>1. CASE j = Len(q)
      <4>1. f[<<0, j>>] = SubSeq(p, 1, Len(p))
        <5>1. Pick(p, q, <<0, j>>, f) = SubSeq(p, 0 + 1, Len(p))
          BY <1>6, <3>1 DEF Pick
        <5>. QED BY <1>1, <1>3, <5>1
      <4>2. SubSeq(p, 1, Len(p)) = p
        BY SubSeqFull
      <4>3. SubSeq(q, j + 1, Len(q)) = <<>>
        <5>1. Len(q) + 1 \in Int /\ Len(q) \in Int /\ Len(q) < Len(q) + 1
          BY <1>1
        <5>. QED BY <3>1, <5>1, SubSeqEmpty
      <4>. QED BY <4>1, <4>2, <4>3, ConcatEmptySeq
    <3>2. CASE j # Len(q)
      <4>1. j + 1 \in 1 .. Len(q) /\ j + 1 \in 0 .. Len(q) /\ Len(q) \in j + 1 .. Len(q)
        <5>1. \A m, n \in Nat : m \in 0 .. n /\ m # n =>
                m + 1 \in 1 .. n /\ m + 1 \in 0 .. n /\ n \in m + 1 .. n
          OBVIOUS
        <5>2. Len(q) \in Nat
          BY <1>1
        <5>. QED BY <3>2, <5>1, <5>2
      <4>2. q[j + 1] \in Word /\ p[1] \in Word /\ q[j + 1] # p[1]
        <5>1. 1 \in 1 .. Len(p)
          BY <1>1, <1>6
        <5>. QED BY <1>1, <4>1, <5>1, ElementOfSeq DEF Foreign
      <4>3. GoesFirst(q[j + 1], p[1])
        BY <4>2, DifferentGoFirst
      <4>4. f[<<0, j>>] = <<q[j + 1]>> \o f[<<0, j + 1>>]
        <5>1. GoesFirst(q[j + 1], p[0 + 1])
          BY <1>1, <4>3
        <5>2. Pick(p, q, <<0, j>>, f) = <<q[j + 1]>> \o f[<<0, j + 1>>]
          BY <1>6, <3>2, <5>1 DEF Pick
        <5>. QED BY <1>3, <5>2
      <4>5. SubSeq(q, j + 1, Len(q)) = <<q[j + 1]>> \o SubSeq(q, (j + 1) + 1, Len(q))
        BY <4>1, SubSeqRecursiveFirst
      <4>6. <<q[j + 1]>> \o R(j + 1) = R(j)
        <5>1. <<q[j + 1]>> \in Seq(Word) /\ SubSeq(q, (j + 1) + 1, Len(q)) \in Seq(Word)
          BY <1>4, <4>1, <4>2
        <5>2. (<<q[j + 1]>> \o SubSeq(q, (j + 1) + 1, Len(q))) \o p =
              <<q[j + 1]>> \o (SubSeq(q, (j + 1) + 1, Len(q)) \o p)
          <6>. DEFINE x == <<q[j + 1]>>
                      y == SubSeq(q, (j + 1) + 1, Len(q))
          <6>1. x \in Seq(Word) /\ y \in Seq(Word)
            BY <5>1
          <6>. HIDE DEF x, y
          <6>2. (x \o y) \o p = x \o (y \o p)
            BY <6>1, ConcatAssociative, SMTT(30)
          <6>. QED BY <6>2 DEF x, y
        <5>. QED BY <4>5, <5>2
      <4>. HIDE DEF R
      <4>. QED BY <2>1, <3>2, <4>4, <4>6
    <3>. QED BY <3>1, <3>2
  <2>2. S = {}
    <3>1. ASSUME S # {} PROVE FALSE
      <4>1. S \subseteq Nat
        OBVIOUS
      <4>2. PICK d \in S : \A e \in S : d <= e
        <5>. HIDE DEF S
        <5>. QED BY <3>1, <4>1, LeastElement
      <4>3. d \in 0 .. Len(q) /\ f[<<0, Len(q) - d>>] # R(Len(q) - d)
        OBVIOUS
      <4>. HIDE DEF R, S
      <4>4. d # 0 => d - 1 \in 0 .. Len(q) /\ d - 1 \notin S
        BY <1>1, <4>2, <4>3, CountDown
      <4>5. d # 0 => f[<<0, (Len(q) - d) + 1>>] = R((Len(q) - d) + 1)
        <5>1. d # 0 => Len(q) - (d - 1) = (Len(q) - d) + 1
          BY <1>1, <4>3, CountDown
        <5>2. \A e \in 0 .. Len(q) : e \notin S => f[<<0, Len(q) - e>>] = R(Len(q) - e)
          BY DEF S
        <5>. QED BY <4>4, <5>1, <5>2
      <4>6. Len(q) - d \in 0 .. Len(q) /\ (d = 0 => Len(q) - d = Len(q))
        BY <1>1, <4>3, CountDown
      <4>. QED BY <2>1, <4>3, <4>5, <4>6
    <3>. QED BY <3>1
  <2>3. f[<<0, 0>>] = R(0)
    <3>1. Len(q) \in 0 .. Len(q) /\ Len(q) - Len(q) = 0
      BY <1>1
    <3>2. Len(q) \notin S
      BY <2>2
    <3>. HIDE DEF R
    <3>. QED BY <3>1, <3>2
  <2>4. R(0) = q \o p
    BY <1>1, SubSeqFull
  <2>. HIDE DEF R
  <2>. QED BY <2>3, <2>4, MergeUnfolds DEF f
<1>. QED BY <1>5, <1>6

-----------------------------------------------------------------------------
(* The words of q from j down to i.                                        *)
Back(q, i, j) == [k \in 1 .. (IF j < i THEN 0 ELSE j - i + 1) |-> q[j + 1 - k]]

(* One step of sort.                                                       *)
Mid(r) == (r[1] + r[2]) \div 2

Split(q, r, f) ==
  IF r[2] < r[1] THEN <<>>
  ELSE IF r[1] = r[2] THEN <<q[r[1]]>>
  ELSE Merge(f[<<r[1], Mid(r)>>], f[<<Mid(r) + 1, r[2]>>])

(* The places from which sort is called, and no word is there twice.       *)
Runs(q) == (1 .. Len(q) + 1) \X (0 .. Len(q))

Sorting(q, f) == f = [r \in Runs(q) |-> Split(q, r, f)]

Different(q) == \A i, j \in DOMAIN q : i # j => q[i] # q[j]

(* The function that Sort chooses is one of those that satisfy Sorting.    *)
LEMMA SortUnfolds ==
  ASSUME NEW q
  PROVE  Sort(q) = (CHOOSE f : Sorting(q, f))[<<1, Len(q)>>]
BY DEF Sort, Sorting, Split, Mid, Runs

LEMMA BackProperties ==
  ASSUME NEW q \in Seq(Word), NEW i \in 1 .. Len(q) + 1, NEW j \in 0 .. Len(q)
  PROVE  /\ Back(q, i, j) \in Seq(Word)
         /\ Len(Back(q, i, j)) = IF j < i THEN 0 ELSE j - i + 1
         /\ \A k \in 1 .. Len(Back(q, i, j)) : Back(q, i, j)[k] = q[j + 1 - k]
<1>. DEFINE n == IF j < i THEN 0 ELSE j - i + 1
<1>1. Len(q) \in Nat
  BY LenProperties
<1>2. n \in Nat
  BY <1>1
<1>3. \A k \in 1 .. n : q[j + 1 - k] \in Word
  <2>1. \A k \in 1 .. n : j + 1 - k \in 1 .. Len(q)
    BY <1>1
  <2>. QED BY <2>1, ElementOfSeq
<1>. DEFINE b == Back(q, i, j)
<1>4. b = [k \in 1 .. n |-> q[j + 1 - k]]
  BY DEF Back
<1>. HIDE DEF n, b
<1>5. b \in [1 .. n -> Word]
  BY <1>3, <1>4
<1>6. b \in Seq(Word) /\ DOMAIN b = 1 .. n
  BY <1>2, <1>5, SeqDef
<1>7. Len(b) = n
  BY <1>2, <1>6, LenProperties
<1>. QED BY <1>4, <1>6, <1>7 DEF n, b

(* A run from back to front is its second half from back to front before   *)
(* its first.                                                              *)
LEMMA BackSplits ==
  ASSUME NEW q \in Seq(Word), Different(q),
         NEW i \in 1 .. Len(q) + 1, NEW j \in 0 .. Len(q), i < j
  PROVE  LET m == (i + j) \div 2
         IN /\ m \in 1 .. Len(q) /\ i <= m /\ m < j
            /\ Merge(Back(q, i, m), Back(q, m + 1, j)) = Back(q, i, j)
<1>. DEFINE m == (i + j) \div 2
            a == Back(q, i, m)
            b == Back(q, m + 1, j)
            c == Back(q, i, j)
<1>1. Len(q) \in Nat /\ DOMAIN q = 1 .. Len(q)
  BY LenProperties
<1>2. i <= m /\ m < j /\ m \in Int
  BY <1>1
<1>. HIDE DEF m
<1>3. /\ m \in 1 .. Len(q) /\ m \in 0 .. Len(q) /\ m + 1 \in 1 .. Len(q) + 1
      /\ i \in Int /\ j \in Int
  BY <1>1, <1>2
<1>4. /\ a \in Seq(Word) /\ Len(a) = m - i + 1
      /\ \A k \in 1 .. m - i + 1 : a[k] = q[m + 1 - k]
  <2>1. (IF m < i THEN 0 ELSE m - i + 1) = m - i + 1
    BY <1>2, <1>3
  <2>2. /\ a \in Seq(Word) /\ Len(a) = IF m < i THEN 0 ELSE m - i + 1
        /\ \A k \in 1 .. Len(a) : a[k] = q[m + 1 - k]
    BY <1>3, BackProperties
  <2>. HIDE DEF a
  <2>. QED BY <2>1, <2>2
<1>5. /\ b \in Seq(Word) /\ Len(b) = j - m
      /\ \A k \in 1 .. j - m : b[k] = q[j + 1 - k]
  <2>1. (IF j < m + 1 THEN 0 ELSE j - (m + 1) + 1) = j - m
    BY <1>2, <1>3
  <2>2. /\ b \in Seq(Word) /\ Len(b) = IF j < m + 1 THEN 0 ELSE j - (m + 1) + 1
        /\ \A k \in 1 .. Len(b) : b[k] = q[j + 1 - k]
    BY <1>3, BackProperties
  <2>. HIDE DEF b
  <2>. QED BY <2>1, <2>2
<1>6. /\ c \in Seq(Word) /\ Len(c) = j - i + 1
      /\ \A k \in 1 .. j - i + 1 : c[k] = q[j + 1 - k]
  <2>1. (IF j < i THEN 0 ELSE j - i + 1) = j - i + 1
    BY <1>2, <1>3
  <2>2. /\ c \in Seq(Word) /\ Len(c) = IF j < i THEN 0 ELSE j - i + 1
        /\ \A k \in 1 .. Len(c) : c[k] = q[j + 1 - k]
    BY BackProperties
  <2>. HIDE DEF c
  <2>. QED BY <2>1, <2>2
<1>. HIDE DEF a, b, c
<1>7. Foreign(a, b)
  <2>1. ASSUME NEW k \in DOMAIN a, NEW l \in DOMAIN b PROVE a[k] # b[l]
    <3>1. k \in 1 .. m - i + 1 /\ l \in 1 .. j - m
      BY <1>4, <1>5, LenProperties
    <3>2. /\ m + 1 - k \in 1 .. Len(q) /\ j + 1 - l \in 1 .. Len(q)
          /\ m + 1 - k # j + 1 - l
      BY <1>1, <1>2, <1>3, <3>1
    <3>. QED BY <1>1, <1>4, <1>5, <3>1, <3>2 DEF Different
  <2>. QED BY <2>1 DEF Foreign
<1>8. Merge(a, b) = b \o a
  BY <1>4, <1>5, <1>7, MergeSwaps
<1>9. b \o a = c
  <2>. DEFINE d == b \o a
  <2>1. /\ d \in Seq(Word) /\ Len(d) = Len(b) + Len(a)
        /\ \A k \in 1 .. Len(b) + Len(a) : d[k] = IF k <= Len(b) THEN b[k] ELSE a[k - Len(b)]
    BY <1>4, <1>5, ConcatProperties
  <2>. HIDE DEF d
  <2>2. Len(d) = Len(c)
    BY <1>3, <1>4, <1>5, <1>6, <2>1
  <2>3. ASSUME NEW k \in 1 .. Len(d) PROVE d[k] = c[k]
    <3>1. k \in 1 .. j - i + 1 /\ Len(b) + Len(a) = j - i + 1
      BY <1>3, <1>4, <1>5, <1>6, <2>2
    <3>2. CASE k <= j - m
      <4>1. k \in 1 .. j - m /\ d[k] = b[k]
        BY <1>3, <1>5, <2>1, <3>1, <3>2
      <4>. QED BY <1>5, <1>6, <3>1, <4>1
    <3>3. CASE ~ (k <= j - m)
      <4>1. k - (j - m) \in 1 .. m - i + 1 /\ m + 1 - (k - (j - m)) = j + 1 - k
        BY <1>3, <3>1, <3>3
      <4>2. d[k] = a[k - (j - m)]
        BY <1>3, <1>5, <2>1, <3>1, <3>3
      <4>. QED BY <1>4, <1>6, <3>1, <4>1, <4>2
    <3>. QED BY <3>2, <3>3
  <2>. QED BY <1>6, <2>1, <2>2, <2>3, SeqEqual DEF d
<1>. QED BY <1>2, <1>3, <1>8, <1>9 DEF a, b, c, m

-----------------------------------------------------------------------------
(* A list of different words that is sorted from place i to place j comes  *)
(* back to front.                                                          *)
LEMMA SplitIsBack ==
  ASSUME NEW q \in Seq(Word), Different(q), NEW f, NEW r \in Runs(q),
         r[1] < r[2] => /\ f[<<r[1], Mid(r)>>] = Back(q, r[1], Mid(r))
                        /\ f[<<Mid(r) + 1, r[2]>>] = Back(q, Mid(r) + 1, r[2])
  PROVE  Split(q, r, f) = Back(q, r[1], r[2])
<1>1. Len(q) \in Nat
  BY LenProperties
<1>2. r[1] \in 1 .. Len(q) + 1 /\ r[2] \in 0 .. Len(q)
  BY DEF Runs
<1>3. /\ Back(q, r[1], r[2]) \in Seq(Word)
      /\ Len(Back(q, r[1], r[2])) = IF r[2] < r[1] THEN 0 ELSE r[2] - r[1] + 1
      /\ \A k \in 1 .. Len(Back(q, r[1], r[2])) : Back(q, r[1], r[2])[k] = q[r[2] + 1 - k]
  BY <1>2, BackProperties
<1>4. CASE r[2] < r[1]
  <2>1. Back(q, r[1], r[2]) = <<>>
    BY <1>3, <1>4, EmptySeq
  <2>. QED BY <1>4, <2>1 DEF Split
<1>5. CASE r[1] = r[2]
  <2>1. ~ (r[2] < r[1]) /\ r[2] - r[1] + 1 = 1 /\ r[2] + 1 - 1 = r[1] /\ r[1] \in 1 .. Len(q)
    BY <1>1, <1>2, <1>5
  <2>2. q[r[1]] \in Word
    BY <2>1, ElementOfSeq
  <2>3. <<q[r[1]]>> \in Seq(Word) /\ Len(<<q[r[1]]>>) = 1 /\ <<q[r[1]]>>[1] = q[r[1]]
    BY <2>2
  <2>4. Len(Back(q, r[1], r[2])) = 1 /\ Back(q, r[1], r[2])[1] = q[r[1]]
    BY <1>3, <2>1
  <2>5. Back(q, r[1], r[2]) = <<q[r[1]]>>
    <3>. DEFINE x == <<q[r[1]]>>
                y == Back(q, r[1], r[2])
    <3>1. x \in Seq(Word) /\ Len(x) = 1 /\ x[1] = q[r[1]]
      BY <2>3
    <3>2. y \in Seq(Word) /\ Len(y) = 1 /\ y[1] = q[r[1]]
      BY <1>3, <2>4
    <3>. HIDE DEF x, y
    <3>3. \A k \in 1 .. Len(x) : x[k] = y[k]
      BY <3>1, <3>2
    <3>4. x = y
      BY <3>1, <3>2, <3>3, SeqEqual
    <3>. QED BY <3>4 DEF x, y
  <2>. QED BY <1>5, <2>1, <2>5 DEF Split
<1>6. CASE r[1] < r[2]
  <2>1. ~ (r[2] < r[1]) /\ r[1] # r[2]
    BY <1>1, <1>2, <1>6
  <2>2. Merge(Back(q, r[1], Mid(r)), Back(q, Mid(r) + 1, r[2])) = Back(q, r[1], r[2])
    BY <1>2, <1>6, BackSplits DEF Mid
  <2>3. Split(q, r, f) = Merge(f[<<r[1], Mid(r)>>], f[<<Mid(r) + 1, r[2]>>])
    BY <2>1 DEF Split
  <2>. QED BY <1>6, <2>2, <2>3
<1>. QED BY <1>1, <1>2, <1>4, <1>5, <1>6

(* Where sort goes on from a place.                                        *)
LEMMA HalfRuns ==
  ASSUME NEW q \in Seq(Word), Different(q), NEW r \in Runs(q), r[1] < r[2]
  PROVE  /\ <<r[1], Mid(r)>> \in Runs(q) /\ Mid(r) - r[1] \in 0 .. r[2] - r[1] - 1
         /\ <<Mid(r) + 1, r[2]>> \in Runs(q) /\ r[2] - (Mid(r) + 1) \in 0 .. r[2] - r[1] - 1
<1>1. Len(q) \in Nat
  BY LenProperties
<1>2. r[1] \in 1 .. Len(q) + 1 /\ r[2] \in 0 .. Len(q)
  BY DEF Runs
<1>3. Mid(r) \in 1 .. Len(q) /\ r[1] <= Mid(r) /\ Mid(r) < r[2]
  BY <1>2, BackSplits DEF Mid
<1>. QED BY <1>1, <1>2, <1>3 DEF Runs

(* So sort turns a list of different words back to front.                  *)
LEMMA SortReverses ==
  ASSUME NEW q \in Seq(Word), Different(q)
  PROVE  Sort(q) = Back(q, 1, Len(q))
<1>. DEFINE f == CHOOSE f : Sorting(q, f)
            g == [r \in Runs(q) |-> Back(q, r[1], r[2])]
            Wrong(d) == \E r \in Runs(q) : r[2] - r[1] <= d /\ f[r] # Back(q, r[1], r[2])
            S == {d \in Nat : Wrong(d)}
<1>1. Len(q) \in Nat /\ \A r \in Runs(q) : r[1] \in Int /\ r[2] \in Int
  BY LenProperties DEF Runs
<1>2. Sorting(q, g)
  <2>1. \A r \in Runs(q) : g[r] = Back(q, r[1], r[2])
    OBVIOUS
  <2>2. ASSUME NEW r \in Runs(q) PROVE Split(q, r, g) = Back(q, r[1], r[2])
    <3>1. ASSUME r[1] < r[2]
          PROVE  /\ g[<<r[1], Mid(r)>>] = Back(q, r[1], Mid(r))
                 /\ g[<<Mid(r) + 1, r[2]>>] = Back(q, Mid(r) + 1, r[2])
      <4>1. <<r[1], Mid(r)>> \in Runs(q) /\ <<Mid(r) + 1, r[2]>> \in Runs(q)
        BY <3>1, HalfRuns
      <4>. HIDE DEF g
      <4>. QED BY <2>1, <4>1
    <3>. HIDE DEF g
    <3>. QED BY <3>1, SplitIsBack
  <2>3. [r \in Runs(q) |-> Back(q, r[1], r[2])] = [r \in Runs(q) |-> Split(q, r, g)]
    <3>. HIDE DEF g
    <3>. QED BY <2>2
  <2>. QED BY <2>3 DEF Sorting
<1>3. Sorting(q, f)
  <2>. HIDE DEF g
  <2>. QED BY <1>2
<1>. HIDE DEF f, g
<1>4. \A r \in Runs(q) : f[r] = Split(q, r, f)
  BY <1>3 DEF Sorting
<1>5. ASSUME S # {} PROVE FALSE
  <2>1. S \subseteq Nat
    OBVIOUS
  <2>2. PICK d \in S : \A e \in S : d <= e
    <3>. HIDE DEF S
    <3>. QED BY <1>5, <2>1, LeastElement
  <2>3. d \in Nat /\ Wrong(d) /\ \A e \in Nat : e < d => ~ Wrong(e)
    <3>1. d \in Nat /\ Wrong(d)
      OBVIOUS
    <3>2. ASSUME NEW e \in Nat, e < d PROVE ~ Wrong(e)
      <4>1. e \notin S
        <5>. HIDE DEF S
        <5>. QED BY <2>2, <3>1, <3>2
      <4>. HIDE DEF Wrong
      <4>. QED BY <4>1
    <3>. HIDE DEF Wrong
    <3>. QED BY <3>1, <3>2
  <2>. HIDE DEF S
  <2>4. PICK r \in Runs(q) : r[2] - r[1] <= d /\ f[r] # Back(q, r[1], r[2])
    BY <2>3
  <2>5. ASSUME r[1] < r[2]
        PROVE  /\ f[<<r[1], Mid(r)>>] = Back(q, r[1], Mid(r))
               /\ f[<<Mid(r) + 1, r[2]>>] = Back(q, Mid(r) + 1, r[2])
    <3>. DEFINE e == r[2] - r[1] - 1
    <3>1. e \in Nat /\ e < d
      BY <1>1, <2>3, <2>4, <2>5
    <3>2. \A x \in Runs(q) : x[2] - x[1] <= e => f[x] = Back(q, x[1], x[2])
      BY <2>3, <3>1
    <3>. DEFINE u == <<r[1], Mid(r)>>
                v == <<Mid(r) + 1, r[2]>>
    <3>3. /\ u \in Runs(q) /\ u[2] - u[1] \in 0 .. e
          /\ v \in Runs(q) /\ v[2] - v[1] \in 0 .. e
      BY <2>5, HalfRuns
    <3>4. u[2] - u[1] <= e /\ v[2] - v[1] <= e
      <4>. HIDE DEF u, v, e
      <4>. QED BY <3>1, <3>3
    <3>5. f[u] = Back(q, u[1], u[2]) /\ f[v] = Back(q, v[1], v[2])
      <4>. HIDE DEF u, v, e
      <4>. QED BY <3>2, <3>3, <3>4
    <3>. QED BY <3>5
  <2>6. Split(q, r, f) = Back(q, r[1], r[2])
    BY <2>5, SplitIsBack
  <2>. QED BY <1>4, <2>4, <2>6
<1>6. f[<<1, Len(q)>>] = Back(q, 1, Len(q))
  <2>. DEFINE r == <<1, Len(q)>>
  <2>1. r \in Runs(q) /\ r[1] = 1 /\ r[2] = Len(q)
    BY <1>1 DEF Runs
  <2>2. ~ Wrong(Len(q))
    BY <1>1, <1>5
  <2>3. r[2] - r[1] <= Len(q)
    BY <1>1, <2>1
  <2>4. f[r] = Back(q, r[1], r[2])
    <3>. HIDE DEF r
    <3>. QED BY <2>1, <2>2, <2>3
  <2>. QED BY <2>4
<1>. QED BY <1>6, SortUnfolds DEF f

-----------------------------------------------------------------------------
(* What is printed.                                                        *)
LEMMA SortedKeys ==
  ASSUME IsFiniteSet(DOMAIN dict), DOMAIN dict \subseteq Word
  PROVE  /\ Len(Sort(Keys)) = Len(Keys)
         /\ \A i, j \in DOMAIN Sort(Keys) : i < j => Before(Sort(Keys)[j], Sort(Keys)[i])
<1>. DEFINE k == Keys
            n == Len(Keys)
            s == Sort(Keys)
<1>1. /\ k \in Seq(Word) /\ Len(k) = n /\ n \in Nat
      /\ \A i, j \in 1 .. n : i < j => Before(k[i], k[j])
  BY KeysInOrder, LenProperties
<1>. HIDE DEF k
<1>2. Different(k)
  <2>1. ASSUME NEW i \in 1 .. n, NEW j \in 1 .. n, i # j PROVE k[i] # k[j]
    <3>1. k[i] \in Word /\ k[j] \in Word
      BY <1>1, ElementOfSeq
    <3>2. Before(k[i], k[j]) \/ Before(k[j], k[i])
      <4>1. i < j \/ j < i
        <5>. HIDE DEF n
        <5>. QED BY <1>1, <2>1
      <4>. QED BY <1>1, <4>1
    <3>. QED BY <3>1, <3>2, BeforeIrreflexive
  <2>2. DOMAIN k = 1 .. n
    BY <1>1, LenProperties
  <2>. HIDE DEF n
  <2>. QED BY <2>1, <2>2 DEF Different
<1>3. s = Back(k, 1, n)
  BY <1>1, <1>2, SortReverses DEF k
<1>. HIDE DEF n, s
<1>4. s \in Seq(Word) /\ Len(s) = n /\ \A i \in 1 .. n : s[i] = k[n + 1 - i]
  <2>1. 1 \in 1 .. n + 1 /\ n \in 0 .. n /\ (IF n < 1 THEN 0 ELSE n - 1 + 1) = n
    BY <1>1
  <2>. QED BY <1>1, <1>3, <2>1, BackProperties
<1>5. ASSUME NEW i \in 1 .. n, NEW j \in 1 .. n, i < j PROVE Before(s[j], s[i])
  <2>1. n + 1 - i \in 1 .. n /\ n + 1 - j \in 1 .. n /\ n + 1 - j < n + 1 - i
    BY <1>1, <1>5
  <2>. QED BY <1>1, <1>4, <2>1
<1>6. DOMAIN s = 1 .. n
  BY <1>4, LenProperties
<1>. QED BY <1>4, <1>5, <1>6 DEF n, s

-----------------------------------------------------------------------------
(* The words of a piece of text are finitely many.                         *)
LEMMA WordsFacts ==
  ASSUME NEW s \in Seq(Nat)
  PROVE  IsFiniteSet(Words(s)) /\ Words(s) \subseteq Word
<1>. DEFINE D == DOMAIN s
            R == {r \in D \X D : IsWord(s, r[1], r[2])}
            f == [r \in R |-> SubSeq(s, r[1], r[2])]
<1>1. Len(s) \in Nat /\ D = 1 .. Len(s)
  BY LenProperties
<1>2. IsFiniteSet(R)
  <2>1. IsFiniteSet(D)
    BY <1>1, FS_Interval
  <2>2. IsFiniteSet(D \X D)
    <3>. HIDE DEF D
    <3>. QED BY <2>1, FS_Product
  <2>3. R \in SUBSET (D \X D)
    OBVIOUS
  <2>. HIDE DEF R, D
  <2>. QED BY <2>2, <2>3, FS_Subset
<1>3. f \in Surjection(R, Words(s))
  <2>1. Words(s) = {SubSeq(s, r[1], r[2]) : r \in R}
    BY DEF Words
  <2>. HIDE DEF R
  <2>. QED BY <2>1 DEF Surjection
<1>4. IsFiniteSet(Words(s))
  <2>. HIDE DEF R, f
  <2>. QED BY <1>2, <1>3, FS_Surjection
<1>5. ASSUME NEW r \in R PROVE SubSeq(s, r[1], r[2]) \in Word
  <2>1. r[1] \in 1 .. Len(s) /\ r[2] \in 1 .. Len(s)
    BY <1>1
  <2>. HIDE DEF R
  <2>2. r[1] \in Int /\ r[2] \in Int /\ \A i \in r[1] .. r[2] : i \in 1 .. Len(s)
    BY <1>1, <2>1
  <2>3. \A i \in r[1] .. r[2] : s[i] \in Nat
    BY <2>2, ElementOfSeq
  <2>. QED BY <2>2, <2>3, SubSeqProperties DEF Word
<1>. QED BY <1>4, <1>5 DEF Words

LEMMA NoWords == Words(<<>>) = {}
BY DEF Words

(* The dictionary with numbers up to n: the numbers of a word ascend.      *)
Dictionary(d, n) ==
  /\ IsFiniteSet(DOMAIN d) /\ DOMAIN d \subseteq Word
  /\ \A w \in DOMAIN d :
       /\ d[w] \in Seq(0 .. n) /\ Len(d[w]) # 0
       /\ \A i, j \in 1 .. Len(d[w]) : i < j => d[w][i] < d[w][j]

Numbered(d, w, n) == w \in DOMAIN d /\ \E i \in 1 .. Len(d[w]) : d[w][i] = n

(* No word has the number of a file that was not read.                     *)
LEMMA NextNumber ==
  ASSUME NEW d, NEW n \in Nat, Dictionary(d, n - 1)
  PROVE  Dictionary(d, n) /\ \A w : ~ Numbered(d, w, n)
<1>1. (0 .. n - 1) \subseteq (0 .. n)
  OBVIOUS
<1>2. \A w \in DOMAIN d : d[w] \in Seq(0 .. n)
  BY <1>1, SeqMonotonic DEF Dictionary
<1>3. \A w \in DOMAIN d : \A i \in 1 .. Len(d[w]) : d[w][i] \in 0 .. n - 1
  BY ElementOfSeq DEF Dictionary
<1>4. n \notin 0 .. n - 1
  OBVIOUS
<1>. QED BY <1>2, <1>3, <1>4 DEF Dictionary, Numbered

(* Words that are met in file n get its number, once.                      *)
LEMMA IndexedFacts ==
  ASSUME NEW d, NEW n \in Nat, Dictionary(d, n),
         NEW W, IsFiniteSet(W), W \subseteq Word
  PROVE  /\ Dictionary(Indexed(d, W, n), n)
         /\ \A w, m : Numbered(Indexed(d, W, n), w, m) <=>
                        Numbered(d, w, m) \/ (w \in W /\ m = n)
<1>. DEFINE e == Indexed(d, W, n)
<1>1. DOMAIN e = DOMAIN d \cup W
  BY DEF Indexed
<1>2. IsFiniteSet(DOMAIN e) /\ DOMAIN e \subseteq Word
  <2>1. IsFiniteSet(DOMAIN d \cup W)
    BY FS_Union DEF Dictionary
  <2>. QED BY <1>1, <2>1 DEF Dictionary
<1>3. /\ \A w \in W \ DOMAIN d : e[w] = <<n>>
      /\ \A w \in DOMAIN d \ W : e[w] = d[w]
      /\ \A w \in DOMAIN d \cap W : e[w] = IF d[w][Len(d[w])] # n THEN Append(d[w], n) ELSE d[w]
  BY DEF Indexed, Last
<1>. HIDE DEF e
<1>4. ASSUME NEW w \in DOMAIN d
      PROVE  /\ d[w] \in Seq(0 .. n) /\ Len(d[w]) \in Nat \ {0}
             /\ \A i \in 1 .. Len(d[w]) : d[w][i] \in 0 .. n
             /\ \A i, j \in 1 .. Len(d[w]) : i < j => d[w][i] < d[w][j]
  BY LenProperties, ElementOfSeq DEF Dictionary
<1>. DEFINE Fine(s) == /\ s \in Seq(0 .. n) /\ Len(s) # 0
                       /\ \A i, j \in 1 .. Len(s) : i < j => s[i] < s[j]
            In(s, m) == \E i \in 1 .. Len(s) : s[i] = m
<1>5. ASSUME NEW w \in W \ DOMAIN d
      PROVE  Fine(e[w]) /\ \A m : In(e[w], m) <=> m = n
  <2>1. e[w] = <<n>>
    BY <1>3
  <2>2. <<n>> \in Seq(0 .. n) /\ Len(<<n>>) = 1 /\ <<n>>[1] = n
    OBVIOUS
  <2>. DEFINE s == <<n>>
  <2>. HIDE DEF s
  <2>3. Fine(s) /\ \A m : In(s, m) <=> m = n
    <3>1. s \in Seq(0 .. n) /\ Len(s) = 1 /\ s[1] = n
      BY <2>2 DEF s
    <3>. QED BY <3>1
  <2>. QED BY <2>1, <2>3 DEF s
<1>6. ASSUME NEW w \in DOMAIN d \ W
      PROVE  Fine(e[w]) /\ \A m : In(e[w], m) <=> In(d[w], m)
  <2>1. e[w] = d[w]
    BY <1>3
  <2>. QED BY <1>4, <2>1
<1>7. ASSUME NEW w \in DOMAIN d \cap W
      PROVE  Fine(e[w]) /\ \A m : In(e[w], m) <=> In(d[w], m) \/ m = n
  <2>. DEFINE s == d[w]
              k == Len(d[w])
  <2>1. /\ s \in Seq(0 .. n) /\ k \in Nat \ {0} /\ k = Len(s)
        /\ \A i \in 1 .. k : s[i] \in 0 .. n
        /\ \A i, j \in 1 .. k : i < j => s[i] < s[j]
    BY <1>4
  <2>2. e[w] = IF s[k] # n THEN Append(s, n) ELSE s
    BY <1>3
  <2>. HIDE DEF s, k
  <2>3. CASE s[k] = n
    <3>1. k \in 1 .. k
      BY <2>1
    <3>2. In(s, n)
      BY <2>1, <2>3, <3>1
    <3>3. e[w] = s
      BY <2>2, <2>3
    <3>. QED BY <2>1, <3>2, <3>3 DEF s
  <2>4. CASE s[k] # n
    <3>. DEFINE t == Append(s, n)
    <3>1. n \in 0 .. n
      OBVIOUS
    <3>2. /\ t \in Seq(0 .. n) /\ Len(t) = k + 1 /\ t[k + 1] = n
          /\ \A i \in 1 .. k : t[i] = s[i]
      BY <2>1, <3>1, AppendProperties
    <3>. HIDE DEF t
    <3>3. \A i \in 1 .. k : s[i] < n
      <4>1. ASSUME NEW i \in 1 .. k, s[i] = n PROVE FALSE
        <5>1. k \in 1 .. k /\ (i = k \/ i < k)
          BY <2>1
        <5>2. i # k
          BY <2>4, <4>1
        <5>3. s[i] < s[k] /\ s[k] \in 0 .. n
          BY <2>1, <5>1, <5>2
        <5>. QED BY <4>1, <5>3
      <4>. QED BY <2>1, <4>1
    <3>4. \A i \in 1 .. k + 1 : i \in 1 .. k \/ i = k + 1
      BY <2>1
    <3>5. ASSUME NEW i \in 1 .. k + 1, NEW j \in 1 .. k + 1, i < j PROVE t[i] < t[j]
      <4>1. i \in 1 .. k
        BY <2>1, <3>5
      <4>2. CASE j \in 1 .. k
        BY <2>1, <3>2, <3>5, <4>1, <4>2
      <4>3. CASE j = k + 1
        BY <3>2, <3>3, <4>1, <4>3
      <4>. QED BY <3>4, <4>2, <4>3
    <3>6. Fine(t)
      BY <2>1, <3>2, <3>5
    <3>7. \A m : In(t, m) <=> In(s, m) \/ m = n
      <4>1. k + 1 \in 1 .. k + 1 /\ (1 .. k) \subseteq (1 .. k + 1)
        BY <2>1
      <4>. QED BY <2>1, <3>2, <3>4, <4>1
    <3>8. e[w] = t
      BY <2>2, <2>4 DEF t
    <3>. QED BY <3>6, <3>7, <3>8 DEF s
  <2>. QED BY <2>3, <2>4
<1>8. \A w \in DOMAIN e : Fine(e[w])
  <2>. HIDE DEF Fine, In
  <2>. QED BY <1>1, <1>5, <1>6, <1>7
<1>9. ASSUME NEW w, NEW m
      PROVE  Numbered(e, w, m) <=> Numbered(d, w, m) \/ (w \in W /\ m = n)
  <2>1. \A c : Numbered(c, w, m) <=> w \in DOMAIN c /\ In(c[w], m)
    BY DEF Numbered
  <2>. HIDE DEF Fine, In
  <2>. QED BY <1>1, <1>5, <1>6, <1>7, <2>1
<1>. QED BY <1>2, <1>8, <1>9 DEF Dictionary, e

-----------------------------------------------------------------------------
(* A text that is read, piece by piece, n characters a time.               *)
Piece(line, n, k) ==
  SubSeq(line, k * n + 1, IF (k + 1) * n < Len(line) THEN (k + 1) * n ELSE Len(line))
Starts(line, n) == {k \in 0 .. Len(line) : k * n < Len(line)}

(* The pieces of a line, by their number.                                  *)
LEMMA LineWordsMeans ==
  ASSUME NEW line
  PROVE  LineWords(line) = UNION {Words(Piece(line, BufSize - 1, k)) : k \in Starts(line, BufSize - 1)}
BY DEF LineWords, Cut, Piece, Starts

LEMMA PieceSize == BufSize - 1 \in Nat \ {0}
BY IndexAssumption

LEMMA Multiples ==
  ASSUME NEW n \in Nat \ {0}, NEW k \in Nat
  PROVE  /\ k * n \in Nat /\ (k + 1) * n = k * n + n
         /\ k <= k * n
         /\ k # 0 => n <= k * n
<1>1. k * n \in Nat /\ (k + 1) * n = k * n + n
  OBVIOUS
<1>2. k <= k * n
  <2>1. k * n = k + k * (n - 1) /\ k * (n - 1) \in Nat
    OBVIOUS
  <2>. QED BY <2>1
<1>3. ASSUME k # 0 PROVE n <= k * n
  <2>1. k - 1 \in Nat
    BY <1>3
  <2>2. k * n = (k - 1) * n + n /\ (k - 1) * n \in Nat
    BY <2>1
  <2>. QED BY <2>2
<1>. QED BY <1>1, <1>2, <1>3

(* A line that fits the buffer is one piece.                               *)
LEMMA ShortLine ==
  ASSUME NEW line \in Seq(Nat), Len(line) < BufSize
  PROVE  LineWords(line) = Words(line)
<1>. DEFINE n == BufSize - 1
            m == Len(line)
<1>1. n \in Nat \ {0} /\ m \in Nat /\ m <= n
  BY PieceSize, IndexAssumption, LenProperties
<1>2. LineWords(line) = UNION {Words(Piece(line, n, k)) : k \in Starts(line, n)}
  BY LineWordsMeans
<1>. HIDE DEF n
<1>3. CASE m = 0
  <2>1. line = <<>>
    BY <1>3, EmptySeq
  <2>2. Starts(line, n) = {}
    <3>1. ASSUME NEW k \in 0 .. m, k * n < m PROVE FALSE
      <4>1. k \in Nat
        BY <1>1
      <4>2. k * n \in Nat
        BY <1>1, <4>1, Multiples
      <4>. QED BY <1>3, <3>1, <4>2
    <3>. QED BY <3>1 DEF Starts
  <2>. QED BY <1>2, <2>1, <2>2, NoWords
<1>4. CASE m # 0
  <2>1. Starts(line, n) = {0}
    <3>1. ASSUME NEW k \in 0 .. m, k * n < m PROVE k = 0
      <4>1. k \in Nat
        BY <1>1
      <4>. HIDE DEF m
      <4>2. k # 0 => n <= k * n
        BY <1>1, <4>1, Multiples
      <4>3. k * n \in Nat
        BY <1>1, <4>1, Multiples
      <4>. QED BY <1>1, <3>1, <4>2, <4>3
    <3>2. 0 \in 0 .. m /\ 0 * n < m
      BY <1>1, <1>4
    <3>. QED BY <3>1, <3>2 DEF Starts
  <2>2. Piece(line, n, 0) = SubSeq(line, 1, m)
    <3>1. 0 * n + 1 = 1 /\ (0 + 1) * n = n
      BY <1>1
    <3>2. (IF n < m THEN n ELSE m) = m
      BY <1>1
    <3>. QED BY <3>1, <3>2 DEF Piece
  <2>3. SubSeq(line, 1, m) = line
    <3>1. \A i \in 1 .. m : line[i] \in Nat
      BY ElementOfSeq
    <3>2. /\ SubSeq(line, 1, m) \in Seq(Nat) /\ Len(SubSeq(line, 1, m)) = m
          /\ \A i \in 1 .. m : SubSeq(line, 1, m)[i] = line[i]
      BY <1>1, <3>1, SubSeqProperties
    <3>. DEFINE p == SubSeq(line, 1, m)
    <3>3. p \in Seq(Nat) /\ Len(p) = Len(line) /\ \A i \in 1 .. Len(p) : p[i] = line[i]
      BY <3>2
    <3>. HIDE DEF p
    <3>4. p = line
      BY <3>3, SeqEqual
    <3>. QED BY <3>4 DEF p
  <2>. QED BY <1>2, <2>1, <2>2, <2>3
<1>. QED BY <1>3, <1>4

(* Part of a part of a line.                                               *)
LEMMA PartOfRest ==
  ASSUME NEW line \in Seq(Nat), NEW n \in 0 .. Len(line),
         NEW a \in Nat \ {0}, NEW b \in Nat, a <= b + 1, n + b <= Len(line)
  PROVE  LET rest == SubSeq(line, n + 1, Len(line))
         IN  /\ rest \in Seq(Nat) /\ Len(rest) = Len(line) - n
             /\ SubSeq(rest, a, b) = SubSeq(line, n + a, n + b)
<1>. DEFINE m == Len(line)
            rest == SubSeq(line, n + 1, m)
            p == SubSeq(rest, a, b)
            q == SubSeq(line, n + a, n + b)
<1>1. m \in Nat /\ n \in Nat /\ n <= m
  BY LenProperties
<1>2. \A i \in 1 .. m : line[i] \in Nat
  BY ElementOfSeq
<1>. HIDE DEF m
<1>3. /\ rest \in Seq(Nat) /\ Len(rest) = m - n
      /\ \A i \in 1 .. m - n : rest[i] = line[n + i]
  <2>1. \A i \in n + 1 .. m : line[i] \in Nat
    BY <1>1, <1>2
  <2>2. /\ rest \in Seq(Nat)
        /\ Len(rest) = IF n + 1 <= m THEN m - (n + 1) + 1 ELSE 0
        /\ \A i \in 1 .. m - (n + 1) + 1 : rest[i] = line[(n + 1) + i - 1]
    BY <1>1, <2>1, SubSeqProperties
  <2>3. m - (n + 1) + 1 = m - n /\ \A i \in 1 .. m - n : (n + 1) + i - 1 = n + i
    BY <1>1
  <2>. HIDE DEF rest
  <2>. QED BY <1>1, <2>2, <2>3
<1>. HIDE DEF rest
<1>. DEFINE l == IF a <= b THEN b - a + 1 ELSE 0
<1>4. n + b <= m
  BY DEF m
<1>5. /\ p \in Seq(Nat) /\ Len(p) = l
      /\ \A i \in 1 .. b - a + 1 : p[i] = rest[a + i - 1]
  <2>1. \A i \in a .. b : rest[i] \in Nat
    <3>1. \A i \in a .. b : i \in 1 .. m - n
      BY <1>1, <1>4
    <3>. QED BY <1>3, <3>1, ElementOfSeq
  <2>. QED BY <2>1, SubSeqProperties
<1>6. /\ q \in Seq(Nat) /\ Len(q) = l
      /\ \A i \in 1 .. b - a + 1 : q[i] = line[(n + a) + i - 1]
  <2>1. \A i \in n + a .. n + b : line[i] \in Nat
    <3>1. \A i \in n + a .. n + b : i \in 1 .. m
      BY <1>1, <1>4
    <3>. QED BY <1>2, <3>1
  <2>2. /\ q \in Seq(Nat)
        /\ Len(q) = IF n + a <= n + b THEN (n + b) - (n + a) + 1 ELSE 0
        /\ \A i \in 1 .. (n + b) - (n + a) + 1 : q[i] = line[(n + a) + i - 1]
    BY <1>1, <2>1, SubSeqProperties
  <2>3. (n + b) - (n + a) + 1 = b - a + 1 /\ (n + a <= n + b <=> a <= b)
    BY <1>1
  <2>. HIDE DEF q
  <2>. QED BY <2>2, <2>3
<1>. HIDE DEF p, q
<1>7. \A i \in 1 .. l : p[i] = q[i]
  <2>1. ASSUME NEW i \in 1 .. l PROVE p[i] = q[i]
    <3>1. i \in 1 .. b - a + 1 /\ a + i - 1 \in 1 .. m - n
      BY <1>1, <1>4, <2>1
    <3>2. n + (a + i - 1) = (n + a) + i - 1
      BY <1>1, <2>1
    <3>. QED BY <1>3, <1>5, <1>6, <3>1, <3>2
  <2>. QED BY <2>1
<1>8. p = q
  <2>. HIDE DEF l
  <2>. QED BY <1>5, <1>6, <1>7, SeqEqual
<1>. QED BY <1>3, <1>8 DEF p, q, rest, m

(* A longer one is what the buffer takes, and the pieces of the rest.      *)
LEMMA LongLine ==
  ASSUME NEW line \in Seq(Nat), ~ (Len(line) < BufSize)
  PROVE  LET rest == SubSeq(line, BufSize, Len(line))
         IN  /\ rest \in Seq(Nat)
             /\ SubSeq(line, 1, BufSize - 1) \in Seq(Nat)
             /\ LineWords(line) = Words(SubSeq(line, 1, BufSize - 1)) \cup LineWords(rest)
<1>. DEFINE n == BufSize - 1
            m == Len(line)
            rest == SubSeq(line, n + 1, m)
            first == SubSeq(line, 1, n)
            W(l, k) == Words(Piece(l, n, k))
<1>1. n \in Nat \ {0} /\ m \in Nat /\ n < m /\ n + 1 = BufSize
  BY PieceSize, IndexAssumption, LenProperties
<1>2. \A l : LineWords(l) = UNION {Words(Piece(l, n, k)) : k \in Starts(l, n)}
  BY LineWordsMeans
<1>. HIDE DEF n
<1>3. rest \in Seq(Nat) /\ Len(rest) = m - n
  <2>1. n \in 0 .. m /\ 1 \in Nat \ {0} /\ 0 \in Nat /\ 1 <= 0 + 1 /\ n + 0 <= m
    BY <1>1
  <2>. QED BY <2>1, PartOfRest
<1>4. first \in Seq(Nat)
  <2>1. \A i \in 1 .. m : line[i] \in Nat
    BY ElementOfSeq
  <2>2. \A i \in 1 .. n : line[i] \in Nat
    BY <1>1, <2>1
  <2>. QED BY <1>1, <2>2, SubSeqProperties
<1>5. 0 \in Starts(line, n) /\ Piece(line, n, 0) = first
  <2>1. 0 * n = 0 /\ 0 * n + 1 = 1 /\ (0 + 1) * n = n /\ 0 \in 0 .. m
    BY <1>1
  <2>2. 0 \in Starts(line, n)
    BY <1>1, <2>1 DEF Starts
  <2>3. Piece(line, n, 0) = SubSeq(line, 1, IF n < m THEN n ELSE m)
    BY <2>1 DEF Piece
  <2>. HIDE DEF m
  <2>4. (IF n < m THEN n ELSE m) = n
    BY <1>1
  <2>. QED BY <2>2, <2>3, <2>4
<1>6. ASSUME NEW k \in Starts(rest, n)
      PROVE  k + 1 \in Starts(line, n) /\ Piece(line, n, k + 1) = Piece(rest, n, k)
  <2>. DEFINE x == k * n
              y == (k + 1) * n
              z == (k + 1 + 1) * n
              l == m - n
  <2>1. k \in Nat /\ x < l
    BY <1>1, <1>3, <1>6 DEF Starts
  <2>2. x \in Nat /\ y = x + n /\ k <= x
    BY <1>1, <2>1, Multiples
  <2>3. k + 1 \in Nat
    BY <2>1
  <2>4. z = y + n /\ k + 1 <= y
    BY <1>1, <2>3, Multiples
  <2>. HIDE DEF x, y, z, m
  <2>5. y < m /\ k + 1 \in 0 .. m /\ l \in Nat
    BY <1>1, <2>1, <2>2, <2>4
  <2>. DEFINE b == IF y < l THEN y ELSE l
              c == IF z < m THEN z ELSE m
  <2>6. c = n + b /\ x + 1 \in Nat \ {0} /\ b \in Nat /\ x + 1 <= b + 1 /\ n + b <= m
    BY <1>1, <2>1, <2>2, <2>4, <2>5
  <2>7. y + 1 = n + (x + 1) /\ n \in 0 .. m
    BY <1>1, <2>2
  <2>. HIDE DEF b, c
  <2>8. SubSeq(rest, x + 1, b) = SubSeq(line, n + (x + 1), n + b)
    BY <2>6, <2>7, PartOfRest DEF m
  <2>9. SubSeq(rest, x + 1, b) = SubSeq(line, y + 1, c)
    BY <2>6, <2>7, <2>8
  <2>10. Piece(rest, n, k) = SubSeq(rest, x + 1, b)
    BY <1>3 DEF Piece, x, y, b, l
  <2>11. Piece(line, n, k + 1) = SubSeq(line, y + 1, c)
    BY DEF Piece, y, z, c, m
  <2>. QED BY <2>5, <2>9, <2>10, <2>11 DEF Starts, y, m
<1>7. ASSUME NEW k \in Starts(line, n), k # 0
      PROVE  k - 1 \in Starts(rest, n)
  <2>1. k \in Nat /\ k * n < m
    BY <1>1, <1>7 DEF Starts
  <2>2. k - 1 \in Nat /\ (k - 1) + 1 = k
    BY <1>7, <2>1
  <2>. DEFINE x == (k - 1) * n
  <2>3. x \in Nat /\ k * n = x + n /\ k - 1 <= x
    BY <1>1, <2>2, Multiples
  <2>. HIDE DEF x, m
  <2>4. x < m - n /\ k - 1 \in 0 .. m - n
    BY <1>1, <2>1, <2>2, <2>3
  <2>. QED BY <1>3, <2>4 DEF Starts, x
<1>8. \A k \in Starts(line, n) : k # 0 => (k - 1) + 1 = k
  BY <1>1 DEF Starts
<1>. HIDE DEF m, rest, first
<1>9. UNION {Words(Piece(line, n, k)) : k \in Starts(line, n)}
        = Words(first) \cup UNION {Words(Piece(rest, n, k)) : k \in Starts(rest, n)}
  <2>1. ASSUME NEW k \in Starts(line, n), NEW w \in W(line, k)
        PROVE  w \in Words(first) \cup UNION {W(rest, i) : i \in Starts(rest, n)}
    <3>1. CASE k = 0
      BY <1>5, <2>1, <3>1
    <3>2. CASE k # 0
      <4>1. k - 1 \in Starts(rest, n) /\ (k - 1) + 1 = k
        BY <1>7, <1>8, <3>2
      <4>2. Piece(line, n, k) = Piece(rest, n, k - 1)
        BY <1>6, <4>1
      <4>. QED BY <2>1, <4>1, <4>2
    <3>. QED BY <3>1, <3>2
  <2>2. \A w \in Words(first) : w \in W(line, 0)
    BY <1>5
  <2>3. \A k \in Starts(rest, n) : W(rest, k) = W(line, k + 1) /\ k + 1 \in Starts(line, n)
    BY <1>6
  <2>. QED BY <1>5, <2>1, <2>2, <2>3
<1>10. LineWords(line) = Words(first) \cup LineWords(rest)
  BY <1>2, <1>9
<1>. QED BY <1>1, <1>3, <1>4, <1>10 DEF rest, first, n, m

-----------------------------------------------------------------------------
(* A text is its first line and the rest.                                  *)
LEMMA TextSplits ==
  ASSUME NEW t \in Seq(Seq(Nat)), t # <<>>, NEW x \in Seq(Nat)
  PROVE  /\ Head(t) \in Seq(Nat) /\ Tail(t) \in Seq(Seq(Nat))
         /\ TextWords(t) = LineWords(Head(t)) \cup TextWords(Tail(t))
         /\ <<x>> \o Tail(t) \in Seq(Seq(Nat))
         /\ TextWords(<<x>> \o Tail(t)) = LineWords(x) \cup TextWords(Tail(t))
<1>. DEFINE r == Tail(t)
            u == <<x>>
            v == u \o r
<1>1. /\ Len(t) \in Nat \ {0} /\ DOMAIN t = 1 .. Len(t)
      /\ Head(t) = t[1] /\ t[1] \in Seq(Nat)
  BY EmptySeq, LenProperties, HeadTailProperties
<1>2. /\ r \in Seq(Seq(Nat)) /\ Len(r) = Len(t) - 1
      /\ \A i \in 1 .. Len(r) : r[i] = t[i + 1]
  BY HeadTailProperties
<1>3. u \in Seq(Seq(Nat)) /\ Len(u) = 1 /\ u[1] = x
  OBVIOUS
<1>. HIDE DEF r, u
<1>4. /\ v \in Seq(Seq(Nat)) /\ Len(v) = Len(u) + Len(r)
      /\ \A i \in 1 .. Len(u) + Len(r) : v[i] = IF i <= Len(u) THEN u[i] ELSE r[i - Len(u)]
  <2>. DEFINE T == Seq(Nat)
  <2>1. u \in Seq(T) /\ r \in Seq(T)
    BY <1>2, <1>3
  <2>. HIDE DEF T
  <2>2. /\ v \in Seq(T) /\ Len(v) = Len(u) + Len(r)
        /\ \A i \in 1 .. Len(u) + Len(r) : v[i] = IF i <= Len(u) THEN u[i] ELSE r[i - Len(u)]
    BY <2>1, ConcatProperties
  <2>. QED BY <2>2 DEF T
<1>. HIDE DEF v
<1>5. /\ DOMAIN r = 1 .. Len(r) /\ Len(r) \in Nat /\ DOMAIN v = 1 .. Len(v)
      /\ Len(v) = 1 + Len(r)
  BY <1>2, <1>3, <1>4, LenProperties
<1>6. v[1] = x /\ \A i \in 1 .. Len(r) : v[i + 1] = r[i]
  <2>1. 1 \in 1 .. Len(u) + Len(r) /\ 1 <= Len(u)
    BY <1>3, <1>5
  <2>2. v[1] = x
    BY <1>3, <1>4, <2>1
  <2>3. ASSUME NEW i \in 1 .. Len(r) PROVE v[i + 1] = r[i]
    <3>1. i + 1 \in 1 .. Len(u) + Len(r) /\ ~ (i + 1 <= Len(u)) /\ (i + 1) - Len(u) = i
      BY <1>3, <1>5
    <3>. QED BY <1>4, <3>1
  <2>. QED BY <2>2, <2>3
<1>7. ASSUME NEW s, DOMAIN s = 1 .. Len(r) + 1, \A i \in 1 .. Len(r) : s[i + 1] = r[i]
      PROVE  TextWords(s) = LineWords(s[1]) \cup TextWords(r)
  <2>1. /\ \A i \in DOMAIN s : i = 1 \/ (i - 1 \in DOMAIN r /\ s[i] = r[i - 1])
        /\ \A i \in DOMAIN r : i + 1 \in DOMAIN s /\ s[i + 1] = r[i]
        /\ 1 \in DOMAIN s
    <3>1. ASSUME NEW i \in 1 .. Len(r) + 1, i # 1
          PROVE  i - 1 \in 1 .. Len(r) /\ (i - 1) + 1 = i
      BY <1>5, <3>1
    <3>2. \A i \in 1 .. Len(r) : i + 1 \in 1 .. Len(r) + 1
      BY <1>5
    <3>3. 1 \in 1 .. Len(r) + 1
      BY <1>5
    <3>. QED BY <1>5, <1>7, <3>1, <3>2, <3>3
  <2>2. \A z, w : w \in TextWords(z) <=> \E i \in DOMAIN z : w \in LineWords(z[i])
    BY DEF TextWords
  <2>3. ASSUME NEW w \in TextWords(s) PROVE w \in LineWords(s[1]) \/ w \in TextWords(r)
    <3>1. PICK i \in DOMAIN s : w \in LineWords(s[i])
      BY <2>2
    <3>. QED BY <2>1, <2>2, <3>1
  <2>4. ASSUME NEW w \in TextWords(r) PROVE w \in TextWords(s)
    <3>1. PICK i \in DOMAIN r : w \in LineWords(r[i])
      BY <2>2
    <3>. QED BY <2>1, <2>2, <3>1
  <2>5. \A w \in LineWords(s[1]) : w \in TextWords(s)
    BY <2>1, <2>2
  <2>. QED BY <2>3, <2>4, <2>5
<1>8. TextWords(t) = LineWords(Head(t)) \cup TextWords(r)
  <2>1. Len(t) = Len(r) + 1
    BY <1>1, <1>2
  <2>. QED BY <1>1, <1>2, <1>7, <2>1
<1>9. TextWords(v) = LineWords(x) \cup TextWords(r)
  <2>1. Len(v) = Len(r) + 1
    BY <1>5
  <2>. QED BY <1>5, <1>6, <1>7, <2>1
<1>. QED BY <1>1, <1>2, <1>4, <1>8, <1>9 DEF v, u, r

LEMMA NoText == TextWords(<<>>) = {}
BY DEF TextWords

(* What one round of the inner loop takes from the text.                   *)
LEMMA TextRead ==
  ASSUME text \in Seq(Seq(Nat)), ReadText
  PROVE  /\ text' \in Seq(Seq(Nat))
         /\ \E W : /\ IsFiniteSet(W) /\ W \subseteq Word
                   /\ dict' = Indexed(dict, W, fileNum)
                   /\ TextWords(text) = W \cup TextWords(text')
<1>. DEFINE line == Head(text)
<1>1. /\ line \in Seq(Nat) /\ Tail(text) \in Seq(Seq(Nat))
      /\ TextWords(text) = LineWords(line) \cup TextWords(Tail(text))
  <2>1. text # <<>> /\ <<>> \in Seq(Nat)
    BY DEF ReadText
  <2>. QED BY <2>1, TextSplits
<1>2. CASE Len(line) < BufSize
  <2>1. text' = Tail(text) /\ dict' = Indexed(dict, Words(line), fileNum)
    BY <1>2 DEF ReadText
  <2>. HIDE DEF line
  <2>2. LineWords(line) = Words(line) /\ IsFiniteSet(Words(line)) /\ Words(line) \subseteq Word
    BY <1>1, <1>2, ShortLine, WordsFacts
  <2>. QED BY <1>1, <2>1, <2>2
<1>3. CASE ~ (Len(line) < BufSize)
  <2>. DEFINE rest == SubSeq(line, BufSize, Len(line))
              first == SubSeq(line, 1, BufSize - 1)
  <2>1. /\ text' = <<rest>> \o Tail(text)
        /\ dict' = Indexed(dict, Words(first), fileNum)
    BY <1>3 DEF ReadText
  <2>2. /\ rest \in Seq(Nat) /\ first \in Seq(Nat)
        /\ LineWords(line) = Words(first) \cup LineWords(rest)
    <3>. HIDE DEF line
    <3>. QED BY <1>1, <1>3, LongLine
  <2>. HIDE DEF rest, first
  <2>3. /\ text' \in Seq(Seq(Nat))
        /\ TextWords(text') = LineWords(rest) \cup TextWords(Tail(text))
    BY <2>1, <2>2, TextSplits DEF ReadText
  <2>4. IsFiniteSet(Words(first)) /\ Words(first) \subseteq Word
    BY <2>2, WordsFacts
  <2>. HIDE DEF line
  <2>. QED BY <1>1, <2>1, <2>2, <2>3, <2>4
<1>. QED BY <1>2, <1>3

(* The words with number n.                                                *)
WithNumber(d, n) == {w \in DOMAIN d : \E i \in 1 .. Len(d[w]) : d[w][i] = n}

(* IndexedFacts, said of sets of words.                                    *)
LEMMA NumberAdded ==
  ASSUME NEW d, NEW n \in Nat, Dictionary(d, n),
         NEW W, IsFiniteSet(W), W \subseteq Word
  PROVE  /\ Dictionary(Indexed(d, W, n), n)
         /\ WithNumber(Indexed(d, W, n), n) = WithNumber(d, n) \cup W
         /\ \A m : m # n => WithNumber(Indexed(d, W, n), m) = WithNumber(d, m)
<1>1. \A e, w, m : Numbered(e, w, m) <=> w \in WithNumber(e, m)
  BY DEF Numbered, WithNumber
<1>. DEFINE e == Indexed(d, W, n)
<1>2. /\ Dictionary(e, n)
      /\ \A w, m : Numbered(e, w, m) <=> Numbered(d, w, m) \/ (w \in W /\ m = n)
  BY IndexedFacts
<1>. HIDE DEF e
<1>3. \A w, m : w \in WithNumber(e, m) <=> w \in WithNumber(d, m) \/ (w \in W /\ m = n)
  BY <1>1, <1>2
<1>4. WithNumber(e, n) = WithNumber(d, n) \cup W
  BY <1>3
<1>5. \A m : m # n => WithNumber(e, m) = WithNumber(d, m)
  BY <1>3
<1>. QED BY <1>2, <1>4, <1>5 DEF e

-----------------------------------------------------------------------------
(* The inductive invariant.                                                *)
Typed ==
  /\ listing \in Listings
  /\ pc \in {"names", "text", "done", "failed"}
  /\ fileNum \in Nat \cup {-1}
  /\ stale \in BOOLEAN /\ atEnd \in BOOLEAN
  /\ names \in Seq(Range(listing.names))
  /\ text \in Seq(Seq(Nat))
  /\ Dictionary(dict, fileNum)

(* The files read so far are the first fileNum + 1 of FilesRead, and the   *)
(* listing ends with the last of them.                                     *)
Progress ==
  LET count == fileNum + 1
      all   == Len(listing.names)
  IN /\ count <= Len(FilesRead)
     /\ atEnd <=> count = Len(FilesRead)
     /\ Len(names) = IF count <= all THEN all - count ELSE 0
     /\ \A i \in 1 .. Len(names) : names[i] = listing.names[count + i]
     /\ count # 0 => data = FilesRead[count]
     /\ pc = "text" => count # 0
     /\ pc = "done" => atEnd

(* content was never written only before the first fgets of a text.        *)
Unwritten ==
  stale => \/ pc = "names" /\ fileNum = -1
           \/ pc = "text" /\ fileNum = 0 /\ text = Texts[data]

(* The words with a file's number, and those of its text still to be read, *)
(* are the words of the file; but for file 0, if it is empty.              *)
Exact ==
  \A n \in 0 .. fileNum :
    n # 0 \/ Texts[FilesRead[1]] # <<>> =>
      WithNumber(dict, n) \cup (IF pc = "text" /\ n = fileNum THEN TextWords(text) ELSE {})
        = TextWords(Texts[FilesRead[n + 1]])

IInv ==
  /\ Typed
  /\ PrintedBackwards
  /\ pc # "failed" => Progress /\ Unwritten /\ Exact

-----------------------------------------------------------------------------
(* The files that are read are those of the listing, and one more.         *)
LEMMA FilesReadMeans ==
  ASSUME listing \in Listings
  PROVE  /\ listing.names \in Seq(Range(listing.names))
         /\ Len(listing.names) \in Nat /\ listing.newline \in BOOLEAN
         /\ listing.newline => Len(listing.names) # 0
         /\ Len(FilesRead) = IF Len(listing.names) = 0 THEN 1
                             ELSE IF listing.newline THEN Len(listing.names) + 1
                             ELSE Len(listing.names)
         /\ DOMAIN FilesRead = 1 .. Len(FilesRead) /\ Len(FilesRead) \in Nat \ {0}
         /\ Len(listing.names) = 0 => FilesRead[1] = data
         /\ \A i \in 1 .. Len(listing.names) : FilesRead[i] = listing.names[i]
         /\ listing.newline =>
              FilesRead[Len(listing.names) + 1] = listing.names[Len(listing.names)]
<1>. DEFINE f == listing.names
            R == Range(listing.names)
            l == Len(f)
<1>1. /\ f \in Seq(R) /\ listing.newline \in BOOLEAN
      /\ listing.newline => f # <<>>
  BY IndexAssumption
<1>2. l \in Nat /\ (l = 0 <=> f = <<>>)
  BY <1>1, LenProperties, EmptySeq
<1>3. CASE f = <<>>
  <2>1. FilesRead = <<data>> /\ Len(<<data>>) = 1 /\ <<data>>[1] = data /\ DOMAIN <<data>> = 1 .. 1
    BY <1>3 DEF FilesRead
  <2>4. 1 \in Nat \ {0}
    OBVIOUS
  <2>2. ~ listing.newline
    BY <1>1, <1>3
  <2>3. \A i \in 1 .. 0 : FALSE
    OBVIOUS
  <2>. HIDE DEF f, R
  <2>. QED BY <1>1, <1>2, <1>3, <2>1, <2>2, <2>3, <2>4 DEF f, R
<1>4. CASE f # <<>>
  <2>. DEFINE more == IF listing.newline THEN <<Last(f)>> ELSE <<>>
  <2>1. FilesRead = f \o more
    BY <1>4 DEF FilesRead
  <2>2. l \in 1 .. l /\ f[l] \in R /\ Last(f) = f[l]
    <3>1. l \in 1 .. l
      BY <1>2, <1>4
    <3>. QED BY <1>1, <3>1, ElementOfSeq DEF Last
  <2>. HIDE DEF f, R
  <2>3. /\ more \in Seq(R) /\ Len(more) = IF listing.newline THEN 1 ELSE 0
        /\ listing.newline => more[1] = f[l]
    <3>. DEFINE o == <<f[l]>>
    <3>1. o \in Seq(R) /\ Len(o) = 1 /\ o[1] = f[l]
      BY <2>2
    <3>2. <<>> \in Seq(R) /\ Len(<<>>) = 0
      BY EmptySeq
    <3>3. more = IF listing.newline THEN o ELSE <<>>
      BY <2>2
    <3>. HIDE DEF o, more
    <3>4. CASE listing.newline
      <4>1. more = o
        BY <3>3, <3>4
      <4>. QED BY <3>1, <3>4, <4>1
    <3>5. CASE ~ listing.newline
      <4>1. more = <<>>
        BY <3>3, <3>5
      <4>. QED BY <3>2, <3>5, <4>1
    <3>. QED BY <3>4, <3>5
  <2>. HIDE DEF more
  <2>4. /\ FilesRead \in Seq(R) /\ Len(FilesRead) = l + Len(more)
        /\ \A i \in 1 .. l + Len(more) : FilesRead[i] = IF i <= l THEN f[i] ELSE more[i - l]
    <3>1. f \in Seq(R) /\ more \in Seq(R)
      BY <1>1, <2>3
    <3>. QED BY <2>1, <3>1, ConcatProperties
  <2>5. \A i \in 1 .. l : FilesRead[i] = f[i]
    <3>1. \A i \in 1 .. l : i \in 1 .. l + Len(more) /\ i <= l
      BY <1>2, <2>3
    <3>. QED BY <2>4, <3>1
  <2>6. ASSUME listing.newline PROVE FilesRead[l + 1] = f[l]
    <3>1. l + 1 \in 1 .. l + Len(more) /\ ~ (l + 1 <= l) /\ (l + 1) - l = 1
      BY <1>2, <2>3, <2>6
    <3>. QED BY <2>3, <2>4, <2>6, <3>1
  <2>7. DOMAIN FilesRead = 1 .. Len(FilesRead)
    BY <2>4, LenProperties
  <2>8. Len(FilesRead) = IF l = 0 THEN 1 ELSE IF listing.newline THEN l + 1 ELSE l
    BY <1>1, <1>2, <1>4, <2>3, <2>4
  <2>9. l # 0
    BY <1>2, <1>4
  <2>10. Len(FilesRead) \in Nat \ {0}
    <3>1. l + 1 \in Nat \ {0}
      BY <1>2
    <3>. HIDE DEF l
    <3>. QED BY <1>2, <2>8, <2>9, <3>1
  <2>. HIDE DEF l
  <2>. QED BY <1>1, <1>2, <2>5, <2>6, <2>7, <2>8, <2>9, <2>10 DEF l, f, R
<1>. QED BY <1>3, <1>4

LEMMA InitInv == Init => IInv
<1>. SUFFICES ASSUME Init PROVE IInv
  OBVIOUS
<1>1. /\ listing \in Listings /\ names = listing.names /\ pc = "names" /\ fileNum = -1
      /\ text = <<>> /\ stale = TRUE /\ atEnd = FALSE /\ dict = <<>>
  BY DEF Init
<1>2. Dictionary(dict, -1)
  <2>1. DOMAIN <<>> = {}
    OBVIOUS
  <2>2. DOMAIN dict = {}
    <3>1. dict = <<>>
      BY <1>1
    <3>. QED BY <2>1, <3>1
  <2>. QED BY <2>2, FS_EmptySet DEF Dictionary
<1>3. names \in Seq(Range(listing.names)) /\ text \in Seq(Seq(Nat))
  <2>1. listing.names \in Seq(Range(listing.names))
    BY <1>1, FilesReadMeans, Zenon
  <2>2. <<>> \in Seq(Seq(Nat))
    OBVIOUS
  <2>. QED BY <1>1, <2>1, <2>2, Zenon
<1>4. Typed
  BY <1>1, <1>2, <1>3 DEF Typed
<1>. DEFINE l == Len(listing.names)
            L == Len(FilesRead)
<1>5. l \in Nat /\ L \in Nat \ {0}
  BY <1>1, FilesReadMeans, Zenon
<1>. HIDE DEF l, L
<1>6. Progress
  <2>1. fileNum + 1 = 0 /\ l - 0 = l /\ 0 <= L /\ 0 # L /\ 0 <= l
    BY <1>1, <1>5
  <2>2. \A i \in 1 .. l : 0 + i = i
    BY <1>5
  <2>. QED BY <1>1, <2>1, <2>2 DEF Progress, l, L
<1>7. Unwritten /\ Exact
  <2>1. \A n \in 0 .. -1 : FALSE
    OBVIOUS
  <2>. QED BY <1>1, <2>1 DEF Unwritten, Exact
<1>. QED BY <1>1, <1>4, <1>6, <1>7 DEF IInv, PrintedBackwards

(* Every file that is read is the next of FilesRead.                       *)
LEMMA NameRead ==
  ASSUME IInv, NextName
  PROVE  IInv'
<1>. DEFINE c == fileNum + 1
            l == Len(listing.names)
            F == FilesRead
            L == Len(FilesRead)
<1>1. /\ Typed /\ Progress /\ Unwritten /\ Exact /\ pc = "names" /\ ~ atEnd
      /\ UNCHANGED <<listing, stale, dict, alpha>>
  BY DEF IInv, NextName
<1>2. /\ fileNum \in Nat \cup {-1} /\ c \in Nat
      /\ listing \in Listings /\ names \in Seq(Range(listing.names))
      /\ text \in Seq(Seq(Nat)) /\ Dictionary(dict, fileNum)
  <2>1. /\ fileNum \in Nat \cup {-1}
        /\ listing \in Listings /\ names \in Seq(Range(listing.names))
        /\ text \in Seq(Seq(Nat)) /\ Dictionary(dict, fileNum)
    BY <1>1, Zenon DEF Typed
  <2>2. \A x \in Nat \cup {-1} : x + 1 \in Nat
    OBVIOUS
  <2>. QED BY <2>1, <2>2, Zenon
<1>3. /\ l \in Nat /\ listing.newline \in BOOLEAN /\ (listing.newline => l # 0)
      /\ L = IF l = 0 THEN 1 ELSE IF listing.newline THEN l + 1 ELSE l
      /\ l = 0 => F[1] = data
      /\ \A i \in 1 .. l : F[i] = listing.names[i]
      /\ listing.newline => F[l + 1] = listing.names[l]
  BY <1>2, FilesReadMeans, Zenon
<1>4. /\ c < L
      /\ Len(names) = IF c <= l THEN l - c ELSE 0
      /\ \A i \in 1 .. Len(names) : names[i] = listing.names[c + i]
      /\ c # 0 => data = F[c]
  <2>1. c <= L /\ c # L
    BY <1>1 DEF Progress
  <2>. HIDE DEF c, L, F, l
  <2>2. c < L
    BY <1>2, <1>3, <2>1
  <2>. QED BY <1>1, <2>2 DEF Progress, c, L, F, l
<1>. HIDE DEF l, L, F, c
<1>5. /\ names' \in Seq(Range(listing.names))
      /\ data' = F[c + 1]
      /\ Len(names') = IF c + 1 <= l THEN l - (c + 1) ELSE 0
      /\ \A i \in 1 .. Len(names') : names'[i] = listing.names[(c + 1) + i]
      /\ atEnd' \in BOOLEAN /\ (atEnd' <=> c + 1 = L)
      /\ l = 0 => data' = data
  <2>1. CASE names = <<>>
    <3>1. data' = data /\ names' = <<>> /\ atEnd' = TRUE /\ Len(names') = 0
      BY <2>1 DEF NextName
    <3>2. Len(names) = 0
      BY <2>1
    <3>3. l <= c /\ c + 1 = L
      BY <1>2, <1>3, <1>4, <3>2
    <3>4. data = F[c + 1]
      <4>1. CASE l = 0
        <5>1. c = 0 /\ c + 1 = 1
          BY <1>2, <1>3, <1>4, <4>1
        <5>. QED BY <1>3, <4>1, <5>1
      <4>2. CASE l # 0
        <5>1. c = l /\ listing.newline /\ l \in 1 .. l
          BY <1>2, <1>3, <1>4, <3>3, <4>2
        <5>. QED BY <1>3, <1>4, <4>2, <5>1
      <4>. QED BY <4>1, <4>2
    <3>5. 0 = IF c + 1 <= l THEN l - (c + 1) ELSE 0
      BY <1>2, <1>3, <3>3
    <3>6. \A i \in 1 .. 0 : FALSE
      OBVIOUS
    <3>7. <<>> \in Seq(Range(listing.names))
      BY EmptySeq
    <3>. QED BY <3>1, <3>3, <3>4, <3>5, <3>6, <3>7
  <2>2. CASE names # <<>>
    <3>. DEFINE t == Tail(names)
    <3>1. /\ Len(names) \in Nat \ {0} /\ Head(names) = names[1]
          /\ t \in Seq(Range(listing.names)) /\ Len(t) = Len(names) - 1
          /\ \A i \in 1 .. Len(t) : t[i] = names[i + 1]
      BY <1>2, <2>2, EmptySeq, LenProperties, HeadTailProperties
    <3>2. /\ data' = Head(names) /\ names' = t
          /\ atEnd' = (Len(names) = 1 /\ ~listing.newline)
      BY <2>2 DEF NextName
    <3>. HIDE DEF t
    <3>3. Len(names) = l - c /\ c + 1 <= l /\ l # 0 /\ c + 1 \in 1 .. l /\ 1 \in 1 .. Len(names)
      BY <1>2, <1>3, <1>4, <3>1
    <3>4. data' = F[c + 1]
      BY <1>3, <1>4, <3>1, <3>2, <3>3
    <3>5. Len(t) = l - (c + 1)
      BY <1>2, <1>3, <3>1, <3>3
    <3>6. ASSUME NEW i \in 1 .. Len(t) PROVE t[i] = listing.names[(c + 1) + i]
      <4>1. i + 1 \in 1 .. Len(names) /\ c + (i + 1) = (c + 1) + i
        BY <1>2, <3>1
      <4>. QED BY <1>4, <3>1, <4>1
    <3>7. Len(names) = 1 /\ ~listing.newline <=> c + 1 = L
      BY <1>2, <1>3, <3>1, <3>3
    <3>. QED BY <1>3, <3>1, <3>2, <3>3, <3>4, <3>5, <3>6, <3>7
  <2>. QED BY <2>1, <2>2
<1>6. FilesRead' = FilesRead
  <2>1. listing.names = <<>> => l = 0
    BY DEF l
  <2>. QED BY <1>1, <1>5, <2>1 DEF FilesRead
<1>7. PrintedBackwards'
  BY DEF NextName, PrintedBackwards
<1>8. CASE ~ (data' \in DOMAIN Texts)
  <2>1. pc' = "failed" /\ UNCHANGED <<fileNum, text>>
    BY <1>8 DEF NextName
  <2>2. Typed'
    BY <1>1, <1>2, <1>5, <2>1 DEF Typed
  <2>. QED BY <1>7, <2>1, <2>2 DEF IInv
<1>9. CASE data' \in DOMAIN Texts
  <2>1. pc' = "text" /\ fileNum' = c /\ text' = Texts[data'] /\ text' \in Seq(Seq(Nat))
    BY <1>9, IndexAssumption DEF NextName, c
  <2>2. Dictionary(dict, c) /\ WithNumber(dict, c) = {}
    <3>1. c - 1 = fileNum
      BY <1>2 DEF c
    <3>2. Dictionary(dict, c) /\ \A w : ~ Numbered(dict, w, c)
      BY <1>2, <3>1, NextNumber
    <3>. QED BY <3>2 DEF Numbered, WithNumber
  <2>3. Typed'
    BY <1>1, <1>2, <1>5, <2>1, <2>2 DEF Typed
  <2>4. Progress'
    <3>1. c + 1 <= L /\ c + 1 # 0
      BY <1>2, <1>3, <1>4
    <3>2. l' = l /\ F' = F /\ L' = L
      BY <1>1, <1>6 DEF l, F, L
    <3>. QED BY <1>1, <1>5, <2>1, <3>1, <3>2 DEF Progress, l, F, L
  <2>5. Unwritten'
    <3>1. stale => fileNum = -1
      BY <1>1 DEF Unwritten
    <3>2. fileNum = -1 => c = 0
      BY DEF c
    <3>. QED BY <1>1, <2>1, <3>1, <3>2 DEF Unwritten
  <2>6. Exact'
    <3>1. SUFFICES ASSUME NEW n \in 0 .. c, n # 0 \/ Texts[F[1]] # <<>>
                   PROVE  WithNumber(dict, n) \cup (IF n = c THEN TextWords(text') ELSE {})
                            = TextWords(Texts[F[n + 1]])
      BY <1>1, <1>6, <2>1 DEF Exact, F
    <3>2. CASE n = c
      BY <1>5, <2>1, <2>2, <3>2
    <3>3. CASE n # c
      <4>1. n \in 0 .. fileNum
        BY <1>2, <3>3 DEF c
      <4>2. WithNumber(dict, n) \cup {} = TextWords(Texts[F[n + 1]])
        BY <1>1, <3>1, <4>1 DEF Exact, F
      <4>. QED BY <3>3, <4>2
    <3>. QED BY <3>2, <3>3
  <2>. QED BY <1>7, <2>3, <2>4, <2>5, <2>6 DEF IInv
<1>. QED BY <1>8, <1>9

-----------------------------------------------------------------------------
LEMMA SameFiles ==
  ASSUME UNCHANGED <<listing, data>>
  PROVE  FilesRead' = FilesRead
BY DEF FilesRead

(* A piece of the open file goes from the text to the dictionary.          *)
LEMMA PieceRead ==
  ASSUME IInv, ReadText
  PROVE  IInv'
<1>1. /\ Typed /\ Progress /\ Exact /\ pc = "text"
      /\ UNCHANGED <<listing, names, pc, data, fileNum, atEnd, alpha>> /\ stale' = FALSE
  BY DEF IInv, ReadText
<1>2. fileNum \in Nat /\ Dictionary(dict, fileNum)
  <2>1. fileNum \in Nat \cup {-1} /\ fileNum + 1 # 0
    BY <1>1 DEF Typed, Progress
  <2>. QED BY <1>1, <2>1 DEF Typed
<1>3. PICK W : /\ text' \in Seq(Seq(Nat))
               /\ IsFiniteSet(W) /\ W \subseteq Word
               /\ dict' = Indexed(dict, W, fileNum)
               /\ TextWords(text) = W \cup TextWords(text')
  BY <1>1, TextRead DEF Typed
<1>4. /\ Dictionary(dict', fileNum)
      /\ WithNumber(dict', fileNum) = WithNumber(dict, fileNum) \cup W
      /\ \A m : m # fileNum => WithNumber(dict', m) = WithNumber(dict, m)
  BY <1>2, <1>3, NumberAdded
<1>5. FilesRead' = FilesRead
  BY <1>1, SameFiles
<1>6. Typed'
  BY <1>1, <1>3, <1>4 DEF Typed
<1>7. Progress'
  BY <1>1, <1>5 DEF Progress
<1>8. Unwritten'
  BY <1>1 DEF Unwritten
<1>9. Exact'
  <2>1. SUFFICES ASSUME NEW n \in 0 .. fileNum, n # 0 \/ Texts[FilesRead[1]] # <<>>
                 PROVE  WithNumber(dict', n) \cup (IF n = fileNum THEN TextWords(text') ELSE {})
                          = TextWords(Texts[FilesRead[n + 1]])
    BY <1>1, <1>5 DEF Exact
  <2>2. WithNumber(dict, n) \cup (IF n = fileNum THEN TextWords(text) ELSE {})
          = TextWords(Texts[FilesRead[n + 1]])
    BY <1>1, <2>1 DEF Exact
  <2>3. CASE n = fileNum
    BY <1>3, <1>4, <2>2, <2>3
  <2>4. CASE n # fileNum
    BY <1>4, <2>2, <2>4
  <2>. QED BY <2>3, <2>4
<1>10. PrintedBackwards'
  BY <1>1 DEF PrintedBackwards
<1>. QED BY <1>6, <1>7, <1>8, <1>9, <1>10 DEF IInv

(* The last round of a file adds nothing, unless content was never written *)
(* and the first file is empty.                                            *)
LEMMA TextEnds ==
  ASSUME IInv, EndOfText
  PROVE  IInv'
<1>1. /\ Typed /\ Progress /\ Unwritten /\ Exact /\ pc = "text" /\ text = <<>>
      /\ UNCHANGED <<listing, names, data, fileNum, text, atEnd, alpha>>
      /\ stale' = FALSE /\ pc' = "names"
  BY DEF IInv, EndOfText
<1>2. fileNum \in Nat /\ Dictionary(dict, fileNum)
  <2>1. fileNum \in Nat \cup {-1} /\ fileNum + 1 # 0
    BY <1>1 DEF Typed, Progress
  <2>. QED BY <1>1, <2>1 DEF Typed
<1>3. PICK piece \in (IF stale THEN Garbage ELSE {<<>>}) :
        dict' = Indexed(dict, Words(piece), fileNum)
  BY DEF EndOfText
<1>4. piece \in Seq(Nat)
  <2>1. <<>> \in Seq(Nat)
    OBVIOUS
  <2>. QED BY <1>3, <2>1, IndexAssumption
<1>5. IsFiniteSet(Words(piece)) /\ Words(piece) \subseteq Word
  BY <1>4, WordsFacts
<1>6. /\ Dictionary(dict', fileNum)
      /\ WithNumber(dict', fileNum) = WithNumber(dict, fileNum) \cup Words(piece)
      /\ \A m : m # fileNum => WithNumber(dict', m) = WithNumber(dict, m)
  BY <1>2, <1>3, <1>5, NumberAdded
<1>7. FilesRead' = FilesRead
  BY <1>1, SameFiles
<1>8. Typed'
  BY <1>1, <1>6 DEF Typed
<1>9. Progress'
  BY <1>1, <1>7 DEF Progress
<1>10. Unwritten'
  BY <1>1 DEF Unwritten
<1>11. Exact'
  <2>1. SUFFICES ASSUME NEW n \in 0 .. fileNum, n # 0 \/ Texts[FilesRead[1]] # <<>>
                 PROVE  WithNumber(dict', n) = TextWords(Texts[FilesRead[n + 1]])
    BY <1>1, <1>7 DEF Exact
  <2>2. WithNumber(dict, n) \cup (IF n = fileNum THEN TextWords(text) ELSE {})
          = TextWords(Texts[FilesRead[n + 1]])
    BY <1>1, <2>1 DEF Exact
  <2>3. TextWords(text) = {}
    BY <1>1, NoText
  <2>4. n = fileNum => ~ stale
    <3>1. ASSUME stale, n = fileNum PROVE FALSE
      <4>1. fileNum = 0 /\ Texts[data] = <<>>
        BY <1>1, <3>1 DEF Unwritten
      <4>2. data = FilesRead[1]
        <5>1. fileNum + 1 # 0 /\ fileNum + 1 = 1
          BY <4>1
        <5>. QED BY <1>1, <5>1 DEF Progress
      <4>. QED BY <2>1, <3>1, <4>1, <4>2
    <3>. QED BY <3>1
  <2>5. n = fileNum => Words(piece) = {}
    BY <1>3, <2>4, NoWords
  <2>. QED BY <1>6, <2>2, <2>3, <2>5
<1>12. PrintedBackwards'
  BY <1>1 DEF PrintedBackwards
<1>. QED BY <1>8, <1>9, <1>10, <1>11, <1>12 DEF IInv

(* What is printed is sorted once the listing has ended.                   *)
LEMMA IndexPrinted ==
  ASSUME IInv, PrintIndex
  PROVE  IInv'
<1>1. /\ Typed /\ Progress /\ Unwritten /\ Exact /\ pc = "names" /\ atEnd
      /\ UNCHANGED <<listing, names, data, fileNum, text, stale, atEnd, dict>>
      /\ pc' = "done" /\ alpha' = Sort(Keys)
  BY DEF IInv, PrintIndex
<1>2. FilesRead' = FilesRead
  BY <1>1, SameFiles
<1>3. Keys' = Keys
  BY <1>1 DEF Keys
<1>4. /\ Len(Sort(Keys)) = Len(Keys)
      /\ \A i, j \in DOMAIN Sort(Keys) : i < j => Before(Sort(Keys)[j], Sort(Keys)[i])
  BY <1>1, SortedKeys DEF Typed, Dictionary
<1>5. PrintedBackwards'
  BY <1>1, <1>3, <1>4 DEF PrintedBackwards
<1>6. Typed'
  BY <1>1 DEF Typed
<1>7. Progress'
  BY <1>1, <1>2 DEF Progress
<1>8. Unwritten'
  <2>1. stale => fileNum = -1
    BY <1>1 DEF Unwritten
  <2>2. fileNum # -1
    <3>1. fileNum + 1 = Len(FilesRead) /\ fileNum \in Nat \cup {-1}
      BY <1>1 DEF Progress, Typed
    <3>2. Len(FilesRead) # 0
      <4>1. Len(FilesRead) \in Nat \ {0}
        BY <1>1, FilesReadMeans, Zenon DEF Typed
      <4>. QED BY <4>1
    <3>. QED BY <3>1, <3>2
  <2>. QED BY <1>1, <2>1, <2>2 DEF Unwritten
<1>9. Exact'
  BY <1>1, <1>2 DEF Exact
<1>. QED BY <1>5, <1>6, <1>7, <1>8, <1>9 DEF IInv

LEMMA NextInv == IInv /\ [Next]_vars => IInv'
<1>1. ASSUME IInv, UNCHANGED vars PROVE IInv'
  <2>1. FilesRead' = FilesRead /\ Keys' = Keys
    BY <1>1 DEF vars, FilesRead, Keys
  <2>. QED BY <1>1, <2>1
         DEF vars, IInv, Typed, PrintedBackwards, Progress, Unwritten, Exact
<1>. QED BY <1>1, NameRead, PieceRead, TextEnds, IndexPrinted DEF Next, Ended

LEMMA AlwaysIInv == Spec => []IInv
BY InitInv, NextInv, PTL DEF Spec

-----------------------------------------------------------------------------
(* When the index is printed, the numbers of a word are in order and once  *)
(* each, and every file that was read has its number at its words and at   *)
(* no other, for any listing and any texts.                                *)
THEOREM IndexIsRight == Spec => []IndexIsExact
<1>1. ASSUME IInv, pc = "done"
      PROVE  /\ \A w \in DOMAIN dict :
                  /\ dict[w] # <<>> /\ Range(dict[w]) \subseteq 0 .. Len(FilesRead) - 1
                  /\ \A i \in 1 .. Len(dict[w]) - 1 : dict[w][i] < dict[w][i + 1]
             /\ \A n \in 0 .. Len(FilesRead) - 1 :
                  n # 0 \/ Texts[FilesRead[1]] # <<>> =>
                    {w \in DOMAIN dict : n \in Range(dict[w])} = TextWords(Texts[FilesRead[n + 1]])
  <2>. DEFINE L == Len(FilesRead)
  <2>1. Typed /\ Progress /\ Exact
    BY <1>1 DEF IInv
  <2>2. Dictionary(dict, L - 1) /\ fileNum = L - 1
    <3>1. fileNum \in Nat \cup {-1} /\ fileNum + 1 = L /\ Dictionary(dict, fileNum)
      BY <1>1, <2>1 DEF Typed, Progress
    <3>. HIDE DEF L
    <3>2. fileNum = L - 1
      BY <3>1
    <3>. QED BY <3>1, <3>2
  <2>. HIDE DEF L
  <2>3. ASSUME NEW w \in DOMAIN dict
        PROVE  /\ Len(dict[w]) \in Nat \ {0} /\ DOMAIN dict[w] = 1 .. Len(dict[w])
               /\ dict[w] # <<>>
               /\ \A i \in 1 .. Len(dict[w]) : dict[w][i] \in 0 .. L - 1
               /\ \A i, j \in 1 .. Len(dict[w]) : i < j => dict[w][i] < dict[w][j]
    <3>1. dict[w] \in Seq(0 .. L - 1) /\ Len(dict[w]) # 0
      BY <2>2 DEF Dictionary
    <3>. QED BY <2>2, <3>1, EmptySeq, LenProperties, ElementOfSeq DEF Dictionary
  <2>4. \A w \in DOMAIN dict : Range(dict[w]) \subseteq 0 .. L - 1
    BY <2>3 DEF Range
  <2>5. ASSUME NEW w \in DOMAIN dict, NEW i \in 1 .. Len(dict[w]) - 1
        PROVE  dict[w][i] < dict[w][i + 1]
    <3>1. i \in 1 .. Len(dict[w]) /\ i + 1 \in 1 .. Len(dict[w]) /\ i < i + 1
      BY <2>3
    <3>. QED BY <2>3, <3>1
  <2>6. ASSUME NEW n \in 0 .. L - 1, n # 0 \/ Texts[FilesRead[1]] # <<>>
        PROVE  {w \in DOMAIN dict : n \in Range(dict[w])} = TextWords(Texts[FilesRead[n + 1]])
    <3>1. WithNumber(dict, n) = TextWords(Texts[FilesRead[n + 1]])
      BY <1>1, <2>1, <2>2, <2>6 DEF Exact
    <3>2. {w \in DOMAIN dict : n \in Range(dict[w])} = WithNumber(dict, n)
      BY <2>3 DEF Range, WithNumber
    <3>. QED BY <3>1, <3>2
  <2>. QED BY <2>3, <2>4, <2>5, <2>6 DEF L
<1>2. IInv => IndexIsExact
  BY <1>1 DEF IndexIsExact
<1>. QED BY <1>2, AlwaysIInv, PTL

(* The words come out last to first, however many there are: a predicate   *)
(* that holds of any two words makes list::sort reverse the list.          *)
THEOREM PrintsBackwards == Spec => []PrintedBackwards
<1>1. IInv => PrintedBackwards
  BY DEF IInv
<1>. QED BY <1>1, AlwaysIInv, PTL
=============================================================================
