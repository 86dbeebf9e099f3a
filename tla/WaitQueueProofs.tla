-------------------------- MODULE WaitQueueProofs --------------------------
(***************************************************************************)
(* What the loop of pop computes, for every list and every width of int.   *)
(***************************************************************************)
EXTENDS MCWaitQueue, SequenceFacts

(* What int arithmetic makes of a number that is at most 2^w too far out.  *)
LEMMA WrapIsOnce ==
  ASSUME NEW x \in Int, x < 2 * IntMax + 2, -x < 2 * IntMax + 2
  PROVE  /\ x \in Ints   => Wrap(x) = x
         /\ x > IntMax   => Wrap(x) = x - (2 * IntMax + 2)
         /\ x < IntMin   => Wrap(x) = x + (2 * IntMax + 2)
<1>. DEFINE m == 2 * IntMax + 2
            y == x - IntMin
<1>1. IntMax \in Nat /\ IntMin = -IntMax - 1 /\ m \in Nat /\ m > 0 /\ y \in Int
  BY IntMaxAssumption DEF IntMin
<1>2. /\ x \in Ints => 0 <= y /\ y < m
      /\ x > IntMax => 0 <= y - m /\ y - m < m
      /\ x < IntMin => 0 <= y + m /\ y + m < m
  BY <1>1 DEF Ints
<1>3. ASSUME NEW n \in Nat \ {0}, NEW z \in Int
      PROVE  /\ 0 <= z /\ z < n => z % n = z
             /\ 0 <= z - n /\ z - n < n => z % n = z - n
             /\ 0 <= z + n /\ z + n < n => z % n = z + n
  <2>1. CASE 0 <= z /\ z < n
    BY <1>3, <2>1
  <2>2. CASE 0 <= z - n /\ z - n < n
    <3>1. z = n * 1 + (z - n)
      BY <1>3
    <3>. QED BY <1>3, <2>2, <3>1
  <2>3. CASE 0 <= z + n /\ z + n < n
    <3>1. z = n * (-1) + (z + n)
      BY <1>3
    <3>. QED BY <1>3, <2>3, <3>1
  <2>. QED BY <1>3, <2>1, <2>2, <2>3
<1>4. /\ x \in Ints => y % m = y
      /\ x > IntMax => y % m = y - m
      /\ x < IntMin => y % m = y + m
  <2>. HIDE DEF m, y
  <2>. QED BY <1>1, <1>2, <1>3
<1>5. Wrap(x) = (y % m) + IntMin
  BY DEF Wrap
<1>. QED BY <1>1, <1>4, <1>5

(* The distance that pop computes: the true one while it is an int; the    *)
(* least int for one more than INT_MAX; beyond that, what the difference   *)
(* is when it has gone round.                                              *)
LEMMA SeekWraps ==
  ASSUME NEW a \in Ints, NEW b \in Ints
  PROVE  /\ Distance(a, b) \in Nat /\ Distance(a, b) < 2 * IntMax + 2
         /\ Distance(a, b) <= IntMax => Seek(a, b) = Distance(a, b)
         /\ Distance(a, b) = IntMax + 1 => Seek(a, b) = IntMin
         /\ Distance(a, b) > IntMax + 1 =>
              Seek(a, b) = 2 * IntMax + 2 - Distance(a, b)
<1>. DEFINE d == a - b
<1>1. /\ IntMax \in Nat /\ IntMin = -IntMax - 1 /\ d \in Int
      /\ d < 2 * IntMax + 2 /\ -d < 2 * IntMax + 2
      /\ Distance(a, b) = IF d >= 0 THEN d ELSE -d
  BY IntMaxAssumption DEF IntMin, Ints, Distance
<1>2. Seek(a, b) = CAbs(Wrap(d))
  BY DEF Seek
<1>. HIDE DEF d
<1>3. CASE d \in Ints
  <2>1. Wrap(d) = d
    BY <1>1, <1>3, WrapIsOnce
  <2>2. CASE d >= 0
    BY <1>1, <1>2, <1>3, <2>1, <2>2 DEF CAbs, Ints
  <2>3. CASE d < 0 /\ d # IntMin
    <3>1. -d \in Ints
      BY <1>1, <1>3, <2>3 DEF Ints
    <3>2. Wrap(-d) = -d
      BY <1>1, <3>1, WrapIsOnce
    <3>. QED BY <1>1, <1>2, <2>1, <2>3, <3>1, <3>2 DEF CAbs, Ints
  <2>4. CASE d = IntMin
    <3>1. Wrap(-d) = IntMin
      BY <1>1, <2>4, WrapIsOnce
    <3>. QED BY <1>1, <1>2, <2>1, <2>4, <3>1 DEF CAbs
  <2>. QED BY <1>1, <2>2, <2>3, <2>4
<1>4. CASE d > IntMax
  <2>1. Wrap(d) = d - (2 * IntMax + 2)
    BY <1>1, <1>4, WrapIsOnce
  <2>2. CASE d = IntMax + 1
    <3>1. Wrap(d) = IntMin /\ Wrap(-IntMin) = IntMin
      BY <1>1, <2>1, <2>2
    <3>. QED BY <1>1, <1>2, <2>2, <3>1 DEF CAbs
  <2>3. CASE d # IntMax + 1
    <3>. DEFINE w == d - (2 * IntMax + 2)
    <3>1. w < 0 /\ -w \in Ints /\ -w \in Int /\ -w < 2 * IntMax + 2 /\ -(-w) < 2 * IntMax + 2
      BY <1>1, <1>4, <2>3 DEF Ints
    <3>2. Wrap(-w) = -w
      <4>. HIDE DEF w
      <4>. QED BY <3>1, WrapIsOnce
    <3>. QED BY <1>1, <1>2, <1>4, <2>1, <2>3, <3>1, <3>2 DEF CAbs
  <2>. QED BY <2>2, <2>3
<1>5. CASE d < IntMin
  <2>1. Wrap(d) = d + (2 * IntMax + 2)
    BY <1>1, <1>5, WrapIsOnce
  <2>2. d + (2 * IntMax + 2) >= 0
    BY <1>1
  <2>. QED BY <1>1, <1>2, <1>5, <2>1, <2>2 DEF CAbs
<1>. QED BY <1>1, <1>3, <1>4, <1>5 DEF Ints

(* What one pass through the loop does to the least difference so far and  *)
(* to the position it was found at.                                        *)
Look(q, track, i, s) ==
  IF i = 0 THEN [min |-> IntMax, best |-> 0]
  ELSE IF Seek(q[i].track, track) < s.min
       THEN [min |-> Seek(q[i].track, track), best |-> i]
       ELSE s

(* f records the passes 0 .. n.                                            *)
Passes(q, track, n, f) == f = [i \in 0 .. n |-> Look(q, track, i, f[i - 1])]

(* The loop can be run to any length: the least one it could not be run to *)
(* would be the next after one it can be run to.                           *)
LEMMA PassesExist ==
  ASSUME NEW q, NEW track, NEW n \in Nat
  PROVE  \E f : Passes(q, track, n, f)
<1>. DEFINE S == {m \in Nat : ~ \E f : Passes(q, track, m, f)}
<1>1. ASSUME S # {} PROVE FALSE
  <2>1. PICK m \in S : \A k \in S : m <= k
    <3>. HIDE DEF S
    <3>. QED BY <1>1, LeastElement DEF S
  <2>2. CASE m = 0
    <3>. DEFINE f == [i \in 0 .. 0 |-> Look(q, track, 0, 0)]
    <3>1. f = [i \in 0 .. 0 |-> Look(q, track, i, f[i - 1])]
      BY DEF Look
    <3>. QED BY <2>1, <2>2, <3>1 DEF Passes
  <2>3. CASE m # 0
    <3>1. m - 1 \in Nat /\ m - 1 \notin S
      BY <2>1, <2>3
    <3>2. PICK g : Passes(q, track, m - 1, g)
      BY <3>1
    <3>. DEFINE f == [i \in 0 .. m |-> IF i = m THEN Look(q, track, m, g[m - 1]) ELSE g[i]]
    <3>3. \A i \in 0 .. m - 1 : g[i] = Look(q, track, i, g[i - 1])
      BY <3>2 DEF Passes
    <3>4. ASSUME NEW i \in 0 .. m PROVE f[i] = Look(q, track, i, f[i - 1])
      <4>1. CASE i = 0
        <5>1. f[0] = Look(q, track, 0, g[0 - 1])
          BY <2>3, <3>1, <3>3
        <5>2. \A x, y : Look(q, track, 0, x) = Look(q, track, 0, y)
          BY DEF Look
        <5>. HIDE DEF f
        <5>. QED BY <4>1, <5>1, <5>2
      <4>2. CASE i \in 1 .. m - 1
        BY <3>1, <3>3, <4>2
      <4>3. CASE i = m
        BY <2>3, <3>1, <4>3
      <4>. QED BY <3>1, <4>1, <4>2, <4>3
    <3>5. f = [i \in 0 .. m |-> Look(q, track, i, f[i - 1])]
      BY <3>4
    <3>. QED BY <2>1, <3>5 DEF Passes
  <2>. QED BY <2>2, <2>3
<1>. QED BY <1>1

LEMMA ScanUnfolds ==
  ASSUME NEW q, NEW track, Len(q) \in Nat
  PROVE  \E f : Passes(q, track, Len(q), f) /\ Scan(q, track) = f[Len(q)]
<1>. DEFINE f == CHOOSE g : Passes(q, track, Len(q), g)
<1>1. Passes(q, track, Len(q), f)
  BY PassesExist
<1>2. Scan(q, track) = f[Len(q)]
  BY DEF Scan, Passes, Look
<1>. QED BY <1>1, <1>2

(* A list of requests, whatever else than their tracks they hold.          *)
Requests(q) == Len(q) \in Nat /\ DOMAIN q = 1 .. Len(q) /\ \A i \in DOMAIN q : q[i].track \in Ints

(* After i passes: the least difference among the first i requests, if it  *)
(* is below INT_MAX, and the first position that has it.                   *)
Seen(q, track, i, s) ==
  /\ s.min \in Int /\ s.best \in 0 .. i
  /\ \A j \in 1 .. i : s.min <= Seek(q[j].track, track)
  /\ s.best = 0 => s.min = IntMax
  /\ s.best # 0 => /\ s.min = Seek(q[s.best].track, track)
                   /\ s.min < IntMax
                   /\ \A j \in 1 .. s.best - 1 : s.min < Seek(q[j].track, track)

LEMMA ScanSees ==
  ASSUME NEW q, Requests(q), NEW track \in Ints
  PROVE  Seen(q, track, Len(q), Scan(q, track))
<1>1. Len(q) \in Nat /\ DOMAIN q = 1 .. Len(q) /\ IntMax \in Nat
  BY IntMaxAssumption DEF Requests
<1>2. PICK f : Passes(q, track, Len(q), f) /\ Scan(q, track) = f[Len(q)]
  BY <1>1, ScanUnfolds
<1>3. \A i \in 0 .. Len(q) : f[i] = Look(q, track, i, f[i - 1])
  BY <1>2 DEF Passes
<1>4. \A i \in 1 .. Len(q) : Seek(q[i].track, track) \in Int
  <2>1. \A i \in 1 .. Len(q) : q[i].track - track \in Int
    BY <1>1 DEF Requests, Ints, IntMin
  <2>2. \A x \in Int : Wrap(x) \in Int
    BY <1>1 DEF Wrap, IntMin
  <2>3. \A x \in Int : CAbs(x) \in Int
    BY <2>2 DEF CAbs
  <2>. QED BY <2>1, <2>2, <2>3 DEF Seek
<1>. DEFINE S == {i \in 0 .. Len(q) : ~ Seen(q, track, i, f[i])}
<1>5. ASSUME S # {} PROVE FALSE
  <2>1. PICK m \in S : \A k \in S : m <= k
    <3>1. S \subseteq Nat
      BY <1>1
    <3>. HIDE DEF S
    <3>. QED BY <1>5, <3>1, LeastElement
  <2>2. m \in 0 .. Len(q) /\ f[m] = Look(q, track, m, f[m - 1]) /\ ~ Seen(q, track, m, f[m])
    BY <2>1, <1>3
  <2>3. CASE m = 0
    BY <1>1, <2>2, <2>3 DEF Look, Seen
  <2>4. CASE m # 0
    <3>1. /\ m - 1 \in 0 .. Len(q) /\ m \in 1 .. Len(q) /\ Seen(q, track, m - 1, f[m - 1])
          /\ 1 .. m = (1 .. m - 1) \cup {m}
      BY <1>1, <2>1, <2>4
    <3>. HIDE DEF S
    <3>. DEFINE d(j) == Seek(q[j].track, track)
                s == f[m - 1]
    <3>4. /\ s.min \in Int /\ s.best \in 0 .. m - 1
          /\ \A j \in 1 .. m - 1 : s.min <= d(j)
          /\ s.best = 0 => s.min = IntMax
          /\ s.best # 0 => s.min = d(s.best) /\ s.min < IntMax
          /\ \A j \in 1 .. s.best - 1 : s.best # 0 => s.min < d(j)
      BY <3>1 DEF Seen
    <3>5. \A j \in 1 .. m : d(j) \in Int
      BY <1>4, <3>1
    <3>2. CASE Seek(q[m].track, track) < f[m - 1].min
      <4>1. f[m].min = d(m) /\ f[m].best = m /\ d(m) < s.min
        BY <2>2, <2>4, <3>2 DEF Look
      <4>. HIDE DEF d, s
      <4>2. /\ f[m].min \in Int /\ f[m].best \in 0 .. m /\ f[m].best # 0 /\ f[m].min < IntMax
            /\ \A j \in 1 .. m - 1 : f[m].min < d(j)
        BY <1>1, <3>1, <3>4, <3>5, <4>1
      <4>3. \A j \in 1 .. m : f[m].min <= d(j)
        BY <3>1, <3>5, <4>1, <4>2
      <4>. QED BY <2>2, <4>1, <4>2, <4>3 DEF Seen, d
    <3>3. CASE ~ (Seek(q[m].track, track) < f[m - 1].min)
      <4>1. f[m] = s /\ ~ (d(m) < s.min)
        BY <2>2, <2>4, <3>3 DEF Look
      <4>. HIDE DEF d, s
      <4>2. \A j \in 1 .. m : s.min <= d(j)
        BY <3>1, <3>4, <3>5, <4>1
      <4>3. s.best \in 0 .. m
        BY <1>1, <3>1, <3>4
      <4>. QED BY <2>2, <3>4, <4>1, <4>2, <4>3 DEF Seen, d
    <3>. QED BY <3>2, <3>3
  <2>. QED BY <2>3, <2>4
<1>. QED BY <1>1, <1>2, <1>5

(* pop takes a request of the list, or the wild pointer it returns without *)
(* having set it.                                                          *)
LEMMA PopStaysInside ==
  ASSUME NEW q, Requests(q), NEW track \in Ints
  PROVE  PopChoices(q, track) \subseteq 0 .. Len(q)
BY ScanSees DEF PopChoices, Seen

(* What pop takes is the oldest of the nearest requests, unless its own    *)
(* distance is beyond INT_MAX.                                             *)
LEMMA PopIsNearestInRange ==
  ASSUME NEW q, Requests(q), NEW track \in Ints,
         NEW i \in PopChoices(q, track), i # 0, Distance(q[i].track, track) < IntMax
  PROVE  Scan(q, track).best = i /\ IsNearest(q, track, i)
<1>. DEFINE d(j) == Distance(q[j].track, track)
            k(j) == Seek(q[j].track, track)
            s == Scan(q, track)
<1>1. Len(q) \in Nat /\ DOMAIN q = 1 .. Len(q) /\ IntMax \in Nat /\ i \in 1 .. Len(q)
  BY IntMaxAssumption, PopStaysInside DEF Requests
<1>2. \A j \in 1 .. Len(q) :
        /\ d(j) \in Nat
        /\ d(j) <= IntMax => k(j) = d(j)
  BY <1>1, SeekWraps DEF Requests
<1>3. Seen(q, track, Len(q), s)
  BY ScanSees
<1>4. s.best # 0
  <2>1. s.min <= k(i) /\ k(i) = d(i) /\ d(i) < IntMax /\ d(i) \in Nat /\ s.min \in Int
    <3>1. s.min <= k(i) /\ s.min \in Int
      BY <1>1, <1>3 DEF Seen
    <3>2. d(i) < IntMax
      OBVIOUS
    <3>. HIDE DEF d, k, s
    <3>3. d(i) \in Nat /\ (d(i) <= IntMax => k(i) = d(i))
      BY <1>1, <1>2
    <3>. QED BY <1>1, <3>1, <3>2, <3>3
  <2>2. s.best = 0 => s.min = IntMax
    BY <1>3 DEF Seen
  <2>. HIDE DEF d, k, s
  <2>. QED BY <1>1, <2>1, <2>2
<1>5. i = s.best
  BY <1>4 DEF PopChoices
<1>6. /\ s.min = k(i)
      /\ \A j \in 1 .. Len(q) : s.min <= k(j)
      /\ \A j \in 1 .. i - 1 : s.min < k(j)
  BY <1>3, <1>4, <1>5 DEF Seen
<1>7. d(i) < IntMax
  OBVIOUS
<1>8. \A j \in 1 .. Len(q) : d(i) <= d(j) /\ (j < i => d(i) < d(j))
  <2>. HIDE DEF d, k, s
  <2>1. d(i) \in Nat /\ k(i) = d(i)
    BY <1>1, <1>2, <1>7
  <2>2. ASSUME NEW j \in 1 .. Len(q) PROVE d(i) <= d(j) /\ (j < i => d(i) < d(j))
    <3>1. d(j) \in Nat /\ (d(j) <= IntMax => k(j) = d(j)) /\ d(i) <= k(j)
      BY <1>2, <1>6, <2>1, <2>2
    <3>2. j < i => d(i) < k(j)
      BY <1>1, <1>6, <2>1, <2>2
    <3>. QED BY <1>1, <1>7, <2>1, <3>1, <3>2
  <2>. QED BY <2>2
<1>. QED BY <1>1, <1>5, <1>8 DEF IsNearest

(* perfectNode stays uninitialised when no distance comes out as less than *)
(* INT_MAX, and only then.                                                 *)
LEMMA PopIsWild ==
  ASSUME NEW q, Requests(q), NEW track \in Ints
  PROVE  0 \in PopChoices(q, track) <=>
           \A j \in DOMAIN q : Distance(q[j].track, track) \in {IntMax, IntMax + 2}
<1>. DEFINE d(j) == Distance(q[j].track, track)
            k(j) == Seek(q[j].track, track)
            s == Scan(q, track)
<1>1. Len(q) \in Nat /\ DOMAIN q = 1 .. Len(q) /\ IntMax \in Nat /\ IntMin = -IntMax - 1
  BY IntMaxAssumption DEF Requests, IntMin
<1>2. \A j \in 1 .. Len(q) :
        /\ d(j) \in Nat /\ d(j) < 2 * IntMax + 2
        /\ d(j) <= IntMax => k(j) = d(j)
        /\ d(j) = IntMax + 1 => k(j) = IntMin
        /\ d(j) > IntMax + 1 => k(j) = 2 * IntMax + 2 - d(j)
  BY <1>1, SeekWraps DEF Requests
<1>3. /\ s.min \in Int /\ s.best \in 0 .. Len(q)
      /\ \A j \in 1 .. Len(q) : s.min <= k(j)
      /\ s.best = 0 => s.min = IntMax
      /\ s.best # 0 => s.min = k(s.best) /\ s.min < IntMax
  BY ScanSees DEF Seen
<1>4. 0 \in PopChoices(q, track) <=> s.best = 0
  BY <1>1 DEF PopChoices
<1>. HIDE DEF d, k, s
<1>5. \A j \in 1 .. Len(q) : k(j) >= IntMax <=> d(j) \in {IntMax, IntMax + 2}
  <2>1. ASSUME NEW j \in 1 .. Len(q) PROVE k(j) >= IntMax <=> d(j) \in {IntMax, IntMax + 2}
    <3>1. /\ d(j) \in Nat /\ d(j) < 2 * IntMax + 2
          /\ d(j) <= IntMax => k(j) = d(j)
          /\ d(j) = IntMax + 1 => k(j) = IntMin
          /\ d(j) > IntMax + 1 => k(j) = 2 * IntMax + 2 - d(j)
      BY <1>2, <2>1
    <3>. QED BY <1>1, <3>1
  <2>. QED BY <2>1
<1>6. \A j \in 1 .. Len(q) : k(j) \in Int
  BY <1>1, <1>2
<1>7. s.best = 0 <=> \A j \in 1 .. Len(q) : k(j) >= IntMax
  BY <1>1, <1>3, <1>6
<1>8. s.best = 0 <=> \A j \in 1 .. Len(q) : d(j) \in {IntMax, IntMax + 2}
  BY <1>5, <1>7
<1>. QED BY <1>1, <1>4, <1>8 DEF d

(* Without overflow it takes the oldest of the nearest requests.           *)
LEMMA PopIsNearest ==
  ASSUME NEW q, Requests(q), NEW track \in Ints, Len(q) # 0,
         \A j \in DOMAIN q : Distance(q[j].track, track) < IntMax
  PROVE  0 \notin PopChoices(q, track) /\ \A i \in PopChoices(q, track) : IsNearest(q, track, i)
<1>1. Len(q) \in Nat /\ DOMAIN q = 1 .. Len(q) /\ 1 \in DOMAIN q /\ IntMax \in Nat
  BY IntMaxAssumption DEF Requests
<1>2. Distance(q[1].track, track) \in Nat /\ Distance(q[1].track, track) < IntMax
  BY <1>1, SeekWraps DEF Requests
<1>3. 0 \notin PopChoices(q, track)
  <2>1. Distance(q[1].track, track) \notin {IntMax, IntMax + 2}
    BY <1>1, <1>2
  <2>. QED BY <1>1, <2>1, PopIsWild
<1>4. ASSUME NEW i \in PopChoices(q, track) PROVE IsNearest(q, track, i)
  <2>1. i \in DOMAIN q /\ i # 0
    BY <1>1, <1>3, <1>4, PopStaysInside
  <2>. QED BY <1>4, <2>1, PopIsNearestInRange
<1>. QED BY <1>3, <1>4

-----------------------------------------------------------------------------
(* The lists that append and pop can build.                                *)
Lists == list \in Seq([track : Ints]) /\ current \in Ints

LEMMA ListsAreRequests ==
  ASSUME NEW q \in Seq([track : Ints])
  PROVE  Requests(q)
<1>1. \A i \in DOMAIN q : q[i] \in [track : Ints]
  BY LenProperties, ElementOfSeq
<1>. QED BY <1>1, LenProperties DEF Requests

LEMMA ListsAreKept == Lists /\ [Next]_vars => Lists'
<1>. SUFFICES ASSUME Lists, [Next]_vars PROVE Lists'
  OBVIOUS
<1>1. ASSUME NEW track \in Ints, AppendCall(track) PROVE Lists'
  <2>1. Append(list, [track |-> track]) \in Seq([track : Ints])
    BY AppendProperties DEF Lists
  <2>. QED BY <1>1, <2>1 DEF AppendCall, Appended, Lists
<1>2. CASE PopCall
  <2>1. PICK i \in PopChoices(list, current) \ {0} :
          list' = RemoveAt(list, i) /\ current' = list[i].track
    BY <1>2 DEF PopCall
  <2>2. Requests(list)
    BY ListsAreRequests DEF Lists
  <2>3. PopChoices(list, current) \subseteq 0 .. Len(list)
    BY <2>2, PopStaysInside DEF Lists
  <2>4. i \in 1 .. Len(list)
    BY <2>2, <2>3 DEF Requests
  <2>. QED BY <2>1, <2>2, <2>4, RemoveAtProperties DEF Lists, Requests
<1>3. CASE UNCHANGED vars
  BY <1>3 DEF vars, Lists
<1>. QED BY <1>1, <1>2, <1>3 DEF Next

(* From every list that its callers can build, and for every width of int, *)
(* pop takes the oldest of the nearest requests unless what it takes       *)
(* overflows, and returns perfectNode uninitialised exactly when the list  *)
(* is empty or every distance comes out as INT_MAX.                        *)
THEOREM PopServesNearest == Spec => []PopTakesNearest
<1>1. Init => Lists
  BY EmptySeq DEF Init, Lists
<1>2. Lists => PopTakesNearest
  <2>. SUFFICES ASSUME Lists PROVE PopTakesNearest
    OBVIOUS
  <2>1. Requests(list) /\ current \in Ints
    BY ListsAreRequests DEF Lists
  <2>. QED BY <2>1, PopIsNearestInRange, PopIsWild DEF PopTakesNearest
<1>. QED BY <1>1, <1>2, ListsAreKept, PTL DEF Spec
=============================================================================
