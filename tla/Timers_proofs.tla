---------------------------- MODULE Timers_proofs ----------------------------
(***************************************************************************)
(* The proofs about the timers, for any number of them, any range of the   *)
(* clock and any delays that stay away from half of that range.            *)
(*                                                                         *)
(* Everything is said in terms of how far an entry's time is from the      *)
(* clock (Off): the first part is the arithmetic of times that wrap, which *)
(* makes the signed comparisons of the code comparisons of these distances.*)
(* The second part is the list, the third what the calls do to it, and the *)
(* last takes the actions one by one.                                      *)
(***************************************************************************)
EXTENDS Timers, TLAPS, SequenceTheorems, WellFoundedInduction

\* How far the time of an entry is from what the clock shows.
Off(e) == Signed(e.expires, clock)

\* An entry is no later and no further ahead than times can be told apart, and
\* its distance is the wait it has yet, unless the clock was set back.
Decent(e) ==
  /\ Off(e) \in -MaxLate .. Half - MaxLate - 1
  /\ Off(e) - e.left \in 0 .. Half - 1
  /\ ~rewound => /\ Off(e) = e.left /\ e.left <= e.delta
                 /\ \E m \in Millis : e.left <= m
Decents(list) == \A i \in DOMAIN list : Decent(list[i])

\* A timer is on a list once, and the list is in the order of the distances.
Apart(list)     == \A i, j \in DOMAIN list : list[i].of = list[j].of => i = j
Kept(list, out) == \A i \in DOMAIN list : list[i].of \notin out
InOrder(list)   == \A i, j \in DOMAIN list : i < j => Off(list[i]) <= Off(list[j])
Good(list, out) ==
  list \in Seq(Entry) /\ Decents(list) /\ Apart(list) /\ Kept(list, out) /\ InOrder(list)

\* What is known of the calls in progress: DoTimers has read the time not long
\* ago, and no callback is early.
FrameHolds(f) ==
  /\ f.fn = "do_timers" => Diff(clock, f.now) <= MaxLate
  /\ f.fn = "callback" /\ f.early => rewound
Frames(calling) == calling \in Seq(Frame) /\ \A i \in DOMAIN calling : FrameHolds(calling[i])

\* A timer was set for a delay that is asked for.
Delayed(e)  == \E m \in Millis : e.delta <= m
Delays      == \A i \in DOMAIN timers : Delayed(timers[i])
\* A list holds nothing that is new; nothing but a timer that is set.
Old(list, new)     == \A i \in DOMAIN new : \E j \in DOMAIN list : new[i] = list[j]
Adds(t, list, new) ==
  \A i \in DOMAIN new : \/ new[i].of = t /\ Delayed(new[i])
                        \/ \E j \in DOMAIN list : new[i] = list[j]

\* From when the timeout is computed until poll ends, no timer of which it knows
\* waits for less, but for what block handlers have taken; and poll calls nothing.
Covers(e) == timeout > 0 /\ (rewound \/ timeout <= e.left + spent)
Asleep ==
  /\ loop = "poll" => stack = <<>>
  /\ loop \in {"block", "poll"} /\ timeout # 0 =>
       /\ timeout = -1 \/ \E m \in Millis : timeout < m + Slack
       /\ \A i \in DOMAIN timers : timers[i].of \in unseen \/ Covers(timers[i])

Scalars ==
  /\ freed \subseteq TimerIds /\ clock \in Times /\ rewound \in BOOLEAN
  /\ loop \in {"check", "block", "poll", "handler"} /\ timeout \in -1 .. Half - 1
  /\ unseen \subseteq TimerIds /\ spent \in 0 .. MaxWork
  /\ calls \in 0 .. MaxCalls

IInv == Scalars /\ Good(timers, freed) /\ Frames(stack) /\ Delays /\ Asleep

-----------------------------------------------------------------------------
(***************************************************************************)
(* Times.                                                                  *)
(***************************************************************************)
LEMMA Sizes == U32 \in Nat \ {0} /\ Half \in Nat \ {0} /\ U32 = Half + Half /\ MaxLate \in 0 .. Half - 1
<1>1. U32 \in Nat \ {0} /\ U32 % 2 = 0 /\ MaxLate \in Nat /\ MaxLate < Half
  BY TimersAssumption
<1>2. U32 \div 2 \in Nat \ {0} /\ U32 = (U32 \div 2) + (U32 \div 2)
  BY <1>1
<1> QED
  BY <1>1, <1>2 DEF Half

\* The quotient and the remainder.
LEMMA DivMod ==
  ASSUME NEW a \in Int, NEW M \in Nat \ {0}
  PROVE  (a % M) \in 0 .. M - 1 /\ \E q \in Int : a = M * q + (a % M)
<1>1. (a % M) \in 0 .. M - 1 /\ (a \div M) \in Int /\ a = M * (a \div M) + (a % M)
  BY SMT
<1> QED
  BY <1>1

LEMMA ModUnique ==
  ASSUME NEW M \in Nat \ {0}, NEW q \in Int, NEW r \in 0 .. M - 1
  PROVE  (M * q + r) % M = r
  BY SMT

\* The same time.
Same(a, b) == \E q \in Int : a = b + U32 * q

LEMMA SameMod ==
  ASSUME NEW a \in Int
  PROVE  a % U32 \in Times /\ Same(a, a % U32)
<1>1. (a % U32) \in 0 .. U32 - 1 /\ \E q \in Int : a = U32 * q + (a % U32)
  BY Sizes, DivMod
<1>2. PICK q \in Int : a = U32 * q + (a % U32)
  BY <1>1
<1>3. U32 * q \in Int
  BY Sizes
<1>4. a = (a % U32) + U32 * q
  BY <1>1, <1>2, <1>3
<1> QED
  BY <1>1, <1>4 DEF Same, Times

LEMMA SameSum ==
  ASSUME NEW a \in Int, NEW b \in Int, NEW c \in Int, NEW d \in Int, Same(a, b), Same(c, d)
  PROVE  Same(a + c, b + d) /\ Same(a - c, b - d) /\ Same(b, a)
<1>1. PICK q \in Int : a = b + U32 * q
  BY DEF Same
<1>2. PICK p \in Int : c = d + U32 * p
  BY DEF Same
<1>3. /\ U32 * q \in Int /\ U32 * p \in Int
      /\ U32 * (q + p) = U32 * q + U32 * p
      /\ U32 * (q - p) = U32 * q - U32 * p
      /\ U32 * (-q) = -(U32 * q)
  BY Sizes
<1>4. q + p \in Int /\ q - p \in Int /\ -q \in Int
  OBVIOUS
<1>5. a + c = (b + d) + U32 * (q + p)
  BY <1>1, <1>2, <1>3
<1>6. a - c = (b - d) + U32 * (q - p)
  BY <1>1, <1>2, <1>3
<1>7. b = a + U32 * (-q)
  BY <1>1, <1>3
<1> QED
  BY <1>4, <1>5, <1>6, <1>7 DEF Same

LEMMA SameRefl == ASSUME NEW a \in Int PROVE Same(a, a)
<1>1. a = a + U32 * 0
  BY Sizes
<1> QED
  BY <1>1 DEF Same

LEMMA SameTrans ==
  ASSUME NEW a \in Int, NEW b \in Int, NEW c \in Int, Same(a, b), Same(b, c)
  PROVE  Same(a, c)
<1>1. Same(a + b, b + c)
  BY SameSum
<1>2. Same((a + b) - b, (b + c) - b)
  BY <1>1, SameRefl, SameSum
<1>3. (a + b) - b = a /\ (b + c) - b = c
  OBVIOUS
<1> QED
  BY <1>2, <1>3

\* From a to b it is as far as x.
Far(a, b, x) == Same(a - b, x)

LEMMA FarChain ==
  ASSUME NEW a \in Int, NEW b \in Int, NEW c \in Int, NEW x \in Int, NEW y \in Int,
         Far(a, b, x), Far(b, c, y), NEW z, z = x + y
  PROVE  Far(a, c, z)
<1> DEFINE p == a - b
           q == b - c
<1>1. p \in Int /\ q \in Int /\ Same(p, x) /\ Same(q, y) /\ p + q = a - c
  BY DEF Far
<1> HIDE DEF p, q
<1>2. Same(p + q, x + y)
  BY <1>1, SameSum
<1> QED
  BY <1>1, <1>2 DEF Far

\* A difference has one value that is less than half of the range away, which
\* is the signed one.
LEMMA DiffIs ==
  ASSUME NEW a \in Int, NEW b \in Int, NEW x \in Times, Same(a - b, x)
  PROVE  Diff(a, b) = x
<1>1. PICK q \in Int : a - b = x + U32 * q
  BY DEF Same
<1>2. U32 * q \in Int /\ x \in Int
  BY Sizes DEF Times
<1>3. a - b = U32 * q + x
  BY <1>1, <1>2
<1>4. (U32 * q + x) % U32 = x
  BY Sizes, ModUnique DEF Times
<1> QED
  BY <1>3, <1>4 DEF Diff

LEMMA SignedIs ==
  ASSUME NEW a \in Int, NEW b \in Int, NEW x \in -Half .. Half - 1, Same(a - b, x)
  PROVE  Signed(a, b) = x /\ (x >= 0 => Diff(a, b) = x)
<1>1. U32 \in Nat /\ Half \in Nat /\ U32 = Half + Half /\ x \in Int
  BY Sizes
<1>2. CASE x >= 0
  <2>1. x \in Times /\ x < Half
    BY <1>1, <1>2 DEF Times
  <2>2. Diff(a, b) = x
    BY <2>1, DiffIs
  <2> QED
    BY <2>1, <2>2 DEF Signed
<1>3. CASE x < 0
  <2>1. x + U32 \in Times /\ ~(x + U32 < Half) /\ x + U32 - U32 = x
    BY <1>1, <1>3 DEF Times
  <2>2. x + U32 = x + U32 * 1
    BY <1>1
  <2>3. Same(x + U32, x)
    BY <2>2 DEF Same
  <2>4. Same(x, x + U32)
    BY <1>1, <2>3, SameSum
  <2>5. Diff(a, b) = x + U32
    BY <1>1, <2>1, <2>4, SameTrans, DiffIs
  <2> QED
    BY <1>3, <2>1, <2>5, <1>1 DEF Signed
<1> QED
  BY <1>1, <1>2, <1>3

LEMMA SignedFacts ==
  ASSUME NEW a \in Int, NEW b \in Int
  PROVE  /\ Signed(a, b) \in -Half .. Half - 1 /\ Diff(a, b) \in Times
         /\ Same(a - b, Signed(a, b))
<1>1. U32 \in Nat /\ Half \in Nat /\ U32 = Half + Half
  BY Sizes
<1>2. Diff(a, b) \in Times /\ Same(a - b, Diff(a, b))
  BY SameMod DEF Diff
<1>3. CASE Diff(a, b) < Half
  BY <1>1, <1>2, <1>3 DEF Signed, Times
<1>4. CASE ~(Diff(a, b) < Half)
  <2> DEFINE x == Diff(a, b)
  <2>1. x \in Times /\ Same(a - b, x) /\ ~(x < Half)
    BY <1>2, <1>4
  <2>2. Signed(a, b) = x - U32
    BY <1>4 DEF Signed
  <2> HIDE DEF x
  <2>3. x \in Int /\ x - U32 \in -Half .. Half - 1
    BY <1>1, <2>1 DEF Times
  <2>4. x = (x - U32) + U32 * 1
    BY <1>1, <2>3
  <2>5. Same(x, x - U32)
    BY <2>4 DEF Same
  <2>6. Same(a - b, x - U32)
    BY <1>1, <2>1, <2>3, <2>5, SameTrans
  <2> QED
    BY <1>2, <2>2, <2>3, <2>6
<1> QED
  BY <1>3, <1>4

\* Which of two times is earlier is which is less far from the clock.
LEMMA Two ==
  ASSUME NEW a \in Int, NEW b \in Int, NEW now \in Int,
         Signed(a, now) - Signed(b, now) \in -Half .. Half - 1
  PROVE  Signed(a, b) = Signed(a, now) - Signed(b, now)
<1> DEFINE x == Signed(a, now)
           y == Signed(b, now)
<1>1. Same(a - now, x) /\ Same(b - now, y) /\ x \in -Half .. Half - 1 /\ y \in -Half .. Half - 1
  BY SignedFacts
<1> HIDE DEF x, y
<1>2. x \in Int /\ y \in Int /\ a - now \in Int /\ b - now \in Int
  BY <1>1, Sizes
<1>3. Same((a - now) - (b - now), x - y)
  BY <1>1, <1>2, SameSum
<1>4. (a - now) - (b - now) = a - b
  OBVIOUS
<1>5. x - y \in -Half .. Half - 1
  BY DEF x, y
<1>6. Signed(a, b) = x - y
  BY <1>3, <1>4, <1>5, SignedIs
<1> QED
  BY <1>6 DEF x, y

\* What becomes of the distance when the clock moves.
LEMMA Moved ==
  ASSUME NEW a \in Int, NEW now \in Int, NEW n \in Int, Signed(a, now) - n \in -Half .. Half - 1
  PROVE  Signed(a, (now + n) % U32) = Signed(a, now) - n
<1> DEFINE x == Signed(a, now)
           c == (now + n) % U32
<1>1. Same(a - now, x) /\ x \in -Half .. Half - 1
  BY SignedFacts
<1>2. c \in Times /\ Same(now + n, c)
  BY SameMod
<1> HIDE DEF x, c
<1>3. x \in Int /\ c \in Int /\ a - now \in Int /\ now + n \in Int
  BY <1>1, <1>2, Sizes DEF Times
<1>4. Same((a - now) + (now + n), x + c)
  BY <1>1, <1>2, <1>3, SameSum
<1>5. Same((a - now) + (now + n) - (c + n), x + c - (c + n))
  BY <1>3, <1>4, SameRefl, SameSum
<1>6. (a - now) + (now + n) - (c + n) = a - c /\ x + c - (c + n) = x - n
  BY <1>3
<1>7. x - n \in -Half .. Half - 1
  BY DEF x
<1>8. Signed(a, c) = x - n
  BY <1>3, <1>5, <1>6, <1>7, SignedIs
<1> QED
  BY <1>8 DEF x, c

\* How far ahead a time is that is computed from the clock.
LEMMA Ahead ==
  ASSUME NEW now \in Int, NEW n \in -Half .. Half - 1
  PROVE  /\ (now + n) % U32 \in Times /\ Signed((now + n) % U32, now) = n
         /\ n >= 0 => Diff((now + n) % U32, now) = n
<1> DEFINE c == (now + n) % U32
<1>1. n \in Int /\ now + n \in Int
  BY Sizes
<1>2. c \in Times /\ Same(now + n, c)
  BY <1>1, SameMod
<1> HIDE DEF c
<1>3. c \in Int
  BY <1>2, Sizes DEF Times
<1>4. Same(c, now + n)
  BY <1>1, <1>2, <1>3, SameSum
<1>5. Same(c - now, (now + n) - now)
  BY <1>1, <1>3, <1>4, SameRefl, SameSum
<1>6. (now + n) - now = n
  BY <1>1
<1> QED
  BY <1>2, <1>3, <1>5, <1>6, SignedIs DEF c

-----------------------------------------------------------------------------
(***************************************************************************)
(* Lists.                                                                  *)
(***************************************************************************)
LEMMA Prefix ==
  ASSUME NEW S, NEW s \in Seq(S), NEW k \in 0 .. Len(s)
  PROVE  /\ SubSeq(s, 1, k) \in Seq(S) /\ Len(SubSeq(s, 1, k)) = k
         /\ \A i \in 1 .. k : SubSeq(s, 1, k)[i] = s[i]
<1>1. Len(s) \in Nat /\ \A i \in 1 .. Len(s) : s[i] \in S
  BY LenProperties
<1>2. k \in Int /\ \A i \in 1 .. k : s[i] \in S
  BY <1>1
<1> DEFINE t == SubSeq(s, 1, k)
<1>3. /\ t \in Seq(S) /\ Len(t) = IF 1 <= k THEN k - 1 + 1 ELSE 0
      /\ \A i \in 1 .. k - 1 + 1 : t[i] = s[1 + i - 1]
  BY <1>1, <1>2, SubSeqProperties
<1> HIDE DEF t
<1>4. k - 1 + 1 = k /\ \A i \in 1 .. k : 1 + i - 1 = i
  BY <1>2
<1>5. Len(t) = k
  BY <1>2, <1>3, <1>4
<1> QED
  BY <1>3, <1>4, <1>5 DEF t

LEMMA Suffix ==
  ASSUME NEW S, NEW s \in Seq(S), NEW k \in 1 .. Len(s) + 1
  PROVE  /\ SubSeq(s, k, Len(s)) \in Seq(S) /\ Len(SubSeq(s, k, Len(s))) = Len(s) + 1 - k
         /\ \A i \in 1 .. Len(s) + 1 - k : SubSeq(s, k, Len(s))[i] = s[k - 1 + i]
<1>1. Len(s) \in Nat /\ \A i \in 1 .. Len(s) : s[i] \in S
  BY LenProperties
<1>2. k \in Int /\ \A i \in k .. Len(s) : s[i] \in S
  BY <1>1
<1> DEFINE t == SubSeq(s, k, Len(s))
<1>3. /\ t \in Seq(S) /\ Len(t) = IF k <= Len(s) THEN Len(s) - k + 1 ELSE 0
      /\ \A i \in 1 .. Len(s) - k + 1 : t[i] = s[k + i - 1]
  BY <1>1, <1>2, SubSeqProperties
<1> HIDE DEF t
<1>4. Len(s) - k + 1 = Len(s) + 1 - k /\ \A i \in 1 .. Len(s) : k + i - 1 = k - 1 + i
  BY <1>1, <1>2
<1>5. Len(t) = Len(s) + 1 - k
  BY <1>1, <1>2, <1>3, <1>4
<1>6. ASSUME NEW i \in 1 .. Len(s) + 1 - k
      PROVE  t[i] = s[k - 1 + i]
  BY <1>1, <1>2, <1>3, <1>4, <1>6
<1> QED
  BY <1>3, <1>5, <1>6 DEF t

\* Where an element of the one list is in the other.
LEMMA Removed ==
  ASSUME NEW S, NEW s \in Seq(S), NEW k \in 1 .. Len(s)
  PROVE  /\ RemoveAt(s, k) \in Seq(S) /\ Len(RemoveAt(s, k)) = Len(s) - 1
         /\ \A i \in 1 .. Len(s) - 1 : RemoveAt(s, k)[i] = s[IF i < k THEN i ELSE i + 1]
<1> DEFINE a == SubSeq(s, 1, k - 1)
           b == SubSeq(s, k + 1, Len(s))
<1>1. Len(s) \in Nat /\ k \in Int /\ k - 1 \in 0 .. Len(s) /\ k + 1 \in 1 .. Len(s) + 1
  BY LenProperties
<1>2. a \in Seq(S) /\ Len(a) = k - 1 /\ \A i \in 1 .. k - 1 : a[i] = s[i]
  BY <1>1, Prefix
<1>3. b \in Seq(S) /\ Len(b) = Len(s) + 1 - (k + 1) /\ \A i \in 1 .. Len(s) + 1 - (k + 1) : b[i] = s[k + 1 - 1 + i]
  BY <1>1, Suffix
<1> HIDE DEF a, b
<1>4. /\ a \o b \in Seq(S) /\ Len(a \o b) = Len(a) + Len(b)
      /\ \A i \in 1 .. Len(a) + Len(b) : (a \o b)[i] = IF i <= Len(a) THEN a[i] ELSE b[i - Len(a)]
  BY <1>2, <1>3, ConcatProperties
<1>5. Len(a) + Len(b) = Len(s) - 1
  BY <1>1, <1>2, <1>3
<1>6. ASSUME NEW i \in 1 .. Len(s) - 1
      PROVE  (a \o b)[i] = s[IF i < k THEN i ELSE i + 1]
  <2>1. (a \o b)[i] = IF i <= k - 1 THEN a[i] ELSE b[i - (k - 1)]
    BY <1>2, <1>4, <1>5
  <2>2. CASE i < k
    <3>1. i \in 1 .. k - 1
      BY <1>1, <2>2
    <3> QED
      BY <1>1, <1>2, <2>1, <2>2, <3>1
  <2>3. CASE ~(i < k)
    <3>1. i - (k - 1) \in 1 .. Len(s) + 1 - (k + 1) /\ k + 1 - 1 + (i - (k - 1)) = i + 1
      BY <1>1, <2>3
    <3>2. b[i - (k - 1)] = s[k + 1 - 1 + (i - (k - 1))]
      BY <1>3, <3>1
    <3> QED
      BY <1>1, <2>1, <2>3, <3>1, <3>2
  <2> QED
    BY <2>2, <2>3
<1>7. RemoveAt(s, k) = a \o b
  BY DEF RemoveAt, a, b
<1> QED
  BY <1>4, <1>5, <1>6, <1>7

LEMMA Inserted ==
  ASSUME NEW S, NEW s \in Seq(S), NEW k \in 1 .. Len(s) + 1, NEW e \in S
  PROVE  /\ InsertAt(s, k, e) \in Seq(S) /\ Len(InsertAt(s, k, e)) = Len(s) + 1
         /\ InsertAt(s, k, e)[k] = e
         /\ \A i \in 1 .. Len(s) + 1 : i < k => InsertAt(s, k, e)[i] = s[i]
         /\ \A i \in 1 .. Len(s) + 1 : i > k => InsertAt(s, k, e)[i] = s[i - 1]
<1> DEFINE a == SubSeq(s, 1, k - 1)
           b == SubSeq(s, k, Len(s))
           x == a \o <<e>>
<1>1. Len(s) \in Nat /\ k \in Int /\ k - 1 \in 0 .. Len(s)
  BY LenProperties
<1>2. a \in Seq(S) /\ Len(a) = k - 1 /\ \A i \in 1 .. k - 1 : a[i] = s[i]
  BY <1>1, Prefix
<1>3. b \in Seq(S) /\ Len(b) = Len(s) + 1 - k /\ \A i \in 1 .. Len(s) + 1 - k : b[i] = s[k - 1 + i]
  BY Suffix
<1> HIDE DEF a, b
<1>4. <<e>> \in Seq(S) /\ Len(<<e>>) = 1 /\ <<e>>[1] = e
  OBVIOUS
<1>5. /\ x \in Seq(S) /\ Len(x) = Len(a) + Len(<<e>>)
      /\ \A i \in 1 .. Len(a) + Len(<<e>>) : x[i] = IF i <= Len(a) THEN a[i] ELSE <<e>>[i - Len(a)]
  BY <1>2, <1>4, ConcatProperties
<1> HIDE DEF x
<1>6. Len(x) = k /\ x \in Seq(S)
  BY <1>1, <1>2, <1>4, <1>5
<1>7. ASSUME NEW i \in 1 .. k
      PROVE  x[i] = IF i < k THEN s[i] ELSE e
  <2>1. x[i] = IF i <= k - 1 THEN a[i] ELSE <<e>>[i - (k - 1)]
    BY <1>1, <1>2, <1>4, <1>5
  <2>2. CASE i < k
    <3>1. i \in 1 .. k - 1
      BY <1>1, <2>2
    <3> QED
      BY <1>1, <1>2, <2>1, <2>2, <3>1
  <2>3. CASE i = k
    <3>1. ~(i <= k - 1) /\ i - (k - 1) = 1
      BY <1>1, <2>3
    <3> QED
      BY <1>4, <2>1, <2>3, <3>1
  <2> QED
    BY <1>1, <2>2, <2>3
<1>8. /\ x \o b \in Seq(S) /\ Len(x \o b) = Len(x) + Len(b)
      /\ \A i \in 1 .. Len(x) + Len(b) : (x \o b)[i] = IF i <= Len(x) THEN x[i] ELSE b[i - Len(x)]
  BY <1>3, <1>6, ConcatProperties
<1>9. InsertAt(s, k, e) = x \o b
  BY DEF InsertAt, a, b, x
<1>10. Len(x) + Len(b) = Len(s) + 1
  BY <1>1, <1>3, <1>6
<1>11. (x \o b)[k] = e
  BY <1>1, <1>6, <1>7, <1>8, <1>10
<1>12. ASSUME NEW i \in 1 .. Len(s) + 1, i < k
       PROVE  (x \o b)[i] = s[i]
  <2>1. i \in 1 .. k /\ i <= Len(x)
    BY <1>1, <1>6, <1>12
  <2> QED
    BY <1>7, <1>8, <1>10, <1>12, <2>1
<1>13. ASSUME NEW i \in 1 .. Len(s) + 1, i > k
       PROVE  (x \o b)[i] = s[i - 1]
  <2>1. ~(i <= Len(x)) /\ i - k \in 1 .. Len(s) + 1 - k /\ k - 1 + (i - k) = i - 1
    BY <1>1, <1>6, <1>13
  <2>2. (x \o b)[i] = b[i - k]
    BY <1>6, <1>8, <1>10, <2>1
  <2> QED
    BY <1>3, <2>1, <2>2
<1> QED
  BY <1>6, <1>8, <1>9, <1>10, <1>11, <1>12, <1>13

\* A set of positions has a first one.
LEMMA Least ==
  ASSUME NEW T \in SUBSET Nat, T # {}
  PROVE  Min(T) \in T /\ \A y \in T : Min(T) <= y
<1> DEFINE R == OpToRel(<, Nat)
<1>1. IsWellFoundedOn(R, Nat)
  BY NatLessThanWellFounded
<1>2. \A x, y \in Nat : <<y, x>> \in R <=> y < x
  BY DEF OpToRel
<1> HIDE DEF R
<1>3. IsWellFoundedOn(R, Nat) => \E x \in T : \A y \in T : ~(<<y, x>> \in R)
  BY WFMin
<1>4. PICK x \in T : \A y \in T : ~(<<y, x>> \in R)
  BY <1>1, <1>3
<1>5. ASSUME NEW y \in T
      PROVE  x <= y
  <2>1. x \in Nat /\ y \in Nat /\ ~(<<y, x>> \in R)
    BY <1>4
  <2>2. ~(y < x)
    BY <1>2, <2>1
  <2> QED
    BY <2>1, <2>2
<1> QED
  BY <1>5 DEF Min

-----------------------------------------------------------------------------
(***************************************************************************)
(* What the calls do to the list.                                          *)
(***************************************************************************)
LEMMA EntryFacts ==
  ASSUME NEW e \in Entry
  PROVE  /\ e.of \in TimerIds /\ e.expires \in Times /\ e.expires \in Int
         /\ e.delta \in Times /\ e.delta \in Int /\ e.left \in Int
  BY Sizes DEF Entry, Times

LEMMA ListFacts ==
  ASSUME NEW list, NEW out, Good(list, out)
  PROVE  /\ list \in Seq(Entry) /\ Len(list) \in Nat /\ DOMAIN list = 1 .. Len(list)
         /\ \A i \in DOMAIN list : list[i] \in Entry /\ Decent(list[i]) /\ list[i].of \notin out
         /\ (list # <<>> => 1 \in DOMAIN list /\ Head(list) = list[1])
<1>1. list \in Seq(Entry) /\ Decents(list) /\ Kept(list, out)
  BY DEF Good
<1>2. Len(list) \in Nat /\ DOMAIN list = 1 .. Len(list) /\ \A i \in DOMAIN list : list[i] \in Entry
  BY <1>1, LenProperties
<1>3. list # <<>> => Len(list) > 0 /\ Head(list) = list[1]
  BY <1>1, <1>2, EmptySeq
<1> QED
  BY <1>1, <1>2, <1>3 DEF Decents, Kept

LEMMA OffFacts ==
  ASSUME clock \in Times, NEW e \in Entry
  PROVE  Off(e) \in Int /\ Off(e) \in -Half .. Half - 1
<1>1. clock \in Int /\ e.expires \in Int
  BY EntryFacts, Sizes DEF Times
<1>2. Signed(e.expires, clock) \in -Half .. Half - 1
  BY <1>1, SignedFacts
<1> QED
  BY <1>2, Sizes DEF Off

\* Some of a good list, in its order.
LEMMA Part ==
  ASSUME NEW list, NEW out, Good(list, out), NEW new \in Seq(Entry), NEW f,
         \A i \in DOMAIN new : f[i] \in DOMAIN list /\ new[i] = list[f[i]],
         \A i, j \in DOMAIN new : i < j => f[i] < f[j]
  PROVE  Good(new, out)
<1>1. /\ Decents(list) /\ Apart(list) /\ Kept(list, out) /\ InOrder(list)
      /\ DOMAIN new = 1 .. Len(new) /\ Len(new) \in Nat /\ DOMAIN list = 1 .. Len(list) /\ Len(list) \in Nat
  BY ListFacts, LenProperties DEF Good
<1>2. Decents(new)
  BY <1>1 DEF Decents
<1>3. Kept(new, out)
  BY <1>1 DEF Kept
<1>4. InOrder(new)
  BY <1>1 DEF InOrder
<1>5. Apart(new)
  <2>1. SUFFICES ASSUME NEW i \in DOMAIN new, NEW j \in DOMAIN new, new[i].of = new[j].of
                 PROVE  i = j
    BY DEF Apart
  <2>2. f[i] = f[j]
    BY <1>1, <2>1 DEF Apart
  <2>3. f[i] \in Int /\ f[j] \in Int /\ i \in Int /\ j \in Int
    BY <1>1, <2>1
  <2>4. ~(i < j) /\ ~(j < i)
    BY <2>1, <2>2, <2>3
  <2> QED
    BY <2>3, <2>4
<1> QED
  BY <1>2, <1>3, <1>4, <1>5 DEF Good

LEMMA GoodLess ==
  ASSUME NEW list, NEW out, NEW t, Good(list, out \cup {t})
  PROVE  Good(list, out)
  BY DEF Good, Kept

\* A timer that is taken off is not on the list.
LEMMA UnsetGood ==
  ASSUME NEW list, NEW out, Good(list, out), NEW t
  PROVE  Good(Unset(list, t), out \cup {t})
<1> DEFINE at == {i \in DOMAIN list : list[i].of = t}
           k == CHOOSE i \in at : TRUE
           new == RemoveAt(list, k)
<1>1. Apart(list) /\ Kept(list, out) /\ list \in Seq(Entry)
  BY DEF Good
<1>2. Unset(list, t) = IF at = {} THEN list ELSE new
  BY DEF Unset
<1>3. CASE at = {}
  <2>1. Kept(list, out \cup {t})
    BY <1>1, <1>3 DEF Kept
  <2> QED
    BY <1>2, <1>3, <2>1 DEF Good
<1>4. CASE at # {}
  <2>1. k \in at
    BY <1>4
  <2> HIDE DEF k
  <2>2. k \in DOMAIN list /\ list[k].of = t
    BY <2>1
  <2> HIDE DEF new, at
  <2> DEFINE f == [i \in 1 .. Len(list) - 1 |-> IF i < k THEN i ELSE i + 1]
  <2>3. Len(list) \in Nat /\ DOMAIN list = 1 .. Len(list) /\ k \in 1 .. Len(list)
    BY <2>2, ListFacts
  <2>4. /\ new \in Seq(Entry) /\ Len(new) = Len(list) - 1
        /\ \A i \in 1 .. Len(list) - 1 : new[i] = list[IF i < k THEN i ELSE i + 1]
    BY <1>1, <2>3, Removed DEF new
  <2>5. DOMAIN new = 1 .. Len(list) - 1
    BY <2>4, LenProperties
  <2>6. \A i \in DOMAIN new : f[i] \in DOMAIN list /\ new[i] = list[f[i]] /\ f[i] # k
    BY <2>3, <2>4, <2>5
  <2>7. \A i, j \in DOMAIN new : i < j => f[i] < f[j]
    BY <2>3, <2>5
  <2> HIDE DEF f
  <2>8. Good(new, out)
    BY <2>4, <2>6, <2>7, Part
  <2>9. Kept(new, out \cup {t})
    BY <1>1, <2>2, <2>6 DEF Kept, Apart
  <2> QED
    BY <1>2, <1>4, <2>8, <2>9 DEF Good
<1> QED
  BY <1>3, <1>4

\* A timer goes behind those that expire no later.
LEMMA PlaceIs ==
  ASSUME clock \in Times, NEW list, NEW out, Good(list, out), NEW e \in Entry, Decent(e)
  PROVE  /\ Place(list, e.expires) \in 1 .. Len(list) + 1
         /\ \A i \in DOMAIN list : /\ i < Place(list, e.expires) => Off(list[i]) <= Off(e)
                                   /\ i >= Place(list, e.expires) => Off(list[i]) > Off(e)
<1> DEFINE later == {i \in DOMAIN list : Later(list[i], e.expires)}
           k == Place(list, e.expires)
<1>1. /\ InOrder(list) /\ Len(list) \in Nat /\ DOMAIN list = 1 .. Len(list)
      /\ \A i \in DOMAIN list : list[i] \in Entry /\ Decent(list[i])
  BY ListFacts DEF Good
<1>2. ASSUME NEW i \in DOMAIN list
      PROVE  Later(list[i], e.expires) <=> Off(list[i]) > Off(e)
  <2>1. Decent(list[i]) /\ list[i] \in Entry
    BY <1>1
  <2>2. /\ Off(e) \in -MaxLate .. Half - MaxLate - 1 /\ Off(list[i]) \in -MaxLate .. Half - MaxLate - 1
        /\ e.expires \in Int /\ list[i].expires \in Int /\ clock \in Int
    BY <2>1, EntryFacts, Sizes DEF Decent, Times
  <2>3. Off(list[i]) - Off(e) \in -Half .. Half - 1 /\ Off(list[i]) \in Int /\ Off(e) \in Int
    BY <2>2, Sizes
  <2>4. Signed(list[i].expires, e.expires) = Off(list[i]) - Off(e)
    BY <2>2, <2>3, Two DEF Off
  <2> QED
    BY <2>3, <2>4 DEF Later
<1>3. k = IF later = {} THEN Len(list) + 1 ELSE Min(later)
  BY DEF Place
<1>4. \A i \in DOMAIN list : i \in later <=> Off(list[i]) > Off(e)
  BY <1>2
<1>5. later \subseteq DOMAIN list
  OBVIOUS
<1> HIDE DEF later, k
<1>6. Off(e) \in Int /\ \A i \in DOMAIN list : Off(list[i]) \in Int
  BY <1>1, OffFacts
<1>7. CASE later = {}
  <2>1. k = Len(list) + 1
    BY <1>3, <1>7
  <2>2. \A i \in DOMAIN list : Off(list[i]) <= Off(e)
    BY <1>4, <1>6, <1>7
  <2> QED
    BY <1>1, <2>1, <2>2 DEF k
<1>8. CASE later # {}
  <2>1. later \in SUBSET Nat
    BY <1>1, <1>5
  <2>2. k \in later /\ \A y \in later : k <= y
    BY <1>3, <1>8, <2>1, Least
  <2>3. k \in 1 .. Len(list) /\ Off(list[k]) > Off(e)
    BY <1>1, <1>4, <1>5, <2>2
  <2>4. ASSUME NEW i \in DOMAIN list, i < k
        PROVE  Off(list[i]) <= Off(e)
    <3>1. i \notin later
      BY <1>1, <2>2, <2>3, <2>4
    <3> QED
      BY <1>4, <1>6, <3>1
  <2>5. ASSUME NEW i \in DOMAIN list, i >= k
        PROVE  Off(list[i]) > Off(e)
    <3>1. i = k \/ k < i
      BY <1>1, <2>3, <2>5
    <3>2. Off(list[k]) <= Off(list[i])
      BY <1>1, <1>6, <2>3, <3>1 DEF InOrder
    <3> QED
      BY <1>1, <1>6, <2>3, <3>2
  <2>6. k \in 1 .. Len(list) + 1
    BY <1>1, <2>3
  <2> QED
    BY <2>4, <2>5, <2>6 DEF k
<1> QED
  BY <1>7, <1>8

LEMMA UnsetOld ==
  ASSUME NEW list \in Seq(Entry), NEW t
  PROVE  Old(list, Unset(list, t))
<1> DEFINE at == {i \in DOMAIN list : list[i].of = t}
           k == CHOOSE i \in at : TRUE
           new == RemoveAt(list, k)
<1>1. Unset(list, t) = IF at = {} THEN list ELSE new
  BY DEF Unset
<1>2. CASE at = {}
  BY <1>1, <1>2 DEF Old
<1>3. CASE at # {}
  <2>1. k \in DOMAIN list
    BY <1>3
  <2> HIDE DEF k
  <2>2. Len(list) \in Nat /\ DOMAIN list = 1 .. Len(list) /\ k \in 1 .. Len(list)
    BY <2>1, LenProperties
  <2>3. /\ new \in Seq(Entry) /\ Len(new) = Len(list) - 1
        /\ \A i \in 1 .. Len(list) - 1 : new[i] = list[IF i < k THEN i ELSE i + 1]
    BY <2>2, Removed
  <2> HIDE DEF new
  <2>4. DOMAIN new = 1 .. Len(list) - 1
    BY <2>3, LenProperties
  <2>5. \A i \in DOMAIN new : (IF i < k THEN i ELSE i + 1) \in DOMAIN list
    BY <2>2, <2>4
  <2>6. Old(list, new)
    BY <2>3, <2>4, <2>5 DEF Old
  <2> QED
    BY <1>1, <1>3, <2>6
<1> QED
  BY <1>2, <1>3

\* What a list holds when e is inserted: e, and what it held.
LEMMA InsertedOld ==
  ASSUME NEW list \in Seq(Entry), NEW k \in 1 .. Len(list) + 1, NEW e \in Entry
  PROVE  \A i \in DOMAIN InsertAt(list, k, e) :
           \/ InsertAt(list, k, e)[i] = e
           \/ \E j \in DOMAIN list : InsertAt(list, k, e)[i] = list[j]
<1> DEFINE new == InsertAt(list, k, e)
<1>1. Len(list) \in Nat /\ DOMAIN list = 1 .. Len(list)
  BY LenProperties
<1>2. /\ new \in Seq(Entry) /\ Len(new) = Len(list) + 1 /\ new[k] = e
      /\ \A i \in 1 .. Len(list) + 1 : i < k => new[i] = list[i]
      /\ \A i \in 1 .. Len(list) + 1 : i > k => new[i] = list[i - 1]
  BY Inserted
<1> HIDE DEF new
<1>3. DOMAIN new = 1 .. Len(list) + 1
  BY <1>2, LenProperties
<1>4. ASSUME NEW i \in DOMAIN new
      PROVE  new[i] = e \/ \E j \in DOMAIN list : new[i] = list[j]
  <2>1. CASE i < k
    <3>1. i \in DOMAIN list /\ new[i] = list[i]
      BY <1>1, <1>2, <1>3, <2>1
    <3> QED
      BY <3>1
  <2>2. CASE i > k
    <3>1. i - 1 \in DOMAIN list /\ new[i] = list[i - 1]
      BY <1>1, <1>2, <1>3, <2>2
    <3> QED
      BY <3>1
  <2>3. CASE i = k
    BY <1>2, <2>3
  <2>4. i \in Int /\ k \in Int
    BY <1>1, <1>3
  <2> QED
    BY <2>1, <2>2, <2>3, <2>4
<1> QED
  BY <1>4 DEF new

LEMMA PlacedGood ==
  ASSUME clock \in Times, NEW list, NEW out, NEW e \in Entry, Decent(e),
         Good(list, out \cup {e.of}), e.of \notin out
  PROVE  /\ Good(InsertAt(list, Place(list, e.expires), e), out)
         /\ InsertAt(list, Place(list, e.expires), e) \in Seq(Entry)
<1> DEFINE k == Place(list, e.expires)
           new == InsertAt(list, k, e)
           n == Len(list)
<1>1. /\ InOrder(list) /\ Apart(list) /\ n \in Nat /\ DOMAIN list = 1 .. n /\ list \in Seq(Entry)
      /\ \A i \in DOMAIN list : list[i] \in Entry /\ Decent(list[i]) /\ list[i].of \notin out \cup {e.of}
  BY ListFacts DEF Good
<1>2. /\ k \in 1 .. n + 1
      /\ \A i \in DOMAIN list : (i < k => Off(list[i]) <= Off(e)) /\ (i >= k => Off(list[i]) > Off(e))
  BY PlaceIs
<1> HIDE DEF k
<1>3. /\ new \in Seq(Entry) /\ Len(new) = n + 1 /\ new[k] = e
      /\ \A i \in 1 .. n + 1 : i < k => new[i] = list[i]
      /\ \A i \in 1 .. n + 1 : i > k => new[i] = list[i - 1]
  <2>1. list \in Seq(Entry) /\ k \in 1 .. Len(list) + 1 /\ e \in Entry
    BY <1>1, <1>2
  <2> QED
    BY <2>1, Inserted
<1> HIDE DEF new, n
<1>4. DOMAIN new = 1 .. n + 1
  BY <1>3, LenProperties
<1> DEFINE f == [i \in 1 .. n + 1 |-> IF i < k THEN i ELSE i - 1]
<1>5. \A i \in DOMAIN new : i # k => f[i] \in DOMAIN list /\ new[i] = list[f[i]]
  BY <1>1, <1>2, <1>3, <1>4
<1>6. \A i, j \in DOMAIN new : i # k /\ j # k /\ i < j => f[i] < f[j]
  BY <1>1, <1>2, <1>4
<1>7. \A i \in DOMAIN new : i # k => (i < k => f[i] < k) /\ (k < i => f[i] >= k)
  BY <1>1, <1>2, <1>4
<1> HIDE DEF f
<1>8. Decents(new)
  BY <1>1, <1>3, <1>5 DEF Decents
<1>9. Kept(new, out)
  BY <1>1, <1>3, <1>5 DEF Kept
<1>10. InOrder(new)
  <2>1. SUFFICES ASSUME NEW i \in DOMAIN new, NEW j \in DOMAIN new, i < j
                 PROVE  Off(new[i]) <= Off(new[j])
    BY DEF InOrder
  <2>2. /\ Off(e) \in Int /\ \A x \in DOMAIN list : Off(list[x]) \in Int
        /\ i \in Int /\ j \in Int /\ k \in Int
    BY <1>1, <1>2, <1>4, OffFacts
  <2>3. CASE i = k
    <3>1. j # k /\ k < j
      BY <2>1, <2>2, <2>3
    <3>2. f[j] \in DOMAIN list /\ new[j] = list[f[j]] /\ f[j] >= k
      BY <1>5, <1>7, <3>1
    <3>3. Off(list[f[j]]) > Off(e)
      BY <1>2, <3>2
    <3> QED
      BY <1>3, <2>2, <2>3, <3>2, <3>3
  <2>4. CASE j = k
    <3>1. i # k /\ i < k
      BY <2>1, <2>2, <2>4
    <3>2. f[i] \in DOMAIN list /\ new[i] = list[f[i]] /\ f[i] < k
      BY <1>5, <1>7, <3>1
    <3>3. Off(list[f[i]]) <= Off(e)
      BY <1>2, <3>2
    <3> QED
      BY <1>3, <2>2, <2>4, <3>2, <3>3
  <2>5. CASE i # k /\ j # k
    <3>1. f[i] \in DOMAIN list /\ f[j] \in DOMAIN list /\ f[i] < f[j] /\ new[i] = list[f[i]] /\ new[j] = list[f[j]]
      BY <1>5, <1>6, <2>1, <2>5
    <3> QED
      BY <1>1, <3>1 DEF InOrder
  <2> QED
    BY <2>3, <2>4, <2>5
<1>11. Apart(new)
  <2>1. SUFFICES ASSUME NEW i \in DOMAIN new, NEW j \in DOMAIN new, new[i].of = new[j].of, i # j
                 PROVE  FALSE
    BY DEF Apart
  <2>2. i # k /\ j # k
    BY <1>1, <1>3, <1>5, <2>1
  <2>3. f[i] = f[j]
    BY <1>1, <1>5, <2>1, <2>2 DEF Apart
  <2>4. f[i] \in Int /\ f[j] \in Int /\ i \in Int /\ j \in Int
    BY <1>1, <1>4, <1>5, <2>2
  <2>5. ~(i < j) /\ ~(j < i)
    BY <1>6, <2>2, <2>3, <2>4
  <2> QED
    BY <2>1, <2>4, <2>5
<1>12. Good(new, out)
  BY <1>3, <1>8, <1>9, <1>10, <1>11 DEF Good
<1> QED
  BY <1>3, <1>12 DEF new, k, n

LEMMA FramesFacts ==
  ASSUME NEW calling, Frames(calling)
  PROVE  /\ calling \in Seq(Frame) /\ Len(calling) \in Nat /\ DOMAIN calling = 1 .. Len(calling)
         /\ calling # <<>> => /\ 1 \in DOMAIN calling /\ Head(calling) = calling[1]
                              /\ Head(calling) \in Frame /\ FrameHolds(Head(calling))
                              /\ Frames(Tail(calling))
<1>1. /\ calling \in Seq(Frame) /\ Len(calling) \in Nat /\ DOMAIN calling = 1 .. Len(calling)
      /\ \A i \in DOMAIN calling : calling[i] \in Frame /\ FrameHolds(calling[i])
  BY LenProperties DEF Frames
<1>2. CASE calling = <<>>
  BY <1>1, <1>2
<1>3. CASE calling # <<>>
  <2>1. Len(calling) > 0 /\ Head(calling) = calling[1]
    BY <1>1, <1>3, EmptySeq
  <2>2. /\ Tail(calling) \in Seq(Frame) /\ Len(Tail(calling)) = Len(calling) - 1
        /\ \A i \in 1 .. Len(Tail(calling)) : Tail(calling)[i] = calling[i + 1]
    BY <1>1, <1>3, HeadTailProperties
  <2>3. DOMAIN Tail(calling) = 1 .. Len(calling) - 1
    BY <2>2, LenProperties
  <2>4. \A i \in DOMAIN Tail(calling) : i + 1 \in DOMAIN calling /\ Tail(calling)[i] = calling[i + 1]
    BY <1>1, <2>2, <2>3
  <2>5. Frames(Tail(calling))
    BY <1>1, <2>2, <2>4 DEF Frames
  <2>6. 1 \in DOMAIN calling
    BY <1>1, <2>1
  <2> QED
    BY <1>1, <2>1, <2>5, <2>6
<1> QED
  BY <1>2, <1>3

LEMMA Pushed ==
  ASSUME NEW calling, Frames(calling), NEW f \in Frame, FrameHolds(f)
  PROVE  Frames(<<f>> \o calling)
<1>1. /\ calling \in Seq(Frame) /\ Len(calling) \in Nat /\ DOMAIN calling = 1 .. Len(calling)
      /\ \A i \in DOMAIN calling : FrameHolds(calling[i])
  BY FramesFacts DEF Frames
<1>2. <<f>> \in Seq(Frame) /\ Len(<<f>>) = 1 /\ <<f>>[1] = f
  OBVIOUS
<1> DEFINE new == <<f>> \o calling
<1>3. /\ new \in Seq(Frame) /\ Len(new) = Len(<<f>>) + Len(calling)
      /\ \A i \in 1 .. Len(<<f>>) + Len(calling) : new[i] = IF i <= Len(<<f>>) THEN <<f>>[i] ELSE calling[i - Len(<<f>>)]
  BY <1>1, <1>2, ConcatProperties
<1> HIDE DEF new
<1>4. DOMAIN new = 1 .. 1 + Len(calling)
  BY <1>1, <1>2, <1>3, LenProperties
<1>5. ASSUME NEW i \in DOMAIN new
      PROVE  FrameHolds(new[i])
  <2>1. new[i] = IF i <= 1 THEN <<f>>[i] ELSE calling[i - 1]
    BY <1>2, <1>3, <1>4
  <2>2. CASE i = 1
    BY <1>2, <2>1, <2>2
  <2>3. CASE i # 1
    <3>1. ~(i <= 1) /\ i - 1 \in DOMAIN calling
      BY <1>1, <1>4, <2>3
    <3> QED
      BY <1>1, <2>1, <3>1
  <2> QED
    BY <2>2, <2>3
<1> QED
  BY <1>3, <1>5 DEF Frames, new

\* DoTimer runs no callback early.
LEMMA DoTimerHolds ==
  ASSUME NEW list, NEW out, Good(list, out), NEW e \in Entry, NEW forced \in BOOLEAN,
         forced \/ e.left <= 0 \/ rewound, rewound \in BOOLEAN,
         NEW rest, Frames(rest), DoTimer(list, e, forced, rest)
  PROVE  Good(timers', out \cup {e.of}) /\ Good(timers', out) /\ Frames(stack') /\ Old(list, timers')
<1>1. timers' = Unset(list, e.of) /\ stack' = <<Call(e, forced)>> \o rest
  BY DEF DoTimer
<1>2. Good(timers', out \cup {e.of}) /\ Good(timers', out)
  BY <1>1, UnsetGood, GoodLess
<1>7. Old(list, timers')
  BY <1>1, UnsetOld DEF Good
<1>3. e.left \in Int /\ e.of \in TimerIds
  BY EntryFacts
<1> DEFINE f == Call(e, forced)
<1>4. f \in Frame /\ f.fn = "callback" /\ f.early = (e.left > 0 /\ ~forced)
  BY <1>3 DEF Call, Frame
<1> HIDE DEF f
<1>5. FrameHolds(f)
  BY <1>3, <1>4 DEF FrameHolds
<1>6. Frames(<<f>> \o rest)
  BY <1>4, <1>5, Pushed
<1> QED
  BY <1>1, <1>2, <1>6, <1>7 DEF f

LEMMA SetTimerHolds ==
  ASSUME Scalars, Good(timers, freed), NEW rest, Frames(rest), NEW t \in TimerIds \ freed,
         NEW n \in -MaxLate .. Half - MaxLate - 1, NEW expires, expires = (clock + n) % U32,
         \E m \in Millis : n <= m, SetTimer(t, expires, n, rest)
  PROVE  Good(timers', freed) /\ Frames(stack') /\ Adds(t, timers, timers')
<1> DEFINE e == [of |-> t, expires |-> expires, delta |-> Diff(expires, clock), left |-> n]
           list == Sort(t)
           set == InsertAt(list, Place(list, expires), e)
<1>1. clock \in Times /\ clock \in Int /\ rewound \in BOOLEAN /\ n \in -Half .. Half - 1 /\ n \in Int
  BY Sizes DEF Scalars, Times
<1>2. /\ expires \in Times /\ expires \in Int /\ Signed(expires, clock) = n
      /\ n >= 0 => Diff(expires, clock) = n
  <2>1. /\ (clock + n) % U32 \in Times /\ Signed((clock + n) % U32, clock) = n
        /\ n >= 0 => Diff((clock + n) % U32, clock) = n
    BY <1>1, Ahead
  <2> QED
    BY <2>1, Sizes DEF Times
<1>3. Diff(expires, clock) \in Times /\ Diff(expires, clock) \in Int /\ Diff(expires, clock) >= n
  <2>1. Diff(expires, clock) \in Times
    BY <1>1, <1>2, SignedFacts
  <2>2. Diff(expires, clock) \in Int /\ Diff(expires, clock) >= 0
    BY <2>1, Sizes DEF Times
  <2> QED
    BY <1>1, <1>2, <2>1, <2>2
<1>4. n \in -U32 .. U32
  BY <1>1, Sizes
<1>5. e \in Entry /\ e.of = t /\ e.left = n /\ e.expires = expires /\ e.delta = Diff(expires, clock)
  BY <1>2, <1>3, <1>4 DEF Entry
<1>6. SetTimer(t, expires, n, rest) =
        IF Signed(expires, clock) <= 0 THEN DoTimer(set, e, FALSE, rest)
        ELSE timers' = set /\ stack' = rest
  BY DEF SetTimer
<1> HIDE DEF e
<1>7. Off(e) = n
  BY <1>2, <1>5 DEF Off
<1>8. Decent(e)
  <2>1. Off(e) - e.left \in 0 .. Half - 1
    BY <1>1, <1>5, <1>7, Sizes
  <2> QED
    BY <1>3, <1>5, <1>7, <2>1 DEF Decent
<1>9. Good(list, freed \cup {e.of}) /\ e.of \notin freed
  BY <1>5, UnsetGood DEF Sort
<1>13. ASSUME NEW i \in DOMAIN set
       PROVE  set[i] = e \/ \E j \in DOMAIN timers : set[i] = timers[j]
  <2>1. timers \in Seq(Entry) /\ list \in Seq(Entry)
    BY <1>9 DEF Good
  <2>2. Old(timers, list)
    BY <2>1, UnsetOld DEF Sort
  <2>3. Good(list, freed)
    BY <1>9, GoodLess
  <2>4. Place(list, expires) \in 1 .. Len(list) + 1
    BY <1>1, <1>5, <1>8, <2>3, PlaceIs
  <2> DEFINE k == Place(list, expires)
  <2> HIDE DEF k, list
  <2>5. set = InsertAt(list, k, e)
    BY DEF k
  <2>6. set[i] = e \/ \E j \in DOMAIN list : set[i] = list[j]
    BY <1>5, <1>13, <2>1, <2>4, <2>5, InsertedOld DEF k
  <2> QED
    BY <2>2, <2>6 DEF Old
<1>10. Good(set, freed)
  <2>1. Good(InsertAt(list, Place(list, e.expires), e), freed)
    BY <1>1, <1>5, <1>8, <1>9, PlacedGood
  <2> QED
    BY <1>5, <2>1
<1> HIDE DEF set, list
<1>11. CASE n <= 0
  <2>1. DoTimer(set, e, FALSE, rest)
    BY <1>2, <1>6, <1>11
  <2>2. Good(timers', freed \cup {t}) /\ Good(timers', freed) /\ Frames(stack') /\ Old(set, timers')
    BY <1>1, <1>5, <1>10, <1>11, <2>1, DoTimerHolds
  <2>3. \A i \in DOMAIN timers' : timers'[i].of # t
    BY <2>2 DEF Good, Kept
  <2>4. Adds(t, timers, timers')
    BY <1>5, <1>13, <2>2, <2>3 DEF Adds, Old
  <2> QED
    BY <2>2, <2>4
<1>12. CASE ~(n <= 0)
  <2>1. timers' = set /\ stack' = rest
    BY <1>2, <1>6, <1>12
  <2>2. e.delta = n
    BY <1>1, <1>2, <1>5, <1>12
  <2>3. Delayed(e)
    BY <2>2 DEF Delayed
  <2>4. Adds(t, timers, timers')
    BY <1>5, <1>13, <2>1, <2>3 DEF Adds
  <2> QED
    BY <1>10, <2>1, <2>4
<1> QED
  BY <1>11, <1>12

\* What a delay may be.
LEMMA MillisFacts ==
  ASSUME NEW m \in Millis
  PROVE  /\ m \in Nat \ {0} /\ m \in -MaxLate .. Half - MaxLate - 1
         /\ m - (MaxWork + 1) \in -MaxLate .. Half - MaxLate - 1
<1>1. m \in Times \ {0} /\ m + 0 + MaxLate < Half /\ MaxWork \in 0 .. MaxLate
  BY TimersAssumption
<1>2. m \in Nat \ {0}
  BY <1>1, Sizes DEF Times
<1> QED
  BY <1>1, <1>2, Sizes

LEMMA SetRelativeHolds ==
  ASSUME Scalars, Good(timers, freed), NEW rest, Frames(rest), NEW t \in TimerIds \ freed,
         NEW m \in Millis, SetRelative(t, m, rest)
  PROVE  Good(timers', freed) /\ Frames(stack') /\ Adds(t, timers, timers')
<1>1. m \in -MaxLate .. Half - MaxLate - 1 /\ m <= m
  BY MillisFacts
<1>2. SetTimer(t, (clock + m) % U32, m, rest)
  BY DEF SetRelative
<1>3. \E x \in Millis : m <= x
  BY <1>1
<1> QED
  BY <1>1, <1>2, <1>3, SetTimerHolds

-----------------------------------------------------------------------------
(***************************************************************************)
(* The actions.                                                            *)
(***************************************************************************)
\* What is said of a list and of the calls in progress depends on the clock.
LEMMA Timeless ==
  ASSUME UNCHANGED time, Good(timers', freed'), Frames(stack')
  PROVE  Good(timers, freed)' /\ Frames(stack)'
<1>1. clock' = clock /\ rewound' = rewound
  BY DEF time
<1>2. Good(timers, freed)'
  BY <1>1 DEF Good, Decents, Decent, Apart, Kept, InOrder, Off, Signed, Diff
<1>3. Frames(stack)'
  BY <1>1 DEF Frames, FrameHolds, Diff
<1> QED
  BY <1>2, <1>3

\* What a call leaves on the list: what was there, and timers that were set since
\* the timeout was computed.
Leaves ==
  \A i \in DOMAIN timers' : \/ Delayed(timers'[i]) /\ (Blocks => timers'[i].of \in unseen')
                            \/ \E j \in DOMAIN timers : timers'[i] = timers[j]

\* A call: the loop is where it was.
LEMMA CallHolds ==
  ASSUME IInv, UNCHANGED <<wait, time, spent>>, Good(timers', freed'), Frames(stack'),
         freed' \subseteq TimerIds, calls' \in 0 .. MaxCalls,
         unseen \subseteq unseen', unseen' \subseteq TimerIds, Leaves,
         stack # <<>> \/ loop # "poll"
  PROVE  IInv'
<1>1. UNCHANGED time /\ loop' = loop /\ timeout' = timeout /\ rewound' = rewound /\ spent' = spent
  BY DEF wait, time
<1>2. Good(timers, freed)' /\ Frames(stack)'
  BY <1>1, Timeless
<1>3. Scalars'
  BY <1>1 DEF IInv, Scalars, time
<1>4. loop # "poll"
  BY DEF IInv, Asleep
<1>5. Delays'
  BY DEF IInv, Delays, Delayed, Leaves
<1>6. Asleep'
  <2>1. SUFFICES ASSUME loop = "block", timeout # 0
                 PROVE  /\ timeout = -1 \/ \E m \in Millis : timeout < m + Slack
                        /\ \A i \in DOMAIN timers' : timers'[i].of \in unseen' \/ Covers(timers'[i])
    BY <1>1, <1>4 DEF Asleep, Covers
  <2>2. /\ timeout = -1 \/ \E m \in Millis : timeout < m + Slack
        /\ \A i \in DOMAIN timers : timers[i].of \in unseen \/ Covers(timers[i])
    BY <2>1 DEF IInv, Asleep
  <2>3. ASSUME NEW i \in DOMAIN timers'
        PROVE  timers'[i].of \in unseen' \/ Covers(timers'[i])
    BY <2>1, <2>2, <2>3 DEF Leaves, Blocks
  <2> QED
    BY <2>2, <2>3
<1> QED
  BY <1>2, <1>3, <1>5, <1>6 DEF IInv

\* A timer that is set, and nothing else.
LEMMA AddsLeaves ==
  ASSUME Scalars, NEW t \in TimerIds, Overlooks(t), Adds(t, timers, timers')
  PROVE  unseen \subseteq unseen' /\ unseen' \subseteq TimerIds /\ Leaves
  BY DEF Scalars, Overlooks, Adds, Leaves

LEMMA OldLeaves ==
  ASSUME Scalars, unseen' = unseen, Old(timers, timers')
  PROVE  unseen \subseteq unseen' /\ unseen' \subseteq TimerIds /\ Leaves
  BY DEF Scalars, Old, Leaves

LEMMA MayCallIs ==
  ASSUME IInv, MayCall
  PROVE  /\ UNCHANGED <<wait, time, spent>> /\ calls' \in 0 .. MaxCalls
         /\ stack # <<>> \/ loop # "poll"
<1>1. calls \in 0 .. MaxCalls /\ MaxCalls \in Nat
  BY TimersAssumption DEF IInv, Scalars
<1> QED
  BY <1>1 DEF MayCall, Running

LEMMA TimerSetHolds == ASSUME IInv, TimerSet PROVE IInv'
<1>1. /\ Scalars /\ Good(timers, freed) /\ Frames(stack) /\ freed' = freed /\ MayCall
  BY DEF IInv, TimerSet
<1>2. PICK t \in TimerIds \ freed, millis \in Millis :
        /\ Overlooks(t)
        /\ \/ SetRelative(t, millis, stack)
           \/ LET ago     == MaxWork + 1
                  expires == (clock - ago + millis) % U32
              IN expires # 0 /\ SetTimer(t, expires, millis - ago, stack)
  BY DEF TimerSet
<1>3. Good(timers', freed) /\ Frames(stack') /\ Adds(t, timers, timers')
  <2>1. CASE SetRelative(t, millis, stack)
    BY <1>1, <2>1, SetRelativeHolds
  <2>2. CASE SetTimer(t, (clock - (MaxWork + 1) + millis) % U32, millis - (MaxWork + 1), stack)
    <3> DEFINE n == millis - (MaxWork + 1)
               expires == (clock - (MaxWork + 1) + millis) % U32
    <3>5. MaxWork \in Nat
      BY TimersAssumption
    <3>1. n \in -MaxLate .. Half - MaxLate - 1 /\ millis \in Nat /\ n <= millis
      BY <3>5, MillisFacts, Sizes
    <3>2. clock - (MaxWork + 1) + millis = clock + n
      BY <1>1, <3>1, <3>5, Sizes DEF Scalars, Times
    <3>3. expires = (clock + n) % U32 /\ SetTimer(t, expires, n, stack)
      BY <2>2, <3>2
    <3> HIDE DEF n, expires
    <3>4. \E m \in Millis : n <= m
      BY <3>1
    <3> QED
      BY <1>1, <3>1, <3>3, <3>4, SetTimerHolds
  <2> QED
    BY <1>2, <2>1, <2>2
<1>4. unseen \subseteq unseen' /\ unseen' \subseteq TimerIds /\ Leaves
  BY <1>1, <1>2, <1>3, AddsLeaves
<1> QED
  BY <1>1, <1>3, <1>4, MayCallIs, CallHolds DEF Scalars

LEMMA TimerCancelHolds == ASSUME IInv, TimerCancel PROVE IInv'
<1>1. /\ Scalars /\ Good(timers, freed) /\ Frames(stack) /\ MayCall /\ freed' = freed /\ stack' = stack
      /\ unseen' = unseen
  BY DEF IInv, TimerCancel
<1>2. PICK t \in TimerIds \ freed : timers' = Unset(timers, t)
  BY DEF TimerCancel
<1>3. Good(timers', freed) /\ Old(timers, timers')
  BY <1>1, <1>2, UnsetGood, GoodLess, UnsetOld DEF Good
<1>4. unseen \subseteq unseen' /\ unseen' \subseteq TimerIds /\ Leaves
  BY <1>1, <1>3, OldLeaves
<1> QED
  BY <1>1, <1>3, <1>4, MayCallIs, CallHolds DEF Scalars

LEMMA TimerFreeHolds == ASSUME IInv, TimerFree PROVE IInv'
<1>1. /\ Scalars /\ Good(timers, freed) /\ Frames(stack) /\ MayCall /\ stack' = stack /\ unseen' = unseen
  BY DEF IInv, TimerFree
<1>2. PICK t \in TimerIds \ freed : timers' = Unset(timers, t) /\ freed' = freed \cup {t}
  BY DEF TimerFree, Unlink
<1>3. Good(timers', freed')
  BY <1>1, <1>2, UnsetGood
<1>4. freed' \subseteq TimerIds
  BY <1>1, <1>2 DEF Scalars
<1>5. Old(timers, timers')
  BY <1>1, <1>2, UnsetOld DEF Good
<1>6. unseen \subseteq unseen' /\ unseen' \subseteq TimerIds /\ Leaves
  BY <1>1, <1>5, OldLeaves
<1> QED
  BY <1>1, <1>3, <1>4, <1>6, MayCallIs, CallHolds

LEMMA TimerForceHolds == ASSUME IInv, TimerForce PROVE IInv'
<1>1. /\ Scalars /\ Good(timers, freed) /\ Frames(stack) /\ MayCall /\ freed' = freed /\ rewound \in BOOLEAN
      /\ unseen' = unseen
  BY DEF IInv, TimerForce, Scalars
<1>2. PICK i \in DOMAIN timers : DoTimer(timers, timers[i], TRUE, stack)
  BY DEF TimerForce
<1>3. timers[i] \in Entry
  BY <1>1, ListFacts
<1>4. Good(timers', freed) /\ Frames(stack') /\ Old(timers, timers')
  BY <1>1, <1>2, <1>3, DoTimerHolds
<1>5. unseen \subseteq unseen' /\ unseen' \subseteq TimerIds /\ Leaves
  BY <1>1, <1>4, OldLeaves
<1> QED
  BY <1>1, <1>4, <1>5, MayCallIs, CallHolds DEF Scalars

LEMMA CallbackReturnsHolds == ASSUME IInv, CallbackReturns PROVE IInv'
<1>1. /\ Scalars /\ Good(timers, freed) /\ Frames(stack) /\ freed' = freed /\ calls' = calls
      /\ UNCHANGED <<wait, time, spent>> /\ stack # <<>> /\ Top.fn = "callback"
  BY DEF IInv, CallbackReturns, Running
<1>2. Top \in Frame /\ Frames(Tail(stack))
  BY <1>1, FramesFacts DEF Top
<1>3. Top.of \in TimerIds
  BY <1>1, <1>2 DEF Frame
<1>4. /\ Good(timers', freed) /\ Frames(stack')
      /\ unseen \subseteq unseen' /\ unseen' \subseteq TimerIds /\ Leaves
  <2>1. CASE stack' = Tail(stack) /\ UNCHANGED <<timers, unseen>>
    <3>1. Old(timers, timers')
      BY <2>1 DEF Old
    <3> QED
      BY <1>1, <1>2, <2>1, <3>1, OldLeaves
  <2>2. CASE /\ Top.of \notin freed /\ Overlooks(Top.of)
             /\ \E millis \in Millis : SetRelative(Top.of, millis, Tail(stack))
    <3>1. PICK m \in Millis : SetRelative(Top.of, m, Tail(stack))
      BY <2>2
    <3>2. Good(timers', freed) /\ Frames(stack') /\ Adds(Top.of, timers, timers')
      BY <1>1, <1>2, <1>3, <2>2, <3>1, SetRelativeHolds
    <3> QED
      BY <1>1, <1>3, <2>2, <3>2, AddsLeaves
  <2> QED
    BY <2>1, <2>2 DEF CallbackReturns
<1>5. calls' \in 0 .. MaxCalls /\ freed' \subseteq TimerIds
  BY <1>1 DEF Scalars
<1> QED
  BY <1>1, <1>4, <1>5, CallHolds

LEMMA CheckTimersHolds == ASSUME IInv, CheckTimers PROVE IInv'
<1>1. /\ Scalars /\ Good(timers, freed) /\ Frames(stack) /\ UNCHANGED <<timers, freed, time, calls>>
      /\ stack = <<>> /\ loop' = "block" /\ unseen' = {} /\ spent' = 0 /\ Delays
  BY DEF IInv, CheckTimers
<1>2. clock \in Times /\ clock \in Int /\ clock' = clock /\ rewound' = rewound
  BY <1>1, Sizes DEF Scalars, time, Times
<1>3. /\ Len(timers) \in Nat /\ DOMAIN timers = 1 .. Len(timers) /\ InOrder(timers)
      /\ \A i \in DOMAIN timers : timers[i] \in Entry /\ Decent(timers[i])
      /\ timers # <<>> => 1 \in DOMAIN timers /\ First = timers[1]
  BY <1>1, ListFacts DEF First, Good
<1>4. SUFFICES /\ Frames(stack') /\ timeout' \in -1 .. Half - 1
               /\ timeout' # 0 =>
                    /\ timeout' = -1 \/ \E m \in Millis : timeout' < m + Slack
                    /\ \A i \in DOMAIN timers :
                         timeout' > 0 /\ (rewound \/ timeout' <= timers[i].left)
  <2>1. Good(timers', freed')
    BY <1>1
  <2>2. Good(timers, freed)' /\ Frames(stack)'
    BY <1>1, <1>4, <2>1, Timeless
  <2>3. Scalars'
    <3>1. 0 \in 0 .. MaxWork
      BY TimersAssumption
    <3> QED
      BY <1>1, <1>2, <1>4, <3>1 DEF Scalars
  <2>4. \A i \in DOMAIN timers : timers[i].left + 0 = timers[i].left
    BY <1>3, EntryFacts
  <2>5. Asleep'
    BY <1>1, <1>2, <1>4, <2>4 DEF Asleep, Covers
  <2>6. Delays'
    BY <1>1 DEF Delays, Delayed
  <2> QED
    BY <2>2, <2>3, <2>5, <2>6 DEF IInv
<1>5. -1 \in -1 .. Half - 1 /\ 0 \in -1 .. Half - 1
  BY Sizes
<1>6. CASE timers = <<>>
  <2>1. timeout' = -1 /\ stack' = stack
    BY <1>6 DEF CheckTimers
  <2>2. DOMAIN timers = {}
    BY <1>6
  <2> QED
    BY <1>1, <1>5, <2>1, <2>2
<1>7. CASE timers # <<>> /\ Signed(First.expires, clock) <= 0
  <2> DEFINE f == [fn |-> "do_timers", now |-> clock]
  <2>1. timeout' = 0 /\ stack' = <<f>>
    BY <1>7 DEF CheckTimers
  <2>2. f \in Frame /\ f.now = clock /\ f.fn # "callback"
    BY <1>2 DEF Frame
  <2> HIDE DEF f
  <2>3. Diff(clock, clock) = 0
    <3>1. 0 \in Times /\ clock - clock = 0
      BY <1>2, Sizes DEF Times
    <3>2. Same(clock - clock, 0)
      BY <3>1, SameRefl
    <3> QED
      BY <1>2, <3>1, <3>2, DiffIs
  <2>4. FrameHolds(f)
    BY <2>2, <2>3, Sizes DEF FrameHolds
  <2>5. Frames(<<f>>)
    <3>1. <<f>> \in Seq(Frame) /\ \A i \in DOMAIN <<f>> : <<f>>[i] = f
      BY <2>2
    <3> QED
      BY <2>4, <3>1 DEF Frames
  <2> QED
    BY <1>5, <2>1, <2>5
<1>8. CASE timers # <<>> /\ ~(Signed(First.expires, clock) <= 0) /\ Sane(First)
  <2>1. timeout' = Off(First) /\ stack' = stack /\ ~(Off(First) <= 0)
    BY <1>8 DEF CheckTimers, Off
  <2>2. First \in Entry /\ First = timers[1]
    BY <1>3, <1>8
  <2>3. timeout' \in 1 .. Half - 1
    <3>1. Off(First) \in -Half .. Half - 1
      BY <1>2, <2>2, OffFacts
    <3> QED
      BY <2>1, <3>1, Sizes
  <2>6. \E m \in Millis : timeout' < m + Slack
    <3>1. PICK m \in Millis : First.delta <= m
      BY <1>1, <1>3, <1>8 DEF Delays, Delayed
    <3>2. Off(First) < First.delta + Slack
      BY <1>8 DEF Sane, Off
    <3>3. m \in Int /\ Slack \in Int /\ First.delta \in Int /\ Off(First) \in Int
      BY <1>2, <2>2, EntryFacts, MillisFacts, OffFacts, TimersAssumption
    <3> QED
      BY <2>1, <3>1, <3>2, <3>3
  <2>4. ASSUME ~rewound, NEW i \in DOMAIN timers
        PROVE  timeout' <= timers[i].left
    <3>1. Off(timers[i]) = timers[i].left /\ timers[i] \in Entry
      BY <1>3, <2>4 DEF Decent
    <3>2. Off(timers[1]) <= Off(timers[i])
      <4>1. CASE i = 1
        BY <1>2, <3>1, <4>1, OffFacts
      <4>2. CASE i # 1
        BY <1>3, <1>8, <4>2 DEF InOrder
      <4> QED
        BY <4>1, <4>2
    <3>3. Off(timers[i]) \in Int /\ Off(timers[1]) \in Int
      BY <1>2, <1>3, <1>8, OffFacts
    <3>4. timeout' = Off(timers[1])
      BY <2>1, <2>2
    <3> QED
      BY <2>3, <3>1, <3>2, <3>3, <3>4
  <2>5. timeout' \in -1 .. Half - 1 /\ timeout' > 0
    BY <2>3
  <2> QED
    BY <1>1, <2>1, <2>4, <2>5, <2>6
<1>9. CASE timers # <<>> /\ ~(Signed(First.expires, clock) <= 0) /\ ~Sane(First)
  <2> DEFINE f == [fn |-> "check_all"]
  <2>1. timeout' = 0 /\ stack' = <<f>>
    BY <1>9 DEF CheckTimers
  <2>2. f \in Frame /\ f.fn = "check_all"
    BY DEF Frame
  <2> HIDE DEF f
  <2>3. FrameHolds(f)
    BY <2>2 DEF FrameHolds
  <2>4. <<f>> \in Seq(Frame) /\ \A i \in DOMAIN <<f>> : <<f>>[i] = f
    BY <2>2
  <2>5. Frames(<<f>>)
    BY <2>3, <2>4 DEF Frames
  <2> QED
    BY <1>5, <2>1, <2>5
<1> QED
  BY <1>6, <1>7, <1>8, <1>9

\* What was due when the time was read is due.
LEMMA StillDue ==
  ASSUME clock \in Times, NEW e \in Entry, Decent(e), NEW now \in Times,
         Diff(clock, now) <= MaxLate, Due(e, now)
  PROVE  Off(e) <= 0
<1> DEFINE n == Diff(clock, now)
           x == Off(e)
<1>1. clock \in Int /\ now \in Int /\ e.expires \in Int
  BY EntryFacts, Sizes DEF Times
<1>2. n \in Times /\ Same(clock - now, n)
  BY <1>1, SameMod DEF Diff
<1>3. Same(e.expires - clock, x)
  BY <1>1, SignedFacts DEF Off
<1>4. x \in -MaxLate .. Half - MaxLate - 1 /\ n <= MaxLate
  BY DEF Decent
<1> HIDE DEF n, x
<1>5. n \in Nat /\ x \in Int /\ x + n \in -Half .. Half - 1
  BY <1>2, <1>4, Sizes DEF Times
<1>6. Far(e.expires, clock, x) /\ Far(clock, now, n)
  BY <1>2, <1>3 DEF Far
<1>7. Far(e.expires, now, x + n)
  BY <1>1, <1>5, <1>6, FarChain
<1>8. Signed(e.expires, now) = x + n
  BY <1>1, <1>5, <1>7, SignedIs DEF Far
<1>9. x + n <= 0
  BY <1>8 DEF Due
<1> QED
  BY <1>5, <1>9 DEF x

LEMMA DoTimersHolds == ASSUME IInv, DoTimers PROVE IInv'
<1>1. /\ Scalars /\ Good(timers, freed) /\ Frames(stack) /\ freed' = freed /\ calls' = calls
      /\ UNCHANGED <<wait, since, time>> /\ stack # <<>> /\ Top.fn = "do_timers"
      /\ unseen' = unseen /\ spent' = spent
  BY DEF IInv, DoTimers, Running, since
<1>2. Top \in Frame /\ FrameHolds(Top) /\ Frames(Tail(stack))
  BY <1>1, FramesFacts DEF Top
<1>3. clock \in Times /\ rewound \in BOOLEAN
  BY <1>1 DEF Scalars
<1>4. Good(timers', freed) /\ Frames(stack') /\ Old(timers, timers')
  <2>1. CASE timers # <<>> /\ Due(First, Top.now)
    <3>1. DoTimer(timers, First, FALSE, stack)
      BY <2>1 DEF DoTimers
    <3>2. First \in Entry /\ Decent(First)
      BY <1>1, <2>1, ListFacts DEF First
    <3>3. Top.now \in Times /\ Diff(clock, Top.now) <= MaxLate
      BY <1>1, <1>2 DEF Frame, FrameHolds
    <3>4. Off(First) <= 0
      BY <1>3, <2>1, <3>2, <3>3, StillDue
    <3>5. First.left <= 0 \/ rewound
      BY <1>3, <3>2, <3>4 DEF Decent
    <3> QED
      BY <1>1, <1>3, <3>1, <3>2, <3>5, DoTimerHolds
  <2>2. CASE ~(timers # <<>> /\ Due(First, Top.now))
    BY <1>1, <1>2, <2>2 DEF DoTimers, Old
  <2> QED
    BY <2>1, <2>2
<1>5. calls' \in 0 .. MaxCalls /\ freed' \subseteq TimerIds
  BY <1>1 DEF Scalars
<1>6. unseen \subseteq unseen' /\ unseen' \subseteq TimerIds /\ Leaves
  BY <1>1, <1>4, OldLeaves
<1> QED
  BY <1>1, <1>4, <1>5, <1>6, CallHolds

\* A timer that CheckAllTimers runs is late, or the clock was set back.
LEMMA AffectedIs ==
  ASSUME clock \in Times, rewound \in BOOLEAN, NEW e \in Entry, Decent(e), Affected(e)
  PROVE  e.left <= 0 \/ rewound
<1>1. SUFFICES ASSUME ~rewound, e.left > 0
               PROVE  FALSE
  BY EntryFacts
<1>2. Off(e) = e.left /\ e.left <= e.delta /\ e.left \in Int /\ e.delta \in Int
  BY <1>1, EntryFacts DEF Decent
<1>3. clock \in Int /\ e.expires \in Int
  BY EntryFacts, Sizes DEF Times
<1> DEFINE x == Diff(e.expires, clock)
<1>4. x \in Times
  BY <1>3, SignedFacts
<1>5. e.left = IF x < Half THEN x ELSE x - U32
  BY <1>2 DEF Off, Signed
<1>6. x > e.delta + Slack /\ Slack \in Nat
  BY TimersAssumption DEF Affected
<1> HIDE DEF x
<1>7. x \in 0 .. U32 - 1
  BY <1>4 DEF Times
<1> QED
  BY <1>1, <1>2, <1>5, <1>6, <1>7, Sizes

LEMMA CheckAllTimersHolds == ASSUME IInv, CheckAllTimers PROVE IInv'
<1>1. /\ Scalars /\ Good(timers, freed) /\ Frames(stack) /\ freed' = freed /\ calls' = calls
      /\ UNCHANGED <<wait, since, time>> /\ stack # <<>>
      /\ unseen' = unseen /\ spent' = spent
  BY DEF IInv, CheckAllTimers, Running, since
<1>2. Frames(Tail(stack)) /\ clock \in Times /\ rewound \in BOOLEAN
  BY <1>1, FramesFacts DEF Scalars
<1> DEFINE affected == {i \in DOMAIN timers : Affected(timers[i])}
<1>3. IF affected # {} THEN DoTimer(timers, timers[Min(affected)], FALSE, stack)
      ELSE stack' = Tail(stack) /\ UNCHANGED timers
  BY DEF CheckAllTimers
<1>4. Good(timers', freed) /\ Frames(stack') /\ Old(timers, timers')
  <2>1. CASE affected # {}
    <3>1. affected \in SUBSET Nat
      BY <1>1, ListFacts
    <3> DEFINE k == Min(affected)
    <3>2. k \in affected
      BY <2>1, <3>1, Least
    <3>3. DoTimer(timers, timers[k], FALSE, stack)
      BY <1>3, <2>1
    <3> HIDE DEF k
    <3>4. k \in DOMAIN timers /\ Affected(timers[k])
      BY <3>2
    <3> HIDE DEF affected
    <3>5. timers[k] \in Entry /\ Decent(timers[k])
      BY <1>1, <3>4, ListFacts
    <3>6. timers[k].left <= 0 \/ rewound
      BY <1>2, <3>4, <3>5, AffectedIs
    <3> QED
      BY <1>1, <1>2, <3>3, <3>5, <3>6, DoTimerHolds
  <2>2. CASE affected = {}
    BY <1>1, <1>2, <1>3, <2>2 DEF Old
  <2> QED
    BY <2>1, <2>2
<1>5. calls' \in 0 .. MaxCalls /\ freed' \subseteq TimerIds
  BY <1>1 DEF Scalars
<1>6. unseen \subseteq unseen' /\ unseen' \subseteq TimerIds /\ Leaves
  BY <1>1, <1>4, OldLeaves
<1> QED
  BY <1>1, <1>4, <1>5, <1>6, CallHolds

\* The loop goes on, with a timeout that it has, or with none.
LEMMA MovesHolds ==
  ASSUME IInv, NEW from, NEW to \in {"check", "poll", "handler"}, Moves(from, to),
         to = "poll" => from = "block",
         UNCHANGED <<timeout, since>> \/ (timeout' = 0 /\ unseen' = {} /\ spent' = 0)
  PROVE  IInv'
<1>1. /\ Scalars /\ Good(timers, freed) /\ Frames(stack) /\ UNCHANGED <<timers, freed, time, stack, calls>>
      /\ loop = from /\ loop' = to /\ Delays /\ Asleep /\ stack = <<>>
  BY DEF IInv, Moves
<1>2. UNCHANGED time /\ clock' = clock /\ rewound' = rewound /\ Good(timers', freed') /\ Frames(stack')
  BY <1>1 DEF time
<1>3. Good(timers, freed)' /\ Frames(stack)'
  BY <1>2, Timeless
<1>4. Scalars'
  <2>1. 0 \in -1 .. Half - 1 /\ 0 \in 0 .. MaxWork
    BY Sizes, TimersAssumption
  <2> QED
    BY <1>1, <1>2, <2>1 DEF Scalars, since
<1>5. Delays'
  BY <1>1 DEF Delays, Delayed
<1>6. Asleep'
  <2>1. CASE UNCHANGED <<timeout, since>>
    BY <1>1, <1>2, <2>1 DEF Asleep, Covers, since
  <2>2. CASE timeout' = 0
    BY <1>1, <2>2 DEF Asleep
  <2> QED
    BY <2>1, <2>2
<1> QED
  BY <1>3, <1>4, <1>5, <1>6 DEF IInv

\* The clock moves: the list is as good as its distances are.
LEMMA Shifted ==
  ASSUME Good(timers, freed), clock \in Times, freed' = freed,
         timers' \in Seq(Entry), DOMAIN timers' = DOMAIN timers, NEW n \in Int,
         \A i \in DOMAIN timers : /\ timers'[i].of = timers[i].of
                                  /\ Signed(timers'[i].expires, clock') = Off(timers[i]) - n,
         \A i \in DOMAIN timers : Decent(timers[i])'
  PROVE  Good(timers, freed)'
<1>1. /\ Apart(timers) /\ Kept(timers, freed) /\ InOrder(timers)
      /\ \A i \in DOMAIN timers : timers[i] \in Entry
  BY ListFacts DEF Good
<1>2. Apart(timers)'
  BY <1>1 DEF Apart
<1>3. Kept(timers, freed)'
  BY <1>1 DEF Kept
<1>4. \A i \in DOMAIN timers : Off(timers[i]) \in Int
  BY <1>1, OffFacts
<1>5. ASSUME NEW i \in DOMAIN timers, NEW j \in DOMAIN timers, i < j
      PROVE  Signed(timers'[i].expires, clock') <= Signed(timers'[j].expires, clock')
  <2>1. Off(timers[i]) <= Off(timers[j]) /\ Off(timers[i]) \in Int /\ Off(timers[j]) \in Int
    BY <1>1, <1>4, <1>5 DEF InOrder
  <2>2. /\ Signed(timers'[i].expires, clock') = Off(timers[i]) - n
        /\ Signed(timers'[j].expires, clock') = Off(timers[j]) - n
    OBVIOUS
  <2> QED
    BY <2>1, <2>2
<1>6. InOrder(timers)'
  BY <1>5 DEF InOrder, Off
<1>7. Decents(timers)'
  BY DEF Decents
<1> QED
  BY <1>2, <1>3, <1>6, <1>7 DEF Good

LEMMA TickHolds == ASSUME IInv, Tick PROVE IInv'
<1>0. MaxWork \in Nat /\ MaxLate \in Nat /\ MaxWork <= MaxLate
  BY TimersAssumption
<1>1. /\ Scalars /\ Good(timers, freed) /\ Frames(stack) /\ Delays /\ Asleep
      /\ UNCHANGED <<freed, loop, unseen, stack, calls, rewound>>
      /\ clock' = (clock + 1) % U32
      /\ timers' = [i \in DOMAIN timers |-> [timers[i] EXCEPT !.left = @ - 1]]
      /\ timeout' = IF loop = "poll" /\ timeout > 0 THEN timeout - 1 ELSE timeout
      /\ spent' = IF Blocks THEN spent + 1 ELSE spent
      /\ \A i \in DOMAIN timers :
           Signed(timers[i].expires, clock) > -(IF loop = "poll" THEN MaxLate ELSE MaxWork)
      /\ \A i \in DOMAIN stack : stack[i].fn = "do_timers" => Diff(clock, stack[i].now) < MaxWork
      /\ loop = "poll" => timeout # 0
      /\ Blocks => spent < MaxWork
  BY DEF IInv, Tick
<1>2. clock \in Times /\ clock \in Int /\ timeout \in -1 .. Half - 1 /\ Half \in Nat
  BY <1>1, Sizes DEF Scalars, Times
<1>3. /\ timers \in Seq(Entry) /\ Len(timers) \in Nat /\ DOMAIN timers = 1 .. Len(timers)
      /\ \A i \in DOMAIN timers : timers[i] \in Entry /\ Decent(timers[i])
  BY <1>1, ListFacts
<1>4. clock' \in Times /\ DOMAIN timers' = DOMAIN timers
  BY <1>1, <1>2, Ahead, Sizes, SameMod
<1>5. ASSUME NEW i \in DOMAIN timers
      PROVE  /\ timers'[i] \in Entry
             /\ timers'[i].of = timers[i].of /\ timers'[i].left = timers[i].left - 1
             /\ timers'[i].delta = timers[i].delta
             /\ Signed(timers'[i].expires, clock') = Off(timers[i]) - 1
             /\ Decent(timers[i])'
  <2> DEFINE e == timers[i]
             f == timers'[i]
  <2>0. e \in Entry /\ Decent(e)
    BY <1>3, <1>5
  <2>1. e \in Entry /\ Decent(e) /\ Off(e) > -MaxLate
    <3>1. Off(e) > -(IF loop = "poll" THEN MaxLate ELSE MaxWork)
      BY <1>1, <1>5 DEF Off
    <3>2. Off(e) \in Int
      BY <1>2, <2>0, OffFacts
    <3> QED
      BY <1>0, <2>0, <3>1, <3>2
  <2>2. f = [e EXCEPT !.left = e.left - 1]
    BY <1>1, <1>5
  <2> HIDE DEF e, f
  <2>3. /\ e.left \in Int /\ e.expires \in Int /\ e.delta \in Int /\ e.expires \in Times
        /\ e.delta \in Times /\ e.of \in TimerIds
    BY <2>1, EntryFacts
  <2>4. f.of = e.of /\ f.left = e.left - 1 /\ f.expires = e.expires /\ f.delta = e.delta
    BY <2>1, <2>2 DEF Entry
  <2>5. Off(e) \in -MaxLate .. Half - MaxLate - 1 /\ Off(e) - e.left \in 0 .. Half - 1
    BY <2>1 DEF Decent
  <2>6. Off(e) \in Int
    BY <2>5, Sizes
  <2>7. /\ Off(e) - 1 \in -MaxLate .. Half - MaxLate - 1 /\ Off(e) - 1 \in -Half .. Half - 1
        /\ (Off(e) - 1) - (e.left - 1) = Off(e) - e.left
    BY <2>1, <2>3, <2>5, <2>6, Sizes
  <2>8. e.left - 1 \in -U32 .. U32
    BY <2>3, <2>5, <2>6, <2>7, Sizes
  <2>9. f \in Entry
    BY <2>1, <2>2, <2>8 DEF Entry
  <2>10. Signed(e.expires, (clock + 1) % U32) = Signed(e.expires, clock) - 1
    BY <1>2, <2>3, <2>7, Moved DEF Off
  <2>11. Signed(f.expires, clock') = Off(e) - 1
    BY <1>1, <2>4, <2>10 DEF Off
  <2>12. /\ Signed(f.expires, clock') \in -MaxLate .. Half - MaxLate - 1
         /\ Signed(f.expires, clock') - f.left \in 0 .. Half - 1
    BY <2>4, <2>5, <2>7, <2>11
  <2>13. ASSUME ~rewound'
         PROVE  /\ Signed(f.expires, clock') = f.left /\ f.left <= f.delta
                /\ \E m \in Millis : f.left <= m
    <3>1. ~rewound
      BY <1>1, <2>13
    <3>2. Off(e) = e.left /\ e.left <= e.delta
      BY <2>1, <3>1 DEF Decent
    <3>3. PICK m \in Millis : e.left <= m
      BY <2>1, <3>1 DEF Decent
    <3>4. m \in Nat
      BY MillisFacts
    <3>5. f.left <= m
      BY <2>3, <2>4, <3>3, <3>4
    <3> QED
      BY <2>3, <2>4, <2>11, <3>2, <3>5
  <2>14. Decent(timers[i])'
    BY <2>12, <2>13 DEF Decent, Off, f
  <2> QED
    BY <2>4, <2>9, <2>11, <2>14 DEF e, f
<1>6. timers' \in Seq(Entry)
  <2>1. timers' = [i \in 1 .. Len(timers) |-> timers'[i]]
    BY <1>1, <1>3
  <2>2. \A i \in 1 .. Len(timers) : timers'[i] \in Entry
    BY <1>3, <1>5
  <2>3. [i \in 1 .. Len(timers) |-> timers'[i]] \in Seq(Entry)
    BY <1>3, <2>2, IsASeq
  <2> QED
    BY <2>1, <2>3
<1>7. Good(timers, freed)'
  <2>1. \A i \in DOMAIN timers : /\ timers'[i].of = timers[i].of
                                  /\ Signed(timers'[i].expires, clock') = Off(timers[i]) - 1
    BY <1>5
  <2>3. 1 \in Int /\ freed' = freed /\ Good(timers, freed)
    BY <1>1
  <2>2. \A i \in DOMAIN timers : Decent(timers[i])'
    BY <1>5
  <2> QED
    BY <1>2, <1>4, <1>6, <2>1, <2>2, <2>3, Shifted
<1>8. Frames(stack)'
  <2>1. SUFFICES ASSUME NEW i \in DOMAIN stack
                 PROVE  FrameHolds(stack[i])'
    BY <1>1 DEF Frames
  <2>2. stack'[i] = stack[i] /\ stack[i] \in Frame /\ FrameHolds(stack[i])
    BY <1>1, <2>1, FramesFacts DEF Frames
  <2>3. CASE stack[i].fn = "do_timers"
    <3> DEFINE now == stack[i].now
               n == Diff(clock, now)
    <3>1. now \in Times /\ n < MaxWork
      BY <1>1, <2>1, <2>2, <2>3 DEF Frame
    <3> HIDE DEF now
    <3>2. now \in Int
      BY <3>1, Sizes DEF Times
    <3>3. n \in Times /\ Same(clock - now, n)
      BY <1>2, <3>2, SameMod DEF Diff
    <3> HIDE DEF n
    <3>4. n \in Nat /\ n + 1 \in Times /\ n + 1 <= MaxLate
      BY <1>0, <3>1, <3>3, Sizes DEF Times
    <3>5. clock' \in Int /\ clock + 1 \in Int
      BY <1>2, <1>4, Sizes DEF Times
    <3>6. Same(clock + 1, clock')
      BY <1>1, <1>2, SameMod
    <3>7. Same(clock', clock + 1)
      BY <3>5, <3>6, SameSum
    <3>8. Same(clock' - clock, (clock + 1) - clock)
      BY <1>2, <3>5, <3>7, SameRefl, SameSum
    <3>9. (clock + 1) - clock = 1
      BY <1>2
    <3>10. Same(clock' - clock, 1)
      BY <3>8, <3>9
    <3>11. Far(clock', clock, 1) /\ Far(clock, now, n) /\ n + 1 = 1 + n
      BY <3>3, <3>4, <3>10 DEF Far
    <3>12. Far(clock', now, n + 1)
      BY <1>2, <3>2, <3>4, <3>5, <3>11, FarChain
    <3>13. Diff(clock', now) = n + 1
      BY <3>2, <3>4, <3>5, <3>12, DiffIs DEF Far
    <3> QED
      BY <2>2, <2>3, <3>4, <3>13 DEF FrameHolds, now
  <2>4. CASE stack[i].fn # "do_timers"
    BY <1>1, <2>2, <2>4 DEF FrameHolds
  <2> QED
    BY <2>3, <2>4
<1>9. timeout' \in -1 .. Half - 1
  BY <1>1, <1>2
<1>10. Scalars'
  <2>1. spent' \in 0 .. MaxWork
    BY <1>0, <1>1 DEF Scalars
  <2> QED
    BY <1>1, <1>4, <1>9, <2>1 DEF Scalars
<1>11. Delays'
  BY <1>1, <1>4, <1>5 DEF Delays, Delayed
<1>12. Asleep'
  <2>1. loop' = "poll" => stack' = <<>>
    BY <1>1 DEF Asleep
  <2>2. SUFFICES ASSUME loop \in {"block", "poll"}, timeout' # 0
                 PROVE  /\ timeout' = -1 \/ \E m \in Millis : timeout' < m + Slack
                        /\ \A i \in DOMAIN timers : timers'[i].of \in unseen \/ Covers(timers[i])'
    BY <1>1, <1>4, <2>1 DEF Asleep
  <2>3. /\ timeout # 0 /\ timeout' <= timeout /\ timeout' \in Int
        /\ timeout > 0 => timeout' > 0
    BY <1>1, <1>2, <2>2
  <2>4. /\ timeout = -1 \/ \E m \in Millis : timeout < m + Slack
        /\ \A i \in DOMAIN timers : timers[i].of \in unseen \/ Covers(timers[i])
    BY <1>1, <2>2, <2>3 DEF Asleep
  <2>5. timeout' = -1 \/ \E m \in Millis : timeout' < m + Slack
    <3>1. CASE timeout = -1
      BY <1>1, <3>1
    <3>2. CASE \E m \in Millis : timeout < m + Slack
      <4>1. PICK m \in Millis : timeout < m + Slack
        BY <3>2
      <4>2. m \in Int /\ Slack \in Int
        BY MillisFacts, TimersAssumption
      <4>3. timeout' < m + Slack
        BY <1>2, <2>3, <4>1, <4>2
      <4> QED
        BY <4>3
    <3> QED
      BY <2>4, <3>1, <3>2
  <2>6. ASSUME NEW i \in DOMAIN timers, timers[i].of \notin unseen
        PROVE  Covers(timers[i])'
    <3>1. timeout > 0 /\ (rewound \/ timeout <= timers[i].left + spent)
      BY <2>4, <2>6 DEF Covers
    <3>2. timers[i].left \in Int /\ timers'[i].left = timers[i].left - 1 /\ spent \in Int
      <4>1. timers[i] \in Entry
        BY <1>3, <2>6
      <4>2. timers'[i] = [timers[i] EXCEPT !.left = timers[i].left - 1]
        BY <1>1, <2>6
      <4>3. timers'[i].left = timers[i].left - 1
        BY <4>1, <4>2 DEF Entry
      <4>4. timers[i].left \in Int
        BY <4>1, EntryFacts
      <4>5. spent \in Int
        BY <1>0, <1>1 DEF Scalars
      <4> QED
        BY <4>3, <4>4, <4>5
    <3>3. timeout <= timers[i].left + spent => timeout' <= timers'[i].left + spent'
      <4>1. CASE loop = "poll"
        <5>1. timeout' = timeout - 1 /\ spent' = spent
          BY <1>1, <3>1, <4>1 DEF Blocks
        <5> QED
          BY <1>2, <3>2, <5>1
      <4>2. CASE loop = "block"
        <5>1. timeout' = timeout /\ spent' = spent + 1
          BY <1>1, <2>3, <4>2 DEF Blocks
        <5> QED
          BY <1>2, <3>2, <5>1
      <4> QED
        BY <2>2, <4>1, <4>2
    <3> QED
      BY <1>1, <2>3, <3>1, <3>3 DEF Covers
  <2>7. \A i \in DOMAIN timers : timers'[i].of = timers[i].of
    BY <1>5
  <2> QED
    BY <2>5, <2>6, <2>7
<1> QED
  BY <1>7, <1>8, <1>10, <1>11, <1>12 DEF IInv

LEMMA RewindHolds == ASSUME IInv, Rewind PROVE IInv'
<1>1. /\ Scalars /\ Good(timers, freed) /\ loop = "handler" /\ stack = <<>> /\ ~rewound /\ rewound' = TRUE
      /\ UNCHANGED <<timers, freed, wait, since, stack, calls>> /\ loop' = loop /\ timeout' = timeout
      /\ unseen' = unseen /\ spent' = spent /\ Delays
  BY DEF IInv, Rewind, wait, since
<1>2. PICK d \in Rewinds : clock' = (clock - d) % U32
  BY DEF Rewind
<1>3. d \in Nat /\ \A m \in Millis : m \in Nat /\ m + d + MaxLate < Half
  <2>1. d \in Times /\ \A m \in Millis : m + d + MaxLate < Half
    BY TimersAssumption
  <2> QED
    BY <2>1, MillisFacts, Sizes DEF Times
<1>4. clock \in Times /\ clock \in Int
  BY <1>1, Sizes DEF Scalars, Times
<1>5. clock - d = clock + (-d) /\ -d \in Int
  BY <1>3, <1>4
<1>6. clock' \in Times
  BY <1>2, <1>3, <1>4, SameMod
<1>7. ASSUME NEW i \in DOMAIN timers
      PROVE  /\ Signed(timers'[i].expires, clock') = Off(timers[i]) - (-d)
             /\ Decent(timers[i])'
  <2> DEFINE e == timers[i]
  <2>1. e \in Entry /\ Decent(e) /\ timers'[i] = e
    BY <1>1, <1>7, ListFacts
  <2> HIDE DEF e
  <2>2. e.left \in Int /\ e.expires \in Int
    BY <2>1, EntryFacts
  <2>3. Off(e) \in -MaxLate .. Half - MaxLate - 1 /\ Off(e) = e.left
    BY <1>1, <2>1 DEF Decent
  <2>4. PICK m \in Millis : e.left <= m
    BY <1>1, <2>1 DEF Decent
  <2>5. m \in Nat /\ m + d + MaxLate < Half
    BY <1>3
  <2>6. /\ Off(e) - (-d) \in -Half .. Half - 1 /\ Off(e) + d \in -MaxLate .. Half - MaxLate - 1
        /\ d \in 0 .. Half - 1 /\ Off(e) \in Int
    BY <1>3, <2>2, <2>3, <2>4, <2>5, Sizes
  <2>7. Signed(e.expires, (clock + (-d)) % U32) = Signed(e.expires, clock) - (-d)
    BY <1>4, <1>5, <2>2, <2>6, Moved DEF Off
  <2>8. Signed(e.expires, clock') = Off(e) - (-d)
    BY <1>2, <1>5, <2>7 DEF Off
  <2>9. Off(e) - (-d) = Off(e) + d /\ Off(e) + d - e.left = d
    BY <1>3, <2>2, <2>3, <2>6
  <2>10. /\ Signed(e.expires, clock') \in -MaxLate .. Half - MaxLate - 1
         /\ Signed(e.expires, clock') - e.left \in 0 .. Half - 1
    <3>1. Signed(e.expires, clock') = Off(e) + d
      BY <2>8, <2>9
    <3>2. Signed(e.expires, clock') - e.left = d
      BY <1>3, <2>2, <2>6, <2>9, <3>1
    <3> QED
      BY <2>6, <3>1, <3>2
  <2>11. Decent(timers[i])'
    BY <1>1, <2>1, <2>10 DEF Decent, Off
  <2> QED
    BY <2>1, <2>8, <2>11 DEF e
<1>8. timers \in Seq(Entry)
  BY <1>1, ListFacts
<1>9. Good(timers, freed)'
  BY <1>1, <1>4, <1>5, <1>7, <1>8, Shifted
<1>10. Frames(stack)'
  BY <1>1 DEF Frames
<1>11. Scalars' /\ Asleep' /\ Delays'
  BY <1>1, <1>6 DEF Scalars, Asleep, Delays, Delayed
<1> QED
  BY <1>9, <1>10, <1>11 DEF IInv

LEMMA InitHolds == Init => IInv
<1>1. SUFFICES ASSUME Init
               PROVE  IInv
  OBVIOUS
<1>2. Scalars
  <2>1. Starts \subseteq Times /\ MaxCalls \in Nat
    BY TimersAssumption
  <2>2. timeout \in -1 .. Half - 1
    BY <1>1, Sizes DEF Init
  <2>3. calls \in 0 .. MaxCalls /\ spent \in 0 .. MaxWork
    BY <1>1, <2>1, TimersAssumption DEF Init
  <2> QED
    BY <1>1, <2>1, <2>2, <2>3 DEF Init, Scalars
<1>3. Good(timers, freed)
  BY <1>1 DEF Init, Good, Decents, Apart, Kept, InOrder
<1>4. Frames(stack) /\ Asleep /\ Delays
  BY <1>1 DEF Init, Frames, Asleep, Delays
<1> QED
  BY <1>2, <1>3, <1>4 DEF IInv

LEMMA NextHolds == ASSUME IInv, [Next]_vars PROVE IInv'
<1>1. CASE UNCHANGED vars
  <2>1. UNCHANGED <<timers, freed, time, clock, rewound, wait, loop, timeout, unseen, spent, stack, calls>>
    BY <1>1 DEF vars, time, wait, since
  <2>2. Good(timers', freed') /\ Frames(stack')
    BY <2>1 DEF IInv
  <2>3. Good(timers, freed)' /\ Frames(stack)'
    BY <2>1, <2>2, Timeless
  <2> QED
    BY <2>1, <2>3 DEF IInv, Scalars, Asleep, Covers, Delays, Delayed
<1>2. CASE CallbackReturns
  BY <1>2, CallbackReturnsHolds
<1>3. CASE CheckTimers
  BY <1>3, CheckTimersHolds
<1>4. CASE DoTimers
  BY <1>4, DoTimersHolds
<1>5. CASE CheckAllTimers
  BY <1>5, CheckAllTimersHolds
<1>6. CASE Poll
  BY <1>6, MovesHolds DEF Poll
<1>7. CASE PollTimesOut
  BY <1>7, MovesHolds DEF PollTimesOut, PollEnds
<1>8. CASE HandlerReturns
  BY <1>8, MovesHolds DEF HandlerReturns
<1>9. CASE TimerSet
  BY <1>9, TimerSetHolds
<1>10. CASE TimerCancel
  BY <1>10, TimerCancelHolds
<1>11. CASE TimerFree
  BY <1>11, TimerFreeHolds
<1>12. CASE TimerForce
  BY <1>12, TimerForceHolds
<1>13. CASE PollWakes
  BY <1>13, MovesHolds DEF PollWakes, PollEnds
<1>14. CASE Tick
  BY <1>14, TickHolds
<1>15. CASE Rewind
  BY <1>15, RewindHolds
<1> QED
  BY <1>1, <1>2, <1>3, <1>4, <1>5, <1>6, <1>7, <1>8, <1>9, <1>10, <1>11, <1>12, <1>13, <1>14, <1>15 DEF Next, Server

-----------------------------------------------------------------------------
\* The inductive invariant holds.
THEOREM Invariant == Spec => []IInv
<1>1. Init => IInv
  BY InitHolds
<1>2. IInv /\ [Next]_vars => IInv'
  BY NextHolds
<1> QED
  BY <1>1, <1>2, PTL DEF Spec

\* Whatever callbacks do to the list while DoTimers and CheckAllTimers walk it,
\* and however often the times wrap: a timer is on the list once, none that was
\* freed is, and they are in the order in which they expire.
THEOREM ListKept == Spec => []ListHolds
<1>1. ASSUME IInv
      PROVE  ListHolds
  <2>1. /\ Scalars /\ timers \in Seq(Entry) /\ Apart(timers) /\ Kept(timers, freed) /\ InOrder(timers)
        /\ stack \in Seq(Frame) /\ clock \in Times
        /\ \A i \in DOMAIN timers : timers[i] \in Entry /\ Decent(timers[i])
    BY <1>1, ListFacts DEF IInv, Good, Frames, Scalars
  <2>2. TypeOK /\ Linked
    BY <2>1 DEF TypeOK, Linked, Scalars, Apart, Kept
  <2>3. ASSUME NEW i \in DOMAIN timers, NEW j \in DOMAIN timers, i < j
        PROVE  Signed(timers[j].expires, timers[i].expires) >= 0
    <3>1. Off(timers[i]) <= Off(timers[j])
      BY <2>1, <2>3 DEF InOrder
    <3>2. /\ Off(timers[i]) \in -MaxLate .. Half - MaxLate - 1 /\ Off(timers[j]) \in -MaxLate .. Half - MaxLate - 1
          /\ timers[i].expires \in Int /\ timers[j].expires \in Int /\ clock \in Int
      BY <2>1, <2>3, EntryFacts, Sizes DEF Decent, Times
    <3>3. Off(timers[j]) - Off(timers[i]) \in -Half .. Half - 1 /\ Off(timers[i]) \in Int /\ Off(timers[j]) \in Int
      BY <3>2, Sizes
    <3>4. Signed(timers[j].expires, timers[i].expires) = Off(timers[j]) - Off(timers[i])
      BY <3>2, <3>3, Two DEF Off
    <3> QED
      BY <3>1, <3>3, <3>4
  <2> QED
    BY <2>2, <2>3 DEF ListHolds, Sorted
<1>2. IInv => ListHolds
  BY <1>1
<1> QED
  BY <1>2, Invariant, PTL

\* No callback runs before its time, unless it is forced to or the clock was
\* set back: not by a walk that began before, nor by CheckAllTimers.
THEOREM RunInTime == Spec => []NotEarly
<1>1. IInv => NotEarly
  BY DEF IInv, Frames, FrameHolds, NotEarly
<1> QED
  BY <1>1, Invariant, PTL

\* Whatever block handlers set after the timeout is computed, and for however long
\* they take: poll sleeps no longer than timers are set for, and not past one that
\* was set before then, but for what they have taken, as long as the clock is right.
THEOREM WakesInTime == Spec => []SleepsRight
<1>1. IInv => SleepsRight
  BY DEF IInv, Asleep, Covers, SleepsRight
<1> QED
  BY <1>1, Invariant, PTL
=============================================================================
