-------------------------- MODULE Selections_proofs --------------------------
(***************************************************************************)
(* The proofs about Selections and the ServerTime that it extends.         *)
(*                                                                         *)
(* The first two parts are arithmetic: the months and milliseconds of a    *)
(* time, and what the operators of ServerTime make of the stamp of a time  *)
(* that they assume no more of than how far it is from the clock.  The     *)
(* third part is what one step does to the server's time, the fourth what  *)
(* the operators on the selection's record do to the owner and to the      *)
(* watchers, and the last takes the actions one by one.                    *)
(*                                                                         *)
(* Inductive is IInv: the types, what is known of the watchers, what is    *)
(* known of the owner, and, unless an event of last month is processed in  *)
(* this one, that the last owner by time is the owner.                     *)
(***************************************************************************)
EXTENDS Selections, TLAPS

\* The quotient and the remainder.
LEMMA DivMod ==
  ASSUME NEW a \in Nat, NEW M \in Nat \ {0}
  PROVE  (a % M) \in 0 .. M - 1 /\ (a \div M) \in Nat /\ a = M * (a \div M) + (a % M)
  BY SMT

\* What has a quotient and a remainder has no other.
LEMMA ModUnique ==
  ASSUME NEW M \in Nat \ {0}, NEW q \in Nat, NEW r \in 0 .. M - 1
  PROVE  (M * q + r) % M = r /\ (M * q + r) \div M = q
  BY SMT

\* What does not wrap stays.
LEMMA ModSmall ==
  ASSUME NEW M \in Nat \ {0}, NEW r \in 0 .. M - 1
  PROVE  r % M = r
  BY SMT

\* a is larger than b: so is its multiple, by as much at least.
LEMMA Multiples ==
  ASSUME NEW M \in Nat, NEW a \in Int, NEW b \in Int, NEW k \in Nat, a >= b + k
  PROVE  M * a >= M * b + M * k
<1> DEFINE d == a - (b + k)
<1>1. d \in Nat /\ a = b + k + d
  OBVIOUS
<1> HIDE DEF d
<1>2. M * (b + k + d) = M * b + M * k + M * d
  BY <1>1
<1>3. M * d \in Nat /\ M * b \in Int /\ M * k \in Int
  BY <1>1
<1> QED
  BY <1>1, <1>2, <1>3

\* Two times that are less than a month apart.
LEMMA Months ==
  ASSUME NEW M \in Nat \ {0}, NEW i \in Nat, NEW t \in Nat, i <= t, t - i < M
  PROVE  \/ t \div M = i \div M /\ t % M = (i % M) + (t - i)
         \/ t \div M = i \div M + 1 /\ t % M = (i % M) + (t - i) - M
<1> DEFINE q == i \div M
           r == i % M
           p == t \div M
           s == t % M
<1>1. r \in 0 .. M - 1 /\ q \in Nat /\ i = M * q + r
  BY DivMod
<1>2. s \in 0 .. M - 1 /\ p \in Nat /\ t = M * p + s
  BY DivMod
<1> HIDE DEF q, r, p, s
<1>3. M * q \in Int /\ M * p \in Int /\ M * 2 = M + M /\ M * 1 = M /\ M * 0 = 0
  BY <1>1, <1>2
<1>4. ~(p >= q + 2)
  <2>1. SUFFICES ASSUME p >= q + 2
                 PROVE  FALSE
    OBVIOUS
  <2>2. M * p >= M * q + M * 2
    BY <1>1, <1>2, <2>1, Multiples
  <2> QED
    BY <1>1, <1>2, <1>3, <2>2
<1>5. ~(q >= p + 1)
  <2>1. SUFFICES ASSUME q >= p + 1
                 PROVE  FALSE
    OBVIOUS
  <2>2. M * q >= M * p + M * 1
    BY <1>1, <1>2, <2>1, Multiples
  <2> QED
    BY <1>1, <1>2, <1>3, <2>2
<1>6. p = q \/ p = q + 1
  BY <1>1, <1>2, <1>4, <1>5
<1>7. M * (q + 1) = M * q + M
  BY <1>1
<1>8. CASE p = q
  BY <1>1, <1>2, <1>3, <1>8 DEF q, r, p, s
<1>9. CASE p = q + 1
  <2>1. t = M * q + M + s
    BY <1>2, <1>7, <1>9
  <2>2. s = r + (t - i) - M
    BY <1>1, <1>2, <1>3, <2>1
  <2> QED
    BY <1>9, <2>2 DEF q, r, p, s
<1> QED
  BY <1>6, <1>8, <1>9

\* The month of a time that has one in a CARD32.
LEMMA MonthBound ==
  ASSUME NEW M \in Nat \ {0}, NEW t \in Nat, t < M * M
  PROVE  t \div M \in 0 .. M - 1
<1> DEFINE p == t \div M
<1>1. p \in Nat /\ t % M \in Nat /\ t = M * p + (t % M)
  BY DivMod
<1> HIDE DEF p
<1>2. ~(p >= M + 0)
  <2>1. SUFFICES ASSUME p >= M + 0
                 PROVE  FALSE
    OBVIOUS
  <2>2. M * p >= M * M + M * 0
    BY <1>1, <2>1, Multiples
  <2>3. M * M \in Int /\ M * 0 = 0 /\ M * p \in Int
    BY <1>1
  <2> HIDE DEF p
  <2>4. t >= M * p
    BY <1>1, <2>3
  <2> QED
    BY <2>2, <2>3, <2>4
<1> QED
  BY <1>1, <1>2 DEF p

\* The order of stamps is that of times.
LEMMA MonthOrder ==
  ASSUME NEW M \in Nat \ {0}, NEW a \in Nat, NEW b \in Nat
  PROVE  a > b <=> (a \div M > b \div M \/ (a \div M = b \div M /\ a % M > b % M))
<1> DEFINE q == a \div M
           r == a % M
           p == b \div M
           s == b % M
<1>1. r \in 0 .. M - 1 /\ q \in Nat /\ a = M * q + r
  BY DivMod
<1>2. s \in 0 .. M - 1 /\ p \in Nat /\ b = M * p + s
  BY DivMod
<1> HIDE DEF q, r, p, s
<1>3. M * q \in Int /\ M * p \in Int /\ M * 1 = M
  BY <1>1, <1>2
<1>4. CASE q >= p + 1
  <2>1. M * q >= M * p + M * 1
    BY <1>1, <1>2, <1>4, Multiples
  <2>2. a > b
    BY <1>1, <1>2, <1>3, <2>1
  <2> QED
    BY <1>1, <1>2, <1>4, <2>2 DEF q, r, p, s
<1>5. CASE p >= q + 1
  <2>1. M * p >= M * q + M * 1
    BY <1>1, <1>2, <1>5, Multiples
  <2>2. b > a
    BY <1>1, <1>2, <1>3, <2>1
  <2> QED
    BY <1>1, <1>2, <1>5, <2>2 DEF q, r, p, s
<1>6. CASE p = q
  <2>1. a > b <=> r > s
    BY <1>1, <1>2, <1>3, <1>6
  <2> QED
    BY <1>1, <1>2, <1>6, <2>1 DEF q, r, p, s
<1> QED
  BY <1>1, <1>2, <1>4, <1>5, <1>6

------------------------------------------------------------------------------
\* What is assumed of the clock, spelt out.
LEMMA Constants ==
  /\ U32 \in Nat \ {0} /\ U32 > 2 /\ U32 = Half + Half /\ Half \in Nat \ {0} /\ Half > 1
  /\ U32 % 2 = 0 /\ U32 + U32 <= U32 * U32 /\ U32 * U32 \in Nat
<1>1. U32 \in Nat /\ U32 > 2 /\ U32 % 2 = 0
  BY ServerTimeAssumption
<1>2. U32 = Half + Half /\ Half \in Nat \ {0} /\ Half > 1
  <2>1. U32 = 2 * (U32 \div 2) + (U32 % 2) /\ U32 \div 2 \in Nat
    BY <1>1, DivMod
  <2> QED
    BY <1>1, <2>1 DEF Half
<1>3. U32 * U32 >= U32 * 0 + U32 * 2 /\ U32 * 2 = U32 + U32 /\ U32 * 0 = 0
  BY <1>1, Multiples
<1> QED
  BY <1>1, <1>2, <1>3

\* Months and MonthOrder, of the clock's month.
LEMMA MonthsHere ==
  ASSUME NEW i \in Nat, NEW t \in Nat, i <= t, t - i < U32
  PROVE  \/ t \div U32 = i \div U32 /\ t % U32 = (i % U32) + (t - i)
         \/ t \div U32 = i \div U32 + 1 /\ t % U32 = (i % U32) + (t - i) - U32
<1>1. U32 \in Nat \ {0}
  BY Constants
<1> QED
  BY <1>1, Months

\* The order of stamps is that of times, for the clock's month.
LEMMA MonthOrderHere ==
  ASSUME NEW a \in Nat, NEW b \in Nat
  PROVE  a > b <=> (a \div U32 > b \div U32 \/ (a \div U32 = b \div U32 /\ a % U32 > b % U32))
<1>1. U32 \in Nat \ {0}
  BY Constants
<1> QED
  BY <1>1, MonthOrder, Zenon

\* A stamp's parts, and the time that it stands for.
LEMMA StampFacts ==
  ASSUME NEW t \in Nat
  PROVE  /\ Stamp(t).months = t \div U32 /\ Stamp(t).milliseconds = t % U32
         /\ Instant(Stamp(t)) = t
         /\ Stamp(t).months \in Nat /\ Stamp(t).milliseconds \in 0 .. U32 - 1
         /\ t < U32 * U32 => Stamp(t) \in TimeStamp
<1>1. Stamp(t).months = t \div U32 /\ Stamp(t).milliseconds = t % U32
  BY DEF Stamp
<1>2. (t % U32) \in 0 .. U32 - 1 /\ (t \div U32) \in Nat /\ t = U32 * (t \div U32) + (t % U32)
  BY Constants, DivMod
<1>3. U32 * (t \div U32) = (t \div U32) * U32
  BY <1>2, Constants
<1>4. Instant(Stamp(t)) = t
  BY <1>1, <1>2, <1>3 DEF Instant
<1>5. ASSUME t < U32 * U32
      PROVE  Stamp(t) \in TimeStamp
  <2>1. t \div U32 \in 0 .. U32 - 1
    BY <1>5, Constants, MonthBound
  <2> QED
    BY <1>2, <2>1 DEF Stamp, TimeStamp
<1> QED
  BY <1>1, <1>2, <1>4, <1>5

\* Every time stamp is the stamp of a time.
LEMMA InstantStamp ==
  ASSUME NEW ts \in TimeStamp
  PROVE  Instant(ts) \in Nat /\ ts = Stamp(Instant(ts))
<1> DEFINE m == ts.months
           r == ts.milliseconds
<1>1. m \in Nat /\ r \in 0 .. U32 - 1 /\ ts = [months |-> m, milliseconds |-> r]
  BY DEF TimeStamp
<1> HIDE DEF m, r
<1>2. m * U32 + r = U32 * m + r /\ U32 * m + r \in Nat
  BY <1>1, Constants
<1>3. (U32 * m + r) % U32 = r /\ (U32 * m + r) \div U32 = m
  BY <1>1, Constants, ModUnique
<1>4. Instant(ts) = U32 * m + r
  BY <1>2 DEF Instant, m, r
<1> QED
  BY <1>1, <1>2, <1>3, <1>4 DEF Stamp

\* CompareTimeStamps, of two stamps, compares the times.
LEMMA LaterStamp ==
  ASSUME NEW a \in Nat, NEW b \in Nat
  PROVE  Later(Stamp(a), Stamp(b)) <=> a > b
<1>1. Later(Stamp(a), Stamp(b)) <=>
        (a \div U32 > b \div U32 \/ (a \div U32 = b \div U32 /\ a % U32 > b % U32))
  BY DEF Later, Stamp
<1>2. a > b <=> (a \div U32 > b \div U32 \/ (a \div U32 = b \div U32 /\ a % U32 > b % U32))
  BY MonthOrderHere
<1> QED
  BY <1>1, <1>2

\* The next month, short of the last one.
LEMMA NextMonthIs ==
  ASSUME NEW m \in Nat, m + 1 < U32, NEW ts, ts.months = m
  PROVE  NextMonth(ts) = m + 1
BY Constants, ModSmall DEF NextMonth

\* The clock, read less than a month after the time, shows the time that is now.
LEMMA SystimeIs ==
  ASSUME NEW i \in Nat, now \in Nat, i <= now, now - i < U32, now < U32 * U32
  PROVE  Systime(Stamp(i)) = Stamp(now)
<1> DEFINE m == i \div U32
           r == i % U32
           n == now \div U32
           s == now % U32
<1>1. /\ m \in Nat /\ r \in 0 .. U32 - 1 /\ n \in 0 .. U32 - 1 /\ s \in 0 .. U32 - 1
      /\ \/ n = m /\ s = r + (now - i)
         \/ n = m + 1 /\ s = r + (now - i) - U32
  BY Constants, DivMod, Months, MonthBound
<1>2. Stamp(i).months = m /\ Stamp(i).milliseconds = r
  BY DEF Stamp
<1> HIDE DEF m, r, n, s
<1>3. Systime(Stamp(i)) = [months |-> IF s < r THEN NextMonth(Stamp(i)) ELSE m,
                           milliseconds |-> s]
  BY <1>2 DEF Systime, GetTimeInMillis, s
<1>4. (IF s < r THEN NextMonth(Stamp(i)) ELSE m) = n
  <2>1. CASE n = m /\ s = r + (now - i)
    BY <1>1, <2>1, Constants
  <2>2. CASE n = m + 1 /\ s = r + (now - i) - U32
    <3>1. s < r /\ m + 1 < U32
      BY <1>1, <2>2, Constants
    <3>2. NextMonth(Stamp(i)) = m + 1
      BY <1>1, <1>2, <3>1, NextMonthIs
    <3> QED
      BY <2>2, <3>1, <3>2
  <2> QED
    BY <1>1, <2>1, <2>2
<1> QED
  BY <1>3, <1>4 DEF Stamp, n, s

\* What is no earlier than a time is as near to it as now is.
LEMMA Nearer ==
  ASSUME NEW n \in Nat, NEW i \in Nat, NEW t \in 0 .. n, NEW k \in Nat, NEW u \in Nat,
         n - i <= k, k < u
  PROVE  t - i < u
  OBVIOUS

\* An event that is not of a month before the server's.
LEMMA NoticeIs ==
  ASSUME now \in Nat, now < U32 * U32, NEW i \in 0 .. now, now - i <= MaxIdle,
         NEW t \in 0 .. now, now - t <= MaxLate, t \div U32 >= i \div U32
  PROVE  NoticeTimeMillis(Stamp(i), t % U32) = Stamp(IF t >= i THEN t ELSE i)
<1> DEFINE m == i \div U32
           r == i % U32
           n == t \div U32
           s == t % U32
<1>1. /\ i \in Nat /\ t \in Nat /\ t < U32 * U32 /\ MaxIdle \in Nat /\ TimeSlop \in Nat
      /\ MaxLate \in Nat /\ MaxLate <= TimeSlop /\ MaxIdle + TimeSlop < U32
  BY Constants, ServerTimeAssumption
<1>2. /\ m \in Nat /\ r \in 0 .. U32 - 1 /\ n \in 0 .. U32 - 1 /\ s \in 0 .. U32 - 1 /\ n >= m
  BY <1>1, Constants, DivMod, MonthBound
<1>3. /\ Stamp(i).months = m /\ Stamp(i).milliseconds = r
      /\ Stamp(i) = [months |-> m, milliseconds |-> r]
  BY DEF Stamp
<1>4. CASE t >= i
  <2>1. \/ n = m /\ s = r + (t - i)
        \/ n = m + 1 /\ s = r + (t - i) - U32
    <3>1. MaxIdle < U32
      BY <1>1, Constants
    <3>2. t - i < U32
      BY <1>1, <3>1, Constants, Nearer
    <3> QED
      BY <1>1, <1>4, <3>2, MonthsHere
  <2> HIDE DEF m, r, n, s
  <2>2. NoticeTimeMillis(Stamp(i), s) = [months |-> n, milliseconds |-> s]
    <3>1. CASE n = m /\ s = r + (t - i)
      <4>1. s >= r
        BY <1>1, <1>2, <1>4, <3>1
      <4> QED
        BY <1>3, <3>1, <4>1 DEF NoticeTimeMillis
    <3>2. CASE n = m + 1 /\ s = r + (t - i) - U32
      <4>1. ~(s >= r) /\ r - s > TimeSlop /\ m + 1 < U32
        BY <1>1, <1>2, <1>4, <3>2, Constants
      <4>2. NextMonth(Stamp(i)) = m + 1
        BY <1>2, <1>3, <4>1, NextMonthIs
      <4> QED
        BY <1>3, <3>2, <4>1, <4>2 DEF NoticeTimeMillis
    <3> QED
      BY <2>1, <3>1, <3>2
  <2> QED
    BY <1>4, <2>2 DEF Stamp, n, s
<1>5. CASE i > t
  <2>1. \/ m = n /\ r = s + (i - t)
        \/ m = n + 1 /\ r = s + (i - t) - U32
    <3>1. MaxLate < U32 /\ t <= i
      BY <1>1, <1>5, Constants
    <3>2. i - t < U32
      BY <1>1, <3>1, Constants, Nearer
    <3> QED
      BY <1>1, <3>1, <3>2, MonthsHere
  <2> HIDE DEF m, r, n, s
  <2>2. ~(s >= r) /\ ~(r - s > TimeSlop)
    BY <1>1, <1>2, <1>5, <2>1
  <2>3. NoticeTimeMillis(Stamp(i), s) = Stamp(i)
    BY <1>3, <2>2 DEF NoticeTimeMillis
  <2> QED
    BY <1>1, <1>5, <2>3 DEF s
<1> QED
  BY <1>1, <1>4, <1>5

\* A client's time of half a month around.
LEMMA ClientTimeIs ==
  ASSUME NEW i \in Nat, NEW t \in Nat, t < i + Half, i < t + Half,
         i < U32 * U32, t < U32 * U32, t % U32 # 0
  PROVE  ClientTimeToServerTime(Stamp(i), t % U32) = Stamp(t)
<1> DEFINE m == i \div U32
           r == i % U32
           n == t \div U32
           s == t % U32
<1>1. /\ m \in 0 .. U32 - 1 /\ r \in 0 .. U32 - 1 /\ n \in 0 .. U32 - 1 /\ s \in 0 .. U32 - 1
  BY Constants, DivMod, MonthBound
<1>2. /\ Stamp(i).months = m /\ Stamp(i).milliseconds = r
  BY DEF Stamp
<1>3. s # 0
  OBVIOUS
<1>4. \/ n = m /\ s - r = t - i
      \/ n = m + 1 /\ s - r = t - i - U32
      \/ m = n + 1 /\ r - s = i - t - U32
  <2>1. CASE i <= t
    <3>1. t - i < U32
      BY <2>1, Constants
    <3>2. \/ n = m /\ s = r + (t - i)
          \/ n = m + 1 /\ s = r + (t - i) - U32
      BY <2>1, <3>1, Constants, MonthsHere
    <3> HIDE DEF m, r, n, s
    <3> QED
      BY <1>1, <3>2, Constants
  <2>2. CASE t <= i
    <3>1. i - t < U32
      BY <2>2, Constants
    <3>2. \/ m = n /\ r = s + (i - t)
          \/ m = n + 1 /\ r = s + (i - t) - U32
      BY <2>2, <3>1, Constants, MonthsHere
    <3> HIDE DEF m, r, n, s
    <3> QED
      BY <1>1, <3>2, Constants
  <2> QED
    BY <2>1, <2>2
<1> HIDE DEF m, r, n, s
<1>5. m % U32 = m
  BY <1>1, Constants, ModSmall
<1>6. n % U32 = n
  BY <1>1, Constants, ModSmall
<1> DEFINE k == CASE s - r > Half -> m - 1 [] r - s > Half -> m + 1 [] OTHER -> m
<1>7. k = n
  <2>1. CASE n = m /\ s - r = t - i
    <3>1. ~(s - r > Half) /\ ~(r - s > Half)
      BY <1>1, <2>1, Constants
    <3> QED
      BY <2>1, <3>1
  <2>2. CASE n = m + 1 /\ s - r = t - i - U32
    <3>1. ~(s - r > Half) /\ r - s > Half
      BY <1>1, <2>2, Constants
    <3> QED
      BY <2>2, <3>1
  <2>3. CASE m = n + 1 /\ r - s = i - t - U32
    <3>1. s - r > Half /\ ~(r - s > Half) /\ m - 1 = n
      BY <1>1, <2>3, Constants
    <3> QED
      BY <3>1
  <2> QED
    BY <1>4, <2>1, <2>2, <2>3
<1>8. ClientTimeToServerTime(Stamp(i), s) = [months |-> k % U32, milliseconds |-> s]
  BY <1>2, <1>3 DEF ClientTimeToServerTime
<1> HIDE DEF k
<1>9. ClientTimeToServerTime(Stamp(i), s) = [months |-> n, milliseconds |-> s]
  BY <1>6, <1>7, <1>8
<1> QED
  BY <1>9 DEF Stamp, n, s

------------------------------------------------------------------------------
\* The last look at the clock was MaxIdle ago at most.
ClockOK == /\ looked \in Nat /\ now \in Nat /\ now + Half < U32 * U32
           /\ looked <= now /\ now - looked <= MaxIdle

\* The remainder of a number that may be negative.
LEMMA IntMod ==
  ASSUME NEW a \in Int, NEW M \in Nat \ {0}
  PROVE  (a % M) \in 0 .. M - 1
  BY SMT

\* The sequences of events that are processed at once.
LEMMA EventsAre ==
  ASSUME NEW s \in InputEvents
  PROVE  /\ \/ s = <<>> /\ Len(s) = 0
            \/ Len(s) = 1 /\ s[1] \in Nat \cap (now - MaxLate .. now)
            \/ Len(s) = 2 /\ s[1] \in Nat \cap (now - MaxLate .. now)
                          /\ s[2] \in Nat \cap (now - MaxLate .. now)
         /\ ~MixedMonths => /\ Len(s) > 0 => Month(s[1]) >= currentTime.months
                            /\ Len(s) = 2 => /\ Month(s[2]) >= currentTime.months
                                             /\ Month(s[1]) <= Month(s[2])
<1> DEFINE stamps == {t \in Nat \cap (now - MaxLate .. now) :
                         MixedMonths \/ Month(t) >= currentTime.months}
<1>1. /\ s \in {<<>>} \cup {<<t>> : t \in stamps} \cup (stamps \X stamps)
      /\ MixedMonths \/ \A i \in DOMAIN s : \A j \in 1 .. i : Month(s[j]) <= Month(s[i])
  BY DEF InputEvents
<1>2. \A t \in stamps : /\ t \in Nat \cap (now - MaxLate .. now)
                        /\ ~MixedMonths => Month(t) >= currentTime.months
  OBVIOUS
<1> HIDE DEF stamps
<1>3. CASE s = <<>>
  BY <1>3
<1>4. CASE s \in {<<t>> : t \in stamps}
  <2>1. PICK t \in stamps : s = <<t>>
    BY <1>4
  <2>2. Len(s) = 1 /\ s[1] = t
    BY <2>1
  <2> QED
    BY <1>2, <2>2
<1>5. CASE s \in stamps \X stamps
  <2>1. PICK t \in stamps, u \in stamps : s = <<t, u>>
    BY <1>5
  <2>2. Len(s) = 2 /\ s[1] = t /\ s[2] = u /\ 2 \in DOMAIN s
    BY <2>1
  <2>3. ~MixedMonths => Month(s[1]) <= Month(s[2])
    BY <1>1, <2>2
  <2> QED
    BY <1>2, <2>2, <2>3
<1> QED
  BY <1>1, <1>3, <1>4, <1>5

\* What two events at most make of the time.
LEMMA ProcessedIs ==
  ASSUME NEW s \in InputEvents
  PROVE  /\ Len(s) = 0 => ProcessInputEvents(s) = currentTime
         /\ Len(s) = 1 => ProcessInputEvents(s) = NoticeTimeMillis(currentTime, s[1] % U32)
         /\ Len(s) = 2 => ProcessInputEvents(s) =
                            NoticeTimeMillis(NoticeTimeMillis(currentTime, s[1] % U32), s[2] % U32)
<1> DEFINE one == NoticeTimeMillis(currentTime, s[1] % U32)
           two == NoticeTimeMillis(one, s[2] % U32)
           Step(f) == [i \in 0 .. Len(s) |->
                         IF i = 0 THEN currentTime
                         ELSE NoticeTimeMillis(f[i - 1], s[i] % U32)]
           after == CHOOSE f : f = Step(f)
           g == [i \in 0 .. Len(s) |-> IF i = 0 THEN currentTime ELSE IF i = 1 THEN one ELSE two]
<1>1. Len(s) \in 0 .. 2
  BY EventsAre
<1>2. g = Step(g)
  <2>1. ASSUME NEW i \in 0 .. Len(s)
        PROVE  g[i] = Step(g)[i]
    <3>1. CASE i = 0
      BY <3>1
    <3>2. CASE i = 1
      <4>1. g[0] = currentTime /\ g[1] = one
        BY <1>1, <2>1, <3>2
      <4> QED
        BY <1>1, <2>1, <3>2, <4>1
    <3>3. CASE i = 2
      <4>1. g[1] = one /\ g[2] = two
        BY <1>1, <2>1, <3>3
      <4> QED
        BY <1>1, <2>1, <3>3, <4>1
    <3> QED
      BY <1>1, <2>1, <3>1, <3>2, <3>3
  <2> QED
    BY <2>1
<1>3. after = Step(after)
  BY <1>2
<1>4. ProcessInputEvents(s) = after[Len(s)]
  BY DEF ProcessInputEvents
<1> HIDE DEF after
<1>5. after[0] = currentTime /\ (Len(s) >= 1 => after[1] = one) /\ (Len(s) >= 2 => after[2] = two)
  <2>1. \A i \in 0 .. Len(s) : after[i] = IF i = 0 THEN currentTime
                                         ELSE NoticeTimeMillis(after[i - 1], s[i] % U32)
    BY <1>3
  <2>2. after[0] = currentTime
    BY <1>1, <2>1
  <2>3. Len(s) >= 1 => after[1] = one
    BY <1>1, <2>1, <2>2
  <2> HIDE DEF one
  <2>4. Len(s) >= 2 => after[2] = two
    BY <1>1, <2>1, <2>3
  <2> QED
    BY <2>2, <2>3, <2>4
<1>6. /\ Len(s) = 0 => ProcessInputEvents(s) = currentTime
      /\ Len(s) = 1 => ProcessInputEvents(s) = one
      /\ Len(s) = 2 => ProcessInputEvents(s) = two
  <2> HIDE DEF one, two
  <2>1. ASSUME Len(s) = 0
        PROVE  ProcessInputEvents(s) = currentTime
    BY <1>4, <1>5, <2>1, Zenon
  <2>2. ASSUME Len(s) = 1
        PROVE  ProcessInputEvents(s) = one
    <3>1. after[1] = one
      BY <1>5, <2>2
    <3> QED
      BY <1>4, <2>2, <3>1, Zenon
  <2>3. ASSUME Len(s) = 2
        PROVE  ProcessInputEvents(s) = two
    <3>1. after[2] = two
      BY <1>5, <2>3
    <3> QED
      BY <1>4, <2>3, <3>1, Zenon
  <2> QED
    BY <2>1, <2>2, <2>3
<1> QED
  BY <1>6

\* What NoticeTimeMillis makes of a time stamp is one.
LEMMA NoticeType ==
  ASSUME NEW ts \in TimeStamp, NEW x \in 0 .. U32 - 1
  PROVE  NoticeTimeMillis(ts, x) \in TimeStamp
<1>1. NextMonth(ts) \in 0 .. U32 - 1
  <2>1. ts.months + 1 \in Nat
    BY DEF TimeStamp
  <2> QED
    BY <2>1, Constants, DivMod DEF NextMonth
<1> QED
  BY <1>1 DEF NoticeTimeMillis, TimeStamp

\* What the clock makes of a time stamp is one.
LEMMA SystimeType ==
  ASSUME NEW ts \in TimeStamp, now \in Nat
  PROVE  Systime(ts) \in TimeStamp
<1>1. NextMonth(ts) \in 0 .. U32 - 1
  <2>1. ts.months + 1 \in Nat
    BY DEF TimeStamp
  <2> QED
    BY <2>1, Constants, DivMod DEF NextMonth
<1>2. GetTimeInMillis \in 0 .. U32 - 1
  BY Constants, DivMod DEF GetTimeInMillis
<1> QED
  BY <1>1, <1>2 DEF Systime, TimeStamp

\* What ClientTimeToServerTime makes of a client's time is a time stamp.
LEMMA ClientTimeType ==
  ASSUME NEW ts \in TimeStamp, NEW x \in 0 .. U32 - 1
  PROVE  ClientTimeToServerTime(ts, x) \in TimeStamp
<1>1. ts.months \in 0 .. U32 - 1 /\ ts.milliseconds \in 0 .. U32 - 1
  BY DEF TimeStamp
<1> DEFINE k == CASE x - ts.milliseconds > Half -> ts.months - 1
                  [] ts.milliseconds - x > Half -> ts.months + 1
                  [] OTHER -> ts.months
<1>2. k \in Int
  BY <1>1, Constants
<1>3. ClientTimeToServerTime(ts, x) =
        IF x = 0 THEN ts ELSE [months |-> k % U32, milliseconds |-> x]
  BY DEF ClientTimeToServerTime
<1> HIDE DEF k
<1>4. k % U32 \in 0 .. U32 - 1
  BY <1>2, Constants, IntMod
<1> QED
  BY <1>3, <1>4 DEF TimeStamp

\* What the events make of a time stamp is one.
LEMMA ProcessedType ==
  ASSUME currentTime \in TimeStamp, NEW s \in InputEvents
  PROVE  ProcessInputEvents(s) \in TimeStamp
<1>1. \/ Len(s) = 0
      \/ Len(s) = 1 /\ s[1] \in Nat
      \/ Len(s) = 2 /\ s[1] \in Nat /\ s[2] \in Nat
  BY EventsAre
<1>2. ASSUME NEW x \in Nat
      PROVE  x % U32 \in 0 .. U32 - 1
  BY Constants, DivMod
<1>3. CASE Len(s) = 0
  BY <1>3, ProcessedIs
<1>4. Len(s) \in 1 .. 2 => NoticeTimeMillis(currentTime, s[1] % U32) \in TimeStamp
  BY <1>1, <1>2, NoticeType
<1>5. CASE Len(s) = 1
  BY <1>4, <1>5, ProcessedIs
<1>6. CASE Len(s) = 2
  <2> DEFINE one == NoticeTimeMillis(currentTime, s[1] % U32)
  <2>1. one \in TimeStamp /\ s[2] % U32 \in 0 .. U32 - 1
    BY <1>1, <1>2, <1>4, <1>6
  <2>2. ProcessInputEvents(s) = NoticeTimeMillis(one, s[2] % U32)
    BY <1>6, ProcessedIs
  <2> HIDE DEF one
  <2> QED
    BY <2>1, <2>2, NoticeType
<1> QED
  BY <1>1, <1>3, <1>5, <1>6

\* What the events make of a time that was: one that was, and no earlier.
LEMMA ProcessedHolds ==
  ASSUME ClockOK, TimeIsDecent, ~MixedMonths, NEW s \in InputEvents
  PROVE  \E k \in Instant(currentTime) .. now : ProcessInputEvents(s) = Stamp(k)
<1> DEFINE i == Instant(currentTime)
<1>1. /\ i \in Nat /\ i \in looked .. now /\ currentTime = Stamp(i)
  BY InstantStamp DEF TimeIsDecent
<1>2. /\ now \in Nat /\ now < U32 * U32 /\ looked \in Nat /\ now - looked <= MaxIdle
      /\ MaxIdle \in Nat /\ MaxLate \in Nat
  BY Constants, ServerTimeAssumption DEF ClockOK
<1>3. ASSUME NEW j \in i .. now, NEW t \in Nat \cap (now - MaxLate .. now), Month(t) >= j \div U32
      PROVE  \E k \in i .. now : /\ NoticeTimeMillis(Stamp(j), t % U32) = Stamp(k)
                                 /\ k = t \/ k = j
  <2> HIDE DEF i
  <2>1. j \in 0 .. now /\ now - j <= MaxIdle /\ t \in 0 .. now /\ now - t <= MaxLate
    BY <1>1, <1>2, <1>3
  <2>2. t \div U32 >= j \div U32
    BY <1>3 DEF Month
  <2>3. NoticeTimeMillis(Stamp(j), t % U32) = Stamp(IF t >= j THEN t ELSE j)
    BY <1>2, <2>1, <2>2, NoticeIs
  <2>4. (IF t >= j THEN t ELSE j) \in i .. now
    BY <1>1, <1>3, <2>1
  <2> QED
    BY <2>3, <2>4
<1>4. i \in i .. now
  BY <1>1, <1>2
<1>5. currentTime.months = i \div U32
  BY <1>1, StampFacts
<1> HIDE DEF i
<1>6. CASE Len(s) = 0
  BY <1>1, <1>4, <1>6, ProcessedIs DEF i
<1>7. CASE Len(s) \in 1 .. 2
  <2>1. s[1] \in Nat \cap (now - MaxLate .. now) /\ Month(s[1]) >= i \div U32
    BY <1>5, <1>7, EventsAre
  <2>2. PICK j \in i .. now : /\ NoticeTimeMillis(Stamp(i), s[1] % U32) = Stamp(j)
                              /\ j = s[1] \/ j = i
    BY <1>3, <1>4, <2>1
  <2>3. CASE Len(s) = 1
    BY <1>1, <2>2, <2>3, ProcessedIs DEF i
  <2>4. CASE Len(s) = 2
    <3>1. /\ s[2] \in Nat \cap (now - MaxLate .. now) /\ Month(s[2]) >= i \div U32
          /\ Month(s[1]) <= Month(s[2])
      BY <1>5, <2>4, EventsAre
    <3>2. Month(s[2]) >= j \div U32
      BY <2>2, <3>1 DEF Month
    <3>3. PICK k \in i .. now : NoticeTimeMillis(Stamp(j), s[2] % U32) = Stamp(k)
      BY <1>3, <3>1, <3>2
    <3>4. ProcessInputEvents(s) = NoticeTimeMillis(Stamp(j), s[2] % U32)
      BY <1>1, <2>2, <2>4, ProcessedIs
    <3> QED
      BY <3>3, <3>4 DEF i
  <2> QED
    BY <1>7, <2>3, <2>4
<1> QED
  BY <1>6, <1>7, EventsAre DEF i

------------------------------------------------------------------------------
\* A step of the time, or none.
Passes == TimeNext \/ UNCHANGED timeVars

\* UpdateCurrentTime leaves a time stamp and has looked at the clock.
LEMMA UpdateTypes ==
  ASSUME currentTime \in TimeStamp, ClockOK, UpdateCurrentTime
  PROVE  currentTime' \in TimeStamp /\ looked' = now /\ now' = now
<1>1. PICK s \in InputEvents : currentTime' = LaterOf(Systime(currentTime), ProcessInputEvents(s))
  BY DEF UpdateCurrentTime
<1>2. Systime(currentTime) \in TimeStamp
  BY SystimeType DEF ClockOK
<1>3. ProcessInputEvents(s) \in TimeStamp
  BY ProcessedType
<1> QED
  BY <1>1, <1>2, <1>3 DEF LaterOf, UpdateCurrentTime

\* UpdateCurrentTimeIf leaves a time stamp and has looked at the clock.
LEMMA UpdateIfTypes ==
  ASSUME currentTime \in TimeStamp, ClockOK, UpdateCurrentTimeIf
  PROVE  currentTime' \in TimeStamp /\ looked' = now /\ now' = now
<1>1. Systime(currentTime) \in TimeStamp
  BY SystimeType DEF ClockOK
<1> QED
  BY <1>1 DEF LaterOf, UpdateCurrentTimeIf

\* The clock after a look at it.
LEMMA ClockLooked ==
  ASSUME ClockOK, looked' = now, now' = now
  PROVE  ClockOK'
<1>1. now - now = 0 /\ MaxIdle >= 0
  BY ServerTimeAssumption DEF ClockOK
<1> QED
  BY <1>1 DEF ClockOK

\* The types of the time hold over each of its steps.
LEMMA TimeTypes ==
  ASSUME currentTime \in TimeStamp, ClockOK, Passes
  PROVE  currentTime' \in TimeStamp /\ ClockOK'
<1>1. CASE Tick
  <2>1. now' = now + 1 /\ looked' = looked /\ currentTime' = currentTime
    BY <1>1 DEF Tick
  <2>2. now < MaxTime /\ now - looked < MaxIdle
    BY <1>1 DEF Tick
  <2>3. /\ looked \in Nat /\ now \in Nat /\ looked <= now
    BY DEF ClockOK
  <2>4. /\ MaxIdle \in Nat /\ MaxTime \in Nat /\ MaxTime + U32 <= U32 * U32 /\ U32 * U32 \in Nat
        /\ Half \in Nat /\ U32 = Half + Half /\ Half > 1
    BY Constants, ServerTimeAssumption
  <2>5. /\ now + 1 \in Nat /\ looked <= now + 1 /\ (now + 1) - looked <= MaxIdle
    BY <2>2, <2>3, <2>4
  <2>6. (now + 1) + Half < U32 * U32
    BY <2>2, <2>3, <2>4
  <2> QED
    BY <2>1, <2>3, <2>5, <2>6 DEF ClockOK
<1>2. CASE UpdateCurrentTime
  BY <1>2, UpdateTypes, ClockLooked
<1>3. CASE UpdateCurrentTimeIf
  BY <1>3, UpdateIfTypes, ClockLooked
<1>4. CASE InputIsProcessed
  <2>1. PICK s \in InputEvents : currentTime' = ProcessInputEvents(s)
    BY <1>4 DEF InputIsProcessed
  <2>2. looked' = looked /\ now' = now
    BY <1>4 DEF InputIsProcessed, clock
  <2> QED
    BY <2>1, <2>2, ProcessedType DEF ClockOK
<1>5. CASE UNCHANGED timeVars
  BY <1>5 DEF timeVars, clock, ClockOK
<1> QED
  BY <1>1, <1>2, <1>3, <1>4, <1>5 DEF Passes, TimeNext

\* The clock, read, and the events make the time what it is.
LEMMA LookedIs ==
  ASSUME ClockOK, TimeIsDecent, NEW k \in Instant(currentTime) .. now
  PROVE  LaterOf(Systime(currentTime), Stamp(k)) = Stamp(now)
<1> DEFINE i == Instant(currentTime)
<1>1. i \in Nat /\ i \in looked .. now /\ currentTime = Stamp(i)
  BY InstantStamp DEF TimeIsDecent
<1>2. /\ now \in Nat /\ now < U32 * U32 /\ looked \in Nat /\ now - looked <= MaxIdle
      /\ MaxIdle \in Nat /\ MaxIdle < U32
  BY Constants, ServerTimeAssumption DEF ClockOK
<1>3. k \in i .. now
  OBVIOUS
<1> HIDE DEF i
<1>4. i <= now /\ now - i < U32 /\ k \in Nat
  <2>1. i <= now /\ now - i <= MaxIdle /\ k \in Nat
    BY <1>1, <1>2, <1>3
  <2>2. now - i \in Int /\ U32 \in Nat
    BY <1>1, <1>2, Constants
  <2> QED
    BY <1>2, <2>1, <2>2
<1>5. Systime(currentTime) = Stamp(now)
  BY <1>1, <1>2, <1>4, SystimeIs
<1>6. Later(Stamp(now), Stamp(k)) <=> now > k
  BY <1>2, <1>4, LaterStamp
<1>7. now > k \/ now = k
  BY <1>1, <1>2, <1>3
<1> QED
  BY <1>5, <1>6, <1>7 DEF LaterOf

\* After UpdateCurrentTime the time is now.
LEMMA NowAfter ==
  ASSUME ClockOK, TimeIsDecent, ~MixedMonths, UpdateCurrentTime
  PROVE  currentTime' = Stamp(now) /\ now' = now
<1>1. PICK s \in InputEvents : currentTime' = LaterOf(Systime(currentTime), ProcessInputEvents(s))
  BY DEF UpdateCurrentTime
<1>2. PICK k \in Instant(currentTime) .. now : ProcessInputEvents(s) = Stamp(k)
  BY ProcessedHolds
<1> QED
  BY <1>1, <1>2, LookedIs DEF UpdateCurrentTime

\* After UpdateCurrentTimeIf the time is now.
LEMMA NowAfterIf ==
  ASSUME ClockOK, TimeIsDecent, UpdateCurrentTimeIf
  PROVE  currentTime' = Stamp(now) /\ now' = now
<1>1. /\ Instant(currentTime) \in Instant(currentTime) .. now
      /\ currentTime = Stamp(Instant(currentTime))
  <2>1. Instant(currentTime) \in Nat /\ Instant(currentTime) \in looked .. now
          /\ currentTime = Stamp(Instant(currentTime))
    BY InstantStamp DEF TimeIsDecent
  <2> QED
    BY <2>1 DEF ClockOK
<1>2. currentTime' = LaterOf(Systime(currentTime), currentTime)
  BY DEF UpdateCurrentTimeIf
<1>3. LaterOf(Systime(currentTime), Stamp(Instant(currentTime))) = Stamp(now)
  BY <1>1, LookedIs
<1> QED
  BY <1>1, <1>2, <1>3 DEF UpdateCurrentTimeIf

\* The stamp of a time since the last look is one that was.
LEMMA StampDecent ==
  ASSUME ClockOK', NEW k \in Nat, k >= looked', k <= now', currentTime' = Stamp(k)
  PROVE  TimeIsDecent'
<1>1. looked' \in Nat /\ now' \in Nat /\ now' + Half < U32 * U32 /\ Half \in Nat
        /\ U32 * U32 \in Nat
  BY Constants DEF ClockOK
<1>2. k < U32 * U32
  BY <1>1
<1>3. Instant(currentTime') = k /\ currentTime' \in TimeStamp
  BY <1>2, StampFacts
<1>4. Instant(currentTime)' = Instant(currentTime')
  BY DEF Instant
<1>5. k \in looked' .. now'
  BY <1>1
<1> QED
  BY <1>3, <1>4, <1>5 DEF TimeIsDecent, TimeStamp

\* The time stays one that was, over each of its steps.
LEMMA Decent ==
  ASSUME ClockOK, TimeIsDecent, ~MixedMonths, Passes
  PROVE  TimeIsDecent'
<1> DEFINE i == Instant(currentTime)
<1>1. /\ i \in Nat /\ i \in looked .. now /\ currentTime = Stamp(i)
      /\ now \in Nat /\ looked \in Nat /\ currentTime \in TimeStamp
  BY InstantStamp DEF TimeIsDecent, ClockOK
<1>2. ClockOK'
  BY <1>1, TimeTypes
<1> HIDE DEF i
<1>3. CASE Tick
  <2>1. currentTime' = Stamp(i) /\ looked' = looked /\ now' = now + 1
    BY <1>1, <1>3 DEF Tick
  <2>2. i >= looked' /\ i <= now'
    BY <1>1, <2>1
  <2> QED
    BY <1>1, <1>2, <2>1, <2>2, StampDecent
<1>4. CASE UpdateCurrentTime
  <2>1. currentTime' = Stamp(now) /\ looked' = now /\ now' = now
    BY <1>4, NowAfter DEF UpdateCurrentTime
  <2> QED
    BY <1>1, <1>2, <2>1, StampDecent
<1>5. CASE UpdateCurrentTimeIf
  <2>1. currentTime' = Stamp(now) /\ looked' = now /\ now' = now
    BY <1>5, NowAfterIf DEF UpdateCurrentTimeIf
  <2> QED
    BY <1>1, <1>2, <2>1, StampDecent
<1>6. CASE InputIsProcessed
  <2>1. PICK s \in InputEvents : currentTime' = ProcessInputEvents(s)
    BY <1>6 DEF InputIsProcessed
  <2>2. PICK k \in i .. now : ProcessInputEvents(s) = Stamp(k)
    BY ProcessedHolds DEF i
  <2>3. looked' = looked /\ now' = now
    BY <1>6 DEF InputIsProcessed, clock
  <2>4. k \in Nat /\ k >= looked' /\ k <= now'
    BY <1>1, <2>2, <2>3
  <2> QED
    BY <1>2, <2>1, <2>2, <2>4, StampDecent
<1>7. CASE UNCHANGED timeVars
  <2>1. currentTime' = Stamp(i) /\ looked' = looked /\ now' = now
    BY <1>1, <1>7 DEF timeVars, clock
  <2>2. i >= looked' /\ i <= now'
    BY <1>1, <2>1
  <2> QED
    BY <1>1, <1>2, <2>1, <2>2, StampDecent
<1> QED
  BY <1>3, <1>4, <1>5, <1>6, <1>7 DEF Passes, TimeNext

\* A client's time, without its month, comes back as it was.
LEMMA ClientTimes ==
  ASSUME ClockOK, TimeIsDecent
  PROVE  ClientTimesHold
<1> DEFINE i == Instant(currentTime)
<1>1. /\ i \in Nat /\ i \in looked .. now /\ currentTime = Stamp(i)
      /\ now \in Nat /\ looked \in Nat
  BY InstantStamp DEF TimeIsDecent, ClockOK
<1>2. now + Half < U32 * U32 /\ Half \in Nat /\ U32 * U32 \in Nat
  BY Constants DEF ClockOK
<1>3. ASSUME NEW t \in Nat \cap (i - Half + 1 .. i + Half - 1), t % U32 # 0
      PROVE  ClientTimeToServerTime(currentTime, t % U32) = Stamp(t)
  <2> HIDE DEF i
  <2>1. t \in Nat /\ t < i + Half /\ i < t + Half /\ i < U32 * U32 /\ t < U32 * U32
    BY <1>1, <1>2
  <2> QED
    BY <1>1, <1>3, <2>1, ClientTimeIs
<1> QED
  BY <1>3 DEF ClientTimesHold

------------------------------------------------------------------------------
\* The watchers of all events know the owner.
Knows(s, owner) ==
  \A e \in s.watches : e.mask = AllEvents /\ ~Gone(e.client) => e.seen = owner

\* A selection's record that holds together.
Sound(s) == /\ s \in SelectionRec
            /\ s.registered <=> s.watches # {}
            /\ Knows(s, s.window)

\* The watches of n are on what those of s are.
Kept(s, n) == \A f \in n.watches : \E e \in s.watches : e.client = f.client /\ e.window = f.window

\* The owner, its window and since when it is.
OwnedBy(n, c, w, time) == n.client = c /\ n.window = w /\ n.lastTimeChanged = time

\* The selection's record, field by field.
LEMMA RecIs ==
  ASSUME NEW s \in SelectionRec
  PROVE  /\ s = [client |-> s.client, window |-> s.window, lastTimeChanged |-> s.lastTimeChanged,
                 watches |-> s.watches, registered |-> s.registered]
         /\ s.client \in Clients \cup {None} /\ s.window \in Windows \cup {None}
         /\ s.lastTimeChanged \in TimeStamp /\ s.watches \subseteq Watch
         /\ s.registered \in BOOLEAN
         /\ \A e \in s.watches : e.client \in Clients /\ e.window \in Windows
BY DEF SelectionRec, Watch

\* A record of such fields is a selection's.
LEMMA RecMade ==
  ASSUME NEW n,
         NEW c \in Clients \cup {None}, NEW w \in Windows \cup {None}, NEW time \in TimeStamp,
         NEW watches \in SUBSET Watch, NEW registered \in BOOLEAN,
         n = [client |-> c, window |-> w, lastTimeChanged |-> time, watches |-> watches,
              registered |-> registered]
  PROVE  /\ n \in SelectionRec /\ OwnedBy(n, c, w, time)
         /\ n.watches = watches /\ n.registered = registered
BY DEF SelectionRec, OwnedBy

\* A field of the selection's record is set.
LEMMA RecSet ==
  ASSUME NEW s \in SelectionRec, NEW x
  PROVE  /\ [s EXCEPT !.client = x] =
             [client |-> x, window |-> s.window, lastTimeChanged |-> s.lastTimeChanged,
              watches |-> s.watches, registered |-> s.registered]
         /\ [s EXCEPT !.window = x] =
             [client |-> s.client, window |-> x, lastTimeChanged |-> s.lastTimeChanged,
              watches |-> s.watches, registered |-> s.registered]
         /\ [s EXCEPT !.lastTimeChanged = x] =
             [client |-> s.client, window |-> s.window, lastTimeChanged |-> x,
              watches |-> s.watches, registered |-> s.registered]
         /\ [s EXCEPT !.watches = x] =
             [client |-> s.client, window |-> s.window, lastTimeChanged |-> s.lastTimeChanged,
              watches |-> x, registered |-> s.registered]
         /\ [s EXCEPT !.registered = x] =
             [client |-> s.client, window |-> s.window, lastTimeChanged |-> s.lastTimeChanged,
              watches |-> s.watches, registered |-> x]
<1>1. [s EXCEPT !.client = x] =
             [client |-> x, window |-> s.window, lastTimeChanged |-> s.lastTimeChanged,
              watches |-> s.watches, registered |-> s.registered]
  BY DEF SelectionRec
<1>2. [s EXCEPT !.window = x] =
             [client |-> s.client, window |-> x, lastTimeChanged |-> s.lastTimeChanged,
              watches |-> s.watches, registered |-> s.registered]
  BY DEF SelectionRec
<1>3. [s EXCEPT !.lastTimeChanged = x] =
             [client |-> s.client, window |-> s.window, lastTimeChanged |-> x,
              watches |-> s.watches, registered |-> s.registered]
  BY DEF SelectionRec
<1>4. [s EXCEPT !.watches = x] =
             [client |-> s.client, window |-> s.window, lastTimeChanged |-> s.lastTimeChanged,
              watches |-> x, registered |-> s.registered]
  BY DEF SelectionRec
<1>5. [s EXCEPT !.registered = x] =
             [client |-> s.client, window |-> s.window, lastTimeChanged |-> s.lastTimeChanged,
              watches |-> s.watches, registered |-> x]
  BY DEF SelectionRec
<1> QED
  BY <1>1, <1>2, <1>3, <1>4, <1>5

\* An event leaves all that it is sent to with the owner that it names.
LEMMA NotifyIs ==
  ASSUME NEW s \in SelectionRec, s.registered <=> s.watches # {},
         NEW kind \in AllEvents, NEW owner \in Windows \cup {None}
  PROVE  /\ Notify(s, kind, owner) \in SelectionRec
         /\ OwnedBy(Notify(s, kind, owner), s.client, s.window, s.lastTimeChanged)
         /\ Notify(s, kind, owner).registered <=> Notify(s, kind, owner).watches # {}
         /\ Kept(s, Notify(s, kind, owner))
         /\ Knows(Notify(s, kind, owner), owner)
<1> DEFINE seen(e) == IF kind \in e.mask /\ e.mask = AllEvents /\ ~Gone(e.client)
                      THEN [e EXCEPT !.seen = owner] ELSE e
           watches == {seen(e) : e \in s.watches}
           n == Notify(s, kind, owner)
<1>1. CASE ~s.registered
  <2>1. n = s /\ s.watches = {}
    BY <1>1 DEF Notify
  <2> HIDE DEF n
  <2>2. n \in SelectionRec /\ OwnedBy(n, s.client, s.window, s.lastTimeChanged)
          /\ (n.registered <=> n.watches # {}) /\ Kept(s, n) /\ Knows(n, owner)
    BY <1>1, <2>1 DEF OwnedBy, Kept, Knows
  <2> QED
    BY <2>2 DEF n
<1>2. CASE s.registered
  <2>1. n = [s EXCEPT !.watches = watches]
    BY <1>2 DEF Notify
  <2>2. ASSUME NEW e \in s.watches
        PROVE  /\ seen(e) \in Watch /\ seen(e).client = e.client /\ seen(e).window = e.window
               /\ seen(e).mask = e.mask
               /\ e.mask = AllEvents /\ ~Gone(e.client) => seen(e).seen = owner
    <3>1. e \in Watch
      BY RecIs
    <3> QED
      BY <3>1 DEF Watch
  <2> HIDE DEF seen
  <2>3. watches \subseteq Watch /\ (watches # {} <=> s.watches # {})
    BY <2>2
  <2>4. \A f \in watches : \E e \in s.watches : f = seen(e)
    OBVIOUS
  <2> HIDE DEF watches
  <2>5. n = [client |-> s.client, window |-> s.window, lastTimeChanged |-> s.lastTimeChanged,
             watches |-> watches, registered |-> s.registered]
    BY <2>1, RecIs
  <2> HIDE DEF n
  <2>6. /\ n \in SelectionRec /\ OwnedBy(n, s.client, s.window, s.lastTimeChanged)
        /\ n.watches = watches /\ n.registered = s.registered
    BY <2>3, <2>5, RecIs, RecMade
  <2>7. Kept(s, n)
    BY <2>2, <2>4, <2>6 DEF Kept
  <2>8. Knows(n, owner)
    BY <2>2, <2>4, <2>6 DEF Knows
  <2>9. n.registered <=> n.watches # {}
    BY <2>3, <2>6
  <2> QED
    BY <2>6, <2>7, <2>8, <2>9 DEF n
<1> QED
  BY <1>1, <1>2, RecIs

\* The selection is taken from its owner.
LEMMA UnownedIs ==
  ASSUME NEW s \in SelectionRec, s.registered <=> s.watches # {}, Knows(s, None)
  PROVE  /\ Sound(Unowned(s)) /\ Kept(s, Unowned(s))
         /\ OwnedBy(Unowned(s), None, None, s.lastTimeChanged)
<1> DEFINE n == Unowned(s)
<1>1. n = [client |-> None, window |-> None, lastTimeChanged |-> s.lastTimeChanged,
           watches |-> s.watches, registered |-> s.registered]
  <2> DEFINE m == [s EXCEPT !.client = None]
  <2>1. n = [m EXCEPT !.window = None]
    BY DEF Unowned
  <2>2. m = [client |-> None, window |-> s.window, lastTimeChanged |-> s.lastTimeChanged,
             watches |-> s.watches, registered |-> s.registered]
    BY RecSet
  <2> HIDE DEF m, n
  <2>3. /\ m \in SelectionRec /\ m.watches = s.watches /\ m.registered = s.registered
        /\ OwnedBy(m, None, s.window, s.lastTimeChanged)
    BY <2>2, RecIs, RecMade
  <2>4. [m EXCEPT !.window = None] =
            [client |-> m.client, window |-> None, lastTimeChanged |-> m.lastTimeChanged,
             watches |-> m.watches, registered |-> m.registered]
    BY <2>3, RecSet
  <2> QED
    BY <2>1, <2>3, <2>4 DEF OwnedBy
<1> HIDE DEF n
<1>2. /\ n \in SelectionRec /\ OwnedBy(n, None, None, s.lastTimeChanged)
      /\ n.watches = s.watches /\ n.registered = s.registered
  BY <1>1, RecIs, RecMade
<1>3. Sound(n) /\ Kept(s, n)
  BY <1>2 DEF Sound, Kept, Knows, OwnedBy
<1> QED
  BY <1>2, <1>3 DEF n

\* Watches are kept over two steps, and over none.
LEMMA KeptAll ==
  ASSUME NEW s, NEW m, NEW n, Kept(s, m), Kept(m, n)
  PROVE  Kept(s, n)
BY DEF Kept

\* Watches are kept by no step.
LEMMA KeptSame ==
  ASSUME NEW s
  PROVE  Kept(s, s)
BY DEF Kept

\* DeleteWindowFromAnySelections takes the selection from a window's owner.
LEMMA DeleteWindowsIs ==
  ASSUME NEW s, Sound(s), NEW ws \in SUBSET Windows
  PROVE  /\ Sound(DeleteWindows(s, ws)) /\ Kept(s, DeleteWindows(s, ws))
         /\ s.window \in ws => OwnedBy(DeleteWindows(s, ws), None, None, s.lastTimeChanged)
         /\ s.window \notin ws => DeleteWindows(s, ws) = s
<1>1. CASE s.window \in ws
  <2> DEFINE m == Notify(s, "WindowDestroy", None)
  <2>1. DeleteWindows(s, ws) = Unowned(m)
    BY <1>1 DEF DeleteWindows
  <2>2. /\ m \in SelectionRec /\ (m.registered <=> m.watches # {}) /\ Kept(s, m)
        /\ Knows(m, None) /\ OwnedBy(m, s.client, s.window, s.lastTimeChanged)
    BY NotifyIs DEF Sound, AllEvents
  <2> HIDE DEF m
  <2>3. /\ Sound(Unowned(m)) /\ Kept(m, Unowned(m))
        /\ OwnedBy(Unowned(m), None, None, m.lastTimeChanged)
    BY <2>2, UnownedIs
  <2> QED
    BY <1>1, <2>1, <2>2, <2>3, KeptAll DEF OwnedBy
<1>2. CASE s.window \notin ws
  BY <1>2, KeptSame DEF DeleteWindows
<1> QED
  BY <1>1, <1>2

\* DeleteClientFromAnySelections takes the selection from a client.
LEMMA DeleteClientIs ==
  ASSUME NEW s, Sound(s), NEW c
  PROVE  /\ Sound(DeleteClient(s, c)) /\ Kept(s, DeleteClient(s, c))
         /\ s.client = c => OwnedBy(DeleteClient(s, c), None, None, s.lastTimeChanged)
         /\ s.client # c => DeleteClient(s, c) = s
<1>1. CASE s.client = c
  <2> DEFINE m == Notify(s, "ClientClose", None)
  <2>1. DeleteClient(s, c) = Unowned(m)
    BY <1>1 DEF DeleteClient
  <2>2. /\ m \in SelectionRec /\ (m.registered <=> m.watches # {}) /\ Kept(s, m)
        /\ Knows(m, None) /\ OwnedBy(m, s.client, s.window, s.lastTimeChanged)
    BY NotifyIs DEF Sound, AllEvents
  <2> HIDE DEF m
  <2>3. /\ Sound(Unowned(m)) /\ Kept(m, Unowned(m))
        /\ OwnedBy(Unowned(m), None, None, m.lastTimeChanged)
    BY <2>2, UnownedIs
  <2> QED
    BY <1>1, <2>1, <2>2, <2>3, KeptAll DEF OwnedBy
<1>2. CASE s.client # c
  BY <1>2, KeptSame DEF DeleteClient
<1> QED
  BY <1>1, <1>2

\* Registrations are freed: the callback goes with the last of them.
LEMMA CheckCallbackIs ==
  ASSUME NEW s, Sound(s), NEW watches, watches \subseteq s.watches
  PROVE  LET n == CheckCallback([s EXCEPT !.watches = watches])
         IN  /\ Sound(n) /\ Kept(s, n) /\ n.watches = watches
             /\ OwnedBy(n, s.client, s.window, s.lastTimeChanged)
<1> DEFINE n == CheckCallback([s EXCEPT !.watches = watches])
           registered == s.registered /\ watches # {}
<1>1. s \in SelectionRec /\ (s.registered <=> s.watches # {}) /\ Knows(s, s.window)
  BY DEF Sound
<1>2. n = [client |-> s.client, window |-> s.window, lastTimeChanged |-> s.lastTimeChanged,
           watches |-> watches, registered |-> registered]
  <2> DEFINE m == [s EXCEPT !.watches = watches]
  <2>1. n = [m EXCEPT !.registered = m.registered /\ m.watches # {}]
    BY DEF CheckCallback
  <2>2. m = [client |-> s.client, window |-> s.window, lastTimeChanged |-> s.lastTimeChanged,
             watches |-> watches, registered |-> s.registered]
    BY <1>1, RecSet
  <2> HIDE DEF m, n, registered
  <2>3. /\ m \in SelectionRec /\ m.watches = watches /\ m.registered = s.registered
        /\ OwnedBy(m, s.client, s.window, s.lastTimeChanged)
    BY <1>1, <2>2, RecIs, RecMade
  <2>4. n = [m EXCEPT !.registered = registered]
    BY <2>1, <2>3, Zenon DEF registered
  <2> QED
    BY <2>3, <2>4, RecSet DEF OwnedBy
<1>3. registered <=> watches # {}
  BY <1>1
<1> HIDE DEF n
<1>4. /\ n \in SelectionRec /\ OwnedBy(n, s.client, s.window, s.lastTimeChanged)
      /\ n.watches = watches /\ n.registered = registered
  <2>1. registered \in BOOLEAN /\ watches \in SUBSET Watch
    BY <1>1, RecIs
  <2> HIDE DEF registered
  <2> QED
    BY <1>1, <1>2, <2>1, RecIs, RecMade
<1> HIDE DEF registered
<1>5. Knows(n, n.window) /\ Kept(s, n)
  BY <1>1, <1>4 DEF Knows, Kept, OwnedBy
<1>6. Sound(n)
  BY <1>3, <1>4, <1>5 DEF Sound
<1> QED
  BY <1>4, <1>5, <1>6 DEF n

\* The registrations of clients and on windows are freed.
LEMMA FreeIs ==
  ASSUME NEW s, Sound(s), NEW cs, NEW ws
  PROVE  /\ Sound(Free(s, cs, ws)) /\ Kept(s, Free(s, cs, ws))
         /\ OwnedBy(Free(s, cs, ws), s.client, s.window, s.lastTimeChanged)
         /\ \A e \in Free(s, cs, ws).watches : e.client \notin cs /\ e.window \notin ws
<1> DEFINE watches == {e \in s.watches : e.client \notin cs /\ e.window \notin ws}
<1>1. Free(s, cs, ws) = CheckCallback([s EXCEPT !.watches = watches])
  BY DEF Free, Sound, SelectionRec
<1>2. watches \subseteq s.watches /\ \A e \in watches : e.client \notin cs /\ e.window \notin ws
  OBVIOUS
<1> HIDE DEF watches
<1> QED
  BY <1>1, <1>2, CheckCallbackIs

\* The windows' registrations go, and their owner.
LEMMA DestroyWindowsIs ==
  ASSUME NEW s, Sound(s), NEW ws \in SUBSET Windows
  PROVE  /\ Sound(DestroyWindows(s, ws)) /\ Kept(s, DestroyWindows(s, ws))
         /\ s.window \in ws => OwnedBy(DestroyWindows(s, ws), None, None, s.lastTimeChanged)
         /\ s.window \notin ws =>
              OwnedBy(DestroyWindows(s, ws), s.client, s.window, s.lastTimeChanged)
         /\ \A e \in DestroyWindows(s, ws).watches : e.window \notin ws \cap windowRes
<1> DEFINE m == Free(s, {}, ws \cap windowRes)
           n == DeleteWindows(m, ws)
<1>1. /\ Sound(m) /\ Kept(s, m) /\ OwnedBy(m, s.client, s.window, s.lastTimeChanged)
      /\ \A e \in m.watches : e.window \notin ws \cap windowRes
  BY FreeIs
<1>2. DestroyWindows(s, ws) = n
  BY DEF DestroyWindows
<1> HIDE DEF m
<1>3. /\ Sound(n) /\ Kept(m, n)
      /\ m.window \in ws => OwnedBy(n, None, None, m.lastTimeChanged)
      /\ m.window \notin ws => n = m
  BY <1>1, DeleteWindowsIs
<1> HIDE DEF n
<1>4. Kept(s, n)
  BY <1>1, <1>3, KeptAll
<1>5. m.window = s.window /\ m.client = s.client /\ m.lastTimeChanged = s.lastTimeChanged
  BY <1>1 DEF OwnedBy
<1>6. \A e \in n.watches : e.window \notin ws \cap windowRes
  BY <1>1, <1>3 DEF Kept
<1> QED
  BY <1>1, <1>2, <1>3, <1>4, <1>5, <1>6

\* The new owner is the owner, and the watchers know it.
LEMMA SetOwnerIs ==
  ASSUME NEW s, Sound(s), NEW c \in Clients, NEW w \in Windows \cup {None},
         NEW time \in TimeStamp
  PROVE  /\ Sound(SetOwner(s, c, w, time)) /\ Kept(s, SetOwner(s, c, w, time))
         /\ OwnedBy(SetOwner(s, c, w, time), IF w = None THEN None ELSE c, w, time)
<1> DEFINE m == [s EXCEPT !.client = IF w = None THEN None ELSE c, !.window = w,
                          !.lastTimeChanged = time]
           n == Notify(m, "SetOwner", w)
           d == IF w = None THEN None ELSE c
<1>1. s \in SelectionRec /\ (s.registered <=> s.watches # {})
  BY DEF Sound
<1>2. d \in Clients \cup {None}
  OBVIOUS
<1>3. m = [client |-> d, window |-> w, lastTimeChanged |-> time,
           watches |-> s.watches, registered |-> s.registered]
  <2> DEFINE k == [s EXCEPT !.client = d]
             l == [k EXCEPT !.window = w]
  <2>1. m = [l EXCEPT !.lastTimeChanged = time]
    OBVIOUS
  <2> HIDE DEF m, d
  <2>2. k = [client |-> d, window |-> s.window, lastTimeChanged |-> s.lastTimeChanged,
             watches |-> s.watches, registered |-> s.registered]
    BY <1>1, RecSet
  <2> HIDE DEF k
  <2>3. /\ k \in SelectionRec /\ k.watches = s.watches /\ k.registered = s.registered
        /\ OwnedBy(k, d, s.window, s.lastTimeChanged)
    BY <1>1, <1>2, <2>2, RecIs, RecMade
  <2>4. l = [client |-> d, window |-> w, lastTimeChanged |-> s.lastTimeChanged,
             watches |-> s.watches, registered |-> s.registered]
    <3>1. l = [client |-> k.client, window |-> w, lastTimeChanged |-> k.lastTimeChanged,
             watches |-> k.watches, registered |-> k.registered]
      BY <2>3, RecSet
    <3> QED
      BY <2>3, <3>1 DEF OwnedBy
  <2> HIDE DEF l
  <2>5. /\ l \in SelectionRec /\ l.watches = s.watches /\ l.registered = s.registered
        /\ OwnedBy(l, d, w, s.lastTimeChanged)
    BY <1>1, <1>2, <2>4, RecIs, RecMade
  <2>6. [l EXCEPT !.lastTimeChanged = time] =
            [client |-> l.client, window |-> l.window, lastTimeChanged |-> time,
             watches |-> l.watches, registered |-> l.registered]
    BY <2>5, RecSet
  <2> QED
    BY <2>1, <2>5, <2>6 DEF OwnedBy
<1>4. SetOwner(s, c, w, time) = n
  BY DEF SetOwner
<1> HIDE DEF m, d
<1>5. /\ m \in SelectionRec /\ OwnedBy(m, d, w, time)
      /\ m.watches = s.watches /\ m.registered = s.registered
  BY <1>1, <1>3, <1>2, RecIs, RecMade
<1>6. Kept(s, m)
  BY <1>5 DEF Kept
<1>7. /\ n \in SelectionRec /\ (n.registered <=> n.watches # {}) /\ Kept(m, n)
      /\ Knows(n, w) /\ OwnedBy(n, m.client, m.window, m.lastTimeChanged)
  <2>1. "SetOwner" \in AllEvents
    BY DEF AllEvents
  <2>2. m.registered <=> m.watches # {}
    BY <1>1, <1>5
  <2> QED
    BY <1>5, <2>1, <2>2, NotifyIs
<1> HIDE DEF n
<1>8. OwnedBy(n, d, w, time)
  BY <1>5, <1>7 DEF OwnedBy
<1>9. Sound(n) /\ Kept(s, n)
  BY <1>6, <1>7, <1>8, KeptAll DEF Sound, OwnedBy
<1> QED
  BY <1>4, <1>8, <1>9 DEF d

\* The one registration is new, or replaced.
LEMMA RegisteredIs ==
  ASSUME NEW s, Sound(s), NEW c \in Clients, NEW w \in Windows, NEW mask \in Masks \ {{}}
  PROVE  /\ Sound(Registered(s, c, w, mask))
         /\ OwnedBy(Registered(s, c, w, mask), s.client, s.window, s.lastTimeChanged)
         /\ \A f \in Registered(s, c, w, mask).watches :
               \/ f.client = c /\ f.window = w
               \/ \E e \in s.watches : e.client = f.client /\ e.window = f.window
<1> DEFINE new == [client |-> c, window |-> w, mask |-> mask,
                   seen |-> IF mask = AllEvents THEN s.window ELSE None]
           old == {e \in s.watches : <<e.client, e.window>> # <<c, w>>}
           watches == old \cup {new}
           n == Registered(s, c, w, mask)
<1>1. s \in SelectionRec /\ Knows(s, s.window)
  BY DEF Sound
<1>2. new \in Watch /\ new.client = c /\ new.window = w
        /\ (new.mask = AllEvents => new.seen = s.window)
  BY <1>1, RecIs DEF Watch
<1>3. old \subseteq s.watches
  OBVIOUS
<1>4. watches \in SUBSET Watch /\ watches # {}
  <2> HIDE DEF new, old
  <2> QED
    BY <1>1, <1>2, <1>3, RecIs
<1>5. n = [client |-> s.client, window |-> s.window, lastTimeChanged |-> s.lastTimeChanged,
           watches |-> watches, registered |-> TRUE]
  <2> DEFINE m == [s EXCEPT !.watches = watches]
  <2>1. n = [m EXCEPT !.registered = TRUE]
    BY DEF Registered
  <2>2. m = [client |-> s.client, window |-> s.window, lastTimeChanged |-> s.lastTimeChanged,
             watches |-> watches, registered |-> s.registered]
    BY <1>1, RecSet
  <2> HIDE DEF m, n, watches
  <2>3. /\ m \in SelectionRec /\ m.watches = watches /\ m.registered = s.registered
        /\ OwnedBy(m, s.client, s.window, s.lastTimeChanged)
    BY <1>1, <1>4, <2>2, RecIs, RecMade
  <2>4. [m EXCEPT !.registered = TRUE] =
            [client |-> m.client, window |-> m.window, lastTimeChanged |-> m.lastTimeChanged,
             watches |-> m.watches, registered |-> TRUE]
    BY <2>3, RecSet
  <2> QED
    BY <2>1, <2>3, <2>4 DEF OwnedBy
<1> HIDE DEF new, old, n
<1>6. /\ n \in SelectionRec /\ OwnedBy(n, s.client, s.window, s.lastTimeChanged)
      /\ n.watches = watches /\ n.registered = TRUE
  BY <1>1, <1>5, <1>4, RecIs, RecMade
<1>7. Knows(n, s.window)
  BY <1>1, <1>2, <1>3, <1>6 DEF Knows
<1>8. Sound(n)
  BY <1>4, <1>6, <1>7 DEF Sound, OwnedBy
<1>9. \A f \in n.watches :
               \/ f.client = c /\ f.window = w
               \/ \E e \in s.watches : e.client = f.client /\ e.window = f.window
  BY <1>2, <1>3, <1>6
<1> QED
  BY <1>6, <1>8, <1>9 DEF n

------------------------------------------------------------------------------
\* What is inductive.
PromiseRec == [client : Clients \cup {None}, window : Windows \cup {None}, since : Nat]

\* The types, those of the time and of the promise too.
Types == /\ TypeOK /\ promised \in PromiseRec
         /\ currentTime \in TimeStamp /\ ClockOK

\* The registrations, their clients and windows, and what they know.
Watched == /\ Sound(sel)
           /\ \A e \in sel.watches : conn[e.client] # "gone" /\ e.window \in windowRes

\* The owner is told and connected, and nobody else believes it owns.
Owned == /\ sel.client = None <=> sel.window = None
         /\ \A c \in Clients : believes[c] \in windows =>
               sel.client = c /\ sel.window = believes[c]
         /\ sel.window # None => believes[sel.client] = sel.window /\ ~Gone(sel.client)

\* The owner is who is promised to be, by a time that was.
Last == /\ TimeIsDecent
        /\ sel.client = promised.client /\ sel.window = promised.window
        /\ sel.lastTimeChanged = Stamp(promised.since)

\* What is inductive.
IInv == Types /\ Watched /\ Owned /\ (~MixedMonths => Last)

------------------------------------------------------------------------------
\* A window is destroyed with itself.
LEMMA RootIn ==
  ASSUME NEW w \in Windows
  PROVE  w \in Inferiors[w] /\ Inferiors[w] \in SUBSET Windows
BY SelectionsAssumption

\* None is nobody and no window.
LEMMA NoneApart == None \notin Clients /\ None \notin Windows
BY SelectionsAssumption

\* What was sound before a client was disconnected is so after.
LEMMA SoundAfter ==
  ASSUME NEW n, Sound(n), sel' = n,
         \A d \in Clients : conn'[d] = "connected" => conn[d] = "connected"
  PROVE  Sound(sel)'
<1>1. n \in SelectionRec /\ (n.registered <=> n.watches # {}) /\ Knows(n, n.window)
  BY DEF Sound
<1>2. ASSUME NEW e \in n.watches, e.mask = AllEvents, conn'[e.client] = "connected"
      PROVE  e.seen = n.window
  <2>1. e.client \in Clients
    BY <1>1, RecIs
  <2>2. ~Gone(e.client)
    BY <1>2, <2>1 DEF Gone
  <2> QED
    BY <1>1, <1>2, <2>2 DEF Knows
<1>3. Knows(sel, sel.window)'
  BY <1>2 DEF Knows, Gone
<1>4. (sel \in SelectionRec)'
  BY <1>1 DEF SelectionRec, Watch, TimeStamp
<1> QED
  BY <1>1, <1>3, <1>4 DEF Sound

\* The owner stays, with its window, or nobody is.
LEMMA OwnersLeft ==
  ASSUME TypeOK, Owned, NEW cs, NEW ws \in SUBSET Windows, NEW time,
         sel.client \in cs \/ sel.window \in ws => OwnedBy(sel', None, None, time),
         ~(sel.client \in cs \/ sel.window \in ws) =>
            OwnedBy(sel', sel.client, sel.window, time),
         windows' = windows \ ws,
         \A d \in Clients : \/ believes'[d] = believes[d]
                            \/ believes'[d] = None /\ (d \in cs \/ Gone(d)),
         \A d \in cs \cap Clients : believes'[d] = None,
         \A d \in Clients \ cs : ~Gone(d) => ~Gone(d)'
  PROVE  Owned'
<1>1. /\ sel.client \in Clients \cup {None} /\ windows \subseteq Windows
      /\ None \notin windows
  BY RecIs, NoneApart DEF TypeOK
<1>2. ASSUME NEW d \in Clients, believes'[d] \in windows'
      PROVE  sel'.client = d /\ sel'.window = believes'[d]
  <2>1. believes'[d] = believes[d] /\ d \notin cs /\ believes[d] \in windows \ ws
    BY <1>1, <1>2
  <2>2. sel.client = d /\ sel.window = believes[d]
    BY <2>1 DEF Owned
  <2> QED
    BY <2>1, <2>2 DEF OwnedBy
<1>3. sel'.client = None <=> sel'.window = None
  BY DEF Owned, OwnedBy
<1>4. ASSUME sel'.window # None
      PROVE  believes'[sel'.client] = sel'.window /\ conn'[sel'.client] = "connected"
  <2>1. ~(sel.client \in cs \/ sel.window \in ws) /\ sel'.client = sel.client
          /\ sel'.window = sel.window
    BY <1>4 DEF OwnedBy
  <2>2. believes[sel.client] = sel.window /\ ~Gone(sel.client) /\ sel.client \in Clients
    BY <1>1, <1>4, <2>1 DEF Owned
  <2> QED
    BY <2>1, <2>2 DEF Gone
<1> QED
  BY <1>2, <1>3, <1>4 DEF Owned, Gone

\* The promise goes with the owner.
LEMMA PromiseLeft ==
  ASSUME promised \in PromiseRec, Last, NEW cs, None \notin cs, NEW ws \in SUBSET Windows,
         sel.client \in cs \/ sel.window \in ws =>
            OwnedBy(sel', None, None, sel.lastTimeChanged),
         ~(sel.client \in cs \/ sel.window \in ws) =>
            OwnedBy(sel', sel.client, sel.window, sel.lastTimeChanged),
         promised' = PromiseWithout(cs, ws)
  PROVE  /\ sel'.client = promised'.client /\ sel'.window = promised'.window
         /\ sel'.lastTimeChanged = Stamp(promised'.since)
<1>1. sel.client = promised.client /\ sel.window = promised.window
        /\ sel.lastTimeChanged = Stamp(promised.since)
  BY DEF Last
<1>2. CASE promised.client \in cs \/ promised.window \in ws
  <2>1. promised' = [promised EXCEPT !.client = None, !.window = None]
    BY <1>2 DEF PromiseWithout
  <2>2. promised'.client = None /\ promised'.window = None /\ promised'.since = promised.since
    BY <2>1 DEF PromiseRec
  <2> QED
    BY <1>1, <1>2, <2>2 DEF OwnedBy
<1>3. CASE ~(promised.client \in cs \/ promised.window \in ws)
  <2>1. promised' = promised
    BY <1>3 DEF PromiseWithout
  <2> QED
    BY <1>1, <1>3, <2>1 DEF OwnedBy
<1> QED
  BY <1>2, <1>3

\* What is left of a promise is a promise.
LEMMA PromiseType ==
  ASSUME promised \in PromiseRec, NEW cs, NEW ws
  PROVE  PromiseWithout(cs, ws) \in PromiseRec
<1> DEFINE m == [promised EXCEPT !.client = None]
           n == [promised EXCEPT !.client = None, !.window = None]
<1>1. n = [m EXCEPT !.window = None]
  OBVIOUS
<1>2. m \in PromiseRec
  BY DEF PromiseRec
<1> HIDE DEF m
<1>3. n \in PromiseRec
  BY <1>1, <1>2 DEF PromiseRec
<1> QED
  BY <1>3 DEF PromiseWithout

------------------------------------------------------------------------------
\* Every step is one of the time, too.
LEMMA NextPasses ==
  ASSUME [Next]_vars
  PROVE  Passes
<1>1. ASSUME NEW c \in Clients, NEW w \in Windows \cup {None}, NEW t \in Times,
             SetSelectionOwner(c, w, t)
      PROVE  Passes
  BY <1>1 DEF SetSelectionOwner, Passes, TimeNext
<1>2. ASSUME NEW w \in Windows, DestroyWindow(w)
      PROVE  Passes
  BY <1>2 DEF DestroyWindow, Passes, TimeNext
<1>3. ASSUME NEW c \in Clients, NEW retain \in BOOLEAN, CloseDownClient(c, retain)
      PROVE  Passes
  BY <1>3 DEF CloseDownClient, Passes, TimeNext
<1>4. ASSUME NEW c \in Clients, NEW w \in Windows, NEW mask \in Masks, SelectInput(c, w, mask)
      PROVE  Passes
  BY <1>4 DEF SelectInput, Passes
<1>5. CASE TimePasses
  BY <1>5 DEF TimePasses, Passes
<1>6. CASE UNCHANGED vars
  BY <1>6 DEF vars, Passes
<1> QED
  BY <1>1, <1>2, <1>3, <1>4, <1>5, <1>6 DEF Next

------------------------------------------------------------------------------
\* ProcSetSelectionOwner.
LEMMA TimeAsked ==
  ASSUME ClockOK, TimeIsDecent, ~MixedMonths, UpdateCurrentTime, NEW t \in Times
  PROVE  \E real \in Nat :
            /\ real = IF t % U32 = 0 THEN Instant(currentTime') ELSE t
            /\ ClientTimeToServerTime(currentTime', t % U32) = Stamp(real)
            /\ Later(Stamp(real), currentTime') <=> real > Instant(currentTime')
<1>1. currentTime' = Stamp(now) /\ now \in Nat /\ now + Half < U32 * U32 /\ Half \in Nat
        /\ Half > 1 /\ U32 * U32 \in Nat
  BY NowAfter, Constants DEF ClockOK
<1>2. Instant(currentTime') = now
  BY <1>1, StampFacts
<1>3. /\ t \in Nat /\ t < now + Half /\ now < t + Half /\ now < U32 * U32 /\ t < U32 * U32
  <2>1. t \in Nat /\ t \in now - Half + 1 .. now + 1
    BY DEF Times
  <2> QED
    BY <1>1, <2>1
<1> DEFINE real == IF t % U32 = 0 THEN now ELSE t
<1>4. real \in Nat
  BY <1>1, <1>3
<1>5. ClientTimeToServerTime(Stamp(now), t % U32) = Stamp(real)
  <2>1. CASE t % U32 = 0
    BY <2>1 DEF ClientTimeToServerTime
  <2>2. CASE t % U32 # 0
    BY <1>1, <1>3, <2>2, ClientTimeIs
  <2> QED
    BY <2>1, <2>2
<1>6. real = IF t % U32 = 0 THEN Instant(currentTime') ELSE t
  BY <1>2
<1> HIDE DEF real
<1>7. Later(Stamp(real), Stamp(now)) <=> real > now
  BY <1>1, <1>4, LaterStamp
<1> QED
  BY <1>1, <1>2, <1>4, <1>5, <1>6, <1>7

\* The promise follows the latest time that has come.
LEMMA PromiseIs ==
  ASSUME promised \in PromiseRec, NEW c \in Clients, NEW w \in Windows \cup {None},
         NEW t \in Nat
  PROVE  /\ Promise(c, w, t) \in PromiseRec
         /\ t > Instant(currentTime') \/ t < promised.since => Promise(c, w, t) = promised
         /\ ~(t > Instant(currentTime') \/ t < promised.since) =>
              /\ Promise(c, w, t).client = IF w = None THEN None ELSE c
              /\ Promise(c, w, t).window = w /\ Promise(c, w, t).since = t
BY DEF Promise, PromiseRec

\* The time that a client names is restored to a time stamp.
LEMMA AskedType ==
  ASSUME Types, UpdateCurrentTime, NEW t \in Times
  PROVE  /\ ClientTimeToServerTime(currentTime', t % U32) \in TimeStamp
         /\ (IF t % U32 = 0 THEN Instant(currentTime') ELSE t) \in Nat
<1>1. currentTime' \in TimeStamp
  BY UpdateTypes DEF Types
<1>2. Instant(currentTime') \in Nat
  BY <1>1, InstantStamp
<1>3. t \in Nat /\ t % U32 \in 0 .. U32 - 1
  <2>1. t \in Nat
    BY DEF Times
  <2> QED
    BY <2>1, Constants, DivMod
<1> QED
  BY <1>1, <1>2, <1>3, ClientTimeType

\* ProcSetSelectionOwner keeps the invariant.
LEMMA SetSelectionOwnerHolds ==
  ASSUME IInv, NEW c \in Clients, NEW w \in Windows \cup {None}, NEW t \in Times,
         SetSelectionOwner(c, w, t), ClockOK', currentTime' \in TimeStamp,
         ~MixedMonths => TimeIsDecent'
  PROVE  IInv'
<1> DEFINE time == ClientTimeToServerTime(currentTime', t % U32)
           real == IF t % U32 = 0 THEN Instant(currentTime') ELSE t
<1>1. /\ ~Gone(c) /\ w \in windows \cup {None} /\ UpdateCurrentTime
      /\ promised' = Promise(c, w, real)
      /\ UNCHANGED <<conn, windows, windowRes>>
      /\ IF Ignored(sel, time) THEN UNCHANGED <<sel, believes>>
         ELSE /\ sel' = SetOwner(sel, c, w, time)
              /\ believes' = [d \in Clients |->
                                IF d = c /\ w # None THEN w
                                ELSE IF d = sel.client /\ Cleared(sel, c, w) THEN None
                                ELSE believes[d]]
  BY DEF SetSelectionOwner
<1>2. Types /\ Watched /\ Owned /\ TypeOK /\ Sound(sel) /\ (~MixedMonths => Last)
  BY DEF IInv, Types, Watched
<1>3. time \in TimeStamp /\ real \in Nat
  BY <1>1, <1>2, AskedType
<1>4. promised' \in PromiseRec
  BY <1>1, <1>2, <1>3, PromiseIs DEF Types
<1>5. ~MixedMonths => /\ time = Stamp(real)
                      /\ Ignored(sel, time) <=>
                           real > Instant(currentTime') \/ real < promised.since
  <2>1. SUFFICES ASSUME ~MixedMonths
                 PROVE  /\ time = Stamp(real)
                        /\ Ignored(sel, time) <=>
                             real > Instant(currentTime') \/ real < promised.since
    OBVIOUS
  <2>2. TimeIsDecent /\ sel.lastTimeChanged = Stamp(promised.since) /\ ClockOK
          /\ promised.since \in Nat
    BY <1>2, <2>1 DEF Last, Types, PromiseRec
  <2>3. /\ time = Stamp(real)
        /\ Later(Stamp(real), currentTime') <=> real > Instant(currentTime')
    BY <1>1, <2>1, <2>2, TimeAsked
  <2>4. Later(Stamp(promised.since), Stamp(real)) <=> promised.since > real
    BY <1>3, <2>2, LaterStamp
  <2>5. promised.since > real <=> real < promised.since
    BY <1>3, <2>2
  <2> HIDE DEF time, real
  <2> QED
    BY <2>2, <2>3, <2>4, <2>5 DEF Ignored
<1>6. /\ promised \in PromiseRec
      /\ real > Instant(currentTime') \/ real < promised.since => promised' = promised
      /\ ~(real > Instant(currentTime') \/ real < promised.since) =>
              /\ promised'.client = IF w = None THEN None ELSE c
              /\ promised'.window = w /\ promised'.since = real
  <2>1. promised \in PromiseRec
    BY <1>2 DEF Types
  <2> HIDE DEF real
  <2> QED
    BY <1>1, <1>3, <2>1, PromiseIs
<1> HIDE DEF time, real
<1>7. CASE Ignored(sel, time)
  <2>1. sel' = sel /\ believes' = believes /\ UNCHANGED <<conn, windows, windowRes>>
    BY <1>1, <1>7
  <2>2. TypeOK'
    BY <1>2, <2>1 DEF TypeOK, SelectionRec, Watch, TimeStamp
  <2>3. Watched'
    BY <1>2, <2>1 DEF Watched, Sound, Knows, Gone, SelectionRec, Watch, TimeStamp
  <2>4. Owned'
    BY <1>2, <2>1 DEF Owned, Gone
  <2>5. ~MixedMonths => Last'
    BY <1>2, <1>5, <1>6, <1>7, <2>1 DEF Last, Stamp
  <2> QED
    BY <1>4, <2>2, <2>3, <2>4, <2>5 DEF IInv, Types, PromiseRec, TimeStamp
<1>8. CASE ~Ignored(sel, time)
  <2> DEFINE n == SetOwner(sel, c, w, time)
             o == IF w = None THEN None ELSE c
  <2>1. /\ Sound(n) /\ Kept(sel, n) /\ OwnedBy(n, o, w, time)
    BY <1>2, <1>3, SetOwnerIs
  <2>2. sel' = n /\ UNCHANGED <<conn, windows, windowRes>>
    BY <1>1, <1>8
  <2>3. believes' = [d \in Clients |->
                       IF d = c /\ w # None THEN w
                       ELSE IF d = sel.client /\ Cleared(sel, c, w) THEN None
                       ELSE believes[d]]
    BY <1>1, <1>8
  <2> HIDE DEF n
  <2>4. Sound(sel)'
    BY <2>1, <2>2, SoundAfter
  <2>5. believes' \in [Clients -> Windows \cup {None}]
    BY <1>2, <2>3 DEF TypeOK
  <2>6. TypeOK'
    BY <1>2, <2>2, <2>4, <2>5 DEF TypeOK, Sound
  <2>7. Watched'
    BY <1>2, <2>1, <2>2, <2>4 DEF Watched, Kept
  <2>8. sel'.client = o /\ sel'.window = w /\ sel'.lastTimeChanged = time
    BY <2>1, <2>2 DEF OwnedBy
  <2>9. Owned'
    <3>1. None \notin windows /\ c # None /\ c \in Clients
      BY <1>2, NoneApart DEF TypeOK
    <3>2. ASSUME NEW d \in Clients, believes'[d] \in windows'
          PROVE  sel'.client = d /\ sel'.window = believes'[d]
      <4>1. CASE d = c /\ w # None
        BY <2>3, <2>8, <4>1
      <4>2. CASE ~(d = c /\ w # None)
        <5>1. believes'[d] = believes[d] /\ ~(d = sel.client /\ Cleared(sel, c, w))
          BY <2>2, <2>3, <3>1, <3>2, <4>2
        <5>2. sel.client = d
          BY <1>2, <2>2, <3>2, <5>1 DEF Owned
        <5>3. d # None
          BY NoneApart
        <5> QED
          BY <4>2, <5>1, <5>2, <5>3 DEF Cleared
      <4> QED
        BY <4>1, <4>2
    <3>3. sel'.client = None <=> sel'.window = None
      BY <2>8, <3>1
    <3>4. sel'.window # None => believes'[sel'.client] = sel'.window /\ conn'[sel'.client] = "connected"
      BY <1>1, <2>2, <2>3, <2>8, <3>1 DEF Gone
    <3> QED
      BY <3>2, <3>3, <3>4 DEF Owned, Gone
  <2>10. ~MixedMonths => Last'
    <3>1. SUFFICES ASSUME ~MixedMonths
                   PROVE  Last'
      OBVIOUS
    <3>2. /\ promised'.client = o /\ promised'.window = w /\ promised'.since = real
          /\ time = Stamp(real)
      BY <1>5, <1>6, <1>8, <3>1
    <3> QED
      BY <2>8, <3>1, <3>2 DEF Last, Stamp
  <2> QED
    BY <1>4, <2>6, <2>7, <2>9, <2>10 DEF IInv, Types, PromiseRec, TimeStamp
<1> QED
  BY <1>7, <1>8

------------------------------------------------------------------------------
\* The actions.
\* What is left when clients and windows go: the parts of the invariant.
LEMMA LeftHolds ==
  ASSUME IInv, NEW cs \in SUBSET Clients, NEW ws \in SUBSET Windows, NEW n,
         Sound(n), Kept(sel, n), sel' = n,
         sel.client \in cs \/ sel.window \in ws =>
            OwnedBy(n, None, None, sel.lastTimeChanged),
         ~(sel.client \in cs \/ sel.window \in ws) =>
            OwnedBy(n, sel.client, sel.window, sel.lastTimeChanged),
         \A e \in n.watches : conn'[e.client] # "gone" /\ e.window \notin ws \cap windowRes,
         conn' \in [Clients -> {"connected", "retained", "gone"}],
         \A d \in Clients : conn'[d] = "connected" => conn[d] = "connected",
         \A d \in Clients \ cs : ~Gone(d) => ~Gone(d)',
         windows' = windows \ ws, windowRes' = windowRes \ ws,
         believes' \in [Clients -> Windows \cup {None}],
         \A d \in Clients : \/ believes'[d] = believes[d]
                            \/ believes'[d] = None /\ (d \in cs \/ Gone(d)),
         \A d \in cs : believes'[d] = None,
         promised' = PromiseWithout(cs, ws),
         ClockOK', currentTime' \in TimeStamp, ~MixedMonths => TimeIsDecent'
  PROVE  IInv'
<1>1. Types /\ Watched /\ Owned /\ TypeOK /\ Sound(sel) /\ (~MixedMonths => Last)
        /\ promised \in PromiseRec
  BY DEF IInv, Types, Watched
<1>2. promised' \in PromiseRec
  BY <1>1, PromiseType
<1>3. Sound(sel)'
  BY SoundAfter
<1>4. TypeOK'
  BY <1>1, <1>3 DEF TypeOK, Sound
<1>5. Watched'
  <2>1. ASSUME NEW e \in n.watches
        PROVE  e.window \in windowRes \ ws
    BY <1>1, <2>1 DEF Watched, Kept
  <2> QED
    BY <1>3, <2>1 DEF Watched
<1>6. Owned'
  <2>1. \A d \in cs \cap Clients : believes'[d] = None
    OBVIOUS
  <2>2. /\ sel.client \in cs \/ sel.window \in ws =>
             OwnedBy(sel', None, None, sel.lastTimeChanged)
        /\ ~(sel.client \in cs \/ sel.window \in ws) =>
             OwnedBy(sel', sel.client, sel.window, sel.lastTimeChanged)
    OBVIOUS
  <2> QED
    BY <1>1, <2>1, <2>2, OwnersLeft
<1>7. ~MixedMonths => Last'
  <2>1. SUFFICES ASSUME ~MixedMonths
                 PROVE  Last'
    OBVIOUS
  <2>2. None \notin cs
    BY NoneApart
  <2>3. /\ sel.client \in cs \/ sel.window \in ws =>
             OwnedBy(sel', None, None, sel.lastTimeChanged)
        /\ ~(sel.client \in cs \/ sel.window \in ws) =>
             OwnedBy(sel', sel.client, sel.window, sel.lastTimeChanged)
    OBVIOUS
  <2>4. /\ sel'.client = promised'.client /\ sel'.window = promised'.window
        /\ sel'.lastTimeChanged = Stamp(promised'.since)
    BY <1>1, <2>1, <2>2, <2>3, PromiseLeft
  <2> QED
    BY <2>1, <2>4 DEF Last, Stamp
<1> QED
  BY <1>2, <1>4, <1>5, <1>6, <1>7 DEF IInv, Types, PromiseRec, TimeStamp

\* DeleteWindow.
LEMMA DestroyWindowHolds ==
  ASSUME IInv, NEW w \in Windows, DestroyWindow(w),
         ClockOK', currentTime' \in TimeStamp, ~MixedMonths => TimeIsDecent'
  PROVE  IInv'
<1> DEFINE ws == Inferiors[w]
           n == DestroyWindows(sel, ws)
<1>1. /\ sel' = n /\ windows' = windows \ ws /\ windowRes' = windowRes \ ws
      /\ promised' = PromiseWithout({}, ws) /\ conn' = conn /\ believes' = believes
  BY DEF DestroyWindow, ResourcesLeft
<1>2. TypeOK /\ Sound(sel) /\ \A e \in sel.watches : conn[e.client] # "gone"
  BY DEF IInv, Types, Watched
<1>3. ws \in SUBSET Windows
  BY RootIn
<1> HIDE DEF ws
<1>4. /\ Sound(n) /\ Kept(sel, n)
      /\ sel.window \in ws => OwnedBy(n, None, None, sel.lastTimeChanged)
      /\ sel.window \notin ws => OwnedBy(n, sel.client, sel.window, sel.lastTimeChanged)
      /\ \A e \in n.watches : e.window \notin ws \cap windowRes
  BY <1>2, <1>3, DestroyWindowsIs
<1> HIDE DEF n
<1>5. \A e \in n.watches : conn'[e.client] # "gone" /\ e.window \notin ws \cap windowRes
  BY <1>1, <1>2, <1>4 DEF Kept
<1>6. /\ conn' \in [Clients -> {"connected", "retained", "gone"}]
      /\ believes' \in [Clients -> Windows \cup {None}]
  BY <1>1, <1>2 DEF TypeOK
<1>7. \A d \in Clients : ~Gone(d) => ~Gone(d)'
  BY <1>1 DEF Gone
<1>8. /\ \A d \in Clients : conn'[d] = "connected" => conn[d] = "connected"
      /\ \A d \in Clients : believes'[d] = believes[d]
  BY <1>1
<1> QED
  BY <1>1, <1>3, <1>4, <1>5, <1>6, <1>7, <1>8, LeftHolds

\* CloseDownClient: what is left of the selection.
Closing(s, n, c, once, retain, ws, cs) ==
  LET kept == IF once THEN Disconnected(s, c) ELSE s
  IN  /\ n = IF retain THEN kept ELSE Freed(kept, c, ws)
      /\ cs = IF once THEN {c} ELSE {}
      /\ retain => ws = {}

LEMMA ClosedIs ==
  ASSUME NEW s, Sound(s), NEW c \in Clients, NEW once \in BOOLEAN, NEW retain \in BOOLEAN,
         NEW ws \in SUBSET Windows, NEW cs, NEW n, Closing(s, n, c, once, retain, ws, cs)
  PROVE  /\ Sound(n) /\ Kept(s, n)
         /\ s.client \in cs \/ s.window \in ws =>
               OwnedBy(n, None, None, s.lastTimeChanged)
         /\ ~(s.client \in cs \/ s.window \in ws) =>
               OwnedBy(n, s.client, s.window, s.lastTimeChanged)
         /\ ~retain => \A e \in n.watches : e.client # c
         /\ \A e \in n.watches : e.window \notin ws \cap windowRes
<1> DEFINE kept == IF once THEN Disconnected(s, c) ELSE s
<1>1. None \notin ws
  BY NoneApart
<1>2. /\ n = IF retain THEN kept ELSE Freed(kept, c, ws)
      /\ cs = IF once THEN {c} ELSE {}
      /\ retain => ws = {}
  BY DEF Closing
<1>3. /\ Sound(kept) /\ Kept(s, kept)
      /\ s.client \in cs => OwnedBy(kept, None, None, s.lastTimeChanged)
      /\ s.client \notin cs => kept = s
  <2>1. CASE once
    BY <1>2, <2>1, DeleteClientIs DEF Disconnected
  <2>2. CASE ~once
    BY <1>2, <2>2, KeptSame
  <2> QED
    BY <2>1, <2>2
<1> HIDE DEF kept
<1>4. /\ s.client \in cs => OwnedBy(kept, None, None, s.lastTimeChanged)
      /\ s.client \notin cs => OwnedBy(kept, s.client, s.window, s.lastTimeChanged)
  BY <1>3 DEF OwnedBy
<1>5. CASE retain
  BY <1>3, <1>4, <1>5, <1>2
<1>6. CASE ~retain
  <2> DEFINE freed == Free(kept, {c}, {})
  <2>1. /\ Sound(freed) /\ Kept(kept, freed)
        /\ OwnedBy(freed, kept.client, kept.window, kept.lastTimeChanged)
        /\ \A e \in freed.watches : e.client # c
    BY <1>3, FreeIs
  <2>2. n = DestroyWindows(freed, ws)
    BY <1>6, <1>2 DEF Freed
  <2> HIDE DEF freed
  <2>3. /\ Sound(n) /\ Kept(freed, n)
        /\ freed.window \in ws => OwnedBy(n, None, None, freed.lastTimeChanged)
        /\ freed.window \notin ws =>
             OwnedBy(n, freed.client, freed.window, freed.lastTimeChanged)
        /\ \A e \in n.watches : e.window \notin ws \cap windowRes
    BY <2>1, <2>2, DestroyWindowsIs
  <2>4. Kept(s, n)
    BY <1>3, <2>1, <2>3, KeptAll
  <2>5. \A e \in n.watches : e.client # c
    BY <2>1, <2>3 DEF Kept
  <2>6. /\ s.client \in cs \/ s.window \in ws => OwnedBy(n, None, None, s.lastTimeChanged)
        /\ ~(s.client \in cs \/ s.window \in ws) =>
             OwnedBy(n, s.client, s.window, s.lastTimeChanged)
    BY <1>1, <1>4, <2>1, <2>3 DEF OwnedBy
  <2> QED
    BY <2>3, <2>4, <2>5, <2>6
<1> QED
  BY <1>5, <1>6

\* CloseDownClient keeps the invariant.
LEMMA CloseDownClientHolds ==
  ASSUME IInv, NEW c \in Clients, NEW retain \in BOOLEAN, CloseDownClient(c, retain),
         ClockOK', currentTime' \in TimeStamp, ~MixedMonths => TimeIsDecent'
  PROVE  IInv'
<1> DEFINE once == ~Gone(c)
           all == UNION {Inferiors[w] : w \in {v \in windows : Creator[v] = c}}
           ws == IF retain THEN {} ELSE all
           kept == IF once THEN Disconnected(sel, c) ELSE sel
           n == IF retain THEN kept ELSE Freed(kept, c, ws)
           cs == IF once THEN {c} ELSE {}
<1>1. /\ conn[c] # "gone" /\ (retain => once)
      /\ sel' = n /\ conn' = [conn EXCEPT ![c] = IF retain THEN "retained" ELSE "gone"]
      /\ windows' = windows \ ws /\ windowRes' = windowRes \ ws
      /\ believes' = [believes EXCEPT ![c] = None] /\ promised' = PromiseWithout(cs, ws)
  BY DEF CloseDownClient, ResourcesLeft
<1>2. TypeOK /\ Sound(sel) /\ \A e \in sel.watches : conn[e.client] # "gone"
  BY DEF IInv, Types, Watched
<1>3. ws \in SUBSET Windows /\ (retain => ws = {})
  BY <1>2, RootIn DEF TypeOK
<1>4. /\ once \in BOOLEAN /\ cs \in SUBSET Clients
      /\ (c \in cs \/ Gone(c)) /\ \A d \in cs : d = c
  BY DEF Gone
<1>5. \A e \in sel.watches : e.client \in Clients
  BY <1>2, RecIs DEF Sound
<1> HIDE DEF ws, all
<1>6. /\ Sound(n) /\ Kept(sel, n)
      /\ sel.client \in cs \/ sel.window \in ws =>
            OwnedBy(n, None, None, sel.lastTimeChanged)
      /\ ~(sel.client \in cs \/ sel.window \in ws) =>
            OwnedBy(n, sel.client, sel.window, sel.lastTimeChanged)
      /\ ~retain => \A e \in n.watches : e.client # c
      /\ \A e \in n.watches : e.window \notin ws \cap windowRes
  <2>1. Closing(sel, n, c, once, retain, ws, cs)
    BY <1>3 DEF Closing
  <2> HIDE DEF n, kept, cs, once
  <2> QED
    BY <1>2, <1>3, <1>4, <2>1, ClosedIs
<1> HIDE DEF n, kept, cs, once
<1>7. /\ conn' \in [Clients -> {"connected", "retained", "gone"}]
      /\ conn'[c] = IF retain THEN "retained" ELSE "gone"
      /\ \A d \in Clients : d # c => conn'[d] = conn[d]
      /\ believes' \in [Clients -> Windows \cup {None}]
      /\ believes'[c] = None
      /\ \A d \in Clients : d # c => believes'[d] = believes[d]
  BY <1>1, <1>2 DEF TypeOK
<1>8. ASSUME NEW e \in n.watches
      PROVE  conn'[e.client] # "gone" /\ e.window \notin ws \cap windowRes
  <2>1. e.client \in Clients /\ conn[e.client] # "gone"
    BY <1>2, <1>5, <1>6 DEF Kept
  <2> QED
    BY <1>6, <1>7, <2>1
<1>9. /\ \A d \in Clients : conn'[d] = "connected" => conn[d] = "connected"
      /\ \A d \in Clients \ cs : ~Gone(d) => ~Gone(d)'
  <2>1. ASSUME NEW d \in Clients
        PROVE  conn'[d] = "connected" => conn[d] = "connected"
    BY <1>7
  <2>2. ASSUME NEW d \in Clients \ cs, ~Gone(d)
        PROVE  ~Gone(d)'
    <3>1. d # c
      BY <1>4, <2>2
    <3> QED
      BY <1>7, <2>2, <3>1 DEF Gone
  <2> QED
    BY <2>1, <2>2
<1>10. /\ \A d \in Clients : \/ believes'[d] = believes[d]
                             \/ believes'[d] = None /\ (d \in cs \/ Gone(d))
       /\ \A d \in cs : believes'[d] = None
  <2>1. ASSUME NEW d \in Clients
        PROVE  \/ believes'[d] = believes[d]
               \/ believes'[d] = None /\ (d \in cs \/ Gone(d))
    BY <1>4, <1>7
  <2> QED
    BY <1>4, <1>7, <2>1
<1> QED
  BY <1>1, <1>3, <1>4, <1>6, <1>7, <1>8, <1>9, <1>10, LeftHolds

\* XFixesSelectSelectionInput.
LEMMA SelectInputHolds ==
  ASSUME IInv, NEW c \in Clients, NEW w \in Windows, NEW mask \in Masks,
         SelectInput(c, w, mask),
         ClockOK', currentTime' \in TimeStamp, ~MixedMonths => TimeIsDecent'
  PROVE  IInv'
<1> DEFINE had == {e \in sel.watches : e.client = c /\ e.window = w}
           left == CheckCallback([sel EXCEPT !.watches = @ \ had])
           n == Registered(sel, c, w, mask)
<1>1. /\ ~Gone(c) /\ w \in windows
      /\ UNCHANGED <<conn, windows, believes, promised>>
      /\ \/ sel' = left /\ windowRes' = windowRes
         \/ mask # {} /\ sel' = n /\ windowRes' = windowRes \cup {w}
         \/ sel' = sel /\ windowRes' \in {windowRes, windowRes \cup {w}}
  BY DEF SelectInput, history
<1>2. /\ Types /\ Watched /\ Owned /\ TypeOK /\ Sound(sel) /\ (~MixedMonths => Last)
  BY DEF IInv, Types, Watched
<1>3. /\ Sound(left) /\ Kept(sel, left)
      /\ OwnedBy(left, sel.client, sel.window, sel.lastTimeChanged)
  <2> DEFINE watches == sel.watches \ had
  <2>1. watches \subseteq sel.watches
    OBVIOUS
  <2>2. left = CheckCallback([sel EXCEPT !.watches = watches])
    OBVIOUS
  <2> HIDE DEF watches, left
  <2> QED
    BY <1>2, <2>1, <2>2, CheckCallbackIs
<1>4. mask # {} =>
        /\ Sound(n) /\ OwnedBy(n, sel.client, sel.window, sel.lastTimeChanged)
        /\ \A f \in n.watches : \/ f.client = c /\ f.window = w
                                \/ \E e \in sel.watches : e.client = f.client /\ e.window = f.window
  BY <1>2, RegisteredIs
<1>5. /\ Kept(sel, sel) /\ OwnedBy(sel, sel.client, sel.window, sel.lastTimeChanged)
  BY KeptSame DEF OwnedBy
<1> HIDE DEF left, n
<1>6. /\ Sound(sel') /\ OwnedBy(sel', sel.client, sel.window, sel.lastTimeChanged)
      /\ windowRes \subseteq windowRes' /\ windowRes' \subseteq windowRes \cup {w}
      /\ \A f \in sel'.watches :
            \/ f.client = c /\ f.window = w /\ w \in windowRes'
            \/ \E e \in sel.watches : e.client = f.client /\ e.window = f.window
  BY <1>1, <1>2, <1>3, <1>4, <1>5 DEF Kept
<1>7. Sound(sel)'
  BY <1>1, <1>6, SoundAfter
<1>8. TypeOK'
  BY <1>1, <1>2, <1>6, <1>7 DEF TypeOK, Sound
<1>9. Watched'
  <2>1. ASSUME NEW f \in sel'.watches
        PROVE  conn[f.client] # "gone" /\ f.window \in windowRes'
    BY <1>1, <1>2, <1>6 DEF Watched, Gone
  <2> QED
    BY <1>1, <1>7, <2>1 DEF Watched
<1>10. sel'.client = sel.client /\ sel'.window = sel.window
         /\ sel'.lastTimeChanged = sel.lastTimeChanged
  BY <1>6 DEF OwnedBy
<1>11. Owned'
  BY <1>1, <1>2, <1>10 DEF Owned, Gone
<1>12. ~MixedMonths => Last'
  BY <1>1, <1>2, <1>10 DEF Last, Stamp
<1> QED
  BY <1>1, <1>2, <1>8, <1>9, <1>11, <1>12 DEF IInv, Types, PromiseRec, TimeStamp

\* The steps of the time alone keep the invariant.
LEMMA TimePassesHolds ==
  ASSUME IInv, UNCHANGED <<sel, conn, windows, windowRes, history>>,
         ClockOK', currentTime' \in TimeStamp, ~MixedMonths => TimeIsDecent'
  PROVE  IInv'
<1>1. /\ Types /\ Watched /\ Owned /\ TypeOK /\ Sound(sel) /\ (~MixedMonths => Last)
      /\ UNCHANGED <<sel, conn, windows, windowRes, believes, promised>>
  BY DEF IInv, Types, Watched, history
<1>2. Sound(sel)'
  BY <1>1, SoundAfter
<1>3. TypeOK'
  BY <1>1, <1>2 DEF TypeOK, Sound
<1>4. Watched'
  BY <1>1, <1>2 DEF Watched
<1>5. Owned'
  BY <1>1 DEF Owned, Gone
<1>6. ~MixedMonths => Last'
  BY <1>1 DEF Last, Stamp
<1> QED
  BY <1>1, <1>3, <1>4, <1>5, <1>6 DEF IInv, Types, PromiseRec, TimeStamp

------------------------------------------------------------------------------
\* The time is the clock's at first.
LEMMA TimeInitHolds ==
  ASSUME TimeInit
  PROVE  ClockOK /\ TimeIsDecent
<1>1. now \in Starts /\ looked = now /\ currentTime = Stamp(now)
  BY DEF TimeInit
<1>2. now \in Nat /\ now < U32
  BY <1>1, ServerTimeAssumption
<1>3. ClockOK /\ now < U32 * U32
  <2>1. MaxIdle \in Nat /\ now - now = 0
    BY <1>2, ServerTimeAssumption
  <2>2. now + Half < U32 * U32
    BY <1>2, Constants
  <2> QED
    BY <1>1, <1>2, <2>1, <2>2, Constants DEF ClockOK
<1>4. TimeIsDecent
  <2>1. Instant(currentTime) = now /\ currentTime \in TimeStamp
    BY <1>1, <1>2, <1>3, StampFacts
  <2> QED
    BY <1>1, <1>2, <2>1 DEF TimeIsDecent
<1> QED
  BY <1>3, <1>4

\* The invariant holds at first.
LEMMA InitHolds ==
  ASSUME Init
  PROVE  IInv
<1>1. /\ now \in Starts /\ looked = now /\ currentTime = Stamp(now)
      /\ sel = [client |-> None, window |-> None, lastTimeChanged |-> Stamp(0),
                watches |-> {}, registered |-> FALSE]
      /\ conn = [c \in Clients |-> "connected"]
      /\ windows = Windows /\ windowRes = {}
      /\ believes = [c \in Clients |-> None]
      /\ promised = [client |-> None, window |-> None, since |-> 0]
  BY DEF Init, TimeInit
<1>2. ClockOK /\ TimeIsDecent
  BY TimeInitHolds DEF Init
<1>3. Stamp(0) \in TimeStamp
  BY Constants, StampFacts
<1>4. /\ sel \in SelectionRec /\ sel.client = None /\ sel.window = None
      /\ sel.lastTimeChanged = Stamp(0) /\ sel.watches = {} /\ sel.registered = FALSE
  BY <1>1, <1>3 DEF SelectionRec
<1>5. TypeOK /\ promised \in PromiseRec
  BY <1>1, <1>4 DEF TypeOK, PromiseRec
<1>6. Watched
  BY <1>4 DEF Watched, Sound, Knows
<1>7. Owned
  BY <1>1, <1>4, NoneApart DEF Owned
<1>8. Last
  BY <1>1, <1>2, <1>4 DEF Last
<1> QED
  BY <1>2, <1>5, <1>6, <1>7, <1>8 DEF IInv, Types, TimeIsDecent

\* Each step keeps the invariant.
LEMMA NextHolds ==
  ASSUME IInv, [Next]_vars
  PROVE  IInv'
<1>1. ClockOK' /\ currentTime' \in TimeStamp
  BY NextPasses, TimeTypes DEF IInv, Types
<1>2. ~MixedMonths => TimeIsDecent'
  BY NextPasses, Decent DEF IInv, Types, Last
<1>3. ASSUME NEW c \in Clients, NEW w \in Windows \cup {None}, NEW t \in Times,
             SetSelectionOwner(c, w, t)
      PROVE  IInv'
  BY <1>1, <1>2, <1>3, SetSelectionOwnerHolds
<1>4. ASSUME NEW w \in Windows, DestroyWindow(w)
      PROVE  IInv'
  BY <1>1, <1>2, <1>4, DestroyWindowHolds
<1>5. ASSUME NEW c \in Clients, NEW retain \in BOOLEAN, CloseDownClient(c, retain)
      PROVE  IInv'
  BY <1>1, <1>2, <1>5, CloseDownClientHolds
<1>6. ASSUME NEW c \in Clients, NEW w \in Windows, NEW mask \in Masks, SelectInput(c, w, mask)
      PROVE  IInv'
  BY <1>1, <1>2, <1>6, SelectInputHolds
<1>7. CASE TimePasses
  BY <1>1, <1>2, <1>7, TimePassesHolds DEF TimePasses
<1>8. CASE UNCHANGED vars
  BY <1>1, <1>2, <1>8, TimePassesHolds DEF vars
<1> QED
  BY <1>3, <1>4, <1>5, <1>6, <1>7, <1>8 DEF Next

\* The parts of what is inductive hold of every behaviour
\* (ProcSetSelectionOwner, XFixesSelectSelectionInput, CloseDownClient).
THEOREM Invariant == Spec => []IInv
<1>1. Init => IInv
  BY InitHolds
<1>2. IInv /\ [Next]_vars => IInv'
  BY NextHolds
<1> QED
  BY <1>1, <1>2, PTL DEF Spec

\* A registration does not outlive its client's resources or its window, and
\* the callback is registered while there is any; the types hold
\* (SelectionFreeClient, SelectionFreeWindow, CheckSelectionCallback).
THEOREM WatchesFresh == Spec => []NoStaleWatch
<1>1. IInv => NoStaleWatch
  BY DEF IInv, Types, Watched, Sound, NoStaleWatch
<1> QED
  BY <1>1, Invariant, PTL

\* Whoever watches the selection knows its owner from its events
\* (XFixesSelectionCallback).
THEOREM WatchersAreTold == Spec => []WatchersKnow
<1>1. IInv => WatchersKnow
  BY DEF IInv, Watched, Sound, Knows, WatchersKnow
<1> QED
  BY <1>1, Invariant, PTL

\* Who was told that it owns the selection owns it, and an owner was told and
\* is connected (ProcSetSelectionOwner, DeleteWindowFromAnySelections,
\* DeleteClientFromAnySelections, ProcConvertSelection).
THEOREM OwnersAreTold == Spec => []OwnersKnow
<1>1. IInv => OwnersKnow
  BY DEF IInv, Owned, OwnersKnow, Answerer
<1> QED
  BY <1>1, Invariant, PTL

\* When no event of last month is processed in this one, the month changes as
\* it should and clients' times are restored (UpdateCurrentTime,
\* NoticeTimeMillis, ClientTimeToServerTime).
THEOREM TimeKept ==
  ASSUME ~MixedMonths
  PROVE  TimeSpec => []TimeHolds
<1> DEFINE TInv == ClockOK /\ TimeIsDecent
<1>1. TimeInit => TInv
  BY TimeInitHolds
<1>2. TInv /\ [TimeNext]_timeVars => TInv'
  BY TimeTypes, Decent DEF Passes, TimeIsDecent
<1>3. TInv => TimeHolds
  BY ClientTimes DEF TimeHolds
<1> HIDE DEF TInv
<1> QED
  BY <1>1, <1>2, <1>3, PTL DEF TimeSpec

\* When no event of last month is processed in this one, the last owner by
\* time is the owner, and the server's time and what it makes of the times of
\* clients hold (ProcSetSelectionOwner, UpdateCurrentTime, NoticeTimeMillis,
\* ClientTimeToServerTime).
THEOREM LastOwnerIs ==
  ASSUME ~MixedMonths
  PROVE  Spec => []LastOwnerWins
<1>1. IInv => LastOwnerWins
  BY ClientTimes DEF IInv, Types, Last, LastOwnerWins, TimeHolds
<1> QED
  BY <1>1, Invariant, PTL
==============================================================================
