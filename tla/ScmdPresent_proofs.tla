-------------------------- MODULE ScmdPresent_proofs --------------------------
(***************************************************************************)
(* For any windows and requests, however far ahead, and for every setup,   *)
(* also a driver that fails: ScmdPresent keeps its types, its lists and    *)
(* calls name no vblank that is freed and hold every one that is not       *)
(* (Linked), and no window draws to a pixmap that its client may have back *)
(* (DrawsToHeld).  With a driver that does not unflip at once copies are   *)
(* drawn to the screen's pixmap (CopiesToScreen).  With one that does not  *)
(* fail no copy is early (NotEarly), one flip is asked of it at a time     *)
(* (AssertionsHold), and Present keeps its promise (Implements).           *)
(*                                                                         *)
(* Inv is inductive, and Hidden, Punctual and Promised are so with it: see *)
(* ScmdInvariants.                                                         *)
(***************************************************************************)
EXTENDS ScmdInvariants, TLAPS, SequenceTheorems, FunctionTheorems, FiniteSetTheorems

-----------------------------------------------------------------------------
(***************************************************************************)
(* Lists.                                                                  *)
(***************************************************************************)
\* Taking a request off a list leaves a list.
LEMMA WithoutTyped ==
  ASSUME NEW list \in Seq(Ids), NEW v
  PROVE  Without(list, v) \in Seq(Ids)
<1>1. CASE ~Contains(list, v)
  BY <1>1, Zenon DEF Without
<1>2. CASE Contains(list, v)
  <2> DEFINE p == Position(list, v)
             before == SubSeq(list, 1, p - 1)
             after  == SubSeq(list, p + 1, Len(list))
  <2>1. p \in 1 .. Len(list)
    BY <1>2, LenProperties DEF Contains, Position
  <2>2. Len(list) \in Nat
    BY LenProperties
  <2> HIDE DEF p
  <2>3. before \in Seq(Ids) /\ after \in Seq(Ids)
    BY <2>1, <2>2, SubSeqProperties, ElementOfSeq, SMTT(30)
  <2>4. Without(list, v) = before \o after
    BY <1>2, Zenon DEF Without, p
  <2> HIDE DEF before, after
  <2> QED
    BY <2>3, <2>4, ConcatProperties, Zenon
<1> QED
  BY <1>1, <1>2

LEMMA OneElement ==
  ASSUME NEW S, NEW e \in S
  PROVE  <<e>> \in Seq(S) /\ Len(<<e>>) = 1 /\ <<e>>[1] = e
<1>1. <<e>> = Append(<<>>, e)
  OBVIOUS
<1>2. <<>> \in Seq(S) /\ Len(<<>>) = 0
  BY EmptySeq
<1> QED
  BY <1>1, <1>2, AppendProperties

\* The nodes that xorg_list_del leaves, and their order.
LEMMA WithoutNodes ==
  ASSUME NEW list \in Seq(Ids), NEW v, Contains(list, v)
  PROVE  /\ Position(list, v) \in 1 .. Len(list) /\ list[Position(list, v)] = v
         /\ Len(list) \in Nat /\ Without(list, v) \in Seq(Ids)
         /\ Len(Without(list, v)) = Len(list) - 1
         /\ \A i \in 1 .. Len(list) - 1 :
              Without(list, v)[i] = IF i < Position(list, v) THEN list[i] ELSE list[i + 1]
<1> DEFINE p == Position(list, v)
           before == SubSeq(list, 1, p - 1)
           after  == SubSeq(list, p + 1, Len(list))
<1>1. Len(list) \in Nat /\ DOMAIN list = 1 .. Len(list)
  BY LenProperties
<1>2. p \in 1 .. Len(list) /\ list[p] = v
  BY <1>1 DEF Contains, Position
<1>3. Without(list, v) = before \o after
  BY DEF Without
<1> HIDE DEF p
<1>4. before \in Seq(Ids) /\ Len(before) = p - 1 /\ \A i \in 1 .. p - 1 : before[i] = list[i]
  <2>1. 1 \in Int /\ p - 1 \in Int /\ \A i \in 1 .. p - 1 : list[i] \in Ids
    BY <1>1, <1>2, ElementOfSeq
  <2>2. /\ before \in Seq(Ids) /\ Len(before) = IF 1 <= p - 1 THEN (p - 1) - 1 + 1 ELSE 0
        /\ \A i \in 1 .. (p - 1) - 1 + 1 : before[i] = list[1 + i - 1]
    BY <2>1, SubSeqProperties
  <2> HIDE DEF before
  <2> QED
    BY <2>2, <1>2
<1>5. /\ after \in Seq(Ids) /\ Len(after) = Len(list) - p
      /\ \A i \in 1 .. Len(list) - p : after[i] = list[p + i]
  <2>1. p + 1 \in Int /\ Len(list) \in Int /\ \A i \in p + 1 .. Len(list) : list[i] \in Ids
    BY <1>1, <1>2, ElementOfSeq
  <2>2. /\ after \in Seq(Ids)
        /\ Len(after) = IF p + 1 <= Len(list) THEN Len(list) - (p + 1) + 1 ELSE 0
        /\ \A i \in 1 .. Len(list) - (p + 1) + 1 : after[i] = list[(p + 1) + i - 1]
    BY <2>1, SubSeqProperties
  <2> HIDE DEF after
  <2>3. Len(after) = Len(list) - p
    <3>1. Len(after) = IF p + 1 <= Len(list) THEN Len(list) - (p + 1) + 1 ELSE 0
      BY <2>2
    <3>2. p \in Nat /\ p <= Len(list) /\ Len(list) \in Nat
      BY <1>1, <1>2
    <3> QED
      BY <3>1, <3>2
  <2>4. \A i \in 1 .. Len(list) - p : after[i] = list[p + i]
    <3> TAKE i \in 1 .. Len(list) - p
    <3>1. i \in 1 .. Len(list) - (p + 1) + 1 /\ (p + 1) + i - 1 = p + i
      BY <1>1, <1>2
    <3> QED
      BY <3>1, <2>2
  <2> QED
    BY <2>2, <2>3, <2>4
<1> HIDE DEF before, after
<1>6. /\ before \o after \in Seq(Ids) /\ Len(before \o after) = Len(before) + Len(after)
      /\ \A i \in 1 .. Len(before) + Len(after) :
           (before \o after)[i] = IF i <= Len(before) THEN before[i] ELSE after[i - Len(before)]
  BY <1>4, <1>5, ConcatProperties
<1>7. \A i \in 1 .. Len(list) - 1 :
        (before \o after)[i] = IF i < p THEN list[i] ELSE list[i + 1]
  <2> SUFFICES ASSUME NEW i \in 1 .. Len(list) - 1
               PROVE  (before \o after)[i] = IF i < p THEN list[i] ELSE list[i + 1]
    OBVIOUS
  <2>1. (before \o after)[i] = IF i <= p - 1 THEN before[i] ELSE after[i - (p - 1)]
    BY <1>1, <1>2, <1>4, <1>5, <1>6
  <2>2. CASE i < p
    BY <2>1, <2>2, <1>1, <1>2, <1>4
  <2>3. CASE ~(i < p)
    <3>1. i - (p - 1) \in 1 .. Len(list) - p /\ p + (i - (p - 1)) = i + 1
      BY <2>3, <1>1, <1>2
    <3>2. after[i - (p - 1)] = list[p + (i - (p - 1))]
      BY <3>1, <1>5
    <3> QED
      BY <2>1, <2>3, <3>1, <3>2, <1>1, <1>2
  <2> QED
    BY <2>2, <2>3
<1> QED
  BY <1>1, <1>2, <1>3, <1>4, <1>5, <1>6, <1>7 DEF p

LEMMA WithoutHas ==
  ASSUME NEW list \in Seq(Ids), NEW v, Once(list)
  PROVE  Once(Without(list, v)) /\ \A u : Contains(Without(list, v), u) <=> Contains(list, u) /\ u # v
<1>1. CASE ~Contains(list, v)
  BY <1>1 DEF Without
<1>2. CASE Contains(list, v)
  <2> DEFINE p == Position(list, v)
             n == Len(list)
             w == Without(list, v)
  <2>1. /\ p \in 1 .. n /\ list[p] = v /\ n \in Nat
        /\ \A i \in 1 .. n - 1 : w[i] = IF i < p THEN list[i] ELSE list[i + 1]
    BY <1>2, WithoutNodes
  <2>2. /\ DOMAIN list = 1 .. n /\ DOMAIN w = 1 .. n - 1
        /\ Len(list) = n /\ Len(w) = n - 1
    BY <1>2, WithoutNodes, LenProperties
  <2>3. \A i, j \in 1 .. n : list[i] = list[j] => i = j
    BY <2>2 DEF Once
  <2> HIDE DEF p, n, w
  <2>4. Once(w)
    <3> SUFFICES ASSUME NEW i \in 1 .. n - 1, NEW j \in 1 .. n - 1, w[i] = w[j] PROVE i = j
      BY <2>2 DEF Once
    <3>1. w[i] = (IF i < p THEN list[i] ELSE list[i + 1]) /\ w[j] = (IF j < p THEN list[j] ELSE list[j + 1])
      BY <2>1
    <3>2. i \in 1 .. n /\ j \in 1 .. n /\ i + 1 \in 1 .. n /\ j + 1 \in 1 .. n
      BY <2>1
    <3>3. i < p /\ j < p => i = j
      BY <3>1, <3>2, <2>3
    <3>4. ~(i < p) /\ ~(j < p) => i = j
      <4>1. i + 1 = j + 1 => i = j
        BY <2>1
      <4> QED
        BY <4>1, <3>1, <3>2, <2>3
    <3>5. ~(i < p /\ ~(j < p)) /\ ~(~(i < p) /\ j < p)
      <4>1. i < p /\ ~(j < p) => i # j + 1
        BY <2>1
      <4>2. ~(i < p) /\ j < p => i + 1 # j
        BY <2>1
      <4> QED
        BY <4>1, <4>2, <3>1, <3>2, <2>3
    <3> QED
      BY <3>3, <3>4, <3>5
  <2>5. ASSUME NEW u, Contains(w, u) PROVE Contains(list, u) /\ u # v
    <3>1. PICK i \in 1 .. n - 1 : w[i] = u
      BY <2>5, <2>2 DEF Contains
    <3>2. i \in 1 .. n /\ i + 1 \in 1 .. n /\ w[i] = IF i < p THEN list[i] ELSE list[i + 1]
      BY <2>1
    <3>3. PICK j \in 1 .. n : j # p /\ list[j] = u
      BY <3>1, <3>2, <2>1
    <3>4. u # v
      BY <3>3, <2>1, <2>3
    <3> QED
      BY <3>3, <3>4, <2>2 DEF Contains
  <2>6. ASSUME NEW u, Contains(list, u), u # v PROVE Contains(w, u)
    <3>1. PICK j \in 1 .. n : list[j] = u
      BY <2>6, <2>2 DEF Contains
    <3>2. j # p
      BY <3>1, <2>6, <2>1
    <3>3. CASE j < p
      <4>1. j \in 1 .. n - 1
        BY <3>3, <2>1
      <4>2. w[j] = u
        BY <4>1, <3>1, <3>3, <2>1
      <4> QED
        BY <4>1, <4>2, <2>2 DEF Contains
    <3>4. CASE ~(j < p)
      <4>1. j - 1 \in 1 .. n - 1 /\ ~(j - 1 < p) /\ (j - 1) + 1 = j
        BY <3>2, <3>4, <2>1
      <4>2. w[j - 1] = u
        BY <4>1, <3>1, <2>1
      <4> QED
        BY <4>1, <4>2, <2>2 DEF Contains
    <3> QED
      BY <3>3, <3>4
  <2> QED
    BY <2>4, <2>5, <2>6 DEF w
<1> QED
  BY <1>1, <1>2

LEMMA AppendHas ==
  ASSUME NEW list \in Seq(Ids), NEW v \in Ids
  PROVE  /\ \A u : Contains(Append(list, v), u) <=> Contains(list, u) \/ u = v
         /\ Once(list) /\ ~Contains(list, v) => Once(Append(list, v))
<1> DEFINE n == Len(list)
           a == Append(list, v)
<1>1. /\ n \in Nat /\ DOMAIN list = 1 .. n /\ DOMAIN a = 1 .. n + 1 /\ a # <<>>
      /\ \A i \in 1 .. n : a[i] = list[i]
      /\ a[n + 1] = v
  BY LenProperties, AppendProperties
<1>2. list = <<>> <=> n = 0
  BY EmptySeq
<1>8. Len(list) = n /\ Len(a) = n + 1
  BY AppendProperties
<1> HIDE DEF n, a
<1>3. ASSUME NEW u, Contains(a, u) PROVE Contains(list, u) \/ u = v
  <2>1. PICK i \in 1 .. n + 1 : a[i] = u
    BY <1>3, <1>1, <1>8 DEF Contains
  <2>2. CASE i = n + 1
    BY <2>1, <2>2, <1>1
  <2>3. CASE i # n + 1
    <3>1. i \in 1 .. n
      BY <2>3, <1>1
    <3> QED
      BY <3>1, <2>1, <1>1, <1>8 DEF Contains
  <2> QED
    BY <2>2, <2>3
<1>4. ASSUME NEW u, Contains(list, u) PROVE Contains(a, u)
  <2>1. PICK i \in 1 .. n : list[i] = u
    BY <1>4, <1>1, <1>8 DEF Contains
  <2>2. i \in 1 .. n + 1 /\ a[i] = u
    BY <2>1, <1>1
  <2> QED
    BY <2>2, <1>1, <1>8 DEF Contains
<1>5. Contains(a, v)
  <2>1. n + 1 \in 1 .. n + 1
    BY <1>1
  <2> QED
    BY <2>1, <1>1, <1>8 DEF Contains
<1>6. ASSUME Once(list), ~Contains(list, v) PROVE Once(a)
  <2>1. (\A i, j \in 1 .. n : list[i] = list[j] => i = j) /\ (\A i \in 1 .. n : list[i] # v)
    BY <1>6, <1>1, <1>8 DEF Once, Contains
  <2> SUFFICES ASSUME NEW i \in 1 .. n + 1, NEW j \in 1 .. n + 1, a[i] = a[j] PROVE i = j
    BY <1>1 DEF Once
  <2>2. i \in 1 .. n \/ i = n + 1
    BY <1>1
  <2>3. j \in 1 .. n \/ j = n + 1
    BY <1>1
  <2> QED
    BY <2>1, <2>2, <2>3, <1>1
<1> QED
  BY <1>3, <1>4, <1>5, <1>6 DEF a

LEMMA PrependHas ==
  ASSUME NEW list \in Seq(Ids), NEW v \in Ids
  PROVE  /\ <<v>> \o list \in Seq(Ids)
         /\ \A u : Contains(<<v>> \o list, u) <=> Contains(list, u) \/ u = v
         /\ Once(list) /\ ~Contains(list, v) => Once(<<v>> \o list)
<1> DEFINE n == Len(list)
           a == <<v>> \o list
<1>1. n \in Nat /\ DOMAIN list = 1 .. n
  BY LenProperties
<1>2. <<v>> \in Seq(Ids) /\ Len(<<v>>) = 1 /\ <<v>>[1] = v
  BY OneElement
<1>3. /\ a \in Seq(Ids) /\ Len(a) = 1 + n
      /\ \A i \in 1 .. 1 + n : a[i] = IF i <= 1 THEN <<v>>[i] ELSE list[i - 1]
  BY <1>2, ConcatProperties
<1>4. DOMAIN a = 1 .. n + 1 /\ a # <<>>
  <2>1. DOMAIN a = 1 .. Len(a)
    BY <1>3, LenProperties
  <2>2. Len(<<>>) = 0
    BY EmptySeq
  <2> HIDE DEF a
  <2> QED
    BY <2>1, <2>2, <1>1, <1>3
<1>12. Len(list) = n /\ Len(a) = n + 1
  BY <1>1, <1>3
<1> HIDE DEF n, a
<1>5. a[1] = v
  <2>1. 1 \in 1 .. 1 + n
    BY <1>1
  <2> QED
    BY <2>1, <1>2, <1>3
<1>6. \A i \in 1 .. n : a[i + 1] = list[i]
  <2> TAKE i \in 1 .. n
  <2>1. i + 1 \in 1 .. 1 + n /\ ~(i + 1 <= 1) /\ (i + 1) - 1 = i
    BY <1>1
  <2> QED
    BY <2>1, <1>3
<1>7. \A j \in 1 .. n + 1 : j = 1 \/ \E i \in 1 .. n : j = i + 1
  <2> TAKE j \in 1 .. n + 1
  <2>1. j = 1 \/ (j - 1 \in 1 .. n /\ j = (j - 1) + 1)
    BY <1>1
  <2> QED
    BY <2>1
<1>8. ASSUME NEW u, Contains(a, u) PROVE Contains(list, u) \/ u = v
  <2>1. PICK j \in 1 .. n + 1 : a[j] = u
    BY <1>8, <1>4, <1>12 DEF Contains
  <2>2. CASE j = 1
    BY <2>1, <2>2, <1>5
  <2>3. ASSUME NEW i \in 1 .. n, j = i + 1 PROVE Contains(list, u)
    BY <2>1, <2>3, <1>1, <1>6, <1>12 DEF Contains
  <2> QED
    BY <2>2, <2>3, <1>7
<1>9. ASSUME NEW u, Contains(list, u) PROVE Contains(a, u)
  <2>1. PICK i \in 1 .. n : list[i] = u
    BY <1>9, <1>1, <1>12 DEF Contains
  <2>2. i + 1 \in 1 .. n + 1 /\ a[i + 1] = u
    BY <2>1, <1>1, <1>6
  <2> QED
    BY <2>2, <1>4, <1>12 DEF Contains
<1>10. Contains(a, v)
  <2>1. 1 \in 1 .. n + 1
    BY <1>1
  <2> QED
    BY <2>1, <1>4, <1>5, <1>12 DEF Contains
<1>11. ASSUME Once(list), ~Contains(list, v) PROVE Once(a)
  <2>1. (\A i, j \in 1 .. n : list[i] = list[j] => i = j) /\ (\A i \in 1 .. n : list[i] # v)
    BY <1>11, <1>1, <1>12 DEF Once, Contains
  <2> SUFFICES ASSUME NEW i \in 1 .. n + 1, NEW j \in 1 .. n + 1, a[i] = a[j] PROVE i = j
    BY <1>4 DEF Once
  <2>2. i = 1 \/ \E k \in 1 .. n : i = k + 1
    BY <1>7
  <2>3. j = 1 \/ \E k \in 1 .. n : j = k + 1
    BY <1>7
  <2> QED
    BY <2>1, <2>2, <2>3, <1>5, <1>6
<1> QED
  BY <1>3, <1>8, <1>9, <1>10, <1>11 DEF a

\* The empty list holds nobody.
LEMMA HasNone ==
  /\ \A v : ~Contains(<<>>, v)
  /\ Once(<<>>)
<1>1. DOMAIN <<>> = {}
  OBVIOUS
<1> QED
  BY <1>1 DEF Contains, Once

-----------------------------------------------------------------------------
LEMMA ElementsOf ==
  ASSUME NEW s \in Seq(Frame)
  PROVE  /\ Elements(s) = {s[i] : i \in 1 .. Len(s)}
         /\ Elements(s) \subseteq Frame
<1>1. DOMAIN s = 1 .. Len(s)
  BY LenProperties
<1>2. \A i \in 1 .. Len(s) : s[i] \in Frame
  BY ElementOfSeq
<1> QED
  BY <1>1, <1>2 DEF Elements

\* The innermost call and those it returns to.
LEMMA Innermost ==
  ASSUME NEW s \in Seq(Frame), s # <<>>
  PROVE  /\ Tail(s) \in Seq(Frame) /\ Head(s) \in Frame
         /\ Elements(s) = {Head(s)} \cup Elements(Tail(s))
         /\ Head(s) = s[1] /\ Len(s) \in Nat \ {0} /\ Len(Tail(s)) = Len(s) - 1
         /\ \A i \in 1 .. Len(Tail(s)) : Tail(s)[i] = s[i + 1]
<1> DEFINE t == Tail(s)
           n == Len(s)
<1>1. t \in Seq(Frame) /\ Len(t) = n - 1 /\ (\A i \in 1 .. Len(t) : t[i] = s[i + 1]) /\ Head(s) \in Frame
  BY HeadTailProperties
<1>2. n \in Nat \ {0}
  BY EmptySeq
<1>3. Head(s) = s[1]
  OBVIOUS
<1>4. Elements(s) = {s[i] : i \in 1 .. n} /\ Elements(t) = {t[i] : i \in 1 .. Len(t)}
  BY <1>1, ElementsOf
<1> HIDE DEF t, n
<1>5. \A i \in 1 .. n : i = 1 \/ \E j \in 1 .. n - 1 : i = j + 1
  <2> TAKE i \in 1 .. n
  <2>1. i = 1 \/ (i - 1 \in 1 .. n - 1 /\ i = (i - 1) + 1)
    BY <1>2
  <2> QED
    BY <2>1
<1>6. Elements(s) \subseteq {s[1]} \cup Elements(t)
  <2> SUFFICES ASSUME NEW i \in 1 .. n, i # 1 PROVE s[i] \in Elements(t)
    BY <1>4
  <2>1. PICK j \in 1 .. n - 1 : i = j + 1
    BY <1>5
  <2>2. j \in 1 .. Len(t) /\ t[j] = s[i]
    BY <2>1, <1>1
  <2> QED
    BY <2>2, <1>4
<1>7. Elements(t) \subseteq Elements(s)
  <2> SUFFICES ASSUME NEW j \in 1 .. Len(t) PROVE t[j] \in Elements(s)
    BY <1>4
  <2>1. j + 1 \in 1 .. n /\ t[j] = s[j + 1]
    BY <1>1, <1>2
  <2> QED
    BY <2>1, <1>4
<1>8. s[1] \in Elements(s)
  <2>1. 1 \in 1 .. n
    BY <1>2
  <2> QED
    BY <2>1, <1>4
<1> QED
  BY <1>1, <1>2, <1>3, <1>6, <1>7, <1>8 DEF t, n

LEMMA Pushed ==
  ASSUME NEW f \in Frame, NEW t \in Seq(Frame)
  PROVE  /\ <<f>> \o t \in Seq(Frame) /\ <<f>> \o t # <<>>
         /\ Head(<<f>> \o t) = f /\ Tail(<<f>> \o t) = t
         /\ Elements(<<f>> \o t) = {f} \cup Elements(t)
         /\ Len(<<f>> \o t) = Len(t) + 1 /\ Len(t) \in Nat
         /\ (<<f>> \o t)[1] = f
         /\ \A i \in 1 .. Len(t) : (<<f>> \o t)[i + 1] = t[i]
<1> DEFINE s == <<f>> \o t
           n == Len(t)
<1>1. <<f>> \in Seq(Frame) /\ Len(<<f>>) = 1 /\ <<f>>[1] = f /\ n \in Nat
  BY OneElement, LenProperties
<1>2. /\ s \in Seq(Frame) /\ Len(s) = 1 + n
      /\ \A i \in 1 .. 1 + n : s[i] = IF i <= 1 THEN <<f>>[i] ELSE t[i - 1]
  BY <1>1, ConcatProperties
<1>3. Len(<<>>) = 0
  BY EmptySeq
<1> HIDE DEF s, n
<1>4. s # <<>>
  BY <1>1, <1>2, <1>3
<1>5. s[1] = f
  <2>1. 1 \in 1 .. 1 + n
    BY <1>1
  <2> QED
    BY <2>1, <1>1, <1>2
<1>6. \A i \in 1 .. n : s[i + 1] = t[i]
  <2> TAKE i \in 1 .. n
  <2>1. i + 1 \in 1 .. 1 + n /\ ~(i + 1 <= 1) /\ (i + 1) - 1 = i
    BY <1>1
  <2> QED
    BY <2>1, <1>2
<1>7. /\ Tail(s) \in Seq(Frame) /\ Elements(s) = {Head(s)} \cup Elements(Tail(s))
      /\ Head(s) = s[1] /\ Len(Tail(s)) = Len(s) - 1
      /\ \A i \in 1 .. Len(Tail(s)) : Tail(s)[i] = s[i + 1]
  BY <1>2, <1>4, Innermost
<1>8. Len(Tail(s)) = n
  BY <1>1, <1>2, <1>7
<1>9. Tail(s) = t
  <2>1. \A i \in 1 .. Len(Tail(s)) : Tail(s)[i] = t[i]
    BY <1>6, <1>7, <1>8
  <2> QED
    BY <2>1, <1>7, <1>8, SeqEqual DEF n
<1>10. Elements(s) = {f} \cup Elements(t) /\ Head(s) = f
  BY <1>5, <1>7, <1>9
<1>11. Len(s) = n + 1
  BY <1>1, <1>2
<1> QED
  BY <1>1, <1>2, <1>4, <1>5, <1>6, <1>9, <1>10, <1>11 DEF s, n

\* The forms of what a call leaves behind.
LEMMA TwoFrames ==
  ASSUME NEW t \in Seq(Frame), NEW a \in Frame, NEW b \in Frame
  PROVE  /\ <<>> \o t = t /\ <<>> \o <<b>> = <<b>>
         /\ <<a, b>> = <<a>> \o <<b>> /\ <<a>> \o <<b>> \in Seq(Frame)
         /\ <<a, b>> \o t = <<a>> \o (<<b>> \o t)
         /\ (<<a>> \o <<b>>) \o t = <<a>> \o (<<b>> \o t)
<1>1. <<a>> \in Seq(Frame) /\ <<b>> \in Seq(Frame)
  BY OneElement
<1>2. <<>> \o t = t /\ <<>> \o <<b>> = <<b>>
  BY <1>1, ConcatEmptySeq
<1>3. (<<a>> \o <<b>>) \o t = <<a>> \o (<<b>> \o t)
  BY <1>1, ConcatAssociative
<1>4. <<a, b>> = <<a>> \o <<b>>
  <2>1. <<a, b>> = Append(<<a>>, b)
    OBVIOUS
  <2>2. Append(<<a>>, b) = <<a>> \o <<b>>
    BY <1>1, AppendIsConcat
  <2> QED
    BY <2>1, <2>2
<1>5. <<a>> \o <<b>> \in Seq(Frame)
  BY <1>1, ConcatProperties
<1> QED
  BY <1>2, <1>3, <1>4, <1>5

LEMMA PushNested ==
  ASSUME NEW f \in Frame, NEW t \in Seq(Frame), Nested(t), \A g \in Elements(t) : Over(f, g)
  PROVE  Nested(<<f>> \o t)
<1> DEFINE s == <<f>> \o t
           n == Len(t)
<1>1. /\ s \in Seq(Frame) /\ Len(s) = n + 1 /\ n \in Nat /\ s[1] = f
      /\ \A i \in 1 .. n : s[i + 1] = t[i]
  BY Pushed
<1>2. DOMAIN s = 1 .. n + 1 /\ DOMAIN t = 1 .. n
  BY <1>1, LenProperties
<1>3. \A i \in 1 .. n : t[i] \in Elements(t)
  BY <1>2 DEF Elements
<1> HIDE DEF s, n
<1> SUFFICES ASSUME NEW i \in 1 .. n + 1, NEW j \in 1 .. n + 1, i < j
             PROVE  Over(s[i], s[j])
  BY <1>2 DEF Nested, s
<1>4. j - 1 \in 1 .. n /\ (j - 1) + 1 = j
  BY <1>1
<1>5. s[j] = t[j - 1] /\ t[j - 1] \in Elements(t)
  BY <1>1, <1>3, <1>4
<1>6. CASE i = 1
  BY <1>1, <1>5, <1>6, Zenon
<1>7. CASE i # 1
  <2>1. i - 1 \in 1 .. n /\ (i - 1) + 1 = i /\ i - 1 < j - 1
    BY <1>1, <1>7
  <2>2. s[i] = t[i - 1]
    BY <2>1, <1>1
  <2>3. Over(t[i - 1], t[j - 1])
    BY <2>1, <1>2, <1>4 DEF Nested
  <2> QED
    BY <2>2, <2>3, <1>5
<1> QED
  BY <1>6, <1>7

LEMMA NestedTail ==
  ASSUME NEW s \in Seq(Frame), s # <<>>, Nested(s)
  PROVE  Nested(Tail(s)) /\ \A g \in Elements(Tail(s)) : Over(Head(s), g)
<1> DEFINE r == Tail(s)
           n == Len(s)
<1>1. /\ r \in Seq(Frame) /\ Head(s) = s[1] /\ n \in Nat \ {0} /\ Len(r) = n - 1
      /\ \A i \in 1 .. Len(r) : r[i] = s[i + 1]
  BY Innermost
<1>2. DOMAIN s = 1 .. n /\ DOMAIN r = 1 .. n - 1 /\ Elements(r) = {r[i] : i \in 1 .. Len(r)}
  BY <1>1, LenProperties, ElementsOf
<1> HIDE DEF r, n
<1>3. \A i, j \in 1 .. n : i < j => Over(s[i], s[j])
  BY <1>2 DEF Nested
<1>4. Nested(r)
  <2> SUFFICES ASSUME NEW i \in 1 .. n - 1, NEW j \in 1 .. n - 1, i < j
               PROVE  Over(r[i], r[j])
    BY <1>2 DEF Nested
  <2>1. i + 1 \in 1 .. n /\ j + 1 \in 1 .. n /\ i + 1 < j + 1
    BY <1>1
  <2>2. r[i] = s[i + 1] /\ r[j] = s[j + 1]
    BY <1>1
  <2> QED
    BY <2>1, <2>2, <1>3
<1>5. \A g \in Elements(r) : Over(s[1], g)
  <2> SUFFICES ASSUME NEW j \in 1 .. n - 1 PROVE Over(s[1], r[j])
    BY <1>1, <1>2
  <2>1. 1 \in 1 .. n /\ j + 1 \in 1 .. n /\ 1 < j + 1
    BY <1>1
  <2>2. r[j] = s[j + 1]
    BY <1>1
  <2> QED
    BY <2>1, <2>2, <1>3
<1> QED
  BY <1>1, <1>4, <1>5 DEF r

LEMMA NoCalls == Elements(<<>>) = {} /\ Nested(<<>>) /\ <<>> \in Seq(Frame)
<1>1. DOMAIN <<>> = {}
  OBVIOUS
<1> QED
  BY <1>1 DEF Elements, Nested

LEMMA Returns ==
  ASSUME NEW t, Leaves(t, Elements(t))
  PROVE  Leaves(<<>> \o t, Elements(t)) /\ <<>> \o t = t
<1>1. <<>> \o t = t
  BY ConcatEmptySeq DEF Leaves
<1> QED
  BY <1>1

LEMMA GoesOn ==
  ASSUME NEW t, NEW S, Leaves(t, S), NEW a \in Frame, \A g \in S : Over(a, g)
  PROVE  Leaves(<<a>> \o t, {a} \cup S) /\ <<a>> \o t # <<>> /\ Head(<<a>> \o t) = a
<1>1. t \in Seq(Frame) /\ Nested(t) /\ Elements(t) = S
  BY DEF Leaves
<1>2. /\ <<a>> \o t \in Seq(Frame) /\ <<a>> \o t # <<>> /\ Head(<<a>> \o t) = a
      /\ Elements(<<a>> \o t) = {a} \cup S
  BY <1>1, Pushed
<1>3. Nested(<<a>> \o t)
  BY <1>1, PushNested
<1> QED
  BY <1>2, <1>3 DEF Leaves

LEMMA GoesOnTwice ==
  ASSUME NEW t, NEW S, Leaves(t, S), NEW a \in Frame, NEW b \in Frame,
         \A g \in S : Over(a, g) /\ Over(b, g), Over(a, b)
  PROVE  /\ Leaves(<<a, b>> \o t, {a, b} \cup S) /\ <<a, b>> \o t # <<>>
         /\ Head(<<a, b>> \o t) = a
         /\ <<a>> \o <<b>> = <<a, b>> /\ <<>> \o <<b>> = <<b>> /\ <<a>> \o <<>> = <<a>>
<1>1. Leaves(<<b>> \o t, {b} \cup S)
  BY GoesOn
<1>2. /\ Leaves(<<a>> \o (<<b>> \o t), {a} \cup ({b} \cup S)) /\ <<a>> \o (<<b>> \o t) # <<>>
      /\ Head(<<a>> \o (<<b>> \o t)) = a
  BY <1>1, GoesOn
<1>3. <<a, b>> \o t = <<a>> \o (<<b>> \o t) /\ <<a>> \o <<b>> = <<a, b>> /\ <<>> \o <<b>> = <<b>>
  <2>1. t \in Seq(Frame)
    BY DEF Leaves
  <2>2. <<a, b>> \o t = <<a>> \o (<<b>> \o t)
    BY <2>1, TwoFrames, Zenon
  <2>3. <<a>> \o <<b>> = <<a, b>>
    <3>1. <<a>> \in Seq(Frame) /\ <<a, b>> = Append(<<a>>, b)
      BY OneElement
    <3> QED
      BY <3>1, AppendIsConcat
  <2>4. <<>> \o <<b>> = <<b>>
    BY <2>1, TwoFrames
  <2> QED
    BY <2>2, <2>3, <2>4
<1>4. <<a>> \o <<>> = <<a>>
  BY OneElement, ConcatEmptySeq
<1>5. {a} \cup ({b} \cup S) = {a, b} \cup S
  OBVIOUS
<1> QED
  BY <1>2, <1>3, <1>4, <1>5

LEMMA GoesOnThrice ==
  ASSUME NEW t, NEW S, Leaves(t, S), NEW a \in Frame, NEW b \in Frame, NEW c \in Frame,
         \A g \in S : Over(a, g) /\ Over(b, g) /\ Over(c, g),
         Over(a, b), Over(a, c), Over(b, c)
  PROVE  /\ Leaves((<<a>> \o <<b, c>>) \o t, {a, b, c} \cup S) /\ (<<a>> \o <<b, c>>) \o t # <<>>
         /\ Head((<<a>> \o <<b, c>>) \o t) = a
<1>1. Leaves(<<b, c>> \o t, {b, c} \cup S)
  BY GoesOnTwice
<1>2. /\ Leaves(<<a>> \o (<<b, c>> \o t), {a} \cup ({b, c} \cup S))
      /\ <<a>> \o (<<b, c>> \o t) # <<>> /\ Head(<<a>> \o (<<b, c>> \o t)) = a
  BY <1>1, GoesOn
<1>3. (<<a>> \o <<b, c>>) \o t = <<a>> \o (<<b, c>> \o t)
  <2>1. t \in Seq(Frame) /\ <<a>> \in Seq(Frame)
    BY OneElement DEF Leaves
  <2>2. <<b>> \o <<c>> \in Seq(Frame)
    BY <2>1, TwoFrames
  <2>3. <<b, c>> = <<b>> \o <<c>>
    <3>1. <<b>> \in Seq(Frame) /\ <<b, c>> = Append(<<b>>, c)
      BY OneElement
    <3> QED
      BY <3>1, AppendIsConcat
  <2>4. <<b, c>> \in Seq(Frame)
    BY <2>2, <2>3
  <2> QED
    BY <2>1, <2>4, ConcatAssociative
<1>4. {a} \cup ({b, c} \cup S) = {a, b, c} \cup S
  OBVIOUS
<1> QED
  BY <1>2, <1>3, <1>4

-----------------------------------------------------------------------------
(***************************************************************************)
(* What holds while a function runs.                                       *)
(***************************************************************************)
LEMMA IdsNat ==
  /\ Ids \subseteq Nat \ {0} /\ NoId \notin Ids /\ NoId = 0 /\ Screen = 0
  /\ Unflip \notin Ids /\ Unflip # NoId
  BY PresentAssumption DEF Ids, NoId, Screen, Unflip

LEMMA FrameTyped ==
  ASSUME NEW f \in Frame
  PROVE  /\ f.fn \in VblankFns => f.of \in Ids
         /\ f.fn \in WindowFns => f.of \in Windows
         /\ f.fn \in HoldFns \cup {"notify", "execute", "flip", "trigger"} => f.of \in Ids
  BY DEF Frame, VblankFns, WindowFns, OtherFns, HoldFns, OwnerFns

LEMMA CallTyped ==
  /\ \A fn, of : Call(fn, of).fn = fn /\ Call(fn, of).of = of
  /\ \A fn \in VblankFns, r \in Ids : Call(fn, r) \in Frame
  /\ \A fn \in WindowFns, w \in Windows : Call(fn, w) \in Frame
  /\ \A fn \in OtherFns : Call(fn, NoId) \in Frame
  BY DEF Call, Frame

\* The call that runs, and those it returns to.
LEMMA Runs ==
  ASSUME Inv, stack # <<>>
  PROVE  /\ Top \in Frame /\ Rest \in Seq(Frame) /\ Leaves(Rest, Elements(Rest))
         /\ Elements(stack) = {Top} \cup Elements(Rest) /\ Elements(Rest) \subseteq Frame
         /\ Sound(Top) /\ \A g \in Elements(Rest) : Sound(g) /\ Over(Top, g)
<1>1. stack \in Seq(Frame) /\ Nested(stack) /\ \A f \in Elements(stack) : Sound(f)
  BY DEF Inv, TypeOK, Calling
<1>2. /\ Rest \in Seq(Frame) /\ Top \in Frame /\ Elements(stack) = {Top} \cup Elements(Rest)
  BY <1>1, Innermost DEF Top, Rest
<1>3. Nested(Rest) /\ \A g \in Elements(Rest) : Over(Top, g)
  BY <1>1, NestedTail DEF Top, Rest
<1>4. Elements(Rest) \subseteq Frame
  BY <1>2, ElementsOf
<1> QED
  BY <1>1, <1>2, <1>3, <1>4 DEF Leaves

LEMMA RunsFn ==
  ASSUME Inv, NEW fn, Running(fn)
  PROVE  /\ stack # <<>> /\ Top.fn = fn
         /\ fn \in HoldFns \cup {"notify", "execute", "flip", "trigger"} => Top.of \in Ids
         /\ fn \in WindowFns => Top.of \in Windows
<1>1. stack # <<>> /\ Top.fn = fn
  BY DEF Running
<1>2. Top \in Frame
  BY <1>1, Runs
<1> QED
  BY <1>1, <1>2, FrameTyped

\* Nothing that may be returned to is about to put a flip to the driver.
LEMMA NotRunning ==
  ASSUME NEW s, NEW S, Leaves(s, S), NEW fn, \A f \in S : f.fn # fn
  PROVE  ~(s # <<>> /\ Head(s).fn = fn)
<1> SUFFICES ASSUME s # <<>> PROVE Head(s) \in S
  OBVIOUS
<1>1. s \in Seq(Frame) /\ Elements(s) = S
  BY DEF Leaves
<1> QED
  BY <1>1, Innermost

-----------------------------------------------------------------------------
(***************************************************************************)
(* What a step leaves alone.                                               *)
(***************************************************************************)
LEMMA StaysPlaced ==
  ASSUME NEW q \in Ids, Placed(q), Stays(q)
  PROVE  Placed(q)'
<1>1. Same(q)
  BY DEF Stays
<1>2. Live(q)' <=> Live(q)
  BY <1>1 DEF Same, Live
<1>3. vb[q].queued = TRUE => Waiting(q)'
  <2> SUFFICES ASSUME vb[q].queued = TRUE PROVE Waiting(q)'
    OBVIOUS
  <2>1. Waiting(q)
    BY DEF Placed
  <2> QED
    BY <1>1, <1>2, <2>1 DEF Stays, Same, Waiting
<1>4. q = flip_pending => WithDriver(q)'
  <2> SUFFICES ASSUME q = flip_pending PROVE WithDriver(q)'
    OBVIOUS
  <2>1. WithDriver(q)
    BY DEF Placed
  <2>2. vb'[q].flip = TRUE /\ vb'[q].queued = FALSE /\ vb'[q].pixmap = TRUE
    BY <1>1, <2>1 DEF Same, WithDriver
  <2> QED
    BY <1>2, <2>1, <2>2 DEF Stays, WithDriver
<1> QED
  BY <1>1, <1>2, <1>3, <1>4 DEF Stays, Same, Placed

\* The lists, when requests other than those of M stay.
LEMMA ListsKept ==
  ASSUME Lists, NEW M, \A q \in Ids : q \notin M => Stays(q), \A q \in M : Placed(q)',
         Once(exec_queue)', Once(flip_queue)', \A w \in Windows : Once(window_list[w])'
  PROVE  Lists'
<1>1. \A q \in Ids : Placed(q)'
  BY StaysPlaced DEF Lists
<1> QED
  BY <1>1 DEF Lists

\* The calls that are returned to.
LEMMA SoundBelow ==
  ASSUME NEW g \in Frame, Sound(g), g.fn \notin TopFns,
         g.fn \in HoldFns \cup {"trigger"} => Same(g.of) /\ (g.of = flip_pending' => g.of = flip_pending)
  PROVE  Sound(g)'
<1>1. CASE g.fn \notin HoldFns \cup {"trigger"}
  BY <1>1 DEF Sound, TopFns, HoldFns, OwnerFns
<1>2. CASE g.fn \in HoldFns \cup {"trigger"}
  <2>1. Same(g.of) /\ (g.of = flip_pending' => g.of = flip_pending)
    BY <1>2
  <2>2. Live(g.of) => Live(g.of)'
    BY <2>1 DEF Same, Live
  <2> QED
    BY <1>2, <2>1, <2>2 DEF Sound, Same, TopFns, HoldFns, OwnerFns
<1> QED
  BY <1>1, <1>2

\* The windows, when no flip begins or ends.
LEMMA DrawnKept ==
  ASSUME Drawn, UNCHANGED <<flip_pending, flip_pixmap, flip_window, unflip, winpix>>,
         Accepted' <=> Accepted,
         Accepted => vb'[flip_pending].window = vb[flip_pending].window
                     /\ vb'[flip_pending].abort = vb[flip_pending].abort
  PROVE  Drawn'
<1>1. Shown' = Shown /\ ShownIn' = ShownIn /\ (Ending' <=> Ending)
  BY DEF Shown, ShownIn, Ending
<1> QED
  BY <1>1 DEF Drawn, Drawable

LEMMA FlippingKept ==
  ASSUME Flipping, UNCHANGED <<flip_pending, flip_pixmap, flip_window, unflip>>,
         Unflip \in flips' => Unflip \in flips, fences \subseteq fences',
         flip_pending # NoId => vb'[flip_pending].fence = vb[flip_pending].fence
  PROVE  Flipping'
  BY DEF Flipping, Waits

-----------------------------------------------------------------------------
(***************************************************************************)
(* Types.                                                                  *)
(***************************************************************************)
LEMMA FieldTypes ==
  ASSUME TypeOK, NEW r \in Ids
  PROVE  /\ vb[r] \in Vblank /\ vb[r].queued \in BOOLEAN /\ vb[r].flip \in BOOLEAN
         /\ vb[r].sync \in BOOLEAN /\ vb[r].abort \in BOOLEAN /\ vb[r].pixmap \in BOOLEAN
         /\ vb[r].fence \in BOOLEAN /\ vb[r].callback \in BOOLEAN
         /\ vb[r].flip_ready \in BOOLEAN
         /\ vb[r].st \in {"new", "live", "freed"}
         /\ vb[r].window \in Windows \cup {NoWin} /\ vb[r].asked \in Windows \cup {NoWin}
         /\ vb[r].target \in -1 .. MaxAhead /\ vb[r].early \in 0 .. 2
         /\ vb[r].reason \in {"other", "tearfree", "tearfree_flipping"}
         /\ vb[r].done \in Nat /\ vb[r].idled \in Nat
<1>1. vb[r] \in Vblank
  BY DEF TypeOK
<1> QED
  BY <1>1 DEF Vblank

LEMMA BlankTyped == Blank \in Vblank /\ MaxAhead \in Nat \ {0}
  BY PresentAssumption DEF Blank, Vblank

LEMMA ZeroEarly ==
  ASSUME NEW v \in Vblank
  PROVE  [v EXCEPT !.flip = FALSE, !.early = 0] \in Vblank
<1>1. 0 \in 0 .. 2 /\ FALSE \in BOOLEAN
  OBVIOUS
<1> QED
  BY <1>1 DEF Vblank

LEMMA FreedTyped ==
  ASSUME NEW v \in Vblank
  PROVE  /\ Freed(v) \in Vblank /\ Freed(v).st = "freed" /\ Freed(v).queued = FALSE
         /\ Freed(v).window = NoWin /\ Freed(v).abort = FALSE /\ Freed(v).pixmap = FALSE
         /\ Freed(v).flip = FALSE /\ Freed(v).flip_ready = FALSE /\ Freed(v).callback = FALSE
         /\ Freed(v).asked = v.asked /\ Freed(v).done = v.done /\ Freed(v).idled = v.idled
         /\ Freed(v).target = -1 /\ Freed(v).early = 0 /\ Freed(v).reason = "other"
         /\ Freed(v).sync = FALSE /\ Freed(v).fence = FALSE
<1>1. v.asked \in Windows \cup {NoWin} /\ v.done \in Nat /\ v.idled \in Nat
  BY DEF Vblank
<1> QED
  BY <1>1, BlankTyped DEF Freed, Blank, Vblank

LEMMA CompletedTyped ==
  ASSUME NEW v \in Vblank
  PROVE  /\ Completed(v) \in Vblank /\ Completed(v).asked = v.asked /\ Completed(v).idled = v.idled
         /\ Completed(v).done = IF v.window = NoWin THEN v.done ELSE v.done + 1
<1>1. v.done \in Nat
  BY DEF Vblank
<1> QED
  BY <1>1 DEF Completed, Vblank

LEMMA SetTreeTyped ==
  ASSUME NEW pix \in [Windows \cup {Root} -> Ids \cup {Screen}], NEW w, NEW e,
         NEW new \in Ids \cup {Screen}
  PROVE  SetTreePixmap(pix, w, e, new) \in [Windows \cup {Root} -> Ids \cup {Screen}]
  BY DEF SetTreePixmap

LEMMA RestoreTyped ==
  ASSUME TypeOK
  PROVE  RestoreScreenPixmap(winpix) \in [Windows \cup {Root} -> Ids \cup {Screen}]
  BY SetTreeTyped DEF TypeOK, RestoreScreenPixmap

LEMMA IdleFlipTyped ==
  ASSUME TypeOK
  PROVE  IdleFlip(vb) \in [Ids -> Vblank]
<1>1. CASE flip_pixmap = NoId
  BY <1>1 DEF TypeOK, IdleFlip
<1>2. CASE flip_pixmap # NoId
  <2>1. flip_pixmap \in Ids /\ vb \in [Ids -> Vblank]
    BY <1>2 DEF TypeOK
  <2>2. vb[flip_pixmap] \in Vblank /\ vb[flip_pixmap].idled \in Nat
    BY <2>1, FieldTypes
  <2>3. [vb[flip_pixmap] EXCEPT !.idled = @ + 1] \in Vblank
    BY <2>2 DEF Vblank
  <2> QED
    BY <1>2, <2>1, <2>3 DEF IdleFlip
<1> QED
  BY <1>1, <1>2

LEMMA TypeParts == TypeOK <=> Typed /\ stack \in Seq(Frame)
  BY DEF TypeOK, Typed

LEMMA EventTyped ==
  ASSUME Typed, NEW r \in Ids, NEW n \in 0 .. MaxAhead + 2
  PROVE  events \cup {<<r, n>>} \subseteq Ids \X (0 .. MaxAhead + 2)
  BY DEF Typed

USE DEF queues, flip, world, driver
LEMMA TypedRequeue == ASSUME Inv, Requeue PROVE Typed'
<1>1. Top.of \in Ids /\ Typed
  BY RunsFn, TypeParts DEF Requeue, Inv
<1>2. 1 \in 0 .. MaxAhead + 2
  BY BlankTyped
<1>3. events' \subseteq Ids \X (0 .. MaxAhead + 2)
  BY <1>1, <1>2, EventTyped DEF Requeue, QueueVblank
<1> QED
  BY <1>1, <1>3 DEF Typed, Requeue

LEMMA TypedWaitFence == ASSUME Inv, WaitFence PROVE Typed'
<1>1. Top.of \in Ids /\ Typed
  BY RunsFn, TypeParts DEF WaitFence, Inv
<1>2. vb[Top.of] \in Vblank
  BY <1>1 DEF Typed
<1>3. [vb[Top.of] EXCEPT !.callback = TRUE] \in Vblank
  BY <1>2 DEF Vblank
<1>4. vb' \in [Ids -> Vblank]
  BY <1>1, <1>3 DEF WaitFence, Typed
<1> QED
  BY <1>1, <1>4 DEF Typed, WaitFence

LEMMA TypedWaitFlip == ASSUME Inv, WaitFlip PROVE Typed'
<1>1. Top.of \in Ids /\ Typed
  BY RunsFn, TypeParts DEF WaitFlip, Inv
<1>2. vb[Top.of] \in Vblank
  BY <1>1 DEF Typed
<1>3. [vb[Top.of] EXCEPT !.flip_ready = TRUE] \in Vblank
  BY <1>2 DEF Vblank
<1>4. vb' \in [Ids -> Vblank]
  BY <1>1, <1>3 DEF WaitFlip, Typed
<1>5. Without(exec_queue, Top.of) \in Seq(Ids) /\ Without(flip_queue, Top.of) \in Seq(Ids)
  BY <1>1, WithoutTyped DEF Typed
<1>6. exec_queue' \in Seq(Ids) /\ flip_queue' \in Seq(Ids)
  BY <1>1, <1>5, AppendProperties DEF WaitFlip
<1> QED
  BY <1>1, <1>4, <1>6 DEF Typed, WaitFlip

LEMMA TypedExecute == ASSUME Inv, Execute PROVE Typed'
<1>1. Top.of \in Ids /\ Typed
  BY RunsFn, TypeParts DEF Execute, Inv
<1>2. vb[Top.of] \in Vblank
  BY <1>1 DEF Typed
<1>3. [vb[Top.of] EXCEPT !.queued = FALSE] \in Vblank
  BY <1>2 DEF Vblank
<1>4. vb' \in [Ids -> Vblank]
  BY <1>1, <1>3 DEF Execute, Typed
<1>5. Without(exec_queue, Top.of) \in Seq(Ids) /\ Without(flip_queue, Top.of) \in Seq(Ids)
  BY <1>1, WithoutTyped DEF Typed
<1>6. /\ <<Top.of>> \o Without(flip_queue, Top.of) \in Seq(Ids)
      /\ <<>> \o Without(flip_queue, Top.of) \in Seq(Ids)
  BY <1>1, <1>5, PrependHas, ConcatEmptySeq
<1>7. exec_queue' \in Seq(Ids) /\ flip_queue' \in Seq(Ids)
  BY <1>1, <1>5, <1>6 DEF Execute, If
<1>8. window_list' \in [Windows -> Seq(Ids)]
  <2>1. \A w \in Windows : Without(window_list[w], Top.of) \in Seq(Ids)
    BY <1>1, WithoutTyped DEF Typed
  <2> QED
    BY <2>1 DEF Execute
<1>9. flip_pending' \in Ids \cup {NoId}
  BY <1>1 DEF Execute, Typed
<1> QED
  BY <1>1, <1>4, <1>7, <1>8, <1>9 DEF Typed, Execute

LEMMA TypedFlip == ASSUME Inv, FlipSucceeds \/ FlipFails PROVE Typed'
<1>1. Top.of \in Ids /\ Typed
  BY RunsFn, TypeParts DEF FlipSucceeds, FlipFails, Inv
<1>2. CASE FlipSucceeds
  <2>1. FlipPixmaps(Top.of) \in [Windows \cup {Root} -> Ids \cup {Screen}]
    BY <1>1, SetTreeTyped DEF Typed, FlipPixmaps
  <2> QED
    BY <1>1, <1>2, <2>1 DEF Typed, FlipSucceeds
<1>3. CASE FlipFails
  <2>1. vb[Top.of] \in Vblank
    BY <1>1 DEF Typed
  <2>2. [vb[Top.of] EXCEPT !.flip = FALSE, !.early = 0] \in Vblank
    BY <2>1, ZeroEarly
  <2>3. vb' \in [Ids -> Vblank]
    BY <1>1, <1>3, <2>2 DEF FlipFails, Typed
  <2>4. flip_queue' \in Seq(Ids)
    BY <1>1, <1>3, WithoutTyped DEF FlipFails, Typed
  <2> QED
    BY <1>1, <1>3, <2>3, <2>4 DEF Typed, FlipFails
<1> QED
  BY <1>2, <1>3

LEMMA AbortFlipTyped ==
  ASSUME TypeOK, flip_pending # NoId, SetAbortFlip
  PROVE  vb' \in [Ids -> Vblank] /\ winpix' \in [Windows \cup {Root} -> Ids \cup {Screen}]
<1>1. flip_pending \in Ids /\ vb[flip_pending] \in Vblank
  BY DEF TypeOK
<1>2. [vb[flip_pending] EXCEPT !.abort = TRUE] \in Vblank
  BY <1>1 DEF Vblank
<1> QED
  BY <1>1, <1>2, RestoreTyped DEF TypeOK, SetAbortFlip

LEMMA TypedFlipOver == ASSUME Inv, FlipOver PROVE Typed'
<1>1. Typed /\ TypeOK
  BY TypeParts DEF Inv
<1>2. CASE Aborts(vb[Top.of].window)
  BY <1>1, <1>2, AbortFlipTyped DEF Typed, FlipOver, Aborts
<1>3. CASE ~Aborts(vb[Top.of].window)
  BY <1>1, <1>3 DEF Typed, FlipOver
<1> QED
  BY <1>2, <1>3

LEMMA TypedCheckFlipWindow == ASSUME Inv, CheckFlipWindow PROVE Typed'
<1>1. Typed /\ TypeOK
  BY TypeParts DEF Inv
<1>2. CASE flip_pending # NoId /\ SetAbortFlip
  BY <1>1, <1>2, AbortFlipTyped DEF Typed, CheckFlipWindow
<1>3. CASE UNCHANGED <<vb, winpix>>
  BY <1>1, <1>3 DEF Typed, CheckFlipWindow
<1> QED
  BY <1>2, <1>3 DEF CheckFlipWindow, Aborts

\* Back on the queue.
LEMMA BackTyped ==
  ASSUME Typed, NEW r \in Ids, NEW v \in [Ids -> Vblank], BackToQueue(v, r)
  PROVE  /\ vb' \in [Ids -> Vblank] /\ exec_queue' \in Seq(Ids)
         /\ window_list' \in [Windows -> Seq(Ids)]
<1>1. [v[r] EXCEPT !.queued = TRUE] \in Vblank
  <2>1. v[r] \in Vblank
    OBVIOUS
  <2> QED
    BY <2>1 DEF Vblank
<1>2. vb' \in [Ids -> Vblank]
  BY <1>1 DEF BackToQueue
<1>3. exec_queue' \in Seq(Ids)
  BY PrependHas DEF BackToQueue, Typed
<1>4. window_list' \in [Windows -> Seq(Ids)]
  <2>1. \A w \in Windows : Append(window_list[w], r) \in Seq(Ids)
    BY AppendProperties DEF Typed
  <2> QED
    BY <2>1 DEF BackToQueue, Typed
<1> QED
  BY <1>2, <1>3, <1>4

LEMMA TypedCopyLater == ASSUME Inv, CopyLater PROVE Typed'
<1>1. Top.of \in Ids /\ Typed
  BY RunsFn, TypeParts DEF CopyLater, Inv, HoldFns, OwnerFns
<1>2. 1 \in 0 .. MaxAhead + 2
  BY BlankTyped
<1>3. events' \subseteq Ids \X (0 .. MaxAhead + 2)
  BY <1>1, <1>2, EventTyped DEF CopyLater, QueueVblank
<1>4. vb \in [Ids -> Vblank] /\ BackToQueue(vb, Top.of)
  BY <1>1 DEF CopyLater, Typed
<1>5. /\ vb' \in [Ids -> Vblank] /\ exec_queue' \in Seq(Ids)
      /\ window_list' \in [Windows -> Seq(Ids)]
  BY <1>1, <1>4, BackTyped
<1> QED
  BY <1>1, <1>3, <1>5 DEF Typed, CopyLater

LEMMA CopiedTyped ==
  ASSUME Typed, NEW r \in Ids
  PROVE  Copied(r) \in [Ids -> Vblank]
<1>1. vb[r] \in Vblank
  BY DEF Typed
<1>2. vb[r].idled + 1 \in Nat
  BY <1>1 DEF Vblank
<1>3. [vb[r] EXCEPT !.idled = @ + 1] \in Vblank
  BY <1>1, <1>2 DEF Vblank
<1> QED
  BY <1>3 DEF Typed, Copied

LEMMA TypedCopy == ASSUME Inv, Copy PROVE Typed'
<1>1. Top.of \in Ids /\ Typed
  BY RunsFn, TypeParts DEF Copy, Inv, HoldFns, OwnerFns
<1>2. Copied(Top.of) \in [Ids -> Vblank]
  BY <1>1, CopiedTyped
<1> QED
  BY <1>1, <1>2 DEF Typed, Copy

LEMMA TypedCopyTearFree == ASSUME Inv, CopyTearFree PROVE Typed'
<1>1. Top.of \in Ids /\ Typed
  BY RunsFn, TypeParts DEF CopyTearFree, Inv, HoldFns, OwnerFns
<1>2. 1 \in 0 .. MaxAhead + 2 /\ 2 \in 0 .. MaxAhead + 2
  BY BlankTyped
<1>3. events' \subseteq Ids \X (0 .. MaxAhead + 2) /\ fakes' \subseteq Ids
  <2>1. /\ events \cup {<<Top.of, 1>>} \subseteq Ids \X (0 .. MaxAhead + 2)
        /\ events \cup {<<Top.of, 2>>} \subseteq Ids \X (0 .. MaxAhead + 2)
        /\ events \subseteq Ids \X (0 .. MaxAhead + 2) /\ fakes \subseteq Ids
    BY <1>1, <1>2, EventTyped DEF Typed
  <2> QED
    BY <1>1, <2>1, Zenon DEF CopyTearFree, QueueVblank
<1> DEFINE v == [Copied(Top.of) EXCEPT ![Top.of].early = 0]
<1>4. v \in [Ids -> Vblank] /\ BackToQueue(v, Top.of)
  <2>1. Copied(Top.of) \in [Ids -> Vblank]
    BY <1>1, CopiedTyped
  <2>2. [Copied(Top.of)[Top.of] EXCEPT !.early = 0] \in Vblank
    BY <1>1, <2>1 DEF Vblank
  <2> QED
    BY <1>1, <2>1, <2>2 DEF CopyTearFree
<1> HIDE DEF v
<1>5. /\ vb' \in [Ids -> Vblank] /\ exec_queue' \in Seq(Ids)
      /\ window_list' \in [Windows -> Seq(Ids)]
  BY <1>1, <1>4, BackTyped
<1> QED
  BY <1>1, <1>3, <1>5 DEF Typed, CopyTearFree

LEMMA TypedPost == ASSUME Inv, Post PROVE Typed'
<1>1. Top.of \in Ids /\ Typed
  BY RunsFn, TypeParts DEF Post, Inv, HoldFns, OwnerFns
<1>2. Completed(vb[Top.of]) \in Vblank
  BY <1>1, CompletedTyped DEF Typed
<1>3. Freed(Completed(vb[Top.of])) \in Vblank
  BY <1>2, FreedTyped
<1>4. vb' \in [Ids -> Vblank]
  BY <1>1, <1>3 DEF Post, Typed
<1>5. /\ Without(exec_queue, Top.of) \in Seq(Ids) /\ Without(flip_queue, Top.of) \in Seq(Ids)
      /\ \A w \in Windows : Without(window_list[w], Top.of) \in Seq(Ids)
  BY <1>1, WithoutTyped DEF Typed
<1> QED
  BY <1>1, <1>4, <1>5 DEF Typed, Post

LEMMA TypedAbort == ASSUME Inv, Abort PROVE Typed'
<1>1. Top.of \in Ids /\ Typed
  BY RunsFn, TypeParts DEF Abort, Inv, HoldFns
<1>2. Freed(vb[Top.of]) \in Vblank
  BY <1>1, FreedTyped DEF Typed
<1>3. vb' \in [Ids -> Vblank]
  BY <1>1, <1>2 DEF Abort, Typed
<1>4. /\ Without(exec_queue, Top.of) \in Seq(Ids) /\ Without(flip_queue, Top.of) \in Seq(Ids)
      /\ \A w \in Windows : Without(window_list[w], Top.of) \in Seq(Ids)
  BY <1>1, WithoutTyped DEF Typed
<1> QED
  BY <1>1, <1>3, <1>4 DEF Typed, Abort

LEMMA TypedFlipNotify == ASSUME Inv, FlipNotify PROVE Typed'
<1>1. Top.of \in Ids /\ Typed
  BY RunsFn, TypeParts DEF FlipNotify, Inv
<1>2. IdleFlip(vb) \in [Ids -> Vblank]
  BY IdleFlipTyped DEF Inv
<1>3. [IdleFlip(vb)[Top.of] EXCEPT !.pixmap = FALSE] \in Vblank
  <2>1. IdleFlip(vb)[Top.of] \in Vblank
    BY <1>1, <1>2
  <2> QED
    BY <2>1 DEF Vblank
<1>4. vb' \in [Ids -> Vblank]
  BY <1>1, <1>2, <1>3 DEF FlipNotify
<1>5. flip_queue' \in Seq(Ids)
  BY <1>1, WithoutTyped DEF FlipNotify, Typed
<1>6. vb[Top.of].window \in Windows \cup {NoWin}
  BY <1>1, FieldTypes DEF Inv
<1> QED
  BY <1>1, <1>4, <1>5, <1>6 DEF Typed, FlipNotify

LEMMA TypedUnflip == ASSUME Inv, StartUnflip \/ UnflipNotify PROVE Typed'
<1>1. Typed /\ TypeOK
  BY TypeParts DEF Inv
<1>2. CASE StartUnflip
  BY <1>1, <1>2, RestoreTyped DEF Typed, StartUnflip
<1>3. CASE UnflipNotify
  BY <1>1, <1>3, IdleFlipTyped DEF Typed, UnflipNotify
<1> QED
  BY <1>2, <1>3

LEMMA TypedClear == ASSUME Inv, ClearWindowFlip PROVE Typed'
<1>1. Typed /\ TypeOK
  BY TypeParts DEF Inv
<1>2. winpix' \in [Windows \cup {Root} -> Ids \cup {Screen}] /\ flip_window' \in Windows \cup {NoWin}
  BY <1>1, RestoreTyped DEF Typed, ClearWindowFlip
<1>3. vb' \in [Ids -> Vblank]
  <2>1. CASE ~Aborts(Top.of)
    BY <1>1, <2>1 DEF Typed, ClearWindowFlip
  <2>2. CASE Aborts(Top.of)
    <3>1. flip_pending \in Ids /\ vb[flip_pending] \in Vblank
      BY <1>1, <2>2 DEF Typed, Aborts
    <3>2. [vb[flip_pending] EXCEPT !.abort = TRUE, !.window = NoWin] \in Vblank
      BY <3>1 DEF Vblank
    <3> QED
      BY <1>1, <2>2, <3>1, <3>2 DEF Typed, ClearWindowFlip
  <2> QED
    BY <2>1, <2>2
<1> QED
  BY <1>1, <1>2, <1>3 DEF Typed, ClearWindowFlip

LEMMA TypedCheckQueued == ASSUME Inv, CheckQueued PROVE Typed'
<1>1. Typed /\ TypeOK
  BY TypeParts DEF Inv
<1>2. \A r \in Ids : NoFlip(vb[r]) \in Vblank
  <2> TAKE r \in Ids
  <2>1. vb[r] \in Vblank
    BY <1>1 DEF Typed
  <2>2. (IF vb[r].sync THEN 0 ELSE vb[r].early) \in 0 .. 2
    BY <2>1 DEF Vblank
  <2> QED
    BY <2>1, <2>2 DEF NoFlip, Vblank
<1>3. vb' \in [Ids -> Vblank]
  BY <1>1, <1>2 DEF Typed, CheckQueued
<1> QED
  BY <1>1, <1>3 DEF Typed, CheckQueued

LEMMA TypedScrap == ASSUME Inv, Scrap PROVE Typed'
<1>1. Top.of \in Ids /\ Typed
  BY RunsFn, TypeParts DEF Scrap, Inv, HoldFns
<1>2. vb[Top.of] \in Vblank /\ vb[Top.of].idled + 1 \in Nat
  BY <1>1, FieldTypes DEF Typed, Inv
<1>3. [vb[Top.of] EXCEPT !.idled = @ + 1, !.pixmap = FALSE, !.flip = FALSE] \in Vblank
  BY <1>2 DEF Vblank
<1>4. vb' \in [Ids -> Vblank]
  BY <1>1, <1>3 DEF Scrap, Typed
<1> QED
  BY <1>1, <1>4 DEF Typed, Scrap

LEMMA TypedCreate == ASSUME Inv, Create PROVE Typed'
<1>1. Top.of \in Ids /\ Typed
  BY RunsFn, TypeParts DEF Create, Inv, HoldFns, OwnerFns
<1> DEFINE r == Top.of
           early == Earlier(vb[r])
           exec == vb[r].target - early
<1>2. vb[r] \in Vblank /\ vb[r].target \in -1 .. MaxAhead
  BY <1>1, FieldTypes DEF Typed, Inv
<1>3. early \in 0 .. 2
  BY DEF Earlier
<1>4. [vb[r] EXCEPT !.early = early, !.queued = TRUE] \in Vblank
  BY <1>2, <1>3 DEF Vblank
<1>5. vb' \in [Ids -> Vblank]
  BY <1>1, <1>4 DEF Create, Typed
<1>6. events' \subseteq Ids \X (0 .. MaxAhead + 2)
  <2>1. CASE exec > 0 /\ QueueVblank(r, exec)
    <3>1. exec \in 0 .. MaxAhead + 2
      BY <1>2, <1>3, <2>1, BlankTyped
    <3>2. events \cup {<<r, exec>>} \subseteq Ids \X (0 .. MaxAhead + 2)
      BY <1>1, <3>1, EventTyped
    <3> QED
      BY <2>1, <3>2 DEF QueueVblank
  <2>2. CASE UNCHANGED events
    BY <1>1, <2>2 DEF Typed
  <2> QED
    BY <2>1, <2>2 DEF Create
<1>7. exec_queue' \in Seq(Ids)
  BY <1>1, AppendProperties DEF Create, Typed
<1>8. window_list' \in [Windows -> Seq(Ids)]
  <2>1. \A w \in Windows : Append(window_list[w], r) \in Seq(Ids)
    BY <1>1, AppendProperties DEF Typed
  <2> QED
    BY <1>1, <2>1 DEF Create, Typed
<1> QED
  BY <1>1, <1>5, <1>6, <1>7, <1>8 DEF Typed, Create

\* A vblank as present_vblank_create fills it in.
NewRecord(w, p, n, f, s, why, e) ==
  [Blank EXCEPT !.st = "live", !.window = w, !.asked = w, !.pixmap = p, !.target = n,
                !.flip = f, !.sync = s, !.reason = why, !.fence = e]
LEMMA NewTyped ==
  ASSUME NEW w \in Windows, NEW p \in BOOLEAN, NEW n \in -1 .. MaxAhead, NEW f \in BOOLEAN,
         NEW s \in BOOLEAN, NEW why \in {"other", "tearfree", "tearfree_flipping"},
         NEW e \in BOOLEAN, NEW v,
         v = NewRecord(w, p, n, f, s, why, e)
  PROVE  v \in Vblank
<1> DEFINE a == [Blank EXCEPT !.st = "live", !.window = w, !.asked = w]
           b == [a EXCEPT !.pixmap = p, !.target = n]
           c == [b EXCEPT !.flip = f, !.sync = s]
           d == [c EXCEPT !.reason = why, !.fence = e]
<1>1. v = d
  BY DEF Blank, NewRecord
<1>2. a \in Vblank
  BY BlankTyped DEF Vblank
<1> HIDE DEF a
<1>3. b \in Vblank
  BY <1>2 DEF Vblank
<1> HIDE DEF b
<1>4. c \in Vblank
  BY <1>3 DEF Vblank
<1> HIDE DEF c
<1>5. d \in Vblank
  BY <1>4 DEF Vblank
<1> QED
  BY <1>1, <1>5

LEMMA NewIs ==
  ASSUME NEW a, NEW w, NEW target, NEW v \in NewVblank(a, w, target)
  PROVE  \E reason \in {"other", "tearfree", "tearfree_flipping"}, flipped \in BOOLEAN,
            pixmap \in BOOLEAN, sync \in BOOLEAN :
           v = NewRecord(w, pixmap, target, flipped, sync, reason, a.fence)
<1>1. PICK reason \in {"other", "tearfree", "tearfree_flipping"} :
        v = [Blank EXCEPT !.st = "live", !.window = w, !.asked = w, !.pixmap = (a.kind # "notify"),
                !.target = target,
                !.flip = (a.kind = "flip" /\ CheckFlip(w) /\ (target > 0 \/ setup.async_caps)),
                !.sync = ((a.kind = "flip" /\ CheckFlip(w) /\ (target > 0 \/ setup.async_caps)) /\ target > 0),
                !.reason = reason, !.fence = a.fence]
  BY Zenon DEF NewVblank, Reasons
<1> DEFINE F == (a.kind = "flip" /\ CheckFlip(w) /\ (target > 0 \/ setup.async_caps))
           P == (a.kind # "notify")
           S == (F /\ target > 0)
<1>2. F \in BOOLEAN /\ P \in BOOLEAN /\ S \in BOOLEAN
  BY Zenon
<1>3. v = NewRecord(w, P, target, F, S, reason, a.fence)
  BY <1>1, Zenon DEF NewRecord
<1> HIDE DEF F, P, S
<1> QED
  BY <1>2, <1>3, Zenon

LEMMA NewLive ==
  ASSUME NEW a, NEW w, NEW target, NEW v \in NewVblank(a, w, target)
  PROVE  v.st = "live" /\ v.window = w /\ v.queued = FALSE /\ v.abort = FALSE
<1>1. PICK why \in {"other", "tearfree", "tearfree_flipping"}, f \in BOOLEAN, p \in BOOLEAN,
           s \in BOOLEAN : v = NewRecord(w, p, target, f, s, why, a.fence)
  BY NewIs
<1>2. PICK e : e = a.fence
  OBVIOUS
<1>3. v = [st |-> "live", window |-> w, asked |-> w, pixmap |-> p, target |-> target,
           early |-> 0, queued |-> FALSE, flip |-> f, sync |-> s, flip_ready |-> FALSE,
           abort |-> FALSE, reason |-> why, fence |-> e, callback |-> FALSE,
           done |-> 0, idled |-> 0]
  BY <1>1, <1>2 DEF Blank, NewRecord
<1> QED
  BY <1>3
LEMMA TypedPresent == ASSUME Inv, Present PROVE Typed'
<1>1. Typed
  BY TypeParts DEF Inv
<1>2. ASSUME NEW a \in setup.attrs, NEW w \in Windows, NEW target \in TargetAhead(a),
             NEW v \in NewVblank(a, w, target)
      PROVE  v \in Vblank
  <2>1. target \in -1 .. MaxAhead
    <3>1. setup \in SetupType
      BY <1>1, PresentAssumption DEF Typed
    <3>2. setup.ahead \in 1 .. MaxAhead
      BY <3>1 DEF SetupType
    <3> QED
      BY <1>2, <3>2, BlankTyped DEF TargetAhead
  <2>2. a.fence \in BOOLEAN
    <3>1. setup \in SetupType
      BY <1>1, PresentAssumption DEF Typed
    <3>2. a \in AttrType
      BY <3>1 DEF SetupType
    <3> QED
      BY <3>2 DEF AttrType
  <2>3. PICK reason \in {"other", "tearfree", "tearfree_flipping"}, flipped \in BOOLEAN,
             pixmap \in BOOLEAN, sync \in BOOLEAN :
             v = NewRecord(w, pixmap, target, flipped, sync, reason, a.fence)
    BY <1>2, NewIs
  <2> QED
    BY <2>1, <2>2, <2>3, NewTyped
<1>3. vb' \in [Ids -> Vblank]
  BY <1>1, <1>2 DEF Present, Typed
<1> QED
  BY <1>1, <1>3 DEF Typed, Present

LEMMA TypedTick == ASSUME Inv, Tick PROVE Typed'
<1>1. Typed
  BY TypeParts DEF Inv
<1>2. \A r \in Ids : [vb[r] EXCEPT !.target = Sooner(@, -1)] \in Vblank
  <2> TAKE r \in Ids
  <2>1. vb[r] \in Vblank /\ vb[r].target \in -1 .. MaxAhead
    BY <1>1, FieldTypes DEF Typed, Inv
  <2>2. Sooner(vb[r].target, -1) \in -1 .. MaxAhead
    BY <2>1, BlankTyped DEF Sooner
  <2> QED
    BY <2>1, <2>2 DEF Vblank
<1>3. vb' \in [Ids -> Vblank]
  BY <1>2 DEF Tick
<1>4. events' \subseteq Ids \X (0 .. MaxAhead + 2)
  <2> SUFFICES ASSUME NEW e \in events PROVE <<e[1], Sooner(e[2], 0)>> \in Ids \X (0 .. MaxAhead + 2)
    BY DEF Tick
  <2>1. e[1] \in Ids /\ e[2] \in 0 .. MaxAhead + 2
    BY <1>1 DEF Typed
  <2> QED
    BY <2>1, BlankTyped DEF Sooner
<1> QED
  BY <1>1, <1>3, <1>4 DEF Typed, Tick

LEMMA TypedEvents == ASSUME Inv, VblankEvent \/ FlipEvent \/ FakeFlipEvent PROVE Typed'
<1>1. Typed
  BY TypeParts DEF Inv
<1>2. CASE VblankEvent
  BY <1>1, <1>2 DEF Typed, VblankEvent
<1>3. CASE FlipEvent
  <2>1. flips' \subseteq Ids \cup {Unflip} /\ scanout' \in Ids \cup {Screen}
    BY <1>1, <1>3 DEF Typed, FlipEvent
  <2> QED
    BY <1>1, <1>3, <2>1 DEF Typed, FlipEvent
<1>4. CASE FakeFlipEvent
  BY <1>1, <1>4 DEF Typed, FakeFlipEvent
<1> QED
  BY <1>2, <1>3, <1>4

LEMMA TypedQuiet ==
  ASSUME Inv, \/ Notify \/ TryReady \/ Trigger \/ Checked \/ Drained \/ TriggerFence \/ Restack
              \/ DestroyWindow \/ Cursor \/ PrepareModeset
  PROVE  Typed'
<1>1. Typed
  BY TypeParts DEF Inv
<1> USE <1>1 DEF Typed
<1>2. CASE Notify
  BY <1>2 DEF Notify
<1>3. CASE TryReady
  BY <1>3 DEF TryReady
<1>4. CASE Trigger
  BY <1>4 DEF Trigger
<1>5. CASE Checked \/ Drained \/ PrepareModeset
  BY <1>5 DEF Checked, Drained, PrepareModeset
<1>6. CASE TriggerFence
  BY <1>6 DEF TriggerFence
<1>7. CASE Restack
  BY <1>7 DEF Restack
<1>8. CASE DestroyWindow
  BY <1>8 DEF DestroyWindow
<1>9. CASE Cursor
  BY <1>9 DEF Cursor
<1> QED
  BY <1>2, <1>3, <1>4, <1>5, <1>6, <1>7, <1>8, <1>9
-----------------------------------------------------------------------------
(***************************************************************************)
(* Steps that leave the requests, the queues and the flips as they are.    *)
(***************************************************************************)
LEMMA OwnedKept ==
  ASSUME NEW S, Leaves(stack', S), \A f \in Elements(stack) : f.fn \in OwnerFns => f \in S,
         NEW q, Owned(q)
  PROVE  Owned(q)'
<1>1. Elements(stack') = S
  BY DEF Leaves
<1>2. PICK f \in Elements(stack) : f.fn \in OwnerFns /\ f.of = q
  BY DEF Owned
<1>3. f \in Elements(stack')
  BY <1>1, <1>2
<1> QED
  BY <1>2, <1>3 DEF Owned, Elements

LEMMA CallingFrom ==
  ASSUME NEW S, Leaves(stack', S), \A f \in S : Sound(f)',
         CallFns(S) \cap {"scrap", "create"} # {}
           => \A f \in S : f.fn \in {"execute", "post"} => vb'[f.of].pixmap = FALSE
  PROVE  Calling'
<1>1. Elements(stack') = S /\ Nested(stack')
  BY DEF Leaves
<1>2. Scrapping(stack') => CallFns(S) \cap {"scrap", "create"} # {}
  BY <1>1 DEF Scrapping, CallFns
<1>3. Scraps'
  <2> SUFFICES ASSUME Scrapping(stack')
               PROVE  \A f \in Elements(stack') : f.fn \in {"execute", "post"} => vb'[f.of].pixmap = FALSE
    BY DEF Scraps, Scrapping, Elements
  <2> QED
    BY <1>1, <1>2
<1>4. \A f \in Elements(stack') : Sound(f)'
  BY <1>1
<1>5. Nested(stack)'
  BY <1>1 DEF Nested, Over
<1> QED
  BY <1>3, <1>4, <1>5 DEF Calling, Elements

\* The calls of new are made, those of old wait, all others are over.
Calls2(new, old) ==
  /\ old \subseteq Elements(stack)
  /\ \A f \in old : f.fn \notin TopFns
  /\ \A f \in Elements(stack) : f.fn \in OwnerFns => f \in old
  /\ Leaves(stack', new \cup old)
  /\ \A f \in new : Sound(f)' /\ f.fn # "flip"
  /\ CallFns(new \cup old) \cap {"scrap", "create"} # {}
       => \A f \in new : f.fn \in {"execute", "post"} => vb'[f.of].pixmap = FALSE
  /\ CallFns(new) \cap {"scrap", "create"} # {} => CallFns(old) \cap {"execute", "post"} = {}
LEMMA QuietStep ==
  ASSUME Inv, Quiet, ~Running("flip"), NEW new, NEW old, Calls2(new, old)
  PROVE  Inv'
<1> USE DEF Quiet
<1>0. /\ old \subseteq Elements(stack)
      /\ \A f \in old : f.fn \notin TopFns
      /\ \A f \in Elements(stack) : f.fn \in OwnerFns => f \in old
      /\ Leaves(stack', new \cup old)
      /\ \A f \in new : Sound(f)' /\ f.fn # "flip"
      /\ CallFns(new \cup old) \cap {"scrap", "create"} # {}
           => \A f \in new : f.fn \in {"execute", "post"} => vb'[f.of].pixmap = FALSE
      /\ CallFns(new) \cap {"scrap", "create"} # {} => CallFns(old) \cap {"execute", "post"} = {}
  BY Zenon DEF Calls2
<1> USE <1>0
<1>1. TypeOK /\ TypeOK'
  BY TypeParts DEF Inv, Leaves, Typed, TypeOK
<1>2. \A f \in old : f \in Frame /\ Sound(f)
  BY <1>1, ElementsOf DEF Inv, Calling, TypeOK
<1>3. \A f \in old : Sound(f)'
  <2> TAKE f \in old
  <2>1. f.fn \in HoldFns \cup {"trigger"} => f.of \in Ids
    BY <1>2, FrameTyped
  <2> QED
    BY <1>2, <2>1, SoundBelow
<1>4. \A q : Owned(q) => Owned(q)'
  BY OwnedKept
<1>5. \A q \in Ids : Stays(q)
  BY <1>4 DEF Stays
<1>6. Lists'
  <2>1. Lists /\ \A q \in Ids : Placed(q)'
    BY <1>5, StaysPlaced DEF Inv, Lists
  <2> QED
    BY <2>1 DEF Lists, Once
<1>7. Calling'
  <2>1. \A f \in new \cup old : Sound(f)'
    BY <1>3
  <2>2. ASSUME CallFns(new \cup old) \cap {"scrap", "create"} # {},
               NEW f \in new \cup old, f.fn \in {"execute", "post"}
        PROVE  vb'[f.of].pixmap = FALSE
    <3>1. CASE f \in new
      BY <2>2, <3>1
    <3>2. CASE f \in old
      <4>1. CallFns(new) \cap {"scrap", "create"} = {}
        BY <2>2, <3>2 DEF CallFns
      <4>2. Scrapping(stack)
        BY <2>2, <4>1 DEF CallFns, Scrapping
      <4>3. vb[f.of].pixmap = FALSE /\ f.of \in Ids
        <5>1. f.of \in Ids
          BY <1>2, <2>2, <3>2, FrameTyped DEF HoldFns, OwnerFns
        <5> QED
          BY <2>2, <3>2, <4>2, <5>1 DEF Inv, Calling, Scraps
      <4> QED
        BY <4>3 DEF Same
    <3> QED
      BY <3>1, <3>2
  <2> QED
    BY <2>1, <2>2, CallingFrom
<1>8. Flipping'
  <2>1. flip_pending # NoId => vb'[flip_pending].fence = vb[flip_pending].fence
    BY <1>1 DEF TypeOK, Same
  <2> QED
    BY <2>1, FlippingKept DEF Inv
<1>9. ~Running("flip")'
  <2>1. \A f \in new \cup old : f.fn # "flip"
    BY DEF TopFns
  <2> QED
    BY <2>1, NotRunning DEF Running, Top
<1>10. Drawn'
  <2>1. Accepted' <=> Accepted
    BY <1>9 DEF Accepted
  <2>2. Accepted => /\ vb'[flip_pending].window = vb[flip_pending].window
                    /\ vb'[flip_pending].abort = vb[flip_pending].abort
    BY <1>1 DEF Accepted, TypeOK, Same
  <2> QED
    BY <2>1, <2>2, DrawnKept DEF Inv
<1> QED
  BY <1>1, <1>6, <1>7, <1>8, <1>10 DEF Inv

\* One function returns, and has called those of new in its place.
CallsInstead(new) ==
  /\ \A f \in new : Sound(f)' /\ f.fn \notin {"flip", "scrap", "create"}
  /\ CallFns(Elements(Rest)) \cap {"scrap", "create"} # {}
       => \A f \in new : f.fn \in {"execute", "post"} => vb'[f.of].pixmap = FALSE
LEMMA QuietReturn ==
  ASSUME Inv, Quiet, stack # <<>>, Top.fn \notin OwnerFns \cup {"flip"}, NEW new,
         Leaves(stack', new \cup Elements(Rest)), CallsInstead(new)
  PROVE  Inv'
<1> USE DEF CallsInstead
<1>1. /\ Elements(stack) = {Top} \cup Elements(Rest)
      /\ \A g \in Elements(Rest) : Over(Top, g)
  BY Runs
<1>2. Elements(Rest) \in SUBSET Elements(stack)
  BY <1>1
<1>3. \A f \in Elements(Rest) : f.fn \notin TopFns
  BY <1>1 DEF Over
<1>4. \A f \in Elements(stack) : f.fn \in OwnerFns => f \in Elements(Rest)
  BY <1>1
<1>5. ~Running("flip")
  BY DEF Running
<1>6. /\ CallFns(new \cup Elements(Rest)) \cap {"scrap", "create"} # {}
           => \A f \in new : f.fn \in {"execute", "post"} => vb'[f.of].pixmap = FALSE
      /\ CallFns(new) \cap {"scrap", "create"} # {} => CallFns(Elements(Rest)) \cap {"execute", "post"} = {}
  BY DEF CallFns
<1>7. \A f \in new : Sound(f)' /\ f.fn # "flip"
  OBVIOUS
<1>8. Calls2(new, Elements(Rest))
  BY <1>2, <1>3, <1>4, <1>6, <1>7, Zenon DEF Calls2
<1> QED
  BY <1>5, <1>8, QuietStep

\* It just returns.
LEMMA QuietPop ==
  ASSUME Inv, Quiet, stack # <<>>, Top.fn \notin OwnerFns \cup {"flip"}, Continue(<<>>)
  PROVE  Inv'
<1>1. Leaves(Rest, Elements(Rest))
  BY Runs
<1>2. Leaves(stack', {} \cup Elements(Rest))
  BY <1>1, Returns DEF Continue, Rest
<1>3. CallsInstead({})
  BY Zenon DEF CallsInstead
<1> QED
  BY <1>2, <1>3, QuietReturn

\* It calls one function in its place.
LEMMA QuietCall ==
  ASSUME Inv, Quiet, stack # <<>>, Top.fn \notin OwnerFns \cup {"flip"},
         NEW a \in Frame, Continue(<<a>>), Sound(a)', a.fn \notin {"flip", "scrap", "create"},
         \A g \in Elements(Rest) : Over(a, g),
         CallFns(Elements(Rest)) \cap {"scrap", "create"} # {} /\ a.fn \in {"execute", "post"}
           => vb'[a.of].pixmap = FALSE
  PROVE  Inv'
<1>1. Leaves(Rest, Elements(Rest))
  BY Runs
<1>2. Leaves(<<a>> \o Rest, {a} \cup Elements(Rest))
  BY <1>1, GoesOn
<1>3. Leaves(stack', {a} \cup Elements(Rest))
  BY <1>2 DEF Continue, Rest
<1>4. CallsInstead({a})
  BY Zenon DEF CallsInstead
<1> QED
  BY <1>3, <1>4, QuietReturn

\* The driver's events call a function while others wait for it.
LEMMA QuietPush ==
  ASSUME Inv, Quiet, stack = <<>> \/ Top.fn \in {"drain", "trigger"},
         NEW a \in Frame, stack' = <<a>> \o stack, Sound(a)', a.fn # "flip",
         a.fn \notin HoldFns \cup {"clear"}, stack = <<>> \/ a.fn # "trigger"
  PROVE  Inv'
<1>1. /\ Leaves(stack, Elements(stack))
      /\ \A f \in Elements(stack) : f.fn \notin TopFns \cup {"scrap", "create", "abort", "clear"}
      /\ \A f \in Elements(stack) : f.fn \notin {"execute", "post"} \/ stack # <<>>
  <2>1. CASE stack = <<>>
    BY <2>1, NoCalls DEF Leaves
  <2>2. CASE stack # <<>>
    <3>1. /\ Elements(stack) = {Top} \cup Elements(Rest)
          /\ \A g \in Elements(Rest) : Over(Top, g)
      BY <2>2, Runs
    <3>2. \A g \in Elements(Rest) : g.fn \notin TopFns \cup {"scrap", "create", "abort", "clear"}
      BY <2>2, <3>1 DEF Over
    <3>3. Leaves(stack, Elements(stack))
      BY DEF Leaves, Inv, TypeOK, Calling
    <3> QED
      BY <2>2, <3>1, <3>2, <3>3 DEF TopFns
  <2> QED
    BY <2>1, <2>2
<1>2. \A g \in Elements(stack) : Over(a, g)
  <2>1. CASE stack = <<>>
    BY <2>1, NoCalls
  <2>2. CASE a.fn # "trigger"
    BY <1>1, <2>2 DEF Over, HoldFns, OwnerFns
  <2> QED
    BY <2>1, <2>2
<1>3. Leaves(stack', {a} \cup Elements(stack))
  BY <1>1, <1>2, GoesOn
<1>4. ~Running("flip")
  BY DEF Running
<1>5. /\ CallFns({a} \cup Elements(stack)) \cap {"scrap", "create"} = {}
      /\ CallFns({a}) \cap {"scrap", "create"} = {}
  BY <1>1 DEF CallFns, HoldFns, OwnerFns
<1> HIDE <1>1
<1>6. /\ \A f \in Elements(stack) : f.fn \notin TopFns
      /\ \A f \in Elements(stack) : f.fn \in OwnerFns => f \in Elements(stack)
      /\ Elements(stack) \in SUBSET Elements(stack)
  BY <1>1
<1>7. /\ \A f \in {a} : Sound(f)' /\ f.fn # "flip"
      /\ CallFns({a} \cup Elements(stack)) \cap {"scrap", "create"} # {}
           => \A f \in {a} : f.fn \in {"execute", "post"} => vb'[f.of].pixmap = FALSE
      /\ CallFns({a}) \cap {"scrap", "create"} # {} => CallFns(Elements(stack)) \cap {"execute", "post"} = {}
  BY <1>5, Zenon
<1>8. Calls2({a}, Elements(stack))
  BY <1>3, <1>6, <1>7, Zenon DEF Calls2
<1> QED
  BY <1>4, <1>8, QuietStep
-----------------------------------------------------------------------------
(***************************************************************************)
(* Calls that are made one after the other.                                *)
(***************************************************************************)
LEMMA CallsTyped ==
  ASSUME NEW fn, NEW S, IsFiniteSet(S), \A x \in S : Call(fn, x) \in Frame,
         NEW s \in Calls(fn, S)
  PROVE  /\ s \in Seq(Frame)
         /\ \A i \in DOMAIN s : s[i].fn = fn /\ s[i].of \in S
         /\ \A i, j \in DOMAIN s : i # j => s[i].of # s[j].of
<1> DEFINE n == Cardinality(S)
<1>1. n \in Nat
  BY FS_CardinalityType
<1>2. PICK q \in SetToSeqs(S) : s = [i \in DOMAIN q |-> Call(fn, q[i])]
  BY DEF Calls
<1>3. q \in [1 .. n -> S] /\ \A i, j \in 1 .. n : i # j => q[i] # q[j]
  BY <1>2 DEF SetToSeqs
<1> HIDE DEF n
<1>4. s = [i \in 1 .. n |-> Call(fn, q[i])]
  BY <1>2, <1>3
<1>5. s \in [1 .. n -> Frame]
  BY <1>3, <1>4
<1>6. s \in Seq(Frame)
  BY <1>1, <1>5, SeqDef
<1>7. \A i \in 1 .. n : s[i].fn = fn /\ s[i].of = q[i] /\ q[i] \in S
  BY <1>3, <1>4, CallTyped
<1> QED
  BY <1>3, <1>5, <1>6, <1>7

\* They may be followed by another.
LEMMA Followed ==
  ASSUME NEW s, Leaves(s, Elements(s)), NEW c \in Frame, \A f \in Elements(s) : Over(f, c)
  PROVE  Leaves(s \o <<c>>, Elements(s) \cup {c})
<1> DEFINE n == Len(s)
           t == s \o <<c>>
<1>1. s \in Seq(Frame) /\ n \in Nat /\ DOMAIN s = 1 .. n /\ Nested(s)
  BY LenProperties DEF Leaves
<1>2. <<c>> \in Seq(Frame) /\ Len(<<c>>) = 1 /\ <<c>>[1] = c
  BY OneElement
<1>3. /\ t \in Seq(Frame) /\ Len(t) = n + 1
      /\ \A i \in 1 .. n + 1 : t[i] = IF i <= n THEN s[i] ELSE <<c>>[i - n]
  BY <1>1, <1>2, ConcatProperties
<1>4. DOMAIN t = 1 .. n + 1
  BY <1>3, LenProperties
<1> HIDE DEF n, t
<1>5. \A i \in 1 .. n : t[i] = s[i] /\ s[i] \in Elements(s)
  <2> TAKE i \in 1 .. n
  <2>1. i \in 1 .. n + 1 /\ i <= n
    BY <1>1
  <2> QED
    BY <1>1, <1>3, <2>1 DEF Elements
<1>6. t[n + 1] = c
  <2>1. n + 1 \in 1 .. n + 1 /\ ~(n + 1 <= n) /\ (n + 1) - n = 1
    BY <1>1
  <2> QED
    BY <2>1, <1>2, <1>3
<1>7. \A i \in 1 .. n + 1 : i \in 1 .. n \/ i = n + 1
  BY <1>1
<1>8. Elements(t) = Elements(s) \cup {c}
  <2>1. Elements(t) \subseteq Elements(s) \cup {c}
    BY <1>4, <1>5, <1>6, <1>7 DEF Elements
  <2>2. Elements(s) \subseteq Elements(t)
    <3> SUFFICES ASSUME NEW i \in 1 .. n PROVE s[i] \in Elements(t)
      BY <1>1 DEF Elements
    <3>1. i \in 1 .. n + 1 /\ t[i] = s[i]
      BY <1>1, <1>5
    <3> QED
      BY <1>4, <3>1 DEF Elements
  <2>3. c \in Elements(t)
    <3>1. n + 1 \in 1 .. n + 1
      BY <1>1
    <3> QED
      BY <1>4, <1>6, <3>1 DEF Elements
  <2> QED
    BY <2>1, <2>2, <2>3
<1>9. Nested(t)
  <2> SUFFICES ASSUME NEW i \in 1 .. n + 1, NEW j \in 1 .. n + 1, i < j
               PROVE  Over(t[i], t[j])
    BY <1>4 DEF Nested
  <2>1. i \in 1 .. n /\ t[i] = s[i]
    BY <1>1, <1>5, <1>7
  <2>2. CASE j = n + 1
    BY <2>1, <2>2, <1>5, <1>6
  <2>3. CASE j \in 1 .. n
    <3>1. t[j] = s[j] /\ Over(s[i], s[j])
      BY <2>1, <2>3, <1>1, <1>5 DEF Nested
    <3> QED
      BY <2>1, <3>1
  <2> QED
    BY <2>2, <2>3, <1>7
<1> QED
  BY <1>3, <1>8, <1>9 DEF Leaves, t

LEMMA ChecksTyped ==
  ASSUME NEW S \in SUBSET Windows, NEW s \in Checks(S)
  PROVE  /\ Leaves(s, Elements(s))
         /\ \A f \in Elements(s) : f.fn = "check"
<1>1. IsFiniteSet(S)
  BY PresentAssumption, FS_Subset
<1>2. \A x \in S : Call("check", x) \in Frame
  BY CallTyped DEF WindowFns
<1>3. s \in Seq(Frame) /\ \A i \in DOMAIN s : s[i].fn = "check" /\ s[i].of \in S
  BY <1>1, <1>2, CallsTyped DEF Checks
<1>4. Nested(s)
  BY <1>3 DEF Nested, Over, TopFns, HoldFns, OwnerFns
<1>5. \A f \in Elements(s) : f.fn = "check"
  BY <1>3 DEF Elements
<1> QED
  BY <1>3, <1>4, <1>5 DEF Leaves
-----------------------------------------------------------------------------
LEMMA SameAll == vb' = vb => \A q \in Ids : Same(q)
  BY DEF Same

LEMMA KeepsRequeue == ASSUME Inv, Requeue PROVE Inv'
<1>1. Quiet
  BY TypedRequeue, SameAll DEF Quiet, Requeue
<1>2. stack # <<>> /\ Top.fn \notin OwnerFns \cup {"flip"}
  BY DEF Requeue, Running, OwnerFns
<1> QED
  BY <1>1, <1>2, QuietPop DEF Requeue

LEMMA KeepsWaitFence == ASSUME Inv, WaitFence PROVE Inv'
<1>0. vb \in [Ids -> Vblank]
  BY DEF Inv, TypeOK
<1>1. Quiet
  <2>1. \A q \in Ids : Same(q)
    BY <1>0 DEF Same, WaitFence
  <2> QED
    BY <2>1, TypedWaitFence DEF Quiet, WaitFence
<1>2. stack # <<>> /\ Top.fn \notin OwnerFns \cup {"flip"}
  BY DEF WaitFence, Running, OwnerFns
<1> QED
  BY <1>1, <1>2, QuietPop DEF WaitFence

\* To execute a request, where nothing is being aborted.
LEMMA OverExecute ==
  ASSUME NEW b, NEW g, Over(b, g), b.fn # "abort", NEW r
  PROVE  Over(Call("execute", r), g)
  BY CallTyped DEF Over, HoldFns, OwnerFns

LEMMA NoScraps ==
  ASSUME Inv, stack # <<>>, Top.fn \notin {"scrap", "execute", "post"}
  PROVE  CallFns(Elements(Rest)) \cap {"scrap", "create"} = {}
<1>1. \A g \in Elements(Rest) : Over(Top, g)
  BY Runs
<1> QED
  BY <1>1 DEF Over, CallFns

LEMMA QuietExecute ==
  ASSUME Inv, Quiet, vb' = vb, stack # <<>>, Top.fn \in {"notify", "try_ready"},
         NEW r \in Ids, vb[r].queued = TRUE, Continue(<<Call("execute", r)>>)
  PROVE  Inv'
<1> DEFINE a == Call("execute", r)
<1>1. a \in Frame /\ a.fn = "execute" /\ a.of = r
  BY CallTyped DEF VblankFns
<1>2. \A g \in Elements(Rest) : Over(a, g)
  BY Runs, OverExecute
<1>3. Sound(a)'
  BY <1>1 DEF Sound, OwnerFns
<1>4. CallFns(Elements(Rest)) \cap {"scrap", "create"} = {}
  BY NoScraps
<1>5. Top.fn \notin OwnerFns \cup {"flip"}
  BY DEF OwnerFns
<1>6. Continue(<<a>>)
  OBVIOUS
<1> HIDE DEF a
<1> QED
  BY <1>1, <1>2, <1>3, <1>4, <1>5, <1>6, QuietCall

LEMMA KeepsNotify == ASSUME Inv, Notify PROVE Inv'
<1>1. Quiet
  BY TypedQuiet, SameAll DEF Quiet, Notify
<1>2. stack # <<>> /\ Top.fn = "notify" /\ Top.of \in Ids /\ Top.fn \notin OwnerFns \cup {"flip"}
  BY RunsFn DEF Notify, OwnerFns
<1> DEFINE queued == Contains(exec_queue, Top.of) \/ (Contains(flip_queue, Top.of) /\ vb[Top.of].queued)
<1>3. Continue(If(queued, <<Call("execute", Top.of)>>))
  BY DEF Notify
<1>4. CASE queued
  <2>1. vb[Top.of].queued = TRUE
    <3>1. vb[Top.of].queued \in BOOLEAN
      BY <1>2, FieldTypes DEF Inv
    <3> QED
      BY <1>2, <1>4, <3>1 DEF Inv, Lists, Placed
  <2> QED
    BY <1>1, <1>2, <1>3, <1>4, <2>1, QuietExecute DEF If, Notify
<1>5. CASE ~queued
  BY <1>1, <1>2, <1>3, <1>5, QuietPop DEF If
<1> QED
  BY <1>4, <1>5

LEMMA KeepsTryReady == ASSUME Inv, TryReady PROVE Inv'
<1>1. Quiet
  BY TypedQuiet, SameAll DEF Quiet, TryReady
<1>2. stack # <<>> /\ Top.fn = "try_ready" /\ Top.fn \notin OwnerFns \cup {"flip"}
  BY RunsFn DEF TryReady, OwnerFns
<1>3. ASSUME NEW i \in DOMAIN flip_queue, FirstReady(i), Continue(<<Call("execute", flip_queue[i])>>)
      PROVE  Inv'
  <2>1. flip_queue[i] \in Ids
    <3>1. i \in 1 .. Len(flip_queue) /\ flip_queue \in Seq(Ids)
      BY <1>3, LenProperties DEF Inv, TypeOK
    <3> QED
      BY <3>1, ElementOfSeq
  <2>2. vb[flip_queue[i]].queued = TRUE
    BY <1>3, <2>1, FieldTypes DEF FirstReady, Inv
  <2> QED
    BY <1>1, <1>2, <1>3, <2>1, <2>2, QuietExecute DEF TryReady
<1>4. CASE Continue(<<>>)
  BY <1>1, <1>2, <1>4, QuietPop
<1> QED
  BY <1>3, <1>4 DEF TryReady

LEMMA KeepsTrigger == ASSUME Inv, Trigger PROVE Inv'
<1>1. Quiet
  BY TypedQuiet, SameAll DEF Quiet, Trigger
<1>2. stack # <<>> /\ Top.fn = "trigger" /\ Top.of \in Ids /\ Top.fn \notin OwnerFns \cup {"flip"}
  BY RunsFn DEF Trigger, OwnerFns
<1>3. ASSUME NEW r \in Ids, r = Top.of, Live(r), vb[r].callback PROVE Inv'
  <2> DEFINE a == Call("execute", r)
  <2>1. a \in Frame /\ a.fn = "execute" /\ a.of = r
    BY CallTyped DEF VblankFns
  <2>2. \A g \in Elements(Rest) : Over(Top, g)
    BY <1>2, Runs
  <2>3. Elements(stack) = {Top} \cup Elements(Rest) /\ Sound(Top)
    BY <1>2, Runs
  <2>4. ~Owned(r)
    BY <1>2, <2>2, <2>3 DEF Owned, Over, OwnerFns
  <2>5. vb[r].queued = TRUE \/ (r = flip_pending /\ vb[r].window # NoWin)
    BY <1>2, <1>3, <2>3, <2>4 DEF Inv, Lists, Placed, Sound
  <2>6. Sound(a)'
    BY <2>1, <2>5 DEF Sound, OwnerFns, Trigger
  <2>7. stack' = <<a>> \o stack
    BY <1>3 DEF Trigger
  <2>8. a.fn # "flip" /\ a.fn \notin HoldFns \cup {"clear"} /\ a.fn # "trigger"
    BY <2>1 DEF HoldFns, OwnerFns
  <2> HIDE DEF a
  <2> QED
    BY <1>1, <1>2, <2>1, <2>6, <2>7, <2>8, QuietPush
<1>4. CASE ~(Live(Top.of) /\ vb[Top.of].callback)
  <2>1. stack' = Rest
    BY <1>4 DEF Trigger, Rest
  <2>2. Leaves(Rest, Elements(Rest))
    BY <1>2, Runs
  <2>3. Continue(<<>>)
    BY <2>1, <2>2, Returns DEF Continue, Rest
  <2> QED
    BY <1>1, <1>2, <2>3, QuietPop
<1> QED
  BY <1>2, <1>3, <1>4

LEMMA KeepsChecked == ASSUME Inv, Checked PROVE Inv'
<1>1. Quiet
  BY TypedQuiet, SameAll DEF Quiet, Checked
<1>2. stack # <<>> /\ Top.fn = "checked" /\ Top.fn \notin OwnerFns \cup {"flip"}
  BY RunsFn DEF Checked, OwnerFns
<1> DEFINE a == Call("drain", NoId)
<1>3. a \in Frame /\ a.fn = "drain"
  BY CallTyped DEF OtherFns
<1>4. \A g \in Elements(Rest) : Over(Top, g)
  BY <1>2, Runs
<1>5. \A g \in Elements(Rest) : Over(a, g)
  BY <1>2, <1>3, <1>4 DEF Over, HoldFns, OwnerFns
<1>6. Sound(a)'
  BY <1>3 DEF Sound, OwnerFns
<1>7. Continue(<<a>>)
  BY DEF Checked
<1> HIDE DEF a
<1> QED
  BY <1>1, <1>2, <1>3, <1>5, <1>6, <1>7, QuietCall

LEMMA KeepsDrained == ASSUME Inv, Drained PROVE Inv'
<1>1. Quiet
  BY TypedQuiet, SameAll DEF Quiet, Drained
<1>2. stack # <<>> /\ Top.fn \notin OwnerFns \cup {"flip"}
  BY RunsFn DEF Drained, Drains, OwnerFns
<1> QED
  BY <1>1, <1>2, QuietPop DEF Drained

LEMMA KeepsCheckQueued == ASSUME Inv, CheckQueued PROVE Inv'
<1>1. \A q \in Ids : Same(q)
  <2> TAKE q \in Ids
  <2>1. vb[q] \in Vblank /\ vb[q].queued \in BOOLEAN
    BY FieldTypes DEF Inv
  <2>2. vb'[q] = vb[q] \/ (vb'[q] = NoFlip(vb[q]) /\ vb[q].queued = TRUE)
    BY <2>1 DEF CheckQueued
  <2>3. /\ NoFlip(vb[q]).st = vb[q].st /\ NoFlip(vb[q]).queued = vb[q].queued
        /\ NoFlip(vb[q]).abort = vb[q].abort /\ NoFlip(vb[q]).window = vb[q].window
        /\ NoFlip(vb[q]).pixmap = vb[q].pixmap /\ NoFlip(vb[q]).fence = vb[q].fence
        /\ NoFlip(vb[q]).flip = FALSE
    BY <2>1 DEF NoFlip, Vblank
  <2> QED
    BY <2>2, <2>3 DEF Same
<1>2. Quiet
  BY <1>1, TypedCheckQueued DEF Quiet, CheckQueued
<1>3. stack # <<>> /\ Top.fn \notin OwnerFns \cup {"flip"}
  BY DEF CheckQueued, Running, OwnerFns
<1> QED
  BY <1>2, <1>3, QuietPop DEF CheckQueued

LEMMA KeepsEvents == ASSUME Inv, VblankEvent \/ FlipEvent \/ FakeFlipEvent PROVE Inv'
<1>1. Quiet
  BY TypedEvents, SameAll DEF Quiet, VblankEvent, FlipEvent, FakeFlipEvent
<1>2. stack = <<>> \/ Top.fn \in {"drain", "trigger"}
  BY DEF VblankEvent, FlipEvent, FakeFlipEvent, HandlesEvents, AtEventLoop, Drains, Running
<1>3. ASSUME NEW r \in Ids, stack' = <<Call("notify", r)>> \o stack PROVE Inv'
  <2> DEFINE a == Call("notify", r)
  <2>1. a \in Frame /\ a.fn = "notify"
    BY CallTyped DEF VblankFns
  <2>2. Sound(a)' /\ a.fn \notin HoldFns \cup {"clear"}
    BY <2>1 DEF Sound, OwnerFns, HoldFns
  <2>3. stack' = <<a>> \o stack
    BY <1>3
  <2> HIDE DEF a
  <2> QED
    BY <1>1, <1>2, <2>1, <2>2, <2>3, QuietPush
<1>4. CASE VblankEvent
  BY <1>3, <1>4 DEF VblankEvent
<1>5. CASE FakeFlipEvent
  BY <1>3, <1>5 DEF FakeFlipEvent, Inv, TypeOK
<1>6. CASE FlipEvent
  <2>1. PICK id \in flips :
          /\ flips' = flips \ {id}
          /\ stack' = <<IF id = Unflip THEN Call("unflipped", NoId) ELSE Call("notify", id)>>
                      \o stack
    BY <1>6 DEF FlipEvent
  <2>2. CASE id # Unflip
    <3>1. id \in Ids
      BY <2>2 DEF Inv, TypeOK
    <3> QED
      BY <1>3, <2>1, <2>2, <3>1
  <2>3. CASE id = Unflip
    <3> DEFINE a == Call("unflipped", NoId)
    <3>1. a \in Frame /\ a.fn = "unflipped"
      BY CallTyped DEF OtherFns
    <3>2. unflip' = TRUE /\ Unflip \notin flips'
      BY <1>6, <2>1, <2>3 DEF Inv, Flipping, FlipEvent
    <3>3. Sound(a)' /\ a.fn \notin HoldFns \cup {"clear"}
      BY <3>1, <3>2 DEF Sound, OwnerFns, HoldFns
    <3>4. stack' = <<a>> \o stack
      BY <2>1, <2>3
    <3> HIDE DEF a
    <3> QED
      BY <1>1, <1>2, <3>1, <3>3, <3>4, QuietPush
  <2> QED
    BY <2>2, <2>3
<1> QED
  BY <1>4, <1>5, <1>6

\* The stack stays.
LEMMA QuietStay ==
  ASSUME Inv, Quiet, ~Running("flip"), stack = <<>> \/ Top.fn \notin TopFns, stack' = stack
  PROVE  Inv'
<1>1. Leaves(stack', {} \cup Elements(stack))
  BY DEF Leaves, Inv, TypeOK, Calling
<1>2. \A f \in Elements(stack) : f.fn \notin TopFns
  <2>1. CASE stack = <<>>
    BY <2>1, NoCalls
  <2>2. CASE stack # <<>>
    BY <2>2, Runs DEF Over
  <2> QED
    BY <2>1, <2>2
<1>3. CallFns({}) = {}
  BY DEF CallFns
<1>4. Calls2({}, Elements(stack))
  BY <1>1, <1>2, <1>3, Zenon DEF Calls2
<1> QED
  BY <1>4, QuietStep

LEMMA KeepsTick == ASSUME Inv, Tick PROVE Inv'
<1>1. \A q \in Ids : Same(q)
  <2> TAKE q \in Ids
  <2>1. vb[q] \in Vblank
    BY FieldTypes DEF Inv
  <2>2. vb'[q] = [vb[q] EXCEPT !.target = Sooner(@, -1)]
    BY DEF Tick
  <2> QED
    BY <2>1, <2>2 DEF Same, Vblank
<1>2. Quiet
  BY <1>1, TypedTick DEF Quiet, Tick
<1>3. ~Running("flip") /\ (stack = <<>> \/ Top.fn \notin TopFns)
  BY DEF Tick, AtEventLoop, Drains, Running, TopFns
<1> QED
  BY <1>2, <1>3, QuietStay DEF Tick

LEMMA KeepsCursor == ASSUME Inv, Cursor PROVE Inv'
<1>1. Quiet
  BY TypedQuiet, SameAll DEF Quiet, Cursor
<1>2. ~Running("flip") /\ stack = <<>>
  BY DEF Cursor, AtEventLoop, Running
<1> QED
  BY <1>1, <1>2, QuietStay DEF Cursor

LEMMA KeepsTriggerFence == ASSUME Inv, TriggerFence PROVE Inv'
<1>1. Quiet
  BY TypedQuiet, SameAll DEF Quiet, TriggerFence
<1>2. stack = <<>>
  BY DEF TriggerFence, AtEventLoop
<1>3. PICK r \in Ids \ fences : Live(r) /\ vb[r].fence /\ stack' = <<Call("trigger", r)>>
  BY DEF TriggerFence
<1> DEFINE a == Call("trigger", r)
<1>4. a \in Frame /\ a.fn = "trigger" /\ a.of = r
  BY CallTyped DEF VblankFns
<1>5. r # flip_pending
  BY <1>3, IdsNat DEF Inv, Flipping, Waits
<1>6. Sound(a)' /\ a.fn # "flip" /\ a.fn \notin HoldFns \cup {"clear"}
  BY <1>4, <1>5 DEF Sound, OwnerFns, HoldFns, TriggerFence
<1>7. stack' = <<a>> \o stack
  BY <1>2, <1>3, <1>4, OneElement, ConcatEmptySeq
<1> HIDE DEF a
<1> QED
  BY <1>1, <1>2, <1>4, <1>6, <1>7, QuietPush

\* At the event loop: calls that do not touch requests.
LEMMA QuietStart ==
  ASSUME Inv, Quiet, stack = <<>>, NEW S, Leaves(stack', S),
         \A f \in S : Sound(f)' /\ f.fn \notin {"flip", "scrap", "create"}
  PROVE  Inv'
<1>1. ~Running("flip")
  BY DEF Running
<1>2. Elements(stack) = {} /\ CallFns({}) = {}
  BY NoCalls DEF CallFns
<1>3. S \cup {} = S /\ CallFns(S) \cap {"scrap", "create"} = {}
  BY DEF CallFns
<1>4. Calls2(S, {})
  <2>1. /\ {} \subseteq Elements(stack) /\ Leaves(stack', S \cup {})
        /\ \A f \in {} : f.fn \notin TopFns
        /\ \A f \in Elements(stack) : f.fn \in OwnerFns => f \in {}
    BY <1>2, <1>3
  <2>2. CallFns(S \cup {}) \cap {"scrap", "create"} = {}
    BY <1>3
  <2> QED
    BY <1>3, <2>1, <2>2, Zenon DEF Calls2
<1> QED
  BY <1>1, <1>4, QuietStep

LEMMA KeepsRestack == ASSUME Inv, Restack PROVE Inv'
<1>1. Quiet
  BY TypedQuiet, SameAll DEF Quiet, Restack
<1>2. stack = <<>>
  BY DEF Restack, AtEventLoop
<1>3. PICK w \in (Windows \ gone) \cup {NoWin} : stack' \in Checks({full, w} \ {NoWin})
  BY DEF Restack
<1>4. ({full, w} \ {NoWin}) \in SUBSET Windows
  BY DEF Inv, TypeOK
<1>5. Leaves(stack', Elements(stack')) /\ \A f \in Elements(stack') : f.fn = "check"
  BY <1>3, <1>4, ChecksTyped
<1>6. \A f \in Elements(stack') : Sound(f)' /\ f.fn \notin {"flip", "scrap", "create"}
  BY <1>5 DEF Sound, OwnerFns
<1> QED
  BY <1>1, <1>2, <1>5, <1>6, QuietStart

LEMMA KeepsPrepareModeset == ASSUME Inv, PrepareModeset PROVE Inv'
<1>1. Quiet
  BY TypedQuiet, SameAll DEF Quiet, PrepareModeset
<1>2. stack = <<>>
  BY DEF PrepareModeset, AtEventLoop
<1> DEFINE c == Call("checked", NoId)
<1>3. PICK checks \in Checks(Windows \ gone) : stack' = checks \o <<c>>
  BY DEF PrepareModeset
<1>4. Leaves(checks, Elements(checks)) /\ \A f \in Elements(checks) : f.fn = "check"
  BY <1>3, ChecksTyped
<1>5. c \in Frame /\ c.fn = "checked"
  BY CallTyped DEF OtherFns
<1> HIDE DEF c
<1>6. \A f \in Elements(checks) : Over(f, c)
  BY <1>4, <1>5 DEF Over, TopFns, HoldFns, OwnerFns
<1>7. Leaves(stack', Elements(checks) \cup {c})
  BY <1>3, <1>4, <1>5, <1>6, Followed
<1>8. \A f \in Elements(checks) \cup {c} : Sound(f)' /\ f.fn \notin {"flip", "scrap", "create"}
  BY <1>4, <1>5 DEF Sound, OwnerFns
<1> QED
  BY <1>1, <1>2, <1>7, <1>8, QuietStart
-----------------------------------------------------------------------------
(***************************************************************************)
(* Steps of one request.                                                   *)
(***************************************************************************)
LEMMA CallingStep ==
  ASSUME Inv, NEW new, Replaces(new), Apart
  PROVE  Calling' /\ \A q : q # Top.of => (Owned(q) => Owned(q)')
<1>1. /\ stack # <<>>
      /\ Leaves(stack', new \cup Elements(Rest))
      /\ \A f \in new : Sound(f)' /\ f.fn \notin {"scrap", "create"}
      /\ CallFns(Elements(Rest)) \cap {"scrap", "create"} # {}
           => \A f \in new : f.fn \in {"execute", "post"} => vb'[f.of].pixmap = FALSE
  BY Zenon DEF Replaces
<1>2. /\ Elements(stack) = {Top} \cup Elements(Rest) /\ Elements(Rest) \subseteq Frame
      /\ \A g \in Elements(Rest) : Sound(g) /\ Over(Top, g)
  BY <1>1, Runs
<1>3. \A g \in Elements(Rest) : Sound(g)'
  <2> TAKE g \in Elements(Rest)
  <2>1. g.fn \notin TopFns /\ Sound(g) /\ g \in Frame
    BY <1>2 DEF Over
  <2>2. CASE g.fn = "trigger"
    <3>1. g.of = flip_pending' => vb'[g.of].window # NoWin
      BY <2>2 DEF Apart
    <3> QED
      BY <2>2, <3>1 DEF Sound, OwnerFns
  <2>3. CASE g.fn # "trigger"
    <3>1. g.fn \in HoldFns \cup {"trigger"} => Same(g.of) /\ (g.of = flip_pending' => g.of = flip_pending)
      BY <2>3 DEF Apart
    <3> QED
      BY <2>1, <3>1, SoundBelow
  <2> QED
    BY <2>2, <2>3
<1>4. Calling'
  <2> DEFINE S == new \cup Elements(Rest)
  <2>1. \A f \in S : Sound(f)'
    BY <1>1, <1>3
  <2>2. ASSUME CallFns(S) \cap {"scrap", "create"} # {}, NEW f \in S, f.fn \in {"execute", "post"}
        PROVE  vb'[f.of].pixmap = FALSE
    <3>1. CallFns(Elements(Rest)) \cap {"scrap", "create"} # {}
      BY <1>1, <2>2 DEF CallFns
    <3>2. CASE f \in new
      BY <1>1, <2>2, <3>1, <3>2
    <3>3. CASE f \in Elements(Rest)
      <4>1. f.fn = "post" /\ f.fn \in HoldFns
        BY <1>2, <2>2, <3>3 DEF Over, TopFns, HoldFns, OwnerFns
      <4>2. Scrapping(stack)
        BY <1>2, <3>1 DEF Scrapping, CallFns
      <4>3. vb[f.of].pixmap = FALSE
        BY <1>2, <3>3, <4>1, <4>2 DEF Inv, Calling, Scraps
      <4> QED
        BY <3>3, <4>1, <4>3 DEF Apart, Same
    <3> QED
      BY <3>2, <3>3
  <2>3. Leaves(stack', S)
    BY <1>1
  <2>4. CallFns(S) \cap {"scrap", "create"} # {} =>
          \A f \in S : f.fn \in {"execute", "post"} => vb'[f.of].pixmap = FALSE
    BY <2>2, Zenon
  <2> HIDE DEF S
  <2> QED
    BY <2>1, <2>3, <2>4, CallingFrom
<1>5. ASSUME NEW q, q # Top.of, Owned(q) PROVE Owned(q)'
  <2>1. PICK f \in Elements(stack) : f.fn \in OwnerFns /\ f.of = q
    BY <1>5 DEF Owned
  <2>2. f \in Elements(Rest)
    BY <1>2, <1>5, <2>1
  <2>3. f \in Elements(stack')
    BY <1>1, <2>2 DEF Leaves
  <2> QED
    BY <2>1, <2>3 DEF Owned, Elements
<1> QED
  BY <1>4, <1>5

\* The request of a call that runs is not one that those below are about.
LEMMA HoldApart ==
  ASSUME Inv, stack # <<>>
  PROVE  /\ \A g \in Elements(Rest) : g.fn \in HoldFns /\ Top.fn \in HoldFns => g.of # Top.of
         /\ \A g \in Elements(Rest) : g.fn \in HoldFns => g.of \in Ids /\ g.of # flip_pending
         /\ \A g \in Elements(Rest) : g.fn = "trigger" => g.of \in Ids
<1>1. /\ Elements(Rest) \subseteq Frame
      /\ \A g \in Elements(Rest) : Sound(g) /\ Over(Top, g)
  BY Runs
<1>2. ASSUME NEW g \in Elements(Rest), g.fn \in HoldFns PROVE g.of \in Ids /\ g.of # flip_pending
  <2>1. g.of \in Ids
    BY <1>1, <1>2, FrameTyped
  <2>2. CASE g.fn \in OwnerFns
    BY <1>1, <2>1, <2>2 DEF Sound
  <2>3. CASE g.fn \in {"scrap", "abort"}
    <3>1. vb[g.of].queued = TRUE
      BY <1>1, <2>3 DEF Sound
    <3>2. g.of = flip_pending => vb[g.of].queued = FALSE
      BY <2>1 DEF Inv, Lists, Placed, WithDriver
    <3> QED
      BY <2>1, <3>1, <3>2
  <2> QED
    BY <1>2, <2>2, <2>3 DEF HoldFns
<1>3. \A g \in Elements(Rest) : g.fn = "trigger" => g.of \in Ids
  BY <1>1, FrameTyped
<1>4. \A g \in Elements(Rest) : g.fn \in HoldFns /\ Top.fn \in HoldFns => g.of # Top.of
  BY <1>1 DEF Over
<1> QED
  BY <1>2, <1>3, <1>4

LEMMA ExecuteApart ==
  ASSUME Inv, stack # <<>>, Top.fn = "execute"
  PROVE  \A g \in Elements(Rest) : g.fn \in HoldFns => g.of # Top.of
<1>1. /\ Elements(Rest) \subseteq Frame /\ Elements(stack) = {Top} \cup Elements(Rest)
      /\ \A g \in Elements(Rest) : Sound(g) /\ Over(Top, g)
      /\ Sound(Top) /\ Top \in Frame
  BY Runs
<1>2. Top.of \in Ids
  BY <1>1, FrameTyped
<1> SUFFICES ASSUME NEW g \in Elements(Rest), g.fn \in HoldFns, g.of = Top.of PROVE FALSE
  OBVIOUS
<1>3. g.of # flip_pending
  BY HoldApart
<1>4. vb[g.of].queued = TRUE
  BY <1>1, <1>3 DEF Sound
<1>5. g.fn \notin OwnerFns
  BY <1>1, <1>4 DEF Sound
<1>6. g.fn # "abort"
  BY <1>1 DEF Over
<1>7. g.fn = "scrap"
  BY <1>5, <1>6 DEF HoldFns
<1>8. Scrapping(stack)
  BY <1>1, <1>7 DEF Scrapping
<1>9. vb[g.of].pixmap = FALSE
  BY <1>1, <1>8 DEF Inv, Calling, Scraps
<1>10. vb[g.of].pixmap = TRUE
  BY <1>1, <1>7 DEF Sound
<1> QED
  BY <1>9, <1>10

\* The lists, when requests other than r stay.
LEMMA ListsStep ==
  ASSUME Inv, NEW r, \A q \in Ids : q # r => Stays(q), r \in Ids => Placed(r)',
         Once(exec_queue)', Once(flip_queue)', \A w \in Windows : Once(window_list[w])'
  PROVE  Lists'
<1>1. \A q \in Ids : Placed(q)'
  <2> TAKE q \in Ids
  <2>1. CASE q = r
    BY <2>1
  <2>2. CASE q # r
    BY <2>2, StaysPlaced DEF Inv, Lists
  <2> QED
    BY <2>1, <2>2
<1> QED
  BY <1>1 DEF Lists
LEMMA OnceKept ==
  ASSUME Inv, UNCHANGED queues
  PROVE  Once(exec_queue)' /\ Once(flip_queue)' /\ \A w \in Windows : Once(window_list[w])'
  BY DEF Inv, Lists, Once
LEMMA TypeStep ==
  ASSUME Typed', NEW S, Leaves(stack', S)
  PROVE  TypeOK'
  BY TypeParts DEF Leaves, Typed, TypeOK
-----------------------------------------------------------------------------
(***************************************************************************)
(* What the windows draw to.                                               *)
(***************************************************************************)
LEMMA DrawableTyped ==
  ASSUME TypeOK
  PROVE  /\ winpix \in [Drawable -> Ids \cup {Screen}] /\ DOMAIN winpix = Drawable
         /\ Root \in Drawable /\ Windows \subseteq Drawable /\ Root \notin Windows
         /\ NoWin \notin Drawable
  BY PresentAssumption DEF TypeOK, Drawable

LEMMA RestoresScreen ==
  ASSUME Inv, flip_pending = NoId \/ Accepted
  PROVE  \A x \in Drawable : RestoreScreenPixmap(winpix)[x] = Screen
<1> DEFINE w == IF flip_pending # NoId THEN vb[flip_pending].window ELSE flip_window
           p == IF flip_pending # NoId THEN flip_pending ELSE flip_pixmap
           tree == IF w = NoWin THEN winpix ELSE SetTreePixmap(winpix, w, p, Screen)
<1>1. /\ winpix \in [Drawable -> Ids \cup {Screen}] /\ DOMAIN winpix = Drawable
      /\ Root \in Drawable /\ Windows \subseteq Drawable /\ Root \notin Windows
      /\ NoWin \notin Drawable
  BY DrawableTyped DEF Inv
<1>2. p = Shown /\ w = ShownIn
  BY DEF Shown, ShownIn, Accepted
<1>3. w \in Windows \cup {NoWin}
  <2>1. CASE flip_pending = NoId
    BY <2>1 DEF Inv, TypeOK
  <2>2. CASE flip_pending # NoId
    <3>1. flip_pending \in Ids
      BY <2>2 DEF Inv, TypeOK
    <3> QED
      BY <2>2, <3>1, FieldTypes DEF Inv
  <2> QED
    BY <2>1, <2>2
<1>4. RestoreScreenPixmap(winpix) = SetTreePixmap(tree, Root, AnyPixmap, Screen)
  BY DEF RestoreScreenPixmap
<1>5. /\ \A x \in Drawable : winpix[x] \in {Screen, p}
      /\ \A x \in Drawable : x # w /\ winpix[x] # Screen => winpix[Root] # Screen
  BY <1>2 DEF Inv, Drawn
<1> HIDE DEF w, p
<1>6. /\ DOMAIN tree = Drawable
      /\ \A x \in Drawable : x # w => tree[x] = winpix[x]
      /\ w # NoWin => tree[w] = Screen
  <2>1. CASE w = NoWin
    BY <1>1, <2>1
  <2>2. CASE w # NoWin
    <3>1. w \in Drawable /\ w # Root
      BY <1>1, <1>3, <2>2
    <3>2. CASE p = winpix[w]
      BY <1>1, <2>2, <3>1, <3>2 DEF SetTreePixmap
    <3>3. CASE p # winpix[w]
      <4>1. winpix[w] = Screen
        BY <1>5, <3>1, <3>3
      <4>2. tree = winpix \/ p \in {AnyPixmap, winpix[w]}
        BY <2>2 DEF SetTreePixmap
      <4>3. p # AnyPixmap
        <5>1. Shown \in Ids \cup {NoId}
          BY DEF Inv, TypeOK, Shown
        <5>2. AnyPixmap = -1
          BY DEF AnyPixmap
        <5>3. Shown # -1
          BY <5>1, IdsNat
        <5> QED
          BY <1>2, <5>2, <5>3
      <4> QED
        BY <1>1, <3>3, <4>1, <4>2, <4>3
    <3> QED
      BY <3>2, <3>3
  <2> QED
    BY <2>1, <2>2
<1> HIDE DEF tree
<1>7. \A x \in Drawable : SetTreePixmap(tree, Root, AnyPixmap, Screen)[x]
                          = IF x = Root \/ tree[x] = tree[Root] THEN Screen ELSE tree[x]
  BY <1>6 DEF SetTreePixmap
<1> SUFFICES ASSUME NEW x \in Drawable, x # Root, tree[x] # tree[Root] PROVE tree[x] = Screen
  BY <1>4, <1>7
<1>8. Root # w
  BY <1>1, <1>3
<1>9. CASE x = w
  BY <1>1, <1>3, <1>6, <1>9
<1>10. CASE x # w
  BY <1>1, <1>5, <1>6, <1>8, <1>10
<1> QED
  BY <1>9, <1>10

LEMMA AllScreen ==
  ASSUME \A x \in Drawable : winpix'[x] = Screen
  PROVE  Drawn'
  BY DEF Drawn, Drawable

LEMMA FlipPixmapsShow ==
  ASSUME Inv, Running("flip"), NEW r, r = Top.of
  PROVE  /\ \A x \in Drawable : FlipPixmaps(r)[x] \in {Screen, r}
         /\ FlipPixmaps(r)[Root] = r /\ r \in Ids
<1> DEFINE w    == vb[r].window
           prev == IF flip_window \in {NoWin, w} THEN winpix
                   ELSE SetTreePixmap(winpix, flip_window, flip_pixmap, Screen)
           mid  == SetTreePixmap(prev, w, AnyPixmap, r)
           last == SetTreePixmap(mid, Root, AnyPixmap, r)
<1>1. /\ winpix \in [Drawable -> Ids \cup {Screen}] /\ DOMAIN winpix = Drawable
      /\ Root \in Drawable /\ Windows \subseteq Drawable /\ Root \notin Windows
      /\ NoWin \notin Drawable /\ Root # NoWin
  BY DrawableTyped, PresentAssumption DEF Inv
<1>2. /\ \A x \in Drawable : winpix[x] \in {Screen, flip_pixmap}
      /\ \A x \in Drawable : x # flip_window /\ winpix[x] # Screen => winpix[Root] # Screen
  BY DEF Inv, Drawn, Shown, ShownIn, Accepted
<1>3. FlipPixmaps(r) = last
  BY DEF FlipPixmaps
<1>4. r \in Ids /\ w \in Windows /\ flip_window \in Windows \cup {NoWin}
  <2>1. stack # <<>> /\ Top.fn = "flip" /\ Top.of \in Ids
    BY RunsFn
  <2>2. Sound(Top)
    BY <2>1, Runs
  <2> QED
    BY <2>1, <2>2 DEF Sound, Inv, TypeOK
<1> HIDE DEF w
<1>5. /\ DOMAIN prev = Drawable
      /\ \A x \in Drawable : x # flip_window => prev[x] = winpix[x]
      /\ flip_window \notin {NoWin, w} => prev[flip_window] = Screen
      /\ flip_window \in {NoWin, w} => prev = winpix
  <2>1. CASE flip_window \in {NoWin, w}
    BY <1>1, <2>1
  <2>2. CASE flip_window \notin {NoWin, w}
    <3>1. flip_window \in Drawable /\ flip_window # Root
      BY <1>1, <1>4, <2>2
    <3>2. CASE flip_pixmap = winpix[flip_window]
      BY <1>1, <2>2, <3>1, <3>2 DEF SetTreePixmap
    <3>3. CASE flip_pixmap # winpix[flip_window]
      <4>1. winpix[flip_window] = Screen
        BY <1>2, <3>1, <3>3
      <4>2. flip_pixmap # AnyPixmap
        <5>1. flip_pixmap \in Ids \cup {NoId} /\ AnyPixmap = -1
          BY DEF Inv, TypeOK, AnyPixmap
        <5>2. flip_pixmap # -1
          BY <5>1, IdsNat
        <5> QED
          BY <5>1, <5>2
      <4>3. prev = winpix
        BY <2>2, <3>3, <4>2 DEF SetTreePixmap
      <4> QED
        BY <1>1, <2>2, <4>1, <4>3
    <3> QED
      BY <3>2, <3>3
  <2> QED
    BY <2>1, <2>2
<1> HIDE DEF prev
<1>6. w \in Drawable /\ w # Root
  BY <1>1, <1>4
<1>7. /\ DOMAIN mid = Drawable
      /\ \A x \in Drawable : mid[x] = IF x = w THEN r ELSE prev[x]
  BY <1>5, <1>6 DEF SetTreePixmap
<1> HIDE DEF mid
<1>8. \A x \in Drawable : last[x] = IF x = Root \/ mid[x] = mid[Root] THEN r ELSE mid[x]
  BY <1>7 DEF SetTreePixmap
<1> HIDE DEF last
<1>9. ASSUME NEW x \in Drawable, x # Root, x # w, prev[x] # Screen PROVE prev[x] = prev[Root]
  <2>1. flip_window # Root
    BY <1>1, <1>4
  <2>2. x # flip_window
    <3>1. CASE flip_window = w
      BY <1>9, <3>1
    <3>2. CASE flip_window # w
      BY <1>1, <1>5, <1>9, <3>2
    <3> QED
      BY <3>1, <3>2
  <2>3. prev[x] = winpix[x] /\ prev[Root] = winpix[Root]
    BY <1>1, <1>5, <2>1, <2>2
  <2> QED
    BY <1>1, <1>2, <1>9, <2>2, <2>3
<1>10. ASSUME NEW x \in Drawable PROVE last[x] \in {Screen, r}
  <2>1. CASE x = Root \/ x = w
    BY <1>7, <1>8, <2>1
  <2>2. CASE x # Root /\ x # w
    <3>1. mid[x] = prev[x] /\ mid[Root] = prev[Root]
      BY <1>1, <1>6, <1>7, <2>2
    <3> QED
      BY <1>8, <1>9, <2>2, <3>1
  <2> QED
    BY <2>1, <2>2
<1>11. last[Root] = r
  BY <1>1, <1>8
<1> QED
  BY <1>3, <1>4, <1>10, <1>11
-----------------------------------------------------------------------------
(***************************************************************************)
(* Flips begin, and end.                                                   *)
(***************************************************************************)
\* Nothing but the flips and what the windows draw to changes.
LEMMA StaysQuiet ==
  ASSUME NEW q \in Ids, Same(q), UNCHANGED queues, q = flip_pending' <=> q = flip_pending,
         Owned(q) => Owned(q)'
  PROVE  Stays(q)
  BY DEF Stays

LEMMA ListsStay ==
  ASSUME Inv, \A q \in Ids : Stays(q), UNCHANGED queues
  PROVE  Lists'
<1>1. \A q \in Ids : Placed(q)'
  BY StaysPlaced DEF Inv, Lists
<1> QED
  BY <1>1, OnceKept DEF Lists

LEMMA KeepsFlipSucceeds == ASSUME Inv, FlipSucceeds PROVE Inv'
<1>1. stack # <<>> /\ Top.fn = "flip" /\ Top.of \in Ids /\ Running("flip")
  BY RunsFn DEF FlipSucceeds
<1>2. Sound(Top) /\ Leaves(Rest, Elements(Rest)) /\ \A g \in Elements(Rest) : Over(Top, g)
  BY <1>1, Runs
<1>3. Leaves(stack', {} \cup Elements(Rest))
  BY <1>2, Returns DEF FlipSucceeds, Continue, Rest
<1>4. Replaces({})
  BY <1>1, <1>3, Zenon DEF Replaces
<1>5. \A q \in Ids : Same(q)
  BY SameAll DEF FlipSucceeds
<1>6. Apart
  <2>1. Sound(Top) /\ Top.of = flip_pending
    BY <1>1, <1>2 DEF Sound
  <2>2. \A g \in Elements(Rest) : g.fn = "trigger" /\ g.of = flip_pending' => vb'[g.of].window # NoWin
    BY <1>1, <1>2, <2>1, PresentAssumption DEF Sound, FlipSucceeds
  <2> QED
    BY <1>1, <1>5, <2>2, HoldApart DEF Apart, FlipSucceeds
<1>7. Calling' /\ \A q : q # Top.of => (Owned(q) => Owned(q)')
  BY <1>4, <1>6, CallingStep
<1>8. ~Owned(Top.of)
  <2>1. Elements(stack) = {Top} \cup Elements(Rest)
    BY <1>1, Runs
  <2>2. \A g \in Elements(Rest) : g.fn \in OwnerFns => g.of # flip_pending
    BY <1>1, HoldApart DEF HoldFns
  <2>3. Top.of = flip_pending
    BY <1>1, <1>2 DEF Sound
  <2> QED
    BY <1>1, <2>1, <2>2, <2>3 DEF Owned, OwnerFns
<1>9. \A q \in Ids : Stays(q)
  BY <1>5, <1>7, <1>8, StaysQuiet DEF FlipSucceeds
<1>10. Lists'
  BY <1>9, ListsStay DEF FlipSucceeds
<1>11. Flipping'
  BY <1>1, IdsNat, FlippingKept DEF FlipSucceeds, Inv
<1>12. Drawn'
  <2>1. /\ \A x \in Drawable : FlipPixmaps(Top.of)[x] \in {Screen, Top.of}
        /\ FlipPixmaps(Top.of)[Root] = Top.of
    BY <1>1, FlipPixmapsShow
  <2>2. Top.of = flip_pending /\ vb[Top.of].abort = FALSE
    BY <1>1, <1>2 DEF Sound
  <2>3. \A f \in {} \cup Elements(Rest) : f.fn # "flip"
    BY <1>2 DEF Over, TopFns
  <2>4. ~(stack' # <<>> /\ Head(stack').fn = "flip")
    BY <1>3, <2>3, NotRunning
  <2>5. Accepted' /\ Shown' = Top.of /\ Top.of # NoId /\ Top.of # Screen
    BY <1>1, <2>2, <2>4, IdsNat DEF Accepted, Running, Top, Shown, FlipSucceeds
  <2>6. unflip = FALSE
    BY <2>2, <1>1, IdsNat DEF Inv, TypeOK, Flipping
  <2>7. ~Ending'
    BY <2>2, <2>6 DEF Ending, FlipSucceeds
  <2> QED
    BY <2>1, <2>5, <2>7 DEF Drawn, Drawable, FlipSucceeds
<1>13. TypeOK'
  BY <1>3, TypedFlip, TypeStep
<1> QED
  BY <1>7, <1>10, <1>11, <1>12, <1>13 DEF Inv

LEMMA StartsUnflip == ASSUME Inv, StartUnflip PROVE Inv'
<1>1. stack # <<>> /\ Top.fn = "unflip"
  BY RunsFn DEF StartUnflip
<1>2. Sound(Top) /\ Leaves(Rest, Elements(Rest)) /\ \A g \in Elements(Rest) : Over(Top, g)
  BY <1>1, Runs
<1>3. unflip = FALSE /\ flip_pending = NoId /\ flip_pixmap # NoId /\ unflip' = TRUE
  BY <1>1, <1>2 DEF Sound, StartUnflip
<1> DEFINE c == Call("unflipped", NoId)
<1>4. c \in Frame /\ c.fn = "unflipped"
  BY CallTyped DEF OtherFns
<1>5. \A g \in Elements(Rest) : Over(c, g)
  BY <1>1, <1>2, <1>4 DEF Over, HoldFns, OwnerFns
<1>6. PICK new \in {{}, {c}} : Leaves(stack', new \cup Elements(Rest)) /\ (c \in new => UNCHANGED flips)
  <2>1. CASE Continue(<<>>)
    <3>1. Leaves(stack', {} \cup Elements(Rest))
      BY <1>2, <2>1, Returns DEF Continue, Rest
    <3> QED
      BY <3>1
  <2>2. CASE Continue(<<c>>) /\ UNCHANGED flips
    <3>1. Leaves(<<c>> \o Rest, {c} \cup Elements(Rest))
      BY <1>2, <1>4, <1>5, GoesOn
    <3>2. Leaves(stack', {c} \cup Elements(Rest))
      BY <2>2, <3>1 DEF Continue, Rest
    <3> QED
      BY <2>2, <3>2
  <2> QED
    BY <2>1, <2>2 DEF StartUnflip
<1> HIDE DEF c
<1>7. \A f \in new : Sound(f)' /\ f.fn = "unflipped"
  <2> SUFFICES ASSUME c \in new PROVE Sound(c)'
    BY <1>4, <1>6
  <2>1. Unflip \notin flips'
    BY <1>3, <1>6 DEF Inv, Flipping
  <2> QED
    BY <1>3, <1>4, <2>1 DEF Sound, OwnerFns
<1>8. Replaces(new)
  BY <1>1, <1>6, <1>7, Zenon DEF Replaces
<1>9. \A q \in Ids : Same(q)
  BY SameAll DEF StartUnflip
<1>10. Apart
  <2>1. \A g \in Elements(Rest) : g.fn = "trigger" /\ g.of = flip_pending' => vb'[g.of].window # NoWin
    BY <1>1, <1>3, HoldApart, IdsNat DEF StartUnflip
  <2> QED
    BY <1>1, <1>9, <2>1, HoldApart DEF Apart, StartUnflip
<1>11. Calling' /\ \A q : q # Top.of => (Owned(q) => Owned(q)')
  BY <1>8, <1>10, CallingStep
<1>12. Top.of \notin Ids
  <2>1. Top \in Frame
    BY <1>1, Runs
  <2> QED
    BY <1>1, <2>1, IdsNat DEF Frame, VblankFns, WindowFns, OtherFns
<1>13. \A q \in Ids : Stays(q)
  BY <1>9, <1>11, <1>12, StaysQuiet DEF StartUnflip
<1>14. Lists'
  BY <1>13, ListsStay DEF StartUnflip
<1>15. Flipping'
  BY <1>3 DEF Inv, Flipping, StartUnflip
<1>16. Drawn'
  BY <1>3, RestoresScreen, AllScreen DEF StartUnflip
<1>17. TypeOK'
  BY <1>6, TypedUnflip, TypeStep
<1> QED
  BY <1>11, <1>14, <1>15, <1>16, <1>17 DEF Inv

LEMMA IdleFlipSame ==
  ASSUME TypeOK, NEW q \in Ids
  PROVE  /\ IdleFlip(vb)[q].st = vb[q].st /\ IdleFlip(vb)[q].queued = vb[q].queued
         /\ IdleFlip(vb)[q].abort = vb[q].abort /\ IdleFlip(vb)[q].window = vb[q].window
         /\ IdleFlip(vb)[q].pixmap = vb[q].pixmap /\ IdleFlip(vb)[q].flip = vb[q].flip
         /\ IdleFlip(vb)[q].fence = vb[q].fence
         /\ IdleFlip(vb) \in [Ids -> Vblank]
         /\ IdleFlip(vb)[q] = IF q = flip_pixmap /\ q # NoId THEN [vb[q] EXCEPT !.idled = @ + 1] ELSE vb[q]
<1>1. vb \in [Ids -> Vblank] /\ vb[q] \in Vblank
  BY DEF TypeOK
<1>2. IdleFlip(vb)[q] = IF q = flip_pixmap /\ q # NoId THEN [vb[q] EXCEPT !.idled = @ + 1] ELSE vb[q]
  BY <1>1 DEF IdleFlip
<1>3. /\ [vb[q] EXCEPT !.idled = @ + 1].st = vb[q].st
      /\ [vb[q] EXCEPT !.idled = @ + 1].queued = vb[q].queued
      /\ [vb[q] EXCEPT !.idled = @ + 1].abort = vb[q].abort
      /\ [vb[q] EXCEPT !.idled = @ + 1].window = vb[q].window
      /\ [vb[q] EXCEPT !.idled = @ + 1].pixmap = vb[q].pixmap
      /\ [vb[q] EXCEPT !.idled = @ + 1].flip = vb[q].flip
      /\ [vb[q] EXCEPT !.idled = @ + 1].fence = vb[q].fence
  BY <1>1 DEF Vblank
<1> QED
  BY <1>2, <1>3, IdleFlipTyped

LEMMA KeepsUnflipNotify == ASSUME Inv, UnflipNotify PROVE Inv'
<1>1. stack # <<>> /\ Top.fn = "unflipped"
  BY RunsFn DEF UnflipNotify
<1>2. Sound(Top) /\ Leaves(Rest, Elements(Rest)) /\ \A g \in Elements(Rest) : Over(Top, g)
  BY <1>1, Runs
<1>3. unflip = TRUE /\ Unflip \notin flips /\ flip_pending = NoId
  BY <1>1, <1>2 DEF Sound, Inv, Flipping
<1> DEFINE c == Call("try_ready", NoId)
<1>4. c \in Frame /\ c.fn = "try_ready"
  BY CallTyped DEF OtherFns
<1>5. \A g \in Elements(Rest) : Over(c, g)
  BY <1>1, <1>2, <1>4 DEF Over, HoldFns, OwnerFns
<1>6. Leaves(stack', {c} \cup Elements(Rest))
  <2>1. Leaves(<<c>> \o Rest, {c} \cup Elements(Rest))
    BY <1>2, <1>4, <1>5, GoesOn
  <2> QED
    BY <2>1 DEF Continue, Rest, UnflipNotify
<1> HIDE DEF c
<1>7. \A f \in {c} : Sound(f)' /\ f.fn = "try_ready"
  BY <1>4 DEF Sound, OwnerFns
<1>8. Replaces({c})
  BY <1>1, <1>6, <1>7, Zenon DEF Replaces
<1>9. \A q \in Ids : Same(q)
  BY IdleFlipSame DEF UnflipNotify, Same, Inv
<1>10. Apart
  <2>1. \A g \in Elements(Rest) : g.fn = "trigger" /\ g.of = flip_pending' => vb'[g.of].window # NoWin
    BY <1>1, <1>3, HoldApart, IdsNat DEF UnflipNotify
  <2> QED
    BY <1>1, <1>9, <2>1, HoldApart DEF Apart, UnflipNotify
<1>11. Calling' /\ \A q : q # Top.of => (Owned(q) => Owned(q)')
  BY <1>8, <1>10, CallingStep
<1>12. Top.of \notin Ids
  <2>1. Top \in Frame
    BY <1>1, Runs
  <2> QED
    BY <1>1, <2>1, IdsNat DEF Frame, VblankFns, WindowFns, OtherFns
<1>13. \A q \in Ids : Stays(q)
  BY <1>9, <1>11, <1>12, StaysQuiet DEF UnflipNotify
<1>14. Lists'
  BY <1>13, ListsStay DEF UnflipNotify
<1>15. Flipping'
  BY <1>3 DEF Inv, Flipping, UnflipNotify
<1>16. Drawn'
  <2>1. \A x \in Drawable : winpix[x] = Screen
    BY <1>3 DEF Inv, Drawn, Ending
  <2> QED
    BY <2>1, AllScreen DEF UnflipNotify
<1>17. TypeOK'
  BY <1>6, TypedUnflip, TypeStep
<1> QED
  BY <1>11, <1>14, <1>15, <1>16, <1>17 DEF Inv
-----------------------------------------------------------------------------
\* present_set_abort_flip, or nothing.
MayAbort ==
  /\ UNCHANGED <<queues, flip, flips, fences>>
  /\ (flip_pending # NoId /\ SetAbortFlip) \/ UNCHANGED <<vb, winpix>>

LEMMA AbortsFlip ==
  ASSUME Inv, MayAbort
  PROVE  /\ \A q \in Ids : q # flip_pending => Same(q)
         /\ \A q \in Ids : /\ vb'[q].st = vb[q].st /\ vb'[q].queued = vb[q].queued
                           /\ vb'[q].window = vb[q].window /\ vb'[q].pixmap = vb[q].pixmap
                           /\ vb'[q].flip = vb[q].flip /\ vb'[q].fence = vb[q].fence
<1>1. CASE UNCHANGED <<vb, winpix>>
  BY <1>1 DEF Same
<1>2. CASE flip_pending # NoId /\ SetAbortFlip
  <2>1. CASE vb[flip_pending].abort
    BY <1>2, <2>1 DEF SetAbortFlip, Same
  <2>2. CASE ~vb[flip_pending].abort
    <3>1. vb' = [vb EXCEPT ![flip_pending].abort = TRUE] /\ vb \in [Ids -> Vblank] /\ flip_pending \in Ids
      BY <1>2, <2>2 DEF SetAbortFlip, Inv, TypeOK
    <3>2. vb[flip_pending] \in Vblank
      BY <3>1
    <3>3. vb' = [vb EXCEPT ![flip_pending] = [vb[flip_pending] EXCEPT !.abort = TRUE]]
      BY <3>1
    <3>4. \A q \in Ids : vb'[q] = IF q = flip_pending THEN [vb[flip_pending] EXCEPT !.abort = TRUE] ELSE vb[q]
      BY <3>1, <3>3
    <3> DEFINE v == vb[flip_pending]
    <3>5. LET n == [v EXCEPT !.abort = TRUE]
          IN /\ n.st = v.st /\ n.queued = v.queued /\ n.window = v.window /\ n.pixmap = v.pixmap
             /\ n.flip = v.flip /\ n.fence = v.fence
      BY <3>2 DEF Vblank
    <3> QED
      BY <3>4, <3>5 DEF Same
  <2> QED
    BY <2>1, <2>2
<1> QED
  BY <1>1, <1>2 DEF MayAbort

LEMMA AbortKeeps ==
  ASSUME Inv, MayAbort, ~Running("flip"), ~Running("flip")', \A q : Owned(q) => Owned(q)'
  PROVE  Lists' /\ Drawn' /\ Flipping'
<1>1. /\ \A q \in Ids : q # flip_pending => Same(q)
      /\ \A q \in Ids : /\ vb'[q].st = vb[q].st /\ vb'[q].queued = vb[q].queued
                        /\ vb'[q].window = vb[q].window /\ vb'[q].pixmap = vb[q].pixmap
                        /\ vb'[q].flip = vb[q].flip /\ vb'[q].fence = vb[q].fence
  BY AbortsFlip
<1>2. Lists'
  <2>1. \A q \in Ids : q # flip_pending => Stays(q)
    BY <1>1, StaysQuiet DEF MayAbort
  <2>2. flip_pending \in Ids => Placed(flip_pending)'
    <3> SUFFICES ASSUME flip_pending \in Ids PROVE Placed(flip_pending)'
      OBVIOUS
    <3>1. WithDriver(flip_pending) /\ Placed(flip_pending)
      BY DEF Inv, Lists, Placed
    <3>2. UNCHANGED <<exec_queue, flip_queue, window_list, flip_pending>>
      BY DEF MayAbort
    <3> QED
      BY <1>1, <3>1, <3>2 DEF Placed, WithDriver, Live
  <2> QED
    BY <2>1, <2>2, ListsStep, OnceKept DEF MayAbort
<1>3. Flipping'
  <2>1. flip_pending # NoId => vb'[flip_pending].fence = vb[flip_pending].fence
    BY <1>1 DEF Inv, TypeOK
  <2> QED
    BY <2>1, FlippingKept DEF Inv, MayAbort
<1>4. Drawn'
  <2>1. CASE UNCHANGED <<vb, winpix>>
    BY <2>1, DrawnKept DEF Accepted, MayAbort, Inv
  <2>2. CASE flip_pending # NoId /\ SetAbortFlip /\ winpix' = RestoreScreenPixmap(winpix)
    BY <2>2, RestoresScreen, AllScreen DEF Accepted
  <2> QED
    BY <2>1, <2>2 DEF MayAbort, SetAbortFlip
<1> QED
  BY <1>2, <1>3, <1>4

LEMMA AbortApart ==
  ASSUME Inv, MayAbort, stack # <<>>
  PROVE  Apart
<1>1. /\ \A q \in Ids : q # flip_pending => Same(q)
      /\ \A q \in Ids : vb'[q].window = vb[q].window
  BY AbortsFlip
<1>2. \A g \in Elements(Rest) : g.fn = "trigger" => Sound(g)
  BY Runs
<1>3. \A g \in Elements(Rest) : g.fn = "trigger" /\ g.of = flip_pending => vb[g.of].window # NoWin
  BY <1>2 DEF Sound
<1> QED
  BY <1>1, <1>3, HoldApart DEF Apart, MayAbort

\* The calls that may end a flip: that of the window w, when it has been flipped.
LEMMA UnflipSound ==
  ASSUME Inv, NEW w \in Windows, Unflips(w), UNCHANGED flip, NEW c, c.fn = "unflip"
  PROVE  Sound(c)'
<1>1. flip_pending = NoId /\ unflip = FALSE /\ flip_pixmap # NoId
  BY PresentAssumption DEF Unflips, Inv, Flipping, TypeOK
<1> QED
  BY <1>1 DEF Sound, OwnerFns

LEMMA KeepsCheckFlipWindow == ASSUME Inv, CheckFlipWindow PROVE Inv'
<1>1. stack # <<>> /\ Top.fn = "check" /\ Top.of \in Windows
  BY RunsFn DEF CheckFlipWindow, WindowFns
<1>2. Leaves(Rest, Elements(Rest)) /\ \A g \in Elements(Rest) : Over(Top, g)
  BY <1>1, Runs
<1>3. MayAbort
  BY DEF MayAbort, CheckFlipWindow, Aborts
<1>4. PICK w \in Windows : w = Top.of
  BY <1>1
<1> DEFINE u == Call("unflip", NoId)
           c == Call("check_queued", w)
           stops == ~unflip /\ ~CheckFlip(w)
<1>5. u \in Frame /\ u.fn = "unflip" /\ c \in Frame /\ c.fn = "check_queued"
  BY <1>4, CallTyped DEF OtherFns, WindowFns
<1>6. Continue(If(stops /\ Unflips(w), <<u>>) \o If(~unflip, <<c>>))
  BY <1>4 DEF CheckFlipWindow
<1> HIDE DEF u, c, stops
<1>7. /\ \A g \in Elements(Rest) : Over(u, g) /\ Over(c, g)
      /\ Over(u, c)
  BY <1>1, <1>2, <1>5 DEF Over, HoldFns, OwnerFns, TopFns
<1>8. PICK new \in {{}, {c}, {u, c}} :
        Leaves(stack', new \cup Elements(Rest)) /\ (u \in new => Unflips(w) \/ u = c)
  <2>1. CASE unflip
    <3>1. ~Unflips(w)
      BY <2>1 DEF Unflips
    <3>2. If(stops /\ Unflips(w), <<u>>) \o If(~unflip, <<c>>) = <<>>
      BY <2>1, <3>1 DEF If
    <3>3. Leaves(stack', {} \cup Elements(Rest))
      BY <1>2, <1>6, <3>2, Returns DEF Continue, Rest
    <3> QED
      BY <3>3
  <2>2. CASE ~unflip /\ ~(stops /\ Unflips(w))
    <3>1. If(stops /\ Unflips(w), <<u>>) \o If(~unflip, <<c>>) = <<c>>
      BY <2>2, <1>2, <1>5, TwoFrames DEF If, Leaves
    <3>2. Leaves(<<c>> \o Rest, {c} \cup Elements(Rest))
      BY <1>2, <1>5, <1>7, GoesOn
    <3>3. Leaves(stack', {c} \cup Elements(Rest))
      BY <1>6, <3>1, <3>2 DEF Continue, Rest
    <3> QED
      BY <3>3
  <2>3. CASE ~unflip /\ stops /\ Unflips(w)
    <3>1. Leaves(<<u, c>> \o Rest, {u, c} \cup Elements(Rest)) /\ <<u>> \o <<c>> = <<u, c>>
      BY <1>2, <1>5, <1>7, GoesOnTwice
    <3>2. If(stops /\ Unflips(w), <<u>>) \o If(~unflip, <<c>>) = <<u, c>>
      BY <2>3, <3>1 DEF If
    <3>3. Leaves(stack', {u, c} \cup Elements(Rest))
      BY <1>6, <3>1, <3>2 DEF Continue, Rest
    <3> QED
      BY <2>3, <3>3
  <2> QED
    BY <2>1, <2>2, <2>3
<1>9. \A f \in new : Sound(f)' /\ f.fn \in {"unflip", "check_queued"}
  <2>1. Sound(c)'
    BY <1>5 DEF Sound, OwnerFns
  <2>2. u \in new => Sound(u)'
    BY <1>5, <1>8, <2>1, UnflipSound DEF CheckFlipWindow
  <2> QED
    BY <1>5, <1>8, <2>1, <2>2
<1>10. Replaces(new)
  BY <1>1, <1>8, <1>9, Zenon DEF Replaces
<1>11. Calling' /\ \A q : q # Top.of => (Owned(q) => Owned(q)')
  BY <1>1, <1>3, <1>10, AbortApart, CallingStep
<1>12. \A q : Owned(q) => Owned(q)'
  <2>1. Elements(stack) = {Top} \cup Elements(Rest)
    BY <1>1, Runs
  <2>2. ASSUME NEW q, Owned(q) PROVE Owned(q)'
    <3>1. PICK f \in Elements(stack) : f.fn \in OwnerFns /\ f.of = q
      BY <2>2 DEF Owned
    <3>2. f \in Elements(Rest)
      BY <1>1, <2>1, <3>1 DEF OwnerFns
    <3>3. f \in Elements(stack')
      BY <1>8, <3>2 DEF Leaves
    <3> QED
      BY <3>1, <3>3 DEF Owned, Elements
  <2> QED
    BY <2>2
<1>13. ~Running("flip") /\ ~Running("flip")'
  <2>1. \A f \in new \cup Elements(Rest) : f.fn # "flip"
    BY <1>2, <1>9 DEF Over, TopFns
  <2>2. ~(stack' # <<>> /\ Head(stack').fn = "flip")
    BY <1>8, <2>1, NotRunning
  <2> QED
    BY <1>1, <2>2 DEF Running, Top
<1>14. Lists' /\ Drawn' /\ Flipping'
  BY <1>3, <1>12, <1>13, AbortKeeps
<1>15. TypeOK'
  BY <1>8, TypedCheckFlipWindow, TypeStep
<1> QED
  BY <1>11, <1>14, <1>15 DEF Inv

LEMMA KeepsFlipOver == ASSUME Inv, FlipOver PROVE Inv'
<1>1. stack # <<>> /\ Top.fn = "flip_over" /\ Top.of \in Ids
  BY RunsFn DEF FlipOver, HoldFns, OwnerFns
<1>2. /\ Leaves(Rest, Elements(Rest)) /\ \A g \in Elements(Rest) : Over(Top, g)
      /\ Sound(Top)
  BY <1>1, Runs
<1>3. MayAbort
  BY DEF MayAbort, FlipOver, Aborts
<1>4. PICK r \in Ids : r = Top.of
  BY <1>1
<1>5. /\ Live(r) /\ vb[r].queued = FALSE /\ r # flip_pending /\ vb[r].window \in Windows
      /\ vb[r].abort = FALSE /\ vb[r].pixmap = TRUE /\ vb[r].flip = FALSE
  BY <1>1, <1>2, <1>4 DEF Sound, OwnerFns
<1>6. Same(r)
  BY <1>3, <1>5, AbortsFlip
<1> DEFINE u == Call("unflip", NoId)
           c == Call("copy", r)
<1>7. u \in Frame /\ u.fn = "unflip" /\ c \in Frame /\ c.fn = "copy" /\ c.of = r
  BY CallTyped DEF OtherFns, VblankFns
<1>8. Continue(If(Unflips(vb[r].window), <<u>>) \o <<c>>)
  BY <1>4 DEF FlipOver
<1> HIDE DEF u, c
<1>9. /\ \A g \in Elements(Rest) : Over(u, g) /\ Over(c, g)
      /\ Over(u, c)
  BY <1>1, <1>2, <1>4, <1>7 DEF Over, HoldFns, OwnerFns, TopFns
<1>10. PICK new \in {{c}, {u, c}} :
        Leaves(stack', new \cup Elements(Rest)) /\ (u \in new => Unflips(vb[r].window) \/ u = c)
  <2>1. CASE ~Unflips(vb[r].window)
    <3>1. If(Unflips(vb[r].window), <<u>>) \o <<c>> = <<c>>
      BY <2>1, <1>2, <1>7, TwoFrames DEF If, Leaves
    <3>2. Leaves(<<c>> \o Rest, {c} \cup Elements(Rest))
      BY <1>2, <1>7, <1>9, GoesOn
    <3>3. Leaves(stack', {c} \cup Elements(Rest))
      BY <1>8, <3>1, <3>2 DEF Continue, Rest
    <3> QED
      BY <3>3
  <2>2. CASE Unflips(vb[r].window)
    <3>1. Leaves(<<u, c>> \o Rest, {u, c} \cup Elements(Rest)) /\ <<u>> \o <<c>> = <<u, c>>
      BY <1>2, <1>7, <1>9, GoesOnTwice
    <3>2. If(Unflips(vb[r].window), <<u>>) \o <<c>> = <<u, c>>
      BY <2>2, <3>1 DEF If
    <3>3. Leaves(stack', {u, c} \cup Elements(Rest))
      BY <1>8, <3>1, <3>2 DEF Continue, Rest
    <3> QED
      BY <2>2, <3>3
  <2> QED
    BY <2>1, <2>2
<1>11. \A f \in new : Sound(f)' /\ f.fn \in {"unflip", "copy"}
  <2>1. Sound(c)'
    <3>1. /\ Live(r)' /\ vb'[r].queued = FALSE /\ r # flip_pending' /\ vb'[r].window \in Windows
          /\ vb'[r].abort = FALSE /\ vb'[r].pixmap = TRUE /\ vb'[r].flip = FALSE
      BY <1>5, <1>6 DEF Same, Live, FlipOver
    <3> QED
      BY <1>7, <3>1 DEF Sound, OwnerFns
  <2>2. u \in new => Sound(u)'
    BY <1>5, <1>7, <1>10, <2>1, UnflipSound DEF FlipOver
  <2> QED
    BY <1>7, <1>10, <2>1, <2>2
<1>12. Replaces(new)
  BY <1>1, <1>10, <1>11, Zenon DEF Replaces
<1>13. Calling' /\ \A q : q # Top.of => (Owned(q) => Owned(q)')
  BY <1>1, <1>3, <1>12, AbortApart, CallingStep
<1>14. Owned(r)'
  <2>1. c \in Elements(stack')
    BY <1>10 DEF Leaves
  <2> QED
    BY <1>7, <2>1 DEF Owned, Elements, OwnerFns
<1>15. \A q : Owned(q) => Owned(q)'
  BY <1>4, <1>13, <1>14
<1>16. ~Running("flip") /\ ~Running("flip")'
  <2>1. \A f \in new \cup Elements(Rest) : f.fn # "flip"
    BY <1>2, <1>11 DEF Over, TopFns
  <2>2. ~(stack' # <<>> /\ Head(stack').fn = "flip")
    BY <1>10, <2>1, NotRunning
  <2> QED
    BY <1>1, <2>2 DEF Running, Top
<1>17. Lists' /\ Drawn' /\ Flipping'
  BY <1>3, <1>15, <1>16, AbortKeeps
<1>18. TypeOK'
  BY <1>10, TypedFlipOver, TypeStep
<1> QED
  BY <1>13, <1>17, <1>18 DEF Inv
-----------------------------------------------------------------------------
LEMMA KeepsClearWindowFlip == ASSUME Inv, ClearWindowFlip PROVE Inv'
<1>1. stack # <<>> /\ Top.fn = "clear" /\ Top.of \in Windows
  BY RunsFn DEF ClearWindowFlip, WindowFns
<1>2. /\ Leaves(Rest, Elements(Rest)) /\ Elements(Rest) = {}
      /\ Elements(stack) = {Top} \cup Elements(Rest)
  <2>1. \A g \in Elements(Rest) : Over(Top, g)
    BY <1>1, Runs
  <2>2. Elements(Rest) = {}
    BY <1>1, <2>1 DEF Over
  <2> QED
    BY <1>1, <2>2, Runs
<1>3. Leaves(stack', {} \cup Elements(Rest))
  BY <1>2, Returns DEF ClearWindowFlip, Continue, Rest
<1>4. Replaces({}) /\ Apart
  BY <1>1, <1>2, <1>3, Zenon DEF Replaces, Apart
<1>5. Calling'
  BY <1>4, CallingStep
<1>6. \A q : ~Owned(q)
  BY <1>1, <1>2 DEF Owned, OwnerFns
<1> DEFINE w == Top.of
<1>7. \A q \in Ids :
        /\ q # flip_pending => vb'[q] = vb[q]
        /\ vb'[q].st = vb[q].st /\ vb'[q].queued = vb[q].queued
        /\ vb'[q].pixmap = vb[q].pixmap /\ vb'[q].flip = vb[q].flip /\ vb'[q].fence = vb[q].fence
        /\ ~Aborts(w) => vb'[q] = vb[q]
  <2>1. CASE ~Aborts(w)
    BY <2>1 DEF ClearWindowFlip
  <2>2. CASE Aborts(w)
    <3>1. flip_pending \in Ids /\ vb \in [Ids -> Vblank]
      BY <2>2 DEF Aborts, Inv, TypeOK
    <3>2. vb' = [vb EXCEPT ![flip_pending] = [vb[flip_pending] EXCEPT !.abort = TRUE, !.window = NoWin]]
      BY <2>2, <3>1 DEF ClearWindowFlip
    <3> DEFINE v == vb[flip_pending]
    <3>3. v \in Vblank
      BY <3>1
    <3>4. LET n == [v EXCEPT !.abort = TRUE, !.window = NoWin]
          IN /\ n.st = v.st /\ n.queued = v.queued /\ n.pixmap = v.pixmap
             /\ n.flip = v.flip /\ n.fence = v.fence
      BY <3>3 DEF Vblank
    <3> QED
      BY <2>2, <3>1, <3>2, <3>4
  <2> QED
    BY <2>1, <2>2
<1>8. UNCHANGED <<exec_queue, flip_queue, window_list, flip_pending, flip_pixmap, unflip, flips, fences>>
  BY DEF ClearWindowFlip
<1>9. Lists'
  <2>1. \A q \in Ids : q # flip_pending => Stays(q)
    BY <1>6, <1>7, <1>8 DEF Stays, Same
  <2>2. flip_pending \in Ids => Placed(flip_pending)'
    <3> SUFFICES ASSUME flip_pending \in Ids PROVE Placed(flip_pending)'
      OBVIOUS
    <3>1. WithDriver(flip_pending) /\ Placed(flip_pending)
      BY DEF Inv, Lists, Placed
    <3> QED
      BY <1>7, <1>8, <3>1 DEF Placed, WithDriver, Live
  <2> QED
    BY <1>8, <2>1, <2>2, ListsStep, OnceKept
<1>10. Flipping'
  <2>1. flip_window' = flip_window \/ flip_window' = NoWin
    BY DEF ClearWindowFlip
  <2>2. flip_pending # NoId => vb'[flip_pending].fence = vb[flip_pending].fence
    BY <1>7 DEF Inv, TypeOK
  <2> QED
    BY <1>8, <2>1, <2>2 DEF Inv, Flipping, Waits
<1>11. ~Running("flip") /\ ~Running("flip")'
  <2>1. ~(stack' # <<>> /\ Head(stack').fn = "flip")
    BY <1>2, <1>3, NotRunning
  <2> QED
    BY <1>1, <2>1 DEF Running, Top
<1>12. Drawn'
  <2>0. flip_pending = NoId \/ Accepted
    BY <1>11 DEF Accepted
  <2>1. CASE winpix' = RestoreScreenPixmap(winpix)
    BY <2>0, <2>1, RestoresScreen, AllScreen
  <2>2. CASE winpix' = winpix /\ Aborts(w)
    <3>1. flip_pending \in Ids /\ vb[flip_pending].abort \in BOOLEAN
      BY <2>2, FieldTypes DEF Aborts, Inv, TypeOK
    <3>2. vb[flip_pending].abort = TRUE \/ winpix' = RestoreScreenPixmap(winpix)
      BY <2>2, <3>1 DEF ClearWindowFlip
    <3>3. CASE vb[flip_pending].abort = TRUE
      <4>1. \A x \in Drawable : winpix[x] = Screen
        BY <2>0, <2>2, <3>3 DEF Aborts, Inv, Drawn, Ending
      <4> QED
        BY <2>2, <4>1, AllScreen
    <3> QED
      BY <2>1, <3>2, <3>3
  <2>3. CASE winpix' = winpix /\ ~Aborts(w) /\ flip_window # w
    <3>1. flip_window' = flip_window /\ vb' = vb
      BY <2>3 DEF ClearWindowFlip
    <3> QED
      BY <1>8, <1>11, <2>3, <3>1, DrawnKept DEF Accepted, Inv
  <2> QED
    BY <2>1, <2>2, <2>3 DEF ClearWindowFlip
<1>13. TypeOK'
  BY <1>3, TypedClear, TypeStep
<1> QED
  BY <1>5, <1>9, <1>10, <1>12, <1>13 DEF Inv

LEMMA KeepsFlipFails == ASSUME Inv, FlipFails PROVE Inv'
<1>1. stack # <<>> /\ Top.fn = "flip" /\ Top.of \in Ids /\ Running("flip")
  BY RunsFn DEF FlipFails
<1>2. /\ Leaves(Rest, Elements(Rest)) /\ \A g \in Elements(Rest) : Over(Top, g)
      /\ Sound(Top) /\ Elements(stack) = {Top} \cup Elements(Rest)
  BY <1>1, Runs
<1>3. PICK r \in Ids : r = Top.of
  BY <1>1
<1>4. /\ r = flip_pending /\ vb[r].abort = FALSE /\ vb[r].window \in Windows
      /\ Live(r) /\ vb[r].queued = FALSE /\ Contains(flip_queue, r) /\ vb[r].pixmap = TRUE
      /\ Placed(r)
  BY <1>1, <1>2, <1>3 DEF Sound, Inv, Lists, Placed, WithDriver
<1>5. /\ \A q \in Ids : q # r => vb'[q] = vb[q]
      /\ vb'[r].st = vb[r].st /\ vb'[r].queued = vb[r].queued /\ vb'[r].pixmap = vb[r].pixmap
      /\ vb'[r].abort = vb[r].abort /\ vb'[r].window = vb[r].window /\ vb'[r].flip = FALSE
      /\ vb'[r].fence = vb[r].fence
  <2>1. vb \in [Ids -> Vblank] /\ vb[r] \in Vblank
    BY DEF Inv, TypeOK
  <2>2. vb' = [vb EXCEPT ![r] = [vb[r] EXCEPT !.flip = FALSE, !.early = 0]]
    BY <1>3, <2>1 DEF FlipFails
  <2>3. LET n == [vb[r] EXCEPT !.flip = FALSE, !.early = 0]
        IN /\ n.st = vb[r].st /\ n.queued = vb[r].queued /\ n.pixmap = vb[r].pixmap
           /\ n.abort = vb[r].abort /\ n.window = vb[r].window /\ n.flip = FALSE
           /\ n.fence = vb[r].fence
    BY <2>1 DEF Vblank
  <2> QED
    BY <2>1, <2>2, <2>3
<1> DEFINE c == Call("flip_over", r)
<1>6. c \in Frame /\ c.fn = "flip_over" /\ c.of = r
  BY CallTyped DEF VblankFns
<1>7. Continue(<<c>>)
  BY <1>3 DEF FlipFails
<1> HIDE DEF c
<1>8. \A g \in Elements(Rest) : Over(c, g)
  <2>1. \A g \in Elements(Rest) : g.fn \in HoldFns => g.of # r
    BY <1>1, <1>4, HoldApart
  <2>2. \A g \in Elements(Rest) : g.fn \notin {"scrap", "create", "abort", "clear"} /\ g.fn \notin TopFns
    BY <1>1, <1>2 DEF Over
  <2> QED
    BY <1>6, <2>1, <2>2 DEF Over
<1>9. Leaves(stack', {c} \cup Elements(Rest))
  <2>1. Leaves(<<c>> \o Rest, {c} \cup Elements(Rest))
    BY <1>2, <1>6, <1>8, GoesOn
  <2> QED
    BY <1>7, <2>1 DEF Continue, Rest
<1>10. flip_pending' = NoId /\ r # NoId
  BY IdsNat DEF FlipFails
<1>11. Sound(c)'
  BY <1>4, <1>5, <1>6, <1>10 DEF Sound, OwnerFns, Live
<1>12. Replaces({c})
  <2>1. \A f \in {c} : Sound(f)' /\ f.fn = "flip_over"
    BY <1>6, <1>11
  <2> QED
    BY <1>1, <1>9, <2>1, Zenon DEF Replaces
<1>13. Apart
  <2>1. \A g \in Elements(Rest) : g.fn \in HoldFns => Same(g.of) /\ g.of # flip_pending'
    <3> TAKE g \in Elements(Rest)
    <3>1. g.fn \in HoldFns => g.of \in Ids /\ g.of # r
      BY <1>1, <1>4, HoldApart
    <3> QED
      BY <1>5, <1>10, <3>1, IdsNat DEF Same
  <2>2. \A g \in Elements(Rest) : g.fn = "trigger" => g.of # flip_pending'
    BY <1>1, <1>10, HoldApart, IdsNat
  <2> QED
    BY <2>1, <2>2 DEF Apart
<1>14. Calling' /\ \A q : q # Top.of => (Owned(q) => Owned(q)')
  BY <1>12, <1>13, CallingStep
<1>15. Once(flip_queue) /\ flip_queue \in Seq(Ids) /\ flip_queue' = Without(flip_queue, r)
  BY <1>3 DEF Inv, TypeOK, Lists, FlipFails
<1>16. Once(flip_queue') /\ \A u : Contains(flip_queue', u) <=> Contains(flip_queue, u) /\ u # r
  BY <1>15, WithoutHas
<1>17. UNCHANGED <<exec_queue, window_list, flip_pixmap, flip_window, unflip, winpix, flips, fences>>
  BY DEF FlipFails
<1>18. Lists'
  <2>1. \A q \in Ids : q # r => Stays(q)
    BY <1>3, <1>4, <1>5, <1>10, <1>14, <1>16, <1>17, IdsNat DEF Stays, Same
  <2>2. Placed(r)'
    <3>1. Owned(r)'
      <4>1. c \in Elements(stack')
        BY <1>9 DEF Leaves
      <4> QED
        BY <1>6, <4>1 DEF Owned, Elements, OwnerFns
    <3>2. ~Contains(exec_queue', r) /\ ~Contains(flip_queue', r)
      BY <1>4, <1>16, <1>17 DEF Placed
    <3>3. \A w \in Windows : ~Contains(window_list'[w], r)
      BY <1>4, <1>17 DEF Placed
    <3> QED
      BY <1>4, <1>5, <1>10, <3>1, <3>2, <3>3 DEF Placed
  <2>3. Once(exec_queue)' /\ Once(flip_queue)' /\ \A w \in Windows : Once(window_list[w])'
    BY <1>16, <1>17 DEF Inv, Lists, Once
  <2> QED
    BY <2>1, <2>2, <2>3, ListsStep
<1>19. Flipping'
  BY <1>10, <1>17 DEF Inv, Flipping
<1>20. Drawn'
  <2>1. ~Accepted /\ ~Accepted'
    BY <1>1, <1>10 DEF Accepted
  <2>2. Shown' = Shown /\ ShownIn' = ShownIn /\ (Ending' <=> Ending)
    BY <1>17, <2>1 DEF Shown, ShownIn, Ending
  <2> QED
    BY <1>17, <2>2 DEF Inv, Drawn, Drawable
<1>21. TypeOK'
  BY <1>9, TypedFlip, TypeStep
<1> QED
  BY <1>14, <1>18, <1>19, <1>20, <1>21 DEF Inv

LEMMA KeepsFlipNotify == ASSUME Inv, FlipNotify PROVE Inv'
<1>1. stack # <<>> /\ Top.fn = "notify" /\ Top.of \in Ids
  BY RunsFn DEF FlipNotify
<1>2. /\ Leaves(Rest, Elements(Rest)) /\ \A g \in Elements(Rest) : Over(Top, g)
      /\ Elements(stack) = {Top} \cup Elements(Rest)
  BY <1>1, Runs
<1>3. PICK r \in Ids : r = Top.of
  BY <1>1
<1>4. /\ r = flip_pending /\ Live(r) /\ vb[r].queued = FALSE /\ Contains(flip_queue, r)
      /\ Placed(r) /\ vb[r].abort \in BOOLEAN
  <2>1. Contains(flip_queue, r) /\ vb[r].queued = FALSE
    BY <1>3, FieldTypes DEF FlipNotify, Inv
  <2> QED
    BY <2>1, FieldTypes DEF Inv, Lists, Placed, WithDriver
<1>5. /\ \A q \in Ids : q # r => Same(q)
      /\ vb'[r].st = vb[r].st /\ vb'[r].queued = vb[r].queued /\ vb'[r].window = vb[r].window
      /\ vb'[r].abort = vb[r].abort
  <2>1. vb' = [IdleFlip(vb) EXCEPT ![r].pixmap = FALSE]
    BY <1>3 DEF FlipNotify
  <2>2. IdleFlip(vb) \in [Ids -> Vblank] /\ IdleFlip(vb)[r] \in Vblank
    BY IdleFlipTyped DEF Inv
  <2>3. /\ \A q \in Ids : q # r => vb'[q] = IdleFlip(vb)[q]
        /\ vb'[r] = [IdleFlip(vb)[r] EXCEPT !.pixmap = FALSE]
    BY <2>1, <2>2
  <2>4. \A q \in Ids : q # r => Same(q)
    <3> TAKE q \in Ids
    <3>1. /\ IdleFlip(vb)[q].st = vb[q].st /\ IdleFlip(vb)[q].queued = vb[q].queued
          /\ IdleFlip(vb)[q].abort = vb[q].abort /\ IdleFlip(vb)[q].window = vb[q].window
          /\ IdleFlip(vb)[q].pixmap = vb[q].pixmap /\ IdleFlip(vb)[q].flip = vb[q].flip
          /\ IdleFlip(vb)[q].fence = vb[q].fence
      BY IdleFlipSame DEF Inv
    <3>2. q # r => vb'[q] = IdleFlip(vb)[q]
      BY <2>3
    <3> QED
      BY <3>1, <3>2, Zenon DEF Same
  <2>5. LET v == IdleFlip(vb)[r]
            n == [v EXCEPT !.pixmap = FALSE]
        IN n.st = v.st /\ n.queued = v.queued /\ n.window = v.window /\ n.abort = v.abort
    BY <2>2 DEF Vblank
  <2> QED
    BY <2>3, <2>4, <2>5, IdleFlipSame DEF Inv
<1> DEFINE u == Call("unflip", NoId)
           c == Call("post", r)
           d == Call("try_ready", NoId)
<1>6. /\ u \in Frame /\ u.fn = "unflip" /\ c \in Frame /\ c.fn = "post" /\ c.of = r
      /\ d \in Frame /\ d.fn = "try_ready"
  BY CallTyped DEF OtherFns, VblankFns
<1>7. Continue(If(vb[r].abort, <<u>>) \o <<c, d>>)
  BY <1>3 DEF FlipNotify
<1> HIDE DEF u, c, d
<1>8. /\ \A g \in Elements(Rest) : Over(u, g) /\ Over(c, g) /\ Over(d, g)
      /\ Over(u, c) /\ Over(u, d) /\ Over(c, d)
  <2>1. \A g \in Elements(Rest) : g.fn \in HoldFns => g.of # r
    BY <1>1, <1>4, HoldApart
  <2>2. \A g \in Elements(Rest) : g.fn \notin {"scrap", "create", "abort", "clear"} /\ g.fn \notin TopFns
    BY <1>1, <1>2 DEF Over
  <2> QED
    BY <1>6, <2>1, <2>2 DEF Over, HoldFns, OwnerFns, TopFns
<1>9. PICK new \in {{c, d}, {u, c, d}} : Leaves(stack', new \cup Elements(Rest))
  <2>1. CASE vb[r].abort = FALSE
    <3>1. Leaves(<<c, d>> \o Rest, {c, d} \cup Elements(Rest)) /\ <<c>> \o <<d>> = <<c, d>>
      BY <1>2, <1>6, <1>8, GoesOnTwice
    <3>2. If(vb[r].abort, <<u>>) \o <<c, d>> = <<c, d>>
      <4>1. <<c>> \o <<d>> \in Seq(Frame)
        BY <1>2, <1>6, TwoFrames DEF Leaves
      <4>2. <<>> \o <<c, d>> = <<c, d>>
        BY <3>1, <4>1, ConcatEmptySeq
      <4> QED
        BY <2>1, <4>2 DEF If
    <3>3. Leaves(stack', {c, d} \cup Elements(Rest))
      BY <1>7, <3>1, <3>2 DEF Continue, Rest
    <3> QED
      BY <3>3
  <2>2. CASE vb[r].abort = TRUE
    <3>1. Leaves((<<u>> \o <<c, d>>) \o Rest, {u, c, d} \cup Elements(Rest))
      BY <1>2, <1>6, <1>8, GoesOnThrice
    <3>2. If(vb[r].abort, <<u>>) = <<u>>
      BY <2>2 DEF If
    <3>3. Leaves(stack', {u, c, d} \cup Elements(Rest))
      BY <1>7, <3>1, <3>2 DEF Continue, Rest
    <3> QED
      BY <3>3
  <2> QED
    BY <1>4, <2>1, <2>2
<1>10. /\ flip_pending' = NoId /\ r # NoId /\ flip_pixmap' = r /\ flip_window' = vb[r].window
       /\ UNCHANGED <<exec_queue, window_list, unflip, winpix, flips, fences>>
  BY <1>3, IdsNat DEF FlipNotify
<1>11. unflip = FALSE
  BY <1>4, <1>10 DEF Inv, Flipping, TypeOK
<1>12. \A f \in new : Sound(f)' /\ f.fn \in {"unflip", "post", "try_ready"}
  <2>1. Sound(u)'
    BY <1>6, <1>10, <1>11 DEF Sound, OwnerFns
  <2>2. Sound(c)'
    BY <1>4, <1>5, <1>6, <1>10 DEF Sound, OwnerFns, Live
  <2>3. Sound(d)'
    BY <1>6 DEF Sound, OwnerFns
  <2> QED
    BY <1>6, <1>9, <2>1, <2>2, <2>3
<1>13. Replaces(new)
  <2>1. CallFns(Elements(Rest)) \cap {"scrap", "create"} = {}
    BY <1>1, NoScraps
  <2> QED
    BY <1>1, <1>9, <1>12, <2>1, Zenon DEF Replaces
<1>14. Apart
  <2>1. \A g \in Elements(Rest) : g.fn \in HoldFns => Same(g.of) /\ g.of # flip_pending'
    <3> TAKE g \in Elements(Rest)
    <3>1. g.fn \in HoldFns => g.of \in Ids /\ g.of # r
      BY <1>1, <1>4, HoldApart
    <3> QED
      BY <1>5, <1>10, <3>1, IdsNat
  <2>2. \A g \in Elements(Rest) : g.fn = "trigger" => g.of # flip_pending'
    BY <1>1, <1>10, HoldApart, IdsNat
  <2> QED
    BY <2>1, <2>2 DEF Apart
<1>15. Calling' /\ \A q : q # Top.of => (Owned(q) => Owned(q)')
  BY <1>13, <1>14, CallingStep
<1>16. Once(flip_queue) /\ flip_queue \in Seq(Ids) /\ flip_queue' = Without(flip_queue, r)
  BY <1>3 DEF Inv, TypeOK, Lists, FlipNotify
<1>17. Once(flip_queue') /\ \A q : Contains(flip_queue', q) <=> Contains(flip_queue, q) /\ q # r
  BY <1>16, WithoutHas
<1>18. Lists'
  <2>1. \A q \in Ids : q # r => Stays(q)
    BY <1>3, <1>4, <1>5, <1>10, <1>15, <1>17, IdsNat DEF Stays
  <2>2. Placed(r)'
    <3>1. Owned(r)'
      <4>1. c \in Elements(stack')
        BY <1>9 DEF Leaves
      <4> QED
        BY <1>6, <4>1 DEF Owned, Elements, OwnerFns
    <3>2. ~Contains(exec_queue', r) /\ ~Contains(flip_queue', r)
      BY <1>4, <1>17, <1>10 DEF Placed
    <3>3. \A w \in Windows : ~Contains(window_list'[w], r)
      BY <1>4, <1>10 DEF Placed
    <3> QED
      BY <1>4, <1>5, <1>10, <3>1, <3>2, <3>3 DEF Placed
  <2>3. Once(exec_queue)' /\ Once(flip_queue)' /\ \A w \in Windows : Once(window_list[w])'
    BY <1>17, <1>10 DEF Inv, Lists, Once
  <2> QED
    BY <2>1, <2>2, <2>3, ListsStep
<1>19. Flipping'
  BY <1>10, <1>11 DEF Inv, Flipping
<1>20. Drawn'
  <2>1. Accepted /\ ~Accepted'
    BY <1>1, <1>4, <1>10 DEF Accepted, Running
  <2>2. Shown' = Shown /\ ShownIn' = ShownIn /\ ~Ending'
    BY <1>4, <1>10, <1>11, <2>1 DEF Shown, ShownIn, Ending
  <2> QED
    BY <1>10, <2>2 DEF Inv, Drawn, Drawable
<1>21. TypeOK'
  BY <1>9, TypedFlipNotify, TypeStep
<1> QED
  BY <1>15, <1>18, <1>19, <1>20, <1>21 DEF Inv
-----------------------------------------------------------------------------
(***************************************************************************)
(* Requests leave the lists, and come back.                                *)
(***************************************************************************)
LEMMA ApartFrom ==
  ASSUME Inv, stack # <<>>, NEW r, r # flip_pending, UNCHANGED flip_pending,
         \A q \in Ids : q # r => Same(q),
         \A g \in Elements(Rest) : g.fn \in HoldFns => g.of # r
  PROVE  Apart
<1>1. \A g \in Elements(Rest) : Sound(g)
  BY Runs
<1>2. \A g \in Elements(Rest) :
        g.fn = "trigger" /\ g.of = flip_pending => vb[g.of].window # NoWin /\ Same(g.of)
  BY <1>1, HoldApart DEF Sound
<1> QED
  BY <1>2, HoldApart DEF Apart, Same

\* A flip that is with the driver, and the one on the screen, stay.
LEMMA FlipStays ==
  ASSUME Inv, UNCHANGED <<flip, winpix>>, Unflip \in flips' => Unflip \in flips,
         fences \subseteq fences', NEW r, r # flip_pending, \A q \in Ids : q # r => Same(q),
         ~Running("flip"), ~Running("flip")'
  PROVE  Flipping' /\ Drawn'
<1>1. flip_pending # NoId => Same(flip_pending)
  BY DEF Inv, TypeOK
<1>2. Accepted' <=> Accepted
  BY DEF Accepted
<1>3. Flipping'
  BY <1>1, FlippingKept DEF Inv, Same
<1>4. Drawn'
  BY <1>1, <1>2, DrawnKept DEF Inv, Same, Accepted
<1> QED
  BY <1>3, <1>4

LEMMA NoFlipNext ==
  ASSUME Inv, stack # <<>>, NEW S, Leaves(stack', S),
         \A f \in S : f \in Elements(Rest) \/ f.fn # "flip"
  PROVE  ~(stack' # <<>> /\ Head(stack').fn = "flip")
<1>1. \A g \in Elements(Rest) : Over(Top, g)
  BY Runs
<1>2. \A f \in S : f.fn # "flip"
  BY <1>1 DEF Over, TopFns
<1> QED
  BY <1>2, NotRunning

\* r is taken off every list, and freed.
Unlisted(r) ==
  /\ exec_queue' = Without(exec_queue, r)
  /\ flip_queue' = Without(flip_queue, r)
  /\ window_list' = [w \in Windows |-> Without(window_list[w], r)]

LEMMA UnlistedHas ==
  ASSUME Inv, NEW r, Unlisted(r)
  PROVE  /\ Once(exec_queue)' /\ Once(flip_queue)' /\ \A w \in Windows : Once(window_list[w])'
         /\ \A q : /\ Contains(exec_queue', q) <=> Contains(exec_queue, q) /\ q # r
                   /\ Contains(flip_queue', q) <=> Contains(flip_queue, q) /\ q # r
                   /\ \A w \in Windows :
                        Contains(window_list'[w], q) <=> Contains(window_list[w], q) /\ q # r
<1>1. exec_queue \in Seq(Ids) /\ flip_queue \in Seq(Ids) /\ Once(exec_queue) /\ Once(flip_queue)
  BY DEF Inv, TypeOK, Lists
<1>2. \A w \in Windows : window_list[w] \in Seq(Ids) /\ Once(window_list[w])
  BY DEF Inv, TypeOK, Lists
<1>3. Once(exec_queue') /\ \A q : Contains(exec_queue', q) <=> Contains(exec_queue, q) /\ q # r
  BY <1>1, WithoutHas DEF Unlisted
<1>4. Once(flip_queue') /\ \A q : Contains(flip_queue', q) <=> Contains(flip_queue, q) /\ q # r
  BY <1>1, WithoutHas DEF Unlisted
<1>5. ASSUME NEW w \in Windows
      PROVE  /\ Once(window_list'[w])
             /\ \A q : Contains(window_list'[w], q) <=> Contains(window_list[w], q) /\ q # r
  <2>1. window_list'[w] = Without(window_list[w], r)
    BY DEF Unlisted
  <2> QED
    BY <1>2, <2>1, WithoutHas
<1> QED
  BY <1>3, <1>4, <1>5 DEF Once

LEMMA FreesRequest ==
  ASSUME Inv, stack # <<>>, Top.fn \in {"post", "abort"}, NEW r \in Ids, r = Top.of,
         Unlisted(r), Continue(<<>>), UNCHANGED <<flip, winpix, flips, fences>>,
         \A q \in Ids : q # r => vb'[q] = vb[q],
         vb'[r].st = "freed" /\ vb'[r].queued = FALSE, Typed'
  PROVE  Inv'
<1>1. Leaves(Rest, Elements(Rest)) /\ Sound(Top)
  BY Runs
<1>2. Leaves(stack', {} \cup Elements(Rest))
  BY <1>1, Returns DEF Continue, Rest
<1>3. r # flip_pending
  <2>1. CASE Top.fn = "post"
    BY <1>1, <2>1 DEF Sound, OwnerFns
  <2>2. CASE Top.fn = "abort"
    <3>1. vb[r].queued = TRUE
      BY <1>1, <2>2 DEF Sound
    <3> QED
      BY <3>1 DEF Inv, Lists, Placed, WithDriver
  <2> QED
    BY <2>1, <2>2
<1>4. Top.fn \in HoldFns
  BY DEF HoldFns, OwnerFns
<1>5. \A q \in Ids : q # r => Same(q)
  BY DEF Same
<1>6. Apart
  BY <1>3, <1>4, <1>5, HoldApart, ApartFrom
<1>7. Replaces({})
  BY <1>2, Zenon DEF Replaces
<1>8. Calling' /\ \A q : q # r => (Owned(q) => Owned(q)')
  BY <1>6, <1>7, CallingStep
<1>9. Lists'
  <2>1. \A q \in Ids : q # r => Stays(q)
    BY <1>3, <1>5, <1>8, UnlistedHas DEF Stays
  <2>2. Placed(r)'
    <3>1. ~Contains(exec_queue', r) /\ ~Contains(flip_queue', r)
      BY UnlistedHas
    <3>2. \A w \in Windows : ~Contains(window_list'[w], r)
      BY UnlistedHas
    <3>3. ~Live(r)' /\ r # flip_pending'
      BY <1>3 DEF Live
    <3> QED
      BY <3>1, <3>2, <3>3 DEF Placed
  <2> QED
    BY <2>1, <2>2, UnlistedHas, ListsStep
<1>10. Flipping' /\ Drawn'
  <2>1. ~Running("flip")
    BY DEF Running
  <2>2. ~Running("flip")'
    <3>1. ~(stack' # <<>> /\ Head(stack').fn = "flip")
      BY <1>2, NoFlipNext
    <3> QED
      BY <3>1 DEF Running, Top
  <2> QED
    BY <1>3, <1>5, <2>1, <2>2, FlipStays
<1>11. TypeOK'
  BY <1>2, TypeStep
<1> QED
  BY <1>8, <1>9, <1>10, <1>11 DEF Inv

LEMMA KeepsPost == ASSUME Inv, Post PROVE Inv'
<1>1. stack # <<>> /\ Top.fn = "post" /\ Top.of \in Ids
  BY RunsFn DEF Post, HoldFns, OwnerFns
<1>2. PICK r \in Ids : r = Top.of
  BY <1>1
<1>3. vb \in [Ids -> Vblank] /\ vb' = [vb EXCEPT ![r] = Freed(Completed(vb[r]))]
  BY <1>2 DEF Post, Inv, TypeOK
<1>4. vb'[r].st = "freed" /\ vb'[r].queued = FALSE
  BY <1>3, CompletedTyped, FreedTyped
<1>5. Unlisted(r) /\ Continue(<<>>) /\ UNCHANGED <<flip, winpix, flips, fences>>
  BY <1>2 DEF Post, Unlisted
<1> QED
  BY <1>1, <1>2, <1>3, <1>4, <1>5, TypedPost, FreesRequest

LEMMA KeepsAbort == ASSUME Inv, Abort PROVE Inv'
<1>1. stack # <<>> /\ Top.fn = "abort" /\ Top.of \in Ids
  BY RunsFn DEF Abort, HoldFns
<1>2. PICK r \in Ids : r = Top.of
  BY <1>1
<1>3. vb \in [Ids -> Vblank] /\ vb' = [vb EXCEPT ![r] = Freed(vb[r])]
  BY <1>2 DEF Abort, Inv, TypeOK
<1>4. vb'[r].st = "freed" /\ vb'[r].queued = FALSE
  BY <1>3, FreedTyped
<1>5. Unlisted(r) /\ Continue(<<>>) /\ UNCHANGED <<flip, winpix, flips, fences>>
  BY <1>2 DEF Abort, Unlisted
<1> QED
  BY <1>1, <1>2, <1>3, <1>4, <1>5, TypedAbort, FreesRequest
\* r comes on the exec queue and on the list of its window.
Listed(r) ==
  /\ exec_queue' = <<r>> \o exec_queue \/ exec_queue' = Append(exec_queue, r)
  /\ window_list' = [window_list EXCEPT ![vb[r].window] = Append(@, r)]
  /\ UNCHANGED <<flip_queue, flip_pending>>
\* It was on none, and may be.
Absent(r) ==
  /\ Live(r) /\ vb[r].queued = FALSE /\ r # flip_pending
  /\ vb[r].window \in Windows /\ vb[r].abort = FALSE
  /\ vb'[r].st = vb[r].st /\ vb'[r].window = vb[r].window /\ vb'[r].abort = vb[r].abort

LEMMA ListedHas ==
  ASSUME Inv, NEW r \in Ids, Listed(r), Absent(r)
  PROVE  /\ Once(exec_queue)' /\ Once(flip_queue)' /\ \A w \in Windows : Once(window_list[w])'
         /\ \A q : /\ Contains(exec_queue', q) <=> Contains(exec_queue, q) \/ q = r
                   /\ Contains(flip_queue', q) <=> Contains(flip_queue, q)
                   /\ \A w \in Windows :
                        Contains(window_list'[w], q) <=>
                          Contains(window_list[w], q) \/ (q = r /\ w = vb[r].window)
         /\ ~Contains(flip_queue, r) /\ \A w \in Windows : ~Contains(window_list[w], r)
<1>1. exec_queue \in Seq(Ids) /\ Once(exec_queue) /\ Once(flip_queue)
  BY DEF Inv, TypeOK, Lists
<1>2. /\ window_list \in [Windows -> Seq(Ids)]
      /\ \A w \in Windows : window_list[w] \in Seq(Ids) /\ Once(window_list[w])
  BY DEF Inv, TypeOK, Lists
<1>3. /\ ~Contains(exec_queue, r) /\ ~Contains(flip_queue, r)
      /\ \A w \in Windows : ~Contains(window_list[w], r)
  BY DEF Inv, Lists, Placed, Absent
<1>4. Once(exec_queue') /\ \A q : Contains(exec_queue', q) <=> Contains(exec_queue, q) \/ q = r
  <2>1. CASE exec_queue' = <<r>> \o exec_queue
    BY <1>1, <1>3, <2>1, PrependHas
  <2>2. CASE exec_queue' = Append(exec_queue, r)
    BY <1>1, <1>3, <2>2, AppendHas
  <2> QED
    BY <2>1, <2>2 DEF Listed
<1>5. ASSUME NEW w \in Windows
      PROVE  /\ Once(window_list'[w])
             /\ \A q : Contains(window_list'[w], q) <=>
                         Contains(window_list[w], q) \/ (q = r /\ w = vb[r].window)
  <2>1. CASE w = vb[r].window
    <3>1. window_list'[w] = Append(window_list[w], r)
      BY <1>2, <2>1 DEF Listed
    <3> QED
      BY <1>2, <1>3, <2>1, <3>1, AppendHas
  <2>2. CASE w # vb[r].window
    <3>1. window_list'[w] = window_list[w]
      BY <1>2, <2>2 DEF Listed
    <3> QED
      BY <1>2, <2>2, <3>1
  <2> QED
    BY <2>1, <2>2
<1>6. Once(flip_queue')
  BY <1>1 DEF Listed
<1> QED
  BY <1>3, <1>4, <1>5, <1>6 DEF Once, Listed

LEMMA ListedPlaced ==
  ASSUME Inv, NEW r \in Ids, Listed(r), Absent(r), vb'[r].queued = TRUE,
         \A q \in Ids : q # r => Same(q), \A q : q # r => (Owned(q) => Owned(q)')
  PROVE  Lists'
<1>1. \A q \in Ids : q # r => Stays(q)
  BY ListedHas DEF Stays, Listed
<1>2. Placed(r)'
  <2>1. Waiting(r)'
    BY ListedHas DEF Waiting, Absent, Live
  <2>2. r # flip_pending'
    BY DEF Listed, Absent
  <2>3. \A w \in Windows : Contains(window_list'[w], r) => w = vb'[r].window
    BY ListedHas DEF Absent
  <2>4. ~Contains(flip_queue', r)
    BY ListedHas
  <2> QED
    BY <2>1, <2>2, <2>3, <2>4 DEF Placed
<1> QED
  BY <1>1, <1>2, ListedHas, ListsStep

LEMMA BackPlaced ==
  ASSUME Inv, Running("copy"), NEW r \in Ids, r = Top.of, NEW v, BackToQueue(v, r),
         v \in [Ids -> Vblank],
         \A q \in Ids : q # r => v[q] = vb[q],
         v[r].st = vb[r].st /\ v[r].window = vb[r].window /\ v[r].abort = vb[r].abort,
         UNCHANGED <<flip_queue, flip, winpix, flips, fences>>, Typed'
  PROVE  Inv'
<1>1. stack # <<>> /\ Top.fn = "copy" /\ Leaves(Rest, Elements(Rest)) /\ Sound(Top)
  BY RunsFn, Runs
<1>2. Leaves(stack', {} \cup Elements(Rest))
  BY <1>1, Returns DEF BackToQueue, Continue, Rest
<1>3. /\ \A q \in Ids : q # r => Same(q)
      /\ vb'[r].st = vb[r].st /\ vb'[r].window = vb[r].window /\ vb'[r].abort = vb[r].abort
      /\ vb'[r].queued = TRUE
  <2>1. vb' = [v EXCEPT ![r] = [v[r] EXCEPT !.queued = TRUE]]
    BY DEF BackToQueue
  <2>2. vb'[r] = [v[r] EXCEPT !.queued = TRUE] /\ \A q \in Ids : q # r => vb'[q] = vb[q]
    BY <2>1
  <2>3. v[r] \in Vblank
    OBVIOUS
  <2>4. LET n == [v[r] EXCEPT !.queued = TRUE]
        IN n.st = v[r].st /\ n.window = v[r].window /\ n.abort = v[r].abort /\ n.queued = TRUE
    BY <2>3 DEF Vblank
  <2> QED
    BY <2>2, <2>4 DEF Same
<1>4. Absent(r)
  BY <1>1, <1>3 DEF Absent, Sound, OwnerFns
<1>5. Listed(r)
  BY DEF Listed, BackToQueue
<1>6. r # flip_pending /\ Top.fn \in HoldFns
  BY <1>1, <1>4 DEF Absent, HoldFns, OwnerFns
<1>7. Apart
  BY <1>1, <1>3, <1>6, HoldApart, ApartFrom
<1>8. Replaces({})
  BY <1>1, <1>2, Zenon DEF Replaces
<1>9. Calling' /\ \A q : q # r => (Owned(q) => Owned(q)')
  BY <1>1, <1>7, <1>8, CallingStep
<1>10. Lists'
  BY <1>3, <1>4, <1>5, <1>9, ListedPlaced
<1>11. Flipping' /\ Drawn'
  <2>1. ~Running("flip")
    BY <1>1 DEF Running
  <2>2. ~Running("flip")'
    <3>1. ~(stack' # <<>> /\ Head(stack').fn = "flip")
      BY <1>1, <1>2, NoFlipNext
    <3> QED
      BY <3>1 DEF Running, Top
  <2> QED
    BY <1>3, <1>6, <2>1, <2>2, FlipStays
<1>12. TypeOK'
  BY <1>2, TypeStep
<1> QED
  BY <1>9, <1>10, <1>11, <1>12 DEF Inv

LEMMA KeepsCopyLater == ASSUME Inv, CopyLater PROVE Inv'
<1>1. Top.of \in Ids /\ Running("copy")
  BY RunsFn DEF CopyLater, HoldFns, OwnerFns
<1>2. PICK r \in Ids : r = Top.of
  BY <1>1
<1>3. BackToQueue(vb, r) /\ UNCHANGED <<flip_queue, flip, winpix, flips, fences>>
  BY <1>2 DEF CopyLater
<1>4. vb \in [Ids -> Vblank]
  BY DEF Inv, TypeOK
<1> QED
  BY <1>1, <1>2, <1>3, <1>4, TypedCopyLater, BackPlaced

LEMMA CopiedFields ==
  ASSUME TypeOK, NEW r \in Ids
  PROVE  /\ Copied(r) \in [Ids -> Vblank] /\ \A q \in Ids : q # r => Copied(r)[q] = vb[q]
         /\ Copied(r)[r].st = vb[r].st /\ Copied(r)[r].window = vb[r].window
         /\ Copied(r)[r].abort = vb[r].abort /\ Copied(r)[r].queued = vb[r].queued
         /\ Copied(r)[r].pixmap = vb[r].pixmap /\ Copied(r)[r].flip = vb[r].flip
         /\ Copied(r)[r].fence = vb[r].fence
<1>1. Copied(r) \in [Ids -> Vblank]
  BY TypeParts, CopiedTyped
<1>2. vb \in [Ids -> Vblank] /\ vb[r] \in Vblank
  BY DEF TypeOK
<1>3. Copied(r) = [vb EXCEPT ![r] = [vb[r] EXCEPT !.idled = @ + 1]]
  BY DEF Copied
<1>4. LET n == [vb[r] EXCEPT !.idled = @ + 1]
      IN /\ n.st = vb[r].st /\ n.window = vb[r].window /\ n.abort = vb[r].abort
         /\ n.queued = vb[r].queued /\ n.pixmap = vb[r].pixmap /\ n.flip = vb[r].flip
         /\ n.fence = vb[r].fence
  BY <1>2 DEF Vblank
<1> QED
  BY <1>1, <1>2, <1>3, <1>4

LEMMA KeepsCopyTearFree == ASSUME Inv, CopyTearFree PROVE Inv'
<1>1. Top.of \in Ids /\ Running("copy")
  BY RunsFn DEF CopyTearFree, HoldFns, OwnerFns
<1>2. PICK r \in Ids : r = Top.of
  BY <1>1
<1> DEFINE v == [Copied(r) EXCEPT ![r].early = 0]
<1>3. BackToQueue(v, r) /\ UNCHANGED <<flip_queue, flip, winpix, flips, fences>>
  BY <1>2 DEF CopyTearFree
<1>4. /\ v \in [Ids -> Vblank] /\ \A q \in Ids : q # r => v[q] = vb[q]
      /\ v[r].st = vb[r].st /\ v[r].window = vb[r].window /\ v[r].abort = vb[r].abort
  <2> DEFINE u == Copied(r)
  <2>1. /\ u \in [Ids -> Vblank] /\ \A q \in Ids : q # r => u[q] = vb[q]
        /\ u[r].st = vb[r].st /\ u[r].window = vb[r].window /\ u[r].abort = vb[r].abort
    BY CopiedFields DEF Inv
  <2>2. v = [u EXCEPT ![r] = [u[r] EXCEPT !.early = 0]]
    OBVIOUS
  <2> HIDE DEF u, v
  <2>3. u[r] \in Vblank
    BY <2>1
  <2>4. LET n == [u[r] EXCEPT !.early = 0]
        IN n \in Vblank /\ n.st = u[r].st /\ n.window = u[r].window /\ n.abort = u[r].abort
    BY <2>3 DEF Vblank
  <2> QED
    BY <2>1, <2>2, <2>4
<1> HIDE DEF v
<1> QED
  BY <1>1, <1>2, <1>3, <1>4, TypedCopyTearFree, BackPlaced

LEMMA KeepsCopy == ASSUME Inv, Copy PROVE Inv'
<1>1. stack # <<>> /\ Top.fn = "copy" /\ Top.of \in Ids
  BY RunsFn DEF Copy, HoldFns, OwnerFns
<1>2. /\ Leaves(Rest, Elements(Rest)) /\ \A g \in Elements(Rest) : Over(Top, g)
      /\ Sound(Top)
  BY <1>1, Runs
<1>3. PICK r \in Ids : r = Top.of
  BY <1>1
<1>4. Live(r) /\ vb[r].queued = FALSE /\ r # flip_pending /\ Top.fn \in HoldFns
  BY <1>1, <1>2, <1>3 DEF Sound, OwnerFns, HoldFns
<1>5. \A q \in Ids : Same(q)
  <2> TAKE q \in Ids
  <2>1. vb' = Copied(r)
    BY <1>3 DEF Copy
  <2> QED
    BY <2>1, CopiedFields DEF Same, Inv
<1> DEFINE c == Call("post", r)
<1>6. c \in Frame /\ c.fn = "post" /\ c.of = r
  BY CallTyped DEF VblankFns
<1>7. Continue(<<c>>)
  BY <1>3 DEF Copy
<1> HIDE DEF c
<1>8. \A g \in Elements(Rest) : Over(c, g)
  BY <1>1, <1>2, <1>3, <1>6 DEF Over, HoldFns, OwnerFns
<1>9. Leaves(stack', {c} \cup Elements(Rest))
  <2>1. Leaves(<<c>> \o Rest, {c} \cup Elements(Rest))
    BY <1>2, <1>6, <1>8, GoesOn
  <2> QED
    BY <1>7, <2>1 DEF Continue, Rest
<1>10. UNCHANGED <<queues, flip, winpix, flips, fences>>
  BY DEF Copy
<1>11. Sound(c)'
  BY <1>4, <1>5, <1>6, <1>10 DEF Sound, Same, Live, OwnerFns
<1>12. Replaces({c})
  <2>1. \A f \in {c} : Sound(f)' /\ f.fn = "post"
    BY <1>6, <1>11
  <2>2. CallFns(Elements(Rest)) \cap {"scrap", "create"} = {}
    BY <1>1, NoScraps
  <2> QED
    BY <1>1, <1>9, <2>1, <2>2, Zenon DEF Replaces
<1>13. Apart
  BY <1>1, <1>3, <1>4, <1>5, <1>10, HoldApart, ApartFrom
<1>14. Calling' /\ \A q : q # r => (Owned(q) => Owned(q)')
  BY <1>3, <1>12, <1>13, CallingStep
<1>15. Owned(r)'
  <2>1. c \in Elements(stack')
    BY <1>9 DEF Leaves
  <2> QED
    BY <1>6, <2>1 DEF Owned, Elements, OwnerFns
<1>16. Lists'
  <2>1. \A q \in Ids : Stays(q)
    BY <1>5, <1>10, <1>14, <1>15, StaysQuiet
  <2> QED
    BY <1>10, <2>1, ListsStay
<1>17. Flipping' /\ Drawn'
  <2>1. ~Running("flip")
    BY <1>1 DEF Running
  <2>2. ~Running("flip")'
    <3>1. ~(stack' # <<>> /\ Head(stack').fn = "flip")
      BY <1>1, <1>6, <1>9, NoFlipNext
    <3> QED
      BY <3>1 DEF Running, Top
  <2> QED
    BY <1>4, <1>5, <1>10, <2>1, <2>2, FlipStays
<1>18. TypeOK'
  BY <1>9, TypedCopy, TypeStep
<1> QED
  BY <1>14, <1>16, <1>17, <1>18 DEF Inv
-----------------------------------------------------------------------------
(***************************************************************************)
(* Requests are scrapped, made and dropped.                                *)
(***************************************************************************)
LEMMA KeepsScrap == ASSUME Inv, Scrap PROVE Inv'
<1>1. stack # <<>> /\ Top.fn = "scrap" /\ Top.of \in Ids
  BY RunsFn DEF Scrap, HoldFns
<1>2. /\ Leaves(Rest, Elements(Rest)) /\ \A g \in Elements(Rest) : Over(Top, g)
      /\ Sound(Top)
  BY <1>1, Runs
<1>3. PICK r \in Ids : r = Top.of
  BY <1>1
<1>4. /\ vb[r].queued = TRUE /\ r # flip_pending /\ Top.fn \in HoldFns /\ Placed(r)
      /\ Waiting(r)
  BY <1>1, <1>2, <1>3 DEF Sound, HoldFns, Inv, Lists, Placed, WithDriver
<1>5. /\ \A q \in Ids : q # r => Same(q)
      /\ vb'[r].st = vb[r].st /\ vb'[r].queued = vb[r].queued /\ vb'[r].abort = vb[r].abort
      /\ vb'[r].window = vb[r].window /\ vb'[r].pixmap = FALSE
  <2>1. vb \in [Ids -> Vblank] /\ vb[r] \in Vblank
    BY DEF Inv, TypeOK
  <2>2. vb' = [vb EXCEPT ![r] = [vb[r] EXCEPT !.idled = @ + 1, !.pixmap = FALSE, !.flip = FALSE]]
    BY <1>3, <2>1 DEF Scrap
  <2>3. LET n == [vb[r] EXCEPT !.idled = @ + 1, !.pixmap = FALSE, !.flip = FALSE]
        IN /\ n.st = vb[r].st /\ n.queued = vb[r].queued /\ n.abort = vb[r].abort
           /\ n.window = vb[r].window /\ n.pixmap = FALSE
    BY <2>1 DEF Vblank
  <2>4. vb'[r] = [vb[r] EXCEPT !.idled = @ + 1, !.pixmap = FALSE, !.flip = FALSE]
        /\ \A q \in Ids : q # r => vb'[q] = vb[q]
    BY <2>1, <2>2
  <2> QED
    BY <2>3, <2>4 DEF Same
<1> DEFINE c == Call("execute", r)
<1>6. c \in Frame /\ c.fn = "execute" /\ c.of = r
  BY CallTyped DEF VblankFns
<1>7. Continue(If(vb[r].flip_ready, <<c>>))
  BY <1>3 DEF Scrap
<1>8. \A g \in Elements(Rest) : Over(c, g)
  BY <1>1, <1>2, OverExecute
<1> HIDE DEF c
<1>9. PICK new \in {{}, {c}} : Leaves(stack', new \cup Elements(Rest))
  <2>1. CASE If(vb[r].flip_ready, <<c>>) = <<>>
    <3>1. Leaves(stack', {} \cup Elements(Rest))
      BY <1>2, <1>7, <2>1, Returns DEF Continue, Rest
    <3> QED
      BY <3>1
  <2>2. CASE If(vb[r].flip_ready, <<c>>) = <<c>>
    <3>1. Leaves(<<c>> \o Rest, {c} \cup Elements(Rest))
      BY <1>2, <1>6, <1>8, GoesOn
    <3>2. Leaves(stack', {c} \cup Elements(Rest))
      BY <1>7, <2>2, <3>1 DEF Continue, Rest
    <3> QED
      BY <3>2
  <2> QED
    BY <2>1, <2>2 DEF If
<1>10. UNCHANGED <<queues, flip, winpix, flips, fences>>
  BY DEF Scrap
<1>11. \A f \in new : Sound(f)' /\ f.fn = "execute" /\ vb'[f.of].pixmap = FALSE
  <2>1. Sound(c)'
    BY <1>4, <1>5, <1>6 DEF Sound, OwnerFns
  <2> QED
    BY <1>5, <1>6, <1>9, <2>1
<1>12. Replaces(new)
  BY <1>1, <1>9, <1>11, Zenon DEF Replaces
<1>13. Apart
  BY <1>1, <1>3, <1>4, <1>5, <1>10, HoldApart, ApartFrom
<1>14. Calling' /\ \A q : q # r => (Owned(q) => Owned(q)')
  BY <1>3, <1>12, <1>13, CallingStep
<1>15. Lists'
  <2>1. \A q \in Ids : q # r => Stays(q)
    BY <1>5, <1>10, <1>14, StaysQuiet
  <2>2. Placed(r)'
    <3>1. Waiting(r)'
      BY <1>4, <1>5, <1>10 DEF Waiting, Live
    <3> QED
      BY <1>4, <1>5, <1>10, <3>1 DEF Placed
  <2> QED
    BY <1>10, <2>1, <2>2, OnceKept, ListsStep
<1>16. Flipping' /\ Drawn'
  <2>1. ~Running("flip")
    BY <1>1 DEF Running
  <2>2. ~Running("flip")'
    <3>1. ~(stack' # <<>> /\ Head(stack').fn = "flip")
      BY <1>1, <1>9, <1>11, NoFlipNext
    <3> QED
      BY <3>1 DEF Running, Top
  <2> QED
    BY <1>4, <1>5, <1>10, <2>1, <2>2, FlipStays
<1>17. TypeOK'
  BY <1>9, TypedScrap, TypeStep
<1> QED
  BY <1>14, <1>15, <1>16, <1>17 DEF Inv

LEMMA KeepsCreate == ASSUME Inv, Create PROVE Inv'
<1>1. stack # <<>> /\ Top.fn = "create" /\ Top.of \in Ids
  BY RunsFn DEF Create, HoldFns, OwnerFns
<1>2. /\ Leaves(Rest, Elements(Rest)) /\ Elements(Rest) = {} /\ Sound(Top)
  <2>1. \A g \in Elements(Rest) : Over(Top, g)
    BY <1>1, Runs
  <2>2. Elements(Rest) = {}
    BY <1>1, <2>1 DEF Over
  <2> QED
    BY <1>1, <2>2, Runs
<1>3. PICK r \in Ids : r = Top.of
  BY <1>1
<1>4. /\ \A q \in Ids : q # r => Same(q)
      /\ vb'[r].st = vb[r].st /\ vb'[r].abort = vb[r].abort /\ vb'[r].window = vb[r].window
      /\ vb'[r].queued = TRUE
  <2> DEFINE early == Earlier(vb[r])
  <2>1. vb \in [Ids -> Vblank] /\ vb[r] \in Vblank
    BY DEF Inv, TypeOK
  <2>2. vb' = [vb EXCEPT ![r] = [vb[r] EXCEPT !.early = early, !.queued = TRUE]]
    BY <1>3, <2>1 DEF Create
  <2> HIDE DEF early
  <2>3. LET n == [vb[r] EXCEPT !.early = early, !.queued = TRUE]
        IN n.st = vb[r].st /\ n.abort = vb[r].abort /\ n.window = vb[r].window /\ n.queued = TRUE
    BY <2>1 DEF Vblank
  <2>4. vb'[r] = [vb[r] EXCEPT !.early = early, !.queued = TRUE]
        /\ \A q \in Ids : q # r => vb'[q] = vb[q]
    BY <2>1, <2>2
  <2> QED
    BY <2>3, <2>4 DEF Same
<1>5. Absent(r)
  BY <1>1, <1>2, <1>3, <1>4 DEF Absent, Sound, OwnerFns
<1>6. Listed(r)
  BY <1>3 DEF Listed, Create
<1>7. r # flip_pending
  BY <1>5 DEF Absent
<1> DEFINE c == Call("execute", r)
<1>8. c \in Frame /\ c.fn = "execute" /\ c.of = r
  BY CallTyped DEF VblankFns
<1>9. Continue(<<>>) \/ Continue(<<c>>)
  BY <1>3 DEF Create
<1> HIDE DEF c
<1>10. PICK new \in {{}, {c}} : Leaves(stack', new \cup Elements(Rest))
  <2>1. CASE Continue(<<>>)
    <3>1. Leaves(stack', {} \cup Elements(Rest))
      BY <1>2, <2>1, Returns DEF Continue, Rest
    <3> QED
      BY <3>1
  <2>2. CASE Continue(<<c>>)
    <3>1. Leaves(<<c>> \o Rest, {c} \cup Elements(Rest))
      BY <1>2, <1>8, GoesOn
    <3>2. Leaves(stack', {c} \cup Elements(Rest))
      BY <2>2, <3>1 DEF Continue, Rest
    <3> QED
      BY <3>2
  <2> QED
    BY <1>9, <2>1, <2>2
<1>11. \A f \in new : Sound(f)' /\ f.fn = "execute"
  <2>1. Sound(c)'
    BY <1>4, <1>8 DEF Sound, OwnerFns
  <2> QED
    BY <1>8, <1>10, <2>1
<1>12. Replaces(new)
  <2>1. CallFns(Elements(Rest)) \cap {"scrap", "create"} = {}
    BY <1>2 DEF CallFns
  <2> QED
    BY <1>1, <1>10, <1>11, <2>1, Zenon DEF Replaces
<1>13. Apart
  BY <1>2 DEF Apart
<1>14. Calling' /\ \A q : q # r => (Owned(q) => Owned(q)')
  BY <1>3, <1>12, <1>13, CallingStep
<1>15. Lists'
  BY <1>4, <1>5, <1>6, <1>14, ListedPlaced
<1>16. Flipping' /\ Drawn'
  <2>1. ~Running("flip")
    BY <1>1 DEF Running
  <2>2. ~Running("flip")'
    <3>1. ~(stack' # <<>> /\ Head(stack').fn = "flip")
      BY <1>1, <1>10, <1>11, NoFlipNext
    <3> QED
      BY <3>1 DEF Running, Top
  <2>3. UNCHANGED <<flip, winpix, flips, fences>>
    BY DEF Create
  <2> QED
    BY <1>4, <1>7, <2>1, <2>2, <2>3, FlipStays
<1>17. TypeOK'
  BY <1>10, TypedCreate, TypeStep
<1> QED
  BY <1>14, <1>15, <1>16, <1>17 DEF Inv

LEMMA KeepsDestroyWindow == ASSUME Inv, DestroyWindow PROVE Inv'
<1>1. Quiet
  BY TypedQuiet, SameAll DEF Quiet, DestroyWindow
<1>2. stack = <<>>
  BY DEF DestroyWindow, AtEventLoop
<1>3. PICK w \in Windows :
        stack' = [i \in DOMAIN window_list[w] |-> Call("abort", window_list[w][i])]
                 \o <<Call("clear", w)>>
  BY DEF DestroyWindow
<1> DEFINE list == window_list[w]
           s    == [i \in DOMAIN list |-> Call("abort", list[i])]
           c    == Call("clear", w)
<1>4. list \in Seq(Ids) /\ Once(list) /\ Len(list) \in Nat /\ DOMAIN list = 1 .. Len(list)
  BY LenProperties DEF Inv, TypeOK, Lists
<1>5. c \in Frame /\ c.fn = "clear"
  BY CallTyped DEF WindowFns
<1>6. \A i \in DOMAIN list : vb[list[i]].queued = TRUE /\ list[i] \in Ids
  <2> TAKE i \in DOMAIN list
  <2>1. list[i] \in Ids
    BY <1>4
  <2>2. Contains(list, list[i])
    BY <1>4 DEF Contains
  <2>3. Placed(list[i])
    BY <2>1 DEF Inv, Lists
  <2> QED
    BY <2>1, <2>2, <2>3 DEF Placed
<1>7. /\ DOMAIN s = DOMAIN list
      /\ \A i \in DOMAIN s : s[i] = Call("abort", list[i])
  OBVIOUS
<1>8. \A i \in DOMAIN s : s[i] \in Frame /\ s[i].fn = "abort" /\ s[i].of = list[i]
  BY <1>6, <1>7, CallTyped DEF VblankFns
<1>9. s \in Seq(Frame)
  <2>1. s \in [1 .. Len(list) -> Frame]
    BY <1>4, <1>7, <1>8
  <2> QED
    BY <1>4, <2>1, SeqDef
<1> HIDE DEF s, c, list
<1>10. Nested(s)
  <2> SUFFICES ASSUME NEW i \in DOMAIN s, NEW j \in DOMAIN s, i < j
               PROVE  Over(s[i], s[j])
    BY DEF Nested
  <2>1. i # j
    BY <1>4, <1>7
  <2>2. s[i].of # s[j].of
    BY <1>4, <1>7, <1>8, <2>1 DEF Once
  <2> QED
    BY <1>8, <2>2 DEF Over, TopFns
<1>11. \A f \in Elements(s) : f.fn = "abort" /\ vb[f.of].queued = TRUE
  BY <1>6, <1>7, <1>8 DEF Elements
<1>12. \A f \in Elements(s) : Over(f, c)
  BY <1>5, <1>11 DEF Over, TopFns, HoldFns, OwnerFns
<1>13. Leaves(stack', Elements(s) \cup {c})
  <2>1. Leaves(s, Elements(s))
    BY <1>9, <1>10 DEF Leaves
  <2>2. stack' = s \o <<c>>
    BY <1>3 DEF s, c, list
  <2> QED
    BY <1>5, <1>12, <2>1, <2>2, Followed
<1>14. \A f \in Elements(s) \cup {c} : Sound(f)' /\ f.fn \notin {"flip", "scrap", "create"}
  <2>1. vb' = vb
    BY DEF DestroyWindow
  <2> QED
    BY <1>5, <1>11, <2>1 DEF Sound, OwnerFns
<1> QED
  BY <1>1, <1>2, <1>13, <1>14, QuietStart

LEMMA KeepsPresent == ASSUME Inv, Present PROVE Inv'
<1>1. stack = <<>> /\ Elements(stack) = {} /\ ~Running("flip")
  BY NoCalls DEF Present, AtEventLoop, Running
<1>2. PICK a \in setup.attrs, w \in Windows \ gone : \E r \in Ids, target \in TargetAhead(a) :
         /\ vb[r].st = "new"
         /\ \E v \in NewVblank(a, w, target) : vb' = [vb EXCEPT ![r] = v]
         /\ \E scraps \in Calls("scrap", IF a.update \/ a.kind = "notify" THEN {}
                                        ELSE {q \in Ids : Overwrites(q, w, target)}) :
              stack' = scraps \o <<Call("create", r)>>
  BY DEF Present
<1>3. PICK r \in Ids, target \in TargetAhead(a) :
         /\ vb[r].st = "new"
         /\ \E v \in NewVblank(a, w, target) : vb' = [vb EXCEPT ![r] = v]
         /\ \E scraps \in Calls("scrap", IF a.update \/ a.kind = "notify" THEN {}
                                        ELSE {q \in Ids : Overwrites(q, w, target)}) :
              stack' = scraps \o <<Call("create", r)>>
  BY <1>2
<1>4. PICK v \in NewVblank(a, w, target) : vb' = [vb EXCEPT ![r] = v]
  BY <1>3
<1>5. v.st = "live" /\ v.window = w /\ v.queued = FALSE /\ v.abort = FALSE
  BY NewLive
<1>6. /\ vb'[r].st = "live" /\ vb'[r].window = w /\ vb'[r].queued = FALSE /\ vb'[r].abort = FALSE
      /\ \A q \in Ids : q # r => vb'[q] = vb[q]
  <2>1. vb \in [Ids -> Vblank]
    BY DEF Inv, TypeOK
  <2>2. vb'[r] = v /\ \A q \in Ids : q # r => vb'[q] = vb[q]
    BY <1>4, <2>1
  <2> QED
    BY <1>5, <2>2
<1>7. /\ Placed(r) /\ ~Live(r) /\ vb[r].queued = FALSE /\ r # flip_pending
  <2>1. Placed(r) /\ ~Live(r) /\ vb[r].queued \in BOOLEAN
    BY <1>3, FieldTypes DEF Inv, Lists, Live
  <2> QED
    BY <2>1 DEF Placed, Waiting, WithDriver
<1>8. UNCHANGED <<queues, flip, winpix, flips, fences>>
  BY DEF Present
<1>9. PICK S \in SUBSET Ids :
         /\ \A q \in S : vb[q].queued = TRUE /\ vb[q].pixmap = TRUE
         /\ \E scraps \in Calls("scrap", S) : stack' = scraps \o <<Call("create", r)>>
  <2> DEFINE S == IF a.update \/ a.kind = "notify" THEN {} ELSE {q \in Ids : Overwrites(q, w, target)}
  <2>1. S \in SUBSET Ids /\ \E scraps \in Calls("scrap", S) : stack' = scraps \o <<Call("create", r)>>
    BY <1>3
  <2>2. \A q \in S : vb[q].queued = TRUE /\ vb[q].pixmap = TRUE
    <3> SUFFICES ASSUME NEW q \in Ids, Overwrites(q, w, target)
                 PROVE  vb[q].queued = TRUE /\ vb[q].pixmap = TRUE
      OBVIOUS
    <3>1. vb[q].queued \in BOOLEAN /\ vb[q].pixmap \in BOOLEAN
      BY FieldTypes DEF Inv
    <3> QED
      BY <3>1 DEF Overwrites
  <2> QED
    BY <2>1, <2>2
<1>10. PICK s \in Calls("scrap", S) : stack' = s \o <<Call("create", r)>>
  BY <1>9
<1> DEFINE c == Call("create", r)
<1>11. c \in Frame /\ c.fn = "create" /\ c.of = r
  BY CallTyped DEF VblankFns
<1>12. /\ s \in Seq(Frame)
       /\ \A i \in DOMAIN s : s[i].fn = "scrap" /\ s[i].of \in S
       /\ \A i, j \in DOMAIN s : i # j => s[i].of # s[j].of
  <2>1. IsFiniteSet(S)
    <3>1. IsFiniteSet(Ids)
      BY PresentAssumption, FS_Interval DEF Ids
    <3> QED
      BY <3>1, FS_Subset
  <2>2. \A x \in S : Call("scrap", x) \in Frame
    BY CallTyped DEF VblankFns
  <2> QED
    BY <2>1, <2>2, CallsTyped
<1> HIDE DEF c
<1>13. \A f \in Elements(s) : f.fn = "scrap" /\ f.of \in S
  BY <1>12 DEF Elements
<1>14. Leaves(s, Elements(s))
  <2>1. DOMAIN s \subseteq Nat
    BY <1>12, LenProperties
  <2>2. \A i, j \in DOMAIN s : i < j => i # j
    BY <2>1
  <2>3. Nested(s)
    BY <1>12, <2>2 DEF Nested, Over, TopFns
  <2> QED
    BY <1>12, <2>3 DEF Leaves
<1>15. \A f \in Elements(s) : Over(f, c) /\ f.of # r
  BY <1>7, <1>9, <1>11, <1>13 DEF Over, TopFns
<1>16. Leaves(stack', Elements(s) \cup {c})
  <2>1. stack' = s \o <<c>>
    BY <1>10 DEF c
  <2> QED
    BY <1>11, <1>14, <1>15, <2>1, Followed
<1>17. \A f \in Elements(s) \cup {c} : Sound(f)' /\ f.fn \in {"scrap", "create"}
  <2>1. ASSUME NEW f \in Elements(s) PROVE Sound(f)' /\ f.fn = "scrap"
    <3>1. f.fn = "scrap" /\ f.of \in Ids /\ vb[f.of].queued = TRUE /\ vb[f.of].pixmap = TRUE
      BY <1>9, <1>13
    <3>2. vb'[f.of] = vb[f.of]
      BY <1>6, <1>15, <3>1
    <3> QED
      BY <3>1, <3>2 DEF Sound, OwnerFns
  <2>2. Sound(c)'
    BY <1>6, <1>7, <1>8, <1>11 DEF Sound, OwnerFns, Live
  <2> QED
    BY <1>11, <2>1, <2>2
<1>18. Calling'
  <2>1. \A f \in Elements(s) \cup {c} : f.fn \in {"execute", "post"} => vb'[f.of].pixmap = FALSE
    BY <1>17
  <2> QED
    BY <1>16, <1>17, <2>1, CallingFrom
<1>19. Lists'
  <2>1. \A q \in Ids : q # r => Stays(q)
    BY <1>1, <1>6, <1>7, <1>8 DEF Stays, Same, Owned
  <2>2. Placed(r)'
    <3>1. c \in Elements(stack')
      BY <1>16 DEF Leaves
    <3>2. Owned(r)'
      BY <1>11, <3>1 DEF Owned, Elements, OwnerFns
    <3>3. /\ ~Contains(exec_queue', r) /\ ~Contains(flip_queue', r)
          /\ \A x \in Windows : ~Contains(window_list'[x], r)
      BY <1>7, <1>8 DEF Placed
    <3> QED
      BY <1>6, <1>7, <1>8, <3>2, <3>3 DEF Placed
  <2> QED
    BY <1>8, <2>1, <2>2, OnceKept, ListsStep
<1>20. Flipping' /\ Drawn'
  <2>1. ~Running("flip")'
    <3>1. ~(stack' # <<>> /\ Head(stack').fn = "flip")
      BY <1>16, <1>17, NotRunning
    <3> QED
      BY <3>1 DEF Running, Top
  <2>2. \A q \in Ids : q # r => Same(q)
    BY <1>6 DEF Same
  <2> QED
    BY <1>1, <1>7, <1>8, <2>1, <2>2, FlipStays
<1>21. TypeOK'
  BY <1>16, TypedPresent, TypeStep
<1> QED
  BY <1>18, <1>19, <1>20, <1>21 DEF Inv
-----------------------------------------------------------------------------
(***************************************************************************)
(* Requests are executed.                                                  *)
(***************************************************************************)
LEMMA KeepsWaitFlip == ASSUME Inv, WaitFlip PROVE Inv'
<1>1. stack # <<>> /\ Top.fn = "execute" /\ Top.of \in Ids
  BY RunsFn DEF WaitFlip
<1>2. /\ Leaves(Rest, Elements(Rest)) /\ \A g \in Elements(Rest) : Over(Top, g) /\ Sound(g)
      /\ Sound(Top) /\ Elements(stack) = {Top} \cup Elements(Rest)
  BY <1>1, Runs
<1>3. PICK r \in Ids : r = Top.of
  BY <1>1
<1>4. Leaves(stack', {} \cup Elements(Rest))
  BY <1>2, Returns DEF WaitFlip, Continue, Rest
<1>5. /\ exec_queue' = Without(exec_queue, r)
      /\ flip_queue' = Append(Without(flip_queue, r), r)
      /\ UNCHANGED <<window_list, flip, winpix, flips, fences>>
  BY <1>3 DEF WaitFlip
<1>6. \A q \in Ids : Same(q)
  <2> TAKE q \in Ids
  <2>1. vb \in [Ids -> Vblank] /\ vb[r] \in Vblank
    BY DEF Inv, TypeOK
  <2>2. vb' = [vb EXCEPT ![r] = [vb[r] EXCEPT !.flip_ready = TRUE]]
    BY <1>3, <2>1 DEF WaitFlip
  <2>3. LET n == [vb[r] EXCEPT !.flip_ready = TRUE]
        IN /\ n.st = vb[r].st /\ n.queued = vb[r].queued /\ n.abort = vb[r].abort
           /\ n.window = vb[r].window /\ n.pixmap = vb[r].pixmap /\ n.flip = vb[r].flip
           /\ n.fence = vb[r].fence
    BY <2>1 DEF Vblank
  <2>4. vb'[q] = IF q = r THEN [vb[r] EXCEPT !.flip_ready = TRUE] ELSE vb[q]
    BY <2>1, <2>2
  <2> QED
    BY <2>3, <2>4 DEF Same
<1>7. Replaces({})
  BY <1>1, <1>4, Zenon DEF Replaces
<1>8. Apart
  <2>1. \A g \in Elements(Rest) : g.fn = "trigger" => g.of \in Ids
    BY <1>1, HoldApart
  <2>2. \A g \in Elements(Rest) : g.fn = "trigger" /\ g.of = flip_pending => vb[g.of].window # NoWin
    BY <1>2 DEF Sound
  <2> QED
    BY <1>1, <1>5, <1>6, <2>1, <2>2, HoldApart DEF Apart, Same
<1>9. Calling' /\ \A q : q # r => (Owned(q) => Owned(q)')
  BY <1>3, <1>7, <1>8, CallingStep
<1>10. /\ exec_queue \in Seq(Ids) /\ flip_queue \in Seq(Ids) /\ Once(exec_queue) /\ Once(flip_queue)
       /\ Without(flip_queue, r) \in Seq(Ids)
  BY WithoutTyped DEF Inv, TypeOK, Lists
<1>11. Once(exec_queue') /\ \A q : Contains(exec_queue', q) <=> Contains(exec_queue, q) /\ q # r
  BY <1>5, <1>10, WithoutHas
<1>12. Once(flip_queue') /\ \A q : Contains(flip_queue', q) <=> Contains(flip_queue, q) \/ q = r
  <2> DEFINE l == Without(flip_queue, r)
  <2>1. Once(l) /\ \A q : Contains(l, q) <=> Contains(flip_queue, q) /\ q # r
    BY <1>10, WithoutHas
  <2>2. l \in Seq(Ids) /\ flip_queue' = Append(l, r)
    BY <1>5, <1>10
  <2> HIDE DEF l
  <2> QED
    BY <2>1, <2>2, AppendHas
<1>13. Lists'
  <2>1. \A q \in Ids : q # r => Stays(q)
    BY <1>5, <1>6, <1>9, <1>11, <1>12 DEF Stays
  <2>2. Placed(r)'
    <3>1. Placed(r) /\ (vb[r].queued = TRUE \/ r = flip_pending)
      BY <1>1, <1>2, <1>3 DEF Sound, Inv, Lists
    <3>2. Live(r)' <=> Live(r)
      BY <1>6 DEF Live, Same
    <3>3. vb[r].queued = TRUE => Waiting(r)'
      BY <1>5, <1>6, <1>12, <3>1, <3>2 DEF Placed, Waiting, Same
    <3>4. r = flip_pending => WithDriver(r)'
      <4>1. WithDriver(r) => vb'[r].flip = TRUE
        BY <1>6 DEF WithDriver, Same
      <4> QED
        BY <1>5, <1>6, <1>12, <3>1, <3>2, <4>1 DEF Placed, WithDriver, Same
    <3> QED
      BY <1>5, <1>6, <1>11, <1>12, <3>1, <3>2, <3>3, <3>4 DEF Placed, Same
  <2>3. Once(exec_queue)' /\ Once(flip_queue)' /\ \A w \in Windows : Once(window_list[w])'
    BY <1>5, <1>11, <1>12 DEF Inv, Lists, Once
  <2> QED
    BY <2>1, <2>2, <2>3, ListsStep
<1>14. Flipping' /\ Drawn'
  <2>1. ~Running("flip")
    BY <1>1 DEF Running
  <2>2. ~Running("flip")'
    <3>1. ~(stack' # <<>> /\ Head(stack').fn = "flip")
      BY <1>1, <1>4, NoFlipNext
    <3> QED
      BY <3>1 DEF Running, Top
  <2>3. Unflip # flip_pending
    BY IdsNat DEF Inv, TypeOK
  <2>4. UNCHANGED <<flip, winpix, flips, fences>>
    BY <1>5
  <2> QED
    BY <1>6, <2>1, <2>2, <2>3, <2>4, FlipStays
<1>15. TypeOK'
  BY <1>4, TypedWaitFlip, TypeStep
<1> QED
  BY <1>9, <1>13, <1>14, <1>15 DEF Inv

LEMMA KeepsExecute == ASSUME Inv, Execute PROVE Inv'
<1>1. stack # <<>> /\ Top.fn = "execute" /\ Top.of \in Ids
  BY RunsFn DEF Execute
<1>2. /\ Leaves(Rest, Elements(Rest)) /\ \A g \in Elements(Rest) : Over(Top, g) /\ Sound(g)
      /\ Sound(Top) /\ Elements(stack) = {Top} \cup Elements(Rest)
  BY <1>1, Runs
<1>3. PICK r \in Ids : r = Top.of
  BY <1>1
<1>4. /\ vb[r].queued = TRUE /\ r # flip_pending /\ Placed(r) /\ Waiting(r)
  <2>1. ASSUME r = flip_pending, vb[r].window # NoWin PROVE FALSE
    <3>1. vb[r].flip = TRUE /\ vb[r].pixmap = TRUE
      BY <2>1 DEF Inv, Lists, Placed, WithDriver
    <3>2. Flips(r) /\ IsFlipping
      BY <2>1, <3>1, IdsNat DEF Flips, IsFlipping
    <3> QED
      BY <1>3, <3>2 DEF Execute
  <2>2. Placed(r)
    BY DEF Inv, Lists
  <2>3. vb[r].queued = TRUE
    BY <1>1, <1>2, <1>3, <2>1 DEF Sound
  <2> QED
    BY <2>2, <2>3 DEF Placed, WithDriver
<1>5. PICK flipping \in BOOLEAN, next \in {"flip", "flip_over", "post"}, c \in Frame :
        /\ flipping <=> Presents(r) /\ vb[r].flip
        /\ next = IF flipping THEN "flip" ELSE IF Presents(r) THEN "flip_over" ELSE "post"
        /\ c = Call(next, r)
        /\ Ready(r) /\ ~(Flips(r) /\ IsFlipping)
        /\ exec_queue' = Without(exec_queue, r)
        /\ flip_queue' = If(flipping, <<r>>) \o Without(flip_queue, r)
        /\ window_list' = [w \in Windows |-> Without(window_list[w], r)]
        /\ vb' = [vb EXCEPT ![r].queued = FALSE]
        /\ flip_pending' = IF flipping THEN r ELSE flip_pending
        /\ Continue(<<c>>)
        /\ UNCHANGED <<flip_pixmap, flip_window, unflip, winpix, flips, fences>>
  <2> DEFINE flipping == Presents(r) /\ vb[r].flip
             next == IF flipping THEN "flip" ELSE IF Presents(r) THEN "flip_over" ELSE "post"
  <2>1. flipping \in BOOLEAN /\ next \in {"flip", "flip_over", "post"}
    OBVIOUS
  <2>2. Call(next, r) \in Frame
    BY <2>1, CallTyped DEF VblankFns
  <2> QED
    BY <1>3, <2>1, <2>2 DEF Execute
<1>6. c.fn = next /\ c.of = r
  BY <1>5, CallTyped
<1>7. /\ flipping => flip_pending = NoId /\ unflip = FALSE /\ next = "flip" /\ vb[r].flip = TRUE
                     /\ vb[r].pixmap = TRUE
      /\ next = "flip_over" => ~flipping /\ vb[r].pixmap = TRUE /\ vb[r].flip = FALSE
      /\ next = "flip" => flipping
      /\ next = "post" => ~flipping
      /\ vb[r].pixmap = FALSE => next = "post"
  <2>1. vb[r].flip \in BOOLEAN /\ vb[r].pixmap \in BOOLEAN /\ unflip \in BOOLEAN
    BY FieldTypes DEF Inv, TypeOK
  <2>2. flipping => Flips(r)
    BY <1>5 DEF Flips, Presents
  <2>3. flipping => ~IsFlipping
    BY <1>5, <2>2
  <2>4. Presents(r) => vb[r].pixmap = TRUE
    BY <2>1 DEF Presents
  <2>5. flipping => flip_pending = NoId /\ unflip = FALSE
    BY <2>1, <2>3 DEF IsFlipping
  <2> QED
    BY <1>5, <2>1, <2>4, <2>5
<1>9. /\ \A q \in Ids : q # r => Same(q)
      /\ vb'[r].st = vb[r].st /\ vb'[r].abort = vb[r].abort /\ vb'[r].window = vb[r].window
      /\ vb'[r].pixmap = vb[r].pixmap /\ vb'[r].flip = vb[r].flip /\ vb'[r].fence = vb[r].fence
      /\ vb'[r].queued = FALSE
  <2>1. vb \in [Ids -> Vblank] /\ vb[r] \in Vblank
    BY DEF Inv, TypeOK
  <2>2. LET n == [vb[r] EXCEPT !.queued = FALSE]
        IN /\ n.st = vb[r].st /\ n.abort = vb[r].abort /\ n.window = vb[r].window
           /\ n.pixmap = vb[r].pixmap /\ n.flip = vb[r].flip /\ n.fence = vb[r].fence
           /\ n.queued = FALSE
    BY <2>1 DEF Vblank
  <2>3. vb'[r] = [vb[r] EXCEPT !.queued = FALSE] /\ \A q \in Ids : q # r => vb'[q] = vb[q]
    BY <1>5, <2>1
  <2> QED
    BY <2>2, <2>3 DEF Same
<1>10. \A g \in Elements(Rest) : Over(c, g)
  <2> TAKE g \in Elements(Rest)
  <2>1. g.fn \notin TopFns /\ g.fn \notin {"abort", "clear"}
    BY <1>1, <1>2 DEF Over
  <2>2. g.fn \in HoldFns => g.of # r
    BY <1>1, <1>3, ExecuteApart
  <2>3. ASSUME g.fn \in {"scrap", "create"} PROVE next = "post"
    <3>1. Scrapping(stack)
      BY <1>2, <2>3 DEF Scrapping
    <3>2. vb[r].pixmap = FALSE
      BY <1>1, <1>2, <1>3, <3>1 DEF Inv, Calling, Scraps
    <3> QED
      BY <1>7, <3>2
  <2> QED
    BY <1>6, <2>1, <2>2, <2>3 DEF Over
<1>11. Leaves(stack', {c} \cup Elements(Rest))
  <2>1. Leaves(<<c>> \o Rest, {c} \cup Elements(Rest))
    BY <1>2, <1>6, <1>10, GoesOn
  <2> QED
    BY <1>5, <2>1 DEF Continue, Rest
<1>12. Sound(c)'
  <2>1. Live(r)' /\ vb'[r].abort = FALSE /\ vb'[r].window \in Windows
    BY <1>4, <1>9 DEF Waiting, Live
  <2>2. CASE next = "flip"
    BY <1>5, <1>6, <1>7, <2>1, <2>2 DEF Sound, OwnerFns
  <2>3. CASE next # "flip"
    <3>1. r # flip_pending'
      BY <1>4, <1>5, <1>7, <2>3
    <3>2. next = "flip_over" => vb'[r].pixmap = TRUE /\ vb'[r].flip = FALSE
      BY <1>7, <1>9
    <3> QED
      BY <1>6, <1>9, <2>1, <2>3, <3>1, <3>2 DEF Sound, OwnerFns
  <2> QED
    BY <2>2, <2>3
<1>13. Replaces({c})
  <2>1. \A f \in {c} : Sound(f)' /\ f.fn \notin {"scrap", "create"}
    BY <1>6, <1>12
  <2>2. CallFns(Elements(Rest)) \cap {"scrap", "create"} # {} => vb'[r].pixmap = FALSE
    <3> SUFFICES ASSUME CallFns(Elements(Rest)) \cap {"scrap", "create"} # {}
                 PROVE  vb'[r].pixmap = FALSE
      OBVIOUS
    <3>1. Scrapping(stack)
      BY <1>2 DEF Scrapping, CallFns
    <3> QED
      BY <1>1, <1>2, <1>3, <1>9, <3>1 DEF Inv, Calling, Scraps
  <2>3. CallFns(Elements(Rest)) \cap {"scrap", "create"} # {}
          => \A f \in {c} : f.fn \in {"execute", "post"} => vb'[f.of].pixmap = FALSE
    BY <1>6, <2>2
  <2> QED
    BY <1>1, <1>11, <2>1, <2>3, Zenon DEF Replaces
<1>14. Apart
  <2>1. \A g \in Elements(Rest) : g.fn \in HoldFns => g.of \in Ids /\ g.of # r /\ g.of # flip_pending
    BY <1>1, <1>3, ExecuteApart, HoldApart
  <2>2. flip_pending' = r \/ flip_pending' = flip_pending
    BY <1>5
  <2>3. \A g \in Elements(Rest) : g.fn = "trigger" /\ g.of = flip_pending' => vb'[g.of].window # NoWin
    <3> TAKE g \in Elements(Rest)
    <3>1. vb'[r].window # NoWin
      BY <1>4, <1>9, PresentAssumption DEF Waiting
    <3>2. g.fn = "trigger" => g.of \in Ids
      BY <1>1, HoldApart
    <3>3. g.fn = "trigger" /\ g.of = flip_pending => vb[g.of].window # NoWin
      BY <1>2 DEF Sound
    <3>4. g.fn = "trigger" /\ g.of = flip_pending => vb'[g.of].window = vb[g.of].window
      BY <1>4, <1>9, <3>2 DEF Same
    <3> QED
      BY <2>2, <3>1, <3>3, <3>4
  <2> QED
    BY <1>9, <2>1, <2>2, <2>3 DEF Apart
<1>15. Calling' /\ \A q : q # r => (Owned(q) => Owned(q)')
  BY <1>3, <1>13, <1>14, CallingStep
<1>16. /\ exec_queue \in Seq(Ids) /\ flip_queue \in Seq(Ids) /\ Once(exec_queue) /\ Once(flip_queue)
       /\ Without(flip_queue, r) \in Seq(Ids)
       /\ window_list \in [Windows -> Seq(Ids)] /\ \A w \in Windows : Once(window_list[w])
  BY WithoutTyped DEF Inv, TypeOK, Lists
<1>17. Once(exec_queue') /\ \A q : Contains(exec_queue', q) <=> Contains(exec_queue, q) /\ q # r
  BY <1>5, <1>16, WithoutHas
<1>18. /\ Once(flip_queue')
       /\ \A q : q # r => (Contains(flip_queue', q) <=> Contains(flip_queue, q))
       /\ Contains(flip_queue', r) <=> flipping
  <2> DEFINE l == Without(flip_queue, r)
  <2>1. Once(l) /\ \A q : Contains(l, q) <=> Contains(flip_queue, q) /\ q # r
    BY <1>16, WithoutHas
  <2>2. l \in Seq(Ids) /\ flip_queue' = If(flipping, <<r>>) \o l
    BY <1>5, <1>16
  <2> HIDE DEF l
  <2>3. CASE flipping
    <3>1. flip_queue' = <<r>> \o l
      BY <2>2, <2>3 DEF If
    <3>2. \A q : Contains(<<r>> \o l, q) <=> Contains(l, q) \/ q = r
      BY <2>2, PrependHas
    <3>3. Once(<<r>> \o l)
      BY <2>1, <2>2, PrependHas
    <3> QED
      BY <2>1, <2>3, <3>1, <3>2, <3>3
  <2>4. CASE ~flipping
    <3>1. flip_queue' = <<>> \o l
      BY <2>2, <2>4 DEF If
    <3>2. flip_queue' = l
      BY <2>2, <3>1, ConcatEmptySeq
    <3> QED
      BY <2>1, <2>4, <3>2
  <2> QED
    BY <2>3, <2>4
<1>19. \A w \in Windows :
         /\ Once(window_list'[w])
         /\ \A q : Contains(window_list'[w], q) <=> Contains(window_list[w], q) /\ q # r
  <2> TAKE w \in Windows
  <2>1. window_list'[w] = Without(window_list[w], r) /\ window_list[w] \in Seq(Ids)
    BY <1>5, <1>16
  <2> QED
    BY <1>16, <2>1, WithoutHas
<1>20. Lists'
  <2>1. \A q \in Ids : q # r => Stays(q)
    <3>1. \A q \in Ids : q # r => (q = flip_pending' <=> q = flip_pending)
      BY <1>5, <1>7, IdsNat
    <3> QED
      BY <1>9, <1>15, <1>17, <1>18, <1>19, <3>1 DEF Stays
  <2>2. Placed(r)'
    <3>1. ~Contains(exec_queue', r) /\ \A w \in Windows : ~Contains(window_list'[w], r)
      BY <1>17, <1>19
    <3>2. r = flip_pending' <=> flipping
      BY <1>4, <1>5
    <3>3. flipping => WithDriver(r)'
      BY <1>4, <1>7, <1>9, <1>18 DEF WithDriver, Waiting, Live
    <3>4. ~flipping => Owned(r)'
      <4>1. c \in Elements(stack')
        BY <1>11 DEF Leaves
      <4>2. ~flipping => c.fn \in OwnerFns
        BY <1>6, <1>7 DEF OwnerFns
      <4> QED
        BY <1>6, <4>1, <4>2 DEF Owned, Elements
    <3> QED
      BY <1>9, <1>18, <3>1, <3>2, <3>3, <3>4 DEF Placed
  <2>3. Once(exec_queue)' /\ Once(flip_queue)' /\ \A w \in Windows : Once(window_list[w])'
    BY <1>17, <1>18, <1>19 DEF Once
  <2> QED
    BY <2>1, <2>2, <2>3, ListsStep
<1>21. ~Running("flip")
  BY <1>1 DEF Running
<1>22. Flipping' /\ Drawn'
  <2>1. CASE flipping
    <3>1. Flipping'
      <4>1. ~Waits(r)'
        BY <1>5, <1>9 DEF Ready, Waits
      <4>2. flip_pending' = r /\ unflip' = FALSE
        BY <1>5, <1>7, <2>1
      <4> QED
        BY <1>5, <4>1, <4>2 DEF Inv, Flipping, Waits
    <3>2. Drawn'
      <4>1. stack' # <<>> /\ Head(stack') = c
        <5>1. <<c>> \o Rest # <<>> /\ Head(<<c>> \o Rest) = c
          BY <1>2, <1>6, <1>10, GoesOn
        <5> QED
          BY <1>5, <5>1 DEF Continue, Rest
      <4>2. Running("flip")'
        BY <1>6, <1>7, <2>1, <4>1 DEF Running, Top
      <4>3. ~Accepted /\ ~Accepted'
        BY <1>7, <2>1, <4>2 DEF Accepted
      <4>4. Shown' = Shown /\ ShownIn' = ShownIn /\ (Ending' <=> Ending)
        BY <1>5, <4>3 DEF Shown, ShownIn, Ending
      <4> QED
        BY <1>5, <4>4 DEF Inv, Drawn, Drawable
    <3> QED
      BY <3>1, <3>2
  <2>2. CASE ~flipping
    <3>1. ~Running("flip")'
      <4>1. ~(stack' # <<>> /\ Head(stack').fn = "flip")
        BY <1>1, <1>6, <1>7, <1>11, <2>2, NoFlipNext
      <4> QED
        BY <4>1 DEF Running, Top
    <3>2. UNCHANGED <<flip, winpix, flips, fences>>
      BY <1>5, <2>2
    <3>3. r # flip_pending /\ \A q \in Ids : q # r => Same(q)
      BY <1>4, <1>9
    <3> QED
      BY <1>21, <3>1, <3>2, <3>3, FlipStays
  <2> QED
    BY <2>1, <2>2
<1>23. TypeOK'
  BY <1>11, TypedExecute, TypeStep
<1> QED
  BY <1>15, <1>20, <1>22, <1>23 DEF Inv
-----------------------------------------------------------------------------
(***************************************************************************)
(* The invariant holds.                                                    *)
(***************************************************************************)
LEMMA InitKeeps == Init => Inv
<1> SUFFICES ASSUME Init PROVE Inv
  OBVIOUS
<1>1. /\ stack = <<>> /\ exec_queue = <<>> /\ flip_queue = <<>> /\ flip_pending = NoId
      /\ flip_pixmap = NoId /\ flip_window = NoWin /\ unflip = FALSE /\ flips = {}
      /\ vb = [r \in Ids |-> Blank] /\ window_list = [w \in Windows |-> <<>>]
      /\ winpix = [x \in Windows \cup {Root} |-> Screen]
  BY DEF Init
<1>2. \A r \in Ids : vb[r] = Blank /\ vb[r].st = "new" /\ vb[r].queued = FALSE /\ r # NoId
  <2>1. Blank.st = "new" /\ Blank.queued = FALSE
    BY DEF Blank
  <2> QED
    BY <1>1, <2>1, IdsNat
<1>3. TypeOK
  <2>1. vb \in [Ids -> Vblank]
    BY <1>1, BlankTyped
  <2>2. /\ exec_queue \in Seq(Ids) /\ flip_queue \in Seq(Ids) /\ stack \in Seq(Frame)
        /\ window_list \in [Windows -> Seq(Ids)]
    BY <1>1
  <2>3. /\ flip_pending \in Ids \cup {NoId} /\ flip_pixmap \in Ids \cup {NoId}
        /\ flip_window \in Windows \cup {NoWin} /\ unflip \in BOOLEAN
        /\ winpix \in [Windows \cup {Root} -> Ids \cup {Screen}]
    BY <1>1
  <2>4. /\ full \in Windows \cup {NoWin} /\ gone \subseteq Windows /\ cursor \in BOOLEAN
        /\ events \subseteq Ids \X (0 .. MaxAhead + 2)
        /\ flips \subseteq Ids \cup {Unflip} /\ fakes \subseteq Ids
        /\ scanout \in Ids \cup {Screen} /\ fences \subseteq Ids /\ setup \in Setups
    BY DEF Init
  <2> QED
    BY <2>1, <2>2, <2>3, <2>4 DEF TypeOK
<1>4. Lists
  <2>1. Once(exec_queue) /\ Once(flip_queue) /\ \A w \in Windows : Once(window_list[w])
    BY <1>1, HasNone
  <2>2. ASSUME NEW r \in Ids PROVE Placed(r)
    <3>1. /\ ~Contains(exec_queue, r) /\ ~Contains(flip_queue, r)
          /\ \A w \in Windows : ~Contains(window_list[w], r)
      BY <1>1, HasNone
    <3>2. vb[r].queued = FALSE /\ ~Live(r) /\ r # flip_pending
      BY <1>1, <1>2 DEF Live
    <3> QED
      BY <3>1, <3>2 DEF Placed
  <2> QED
    BY <2>1, <2>2 DEF Lists
<1>5. Calling
  <2>1. Elements(stack) = {} /\ Nested(stack)
    BY <1>1, NoCalls
  <2> QED
    BY <2>1 DEF Calling, Scraps
<1>6. Flipping
  BY <1>1 DEF Flipping
<1>7. Drawn
  <2>1. \A x \in Drawable : winpix[x] = Screen
    BY <1>1 DEF Drawable
  <2> QED
    BY <2>1 DEF Drawn
<1> QED
  BY <1>3, <1>4, <1>5, <1>6, <1>7 DEF Inv

LEMMA ServerKeeps == ASSUME Inv, Server PROVE Inv'
<1>1. CASE Requeue \/ WaitFence \/ WaitFlip \/ Execute \/ FlipSucceeds \/ FlipFails \/ FlipOver
  BY <1>1, KeepsRequeue, KeepsWaitFence, KeepsWaitFlip, KeepsExecute, KeepsFlipSucceeds,
     KeepsFlipFails, KeepsFlipOver
<1>2. CASE CopyLater \/ Copy \/ CopyTearFree \/ Post \/ Notify \/ FlipNotify \/ TryReady
  BY <1>2, KeepsCopyLater, KeepsCopy, KeepsCopyTearFree, KeepsPost, KeepsNotify,
     KeepsFlipNotify, KeepsTryReady
<1>3. CASE StartUnflip \/ UnflipNotify \/ CheckFlipWindow \/ CheckQueued \/ Scrap \/ Create
  BY <1>3, StartsUnflip, KeepsUnflipNotify, KeepsCheckFlipWindow, KeepsCheckQueued, KeepsScrap,
     KeepsCreate
<1>4. CASE Trigger \/ Abort \/ ClearWindowFlip \/ Checked \/ Drained
  BY <1>4, KeepsTrigger, KeepsAbort, KeepsClearWindowFlip, KeepsChecked, KeepsDrained
<1> QED
  BY <1>1, <1>2, <1>3, <1>4 DEF Server

LEMMA StutterKeeps == ASSUME Inv, UNCHANGED vars PROVE Inv'
<1>1. UNCHANGED <<vb, exec_queue, flip_queue, window_list, flip_pending, flip_pixmap, flip_window,
                  unflip, winpix, full, gone, cursor, fences, setup, events, flips, fakes,
                  scanout, stack>>
  BY DEF vars
<1>2. TypeOK'
  BY <1>1 DEF Inv, TypeOK
<1>3. Lists'
  BY <1>1 DEF Inv, Lists, Placed, Waiting, WithDriver, Live, Owned, Once, Elements
<1>4. Calling'
  BY <1>1 DEF Inv, Calling, Nested, Scraps, Scrapping, Sound, Live, Elements
<1>5. Flipping' /\ Drawn'
  BY <1>1 DEF Inv, Flipping, Drawn, Drawable, Waits, Shown, ShownIn, Ending, Accepted, Running, Top
<1> QED
  BY <1>2, <1>3, <1>4, <1>5 DEF Inv

LEMMA NextKeeps == ASSUME Inv, [Next]_vars PROVE Inv'
<1>1. CASE Kernel \/ Tick
  BY <1>1, KeepsEvents, KeepsTick DEF Kernel
<1>2. CASE Present \/ TriggerFence \/ Restack \/ DestroyWindow \/ Cursor \/ PrepareModeset
  BY <1>2, KeepsPresent, KeepsTriggerFence, KeepsRestack, KeepsDestroyWindow, KeepsCursor,
     KeepsPrepareModeset
<1> QED
  BY <1>1, <1>2, ServerKeeps, StutterKeeps DEF Next

\* The invariant holds, with its parts: where each request is and that each list has it once,
\* what the calls that are under way may rely on, what is with the driver, and what
\* the windows draw to.
THEOREM Holds == Spec => []Inv
<1>1. Init => Inv
  BY InitKeeps
<1>2. Inv /\ [Next]_vars => Inv'
  BY NextKeeps
<1> QED
  BY <1>1, <1>2, PTL DEF Spec

\* Every variable has its type.
THEOREM TypesHold == Spec => []TypeOK
<1>1. Inv => TypeOK
  BY DEF Inv
<1> QED
  BY <1>1, Holds, PTL

-----------------------------------------------------------------------------
(***************************************************************************)
(* What follows.                                                           *)
(***************************************************************************)
LEMMA OnOnce ==
  ASSUME NEW list \in Seq(Ids), Once(list), NEW r
  PROVE  Cardinality({i \in DOMAIN list : list[i] = r}) = IF Contains(list, r) THEN 1 ELSE 0
<1> DEFINE S == {i \in DOMAIN list : list[i] = r}
<1>1. Contains(list, r) <=> \E i \in DOMAIN list : list[i] = r
  <2>1. DOMAIN list = 1 .. Len(list)
    BY LenProperties
  <2> QED
    BY <2>1 DEF Contains
<1>2. CASE Contains(list, r)
  <2>1. PICK i \in DOMAIN list : list[i] = r
    BY <1>1, <1>2
  <2>2. S = {i}
    BY <2>1 DEF Once
  <2> HIDE DEF S
  <2>3. Cardinality(S) = 1
    BY <2>2, FS_Singleton
  <2> QED
    BY <1>2, <2>3 DEF S
<1>3. CASE ~Contains(list, r)
  <2>1. S = {}
    BY <1>1, <1>3
  <2> HIDE DEF S
  <2>2. Cardinality(S) = 0
    BY <2>1, FS_EmptySet
  <2> QED
    BY <1>3, <2>2 DEF S
<1> QED
  BY <1>2, <1>3

LEMMA LinkedFollows == Inv => Linked
<1> SUFFICES ASSUME Inv PROVE Linked
  OBVIOUS
<1> DEFINE on(list, r) == Cardinality({i \in DOMAIN list : list[i] = r})
           queued(r)   == on(exec_queue, r) + on(flip_queue, r)
           listed(r)   == {w \in Windows : on(window_list[w], r) > 0}
<1>1. TypeOK
  BY DEF Inv
<1> SUFFICES ASSUME NEW r \in Ids
             PROVE  /\ queued(r) > 0 \/ listed(r) # {} \/ r = flip_pending => Live(r)
                    /\ \A i \in DOMAIN stack :
                         stack[i].fn \in VblankFns \ {"notify", "trigger"} /\ stack[i].of = r => Live(r)
                    /\ AtEventLoop /\ Live(r) =>
                         /\ queued(r) = 1
                         /\ IF vb[r].queued
                            THEN listed(r) = {vb[r].window} /\ on(window_list[vb[r].window], r) = 1
                            ELSE flip_pending = r /\ listed(r) = {}
  BY <1>1, Zenon DEF Linked
<1>2. on(exec_queue, r) = IF Contains(exec_queue, r) THEN 1 ELSE 0
  BY OnOnce DEF Inv, TypeOK, Lists
<1>3. on(flip_queue, r) = IF Contains(flip_queue, r) THEN 1 ELSE 0
  BY OnOnce DEF Inv, TypeOK, Lists
<1>4. \A w \in Windows : on(window_list[w], r) = IF Contains(window_list[w], r) THEN 1 ELSE 0
  <2> TAKE w \in Windows
  <2>1. window_list[w] \in Seq(Ids) /\ Once(window_list[w])
    BY DEF Inv, TypeOK, Lists
  <2> QED
    BY <2>1, OnOnce
<1> HIDE DEF on
<1>5. Placed(r) /\ vb[r].queued \in BOOLEAN
  BY FieldTypes DEF Inv, Lists
<1>6. queued(r) = (IF Contains(exec_queue, r) THEN 1 ELSE 0) + (IF Contains(flip_queue, r) THEN 1 ELSE 0)
  BY <1>2, <1>3
<1>7. listed(r) = {w \in Windows : Contains(window_list[w], r)}
  BY <1>4
<1> HIDE DEF queued, listed
<1>8. queued(r) > 0 \/ listed(r) # {} \/ r = flip_pending => Live(r)
  <2>1. Contains(exec_queue, r) \/ Contains(flip_queue, r) \/ (\E w \in Windows : Contains(window_list[w], r))
          \/ r = flip_pending => Live(r)
    BY <1>5 DEF Placed, Waiting, WithDriver
  <2> QED
    BY <1>6, <1>7, <2>1
<1>9. ASSUME NEW i \in DOMAIN stack, stack[i].fn \in VblankFns \ {"notify", "trigger"}, stack[i].of = r
      PROVE  Live(r)
  <2>1. Sound(stack[i])
    BY DEF Inv, Calling, Elements
  <2>2. vb[r].queued = TRUE \/ r = flip_pending => Live(r)
    BY <1>5 DEF Placed, Waiting, WithDriver
  <2>3. stack[i].fn \in OwnerFns \cup {"scrap", "abort", "execute", "flip"}
    BY <1>9 DEF VblankFns, OwnerFns
  <2> QED
    BY <1>9, <2>1, <2>2, <2>3 DEF Sound
<1>10. ASSUME AtEventLoop, Live(r)
       PROVE  /\ queued(r) = 1
              /\ IF vb[r].queued
                 THEN listed(r) = {vb[r].window} /\ on(window_list[vb[r].window], r) = 1
                 ELSE flip_pending = r /\ listed(r) = {}
  <2>1. ~Owned(r)
    BY <1>10, NoCalls DEF Owned, AtEventLoop
  <2>2. CASE vb[r].queued = TRUE
    <3>1. Waiting(r)
      BY <1>5, <2>2 DEF Placed
    <3>2. \A w \in Windows : Contains(window_list[w], r) <=> w = vb[r].window
      BY <1>5, <3>1 DEF Placed, Waiting
    <3>3. listed(r) = {vb[r].window}
      BY <1>7, <3>1, <3>2 DEF Waiting
    <3>4. on(window_list[vb[r].window], r) = 1
      BY <1>4, <3>1 DEF Waiting
    <3>5. queued(r) = 1
      BY <1>5, <1>6, <3>1 DEF Placed, Waiting
    <3> QED
      BY <2>2, <3>3, <3>4, <3>5
  <2>3. CASE vb[r].queued = FALSE
    <3>1. r = flip_pending /\ WithDriver(r)
      BY <1>5, <1>10, <2>1, <2>3 DEF Placed
    <3>2. ~Contains(exec_queue, r) /\ \A w \in Windows : ~Contains(window_list[w], r)
      BY <1>5, <2>3 DEF Placed
    <3> QED
      BY <1>6, <1>7, <2>3, <3>1, <3>2 DEF WithDriver
  <2> QED
    BY <1>5, <2>2, <2>3
<1> QED
  BY <1>8, <1>9, <1>10

\* Linked: what the lists and the calls name is not freed, and between handlers each
\* request that lives is once on the exec or the flip queue and once on the list of
\* its window, unless it is with the driver.
THEOREM StaysLinked == Spec => []Linked
  BY LinkedFollows, Holds, PTL

\* DrawsToHeld: no window draws to a pixmap that its client may have back, and none to a
\* client's from the start of an unflip.
THEOREM DrawsHeld == Spec => []DrawsToHeld
<1>1. Inv => DrawsToHeld
  <2> SUFFICES ASSUME Inv, NEW x \in (Windows \ gone) \cup {Root}
               PROVE  winpix[x] \in {Screen} \cup (IF unflip THEN {} ELSE {flip_pixmap, flip_pending})
    BY DEF DrawsToHeld
  <2>1. x \in Drawable /\ unflip \in BOOLEAN
    BY DEF Drawable, Inv, TypeOK
  <2>2. winpix[x] \in {Screen, Shown}
    BY <2>1 DEF Inv, Drawn
  <2>3. unflip = TRUE => winpix[x] = Screen
    BY <2>1 DEF Inv, Drawn, Ending
  <2>4. Shown \in {flip_pixmap, flip_pending}
    BY DEF Shown
  <2> QED
    BY <2>1, <2>2, <2>3, <2>4
<1> QED
  BY <1>1, Holds, PTL
-----------------------------------------------------------------------------
(***************************************************************************)
(* The calls that follow one that runs.                                    *)
(***************************************************************************)
\* Those of new, and those that waited for it; or for what runs still.
After(new)  == \A f \in Elements(stack') : f \in new \/ f \in Elements(Rest)
Before(new) == \A f \in Elements(stack') : f \in new \/ f \in Elements(stack)

LEMMA ConcatElements ==
  ASSUME NEW s \in Seq(Frame), NEW t \in Seq(Frame)
  PROVE  Elements(s \o t) = Elements(s) \cup Elements(t)
<1> DEFINE m == Len(s)
           n == Len(t)
           u == s \o t
<1>1. /\ m \in Nat /\ n \in Nat /\ u \in Seq(Frame) /\ Len(u) = m + n
      /\ \A i \in 1 .. m + n : u[i] = IF i <= m THEN s[i] ELSE t[i - m]
  BY LenProperties, ConcatProperties
<1>2. /\ Elements(s) = {s[i] : i \in 1 .. m} /\ Elements(t) = {t[i] : i \in 1 .. n}
      /\ Elements(u) = {u[i] : i \in 1 .. m + n}
  BY <1>1, ElementsOf
<1> HIDE DEF m, n, u
<1>3. \A i \in 1 .. m : i \in 1 .. m + n /\ u[i] = s[i]
  BY <1>1
<1>4. \A i \in 1 .. n : m + i \in 1 .. m + n /\ u[m + i] = t[i]
  <2> TAKE i \in 1 .. n
  <2>1. m + i \in 1 .. m + n /\ ~(m + i <= m) /\ (m + i) - m = i
    BY <1>1
  <2> QED
    BY <1>1, <2>1
<1>5. \A i \in 1 .. m + n : u[i] \in Elements(s) \/ u[i] \in Elements(t)
  <2> TAKE i \in 1 .. m + n
  <2>1. CASE i <= m
    BY <1>1, <1>2, <2>1
  <2>2. CASE ~(i <= m)
    <3>1. i - m \in 1 .. n
      BY <1>1, <2>2
    <3> QED
      BY <1>1, <1>2, <2>2, <3>1
  <2> QED
    BY <2>1, <2>2
<1>6. Elements(s) \subseteq Elements(u) /\ Elements(t) \subseteq Elements(u)
  BY <1>2, <1>3, <1>4
<1>7. Elements(u) \subseteq Elements(s) \cup Elements(t)
  BY <1>2, <1>5
<1> QED
  BY <1>6, <1>7 DEF u

\* frames are calls of S only.
Few(frames, S) == frames \in Seq(Frame) /\ Elements(frames) \subseteq S
LEMMA FewCalls ==
  /\ \A S : Few(<<>>, S)
  /\ \A a \in Frame : Few(<<a>>, {a})
  /\ \A a \in Frame, b \in Frame : Few(<<a, b>>, {a, b})
<1>1. \A S : Few(<<>>, S)
  BY NoCalls DEF Few
<1>2. ASSUME NEW a \in Frame PROVE Few(<<a>>, {a})
  <2> DEFINE s == <<a>>
  <2>1. s \in Seq(Frame) /\ Len(s) = 1 /\ s[1] = a
    BY OneElement
  <2> HIDE DEF s
  <2>2. Elements(s) = {s[i] : i \in 1 .. 1}
    BY <2>1, ElementsOf
  <2>3. Elements(s) \subseteq {a}
    BY <2>1, <2>2
  <2> QED
    BY <2>1, <2>3 DEF Few, s
<1>3. ASSUME NEW a \in Frame, NEW b \in Frame PROVE Few(<<a, b>>, {a, b})
  <2>1. Few(<<a>>, {a}) /\ Few(<<b>>, {b})
    BY <1>2
  <2>2. <<a>> \in Seq(Frame) /\ <<b>> \in Seq(Frame) /\ <<a, b>> = Append(<<a>>, b)
    BY OneElement
  <2>3. <<a, b>> = <<a>> \o <<b>> /\ <<a>> \o <<b>> \in Seq(Frame)
    BY <2>2, AppendIsConcat, ConcatProperties
  <2> DEFINE s == <<a>>
             t == <<b>>
  <2>4. s \in Seq(Frame) /\ t \in Seq(Frame) /\ Elements(s) \subseteq {a} /\ Elements(t) \subseteq {b}
    BY <2>1 DEF Few
  <2> HIDE DEF s, t
  <2>5. Elements(s \o t) \subseteq {a, b}
    BY <2>4, ConcatElements
  <2>6. <<a, b>> = s \o t /\ s \o t \in Seq(Frame)
    BY <2>3 DEF s, t
  <2> QED
    BY <2>5, <2>6 DEF Few
<1> QED
  BY <1>1, <1>2, <1>3

LEMMA FewTogether ==
  ASSUME NEW s, NEW S, Few(s, S), NEW t, NEW T, Few(t, T)
  PROVE  Few(s \o t, S \cup T)
<1>1. s \in Seq(Frame) /\ t \in Seq(Frame) /\ Elements(s) \subseteq S /\ Elements(t) \subseteq T
  BY DEF Few
<1>2. s \o t \in Seq(Frame)
  BY <1>1, ConcatProperties
<1> QED
  BY <1>1, <1>2, ConcatElements DEF Few

LEMMA FewIf ==
  ASSUME NEW a \in Frame, NEW c
  PROVE  Few(If(c, <<a>>), {a})
  BY FewCalls DEF If

LEMMA Continues ==
  ASSUME Inv, stack # <<>>, NEW frames, NEW S, Few(frames, S), Continue(frames)
  PROVE  After(S)
<1>1. Rest \in Seq(Frame) /\ stack' = frames \o Rest
  BY Runs DEF Continue, Rest
<1> QED
  BY <1>1, ConcatElements DEF Few, After

LEMMA Returned == ASSUME Inv, stack # <<>>, Continue(<<>>) PROVE After({})
  BY Continues, FewCalls

LEMMA OneCall ==
  ASSUME Inv, stack # <<>>, NEW a \in Frame, NEW c,
         Continue(<<a>>) \/ Continue(If(c, <<a>>))
  PROVE  After({a})
<1>1. CASE Continue(<<a>>)
  BY <1>1, Continues, FewCalls
<1>2. CASE Continue(If(c, <<a>>))
  BY <1>2, Continues, FewIf
<1> QED
  BY <1>1, <1>2

LEMMA TwoCalls ==
  ASSUME Inv, stack # <<>>, NEW a \in Frame, NEW b \in Frame, NEW c, NEW d,
         Continue(If(c, <<a>>) \o <<b>>) \/ Continue(If(c, <<a>>) \o If(d, <<b>>))
  PROVE  After({a, b})
<1>1. Few(If(c, <<a>>), {a}) /\ Few(If(d, <<b>>), {b}) /\ Few(<<b>>, {b})
  BY FewIf, FewCalls
<1>2. Few(If(c, <<a>>) \o <<b>>, {a} \cup {b}) /\ Few(If(c, <<a>>) \o If(d, <<b>>), {a} \cup {b})
  BY <1>1, FewTogether
<1>3. {a} \cup {b} = {a, b}
  OBVIOUS
<1> QED
  BY <1>2, <1>3, Continues

LEMMA ThreeCalls ==
  ASSUME Inv, stack # <<>>, NEW a \in Frame, NEW b \in Frame, NEW d \in Frame, NEW c,
         Continue(If(c, <<a>>) \o <<b, d>>)
  PROVE  After({a, b, d})
<1>1. Few(If(c, <<a>>), {a}) /\ Few(<<b, d>>, {b, d})
  BY FewIf, FewCalls
<1>2. Few(If(c, <<a>>) \o <<b, d>>, {a} \cup {b, d})
  BY <1>1, FewTogether
<1>3. {a} \cup {b, d} = {a, b, d}
  OBVIOUS
<1> QED
  BY <1>2, <1>3, Continues

LEMMA Pushes ==
  ASSUME Inv, NEW a \in Frame, stack' = <<a>> \o stack
  PROVE  Before({a})
<1>1. stack \in Seq(Frame)
  BY DEF Inv, TypeOK
<1> QED
  BY <1>1, Pushed DEF Before

\* A call that is returned to is none of TopFns.
LEMMA BelowTop ==
  ASSUME Inv, stack # <<>>
  PROVE  /\ Elements(stack) = {Top} \cup Elements(Rest) /\ Elements(stack) \subseteq Frame
         /\ \A g \in Elements(Rest) : g.fn \notin TopFns
<1>1. /\ Top \in Frame /\ Elements(stack) = {Top} \cup Elements(Rest)
      /\ Elements(Rest) \subseteq Frame /\ \A g \in Elements(Rest) : Over(Top, g)
  BY Runs
<1> QED
  BY <1>1 DEF Over
-----------------------------------------------------------------------------
(***************************************************************************)
(* The calls that each action makes.                                       *)
(***************************************************************************)
\* present_scmd_pixmap made v for r, and calls what it must.
Makes(a, w, r, target, v) ==
  /\ a \in setup.attrs /\ w \in Windows \ gone /\ r \in Ids /\ target \in TargetAhead(a)
  /\ vb[r].st = "new" /\ v \in NewVblank(a, w, target) /\ vb' = [vb EXCEPT ![r] = v]
  /\ \A f \in Elements(stack') :
       \/ f = Call("create", r)
       \/ f.fn = "scrap" /\ f.of \in Ids /\ Overwrites(f.of, w, target)

LEMMA FollowedElements ==
  ASSUME NEW s \in Seq(Frame), NEW c \in Frame, NEW t, t = s \o <<c>>
  PROVE  \A f \in Elements(t) : f \in Elements(s) \/ f = c
<1> DEFINE u == <<c>>
<1>1. u \in Seq(Frame) /\ Elements(u) \subseteq {c}
  BY FewCalls DEF Few
<1>2. t = s \o u
  OBVIOUS
<1> HIDE DEF u
<1> QED
  BY <1>1, <1>2, ConcatElements

LEMMA PresentMakes ==
  ASSUME Inv, Present
  PROVE  \E a \in setup.attrs, w \in Windows, r \in Ids : \E target, v : Makes(a, w, r, target, v)
<1>1. PICK a \in setup.attrs, w \in Windows \ gone : \E r \in Ids, target \in TargetAhead(a) :
         /\ vb[r].st = "new"
         /\ \E v \in NewVblank(a, w, target) : vb' = [vb EXCEPT ![r] = v]
         /\ \E scraps \in Calls("scrap", IF a.update \/ a.kind = "notify" THEN {}
                                        ELSE {q \in Ids : Overwrites(q, w, target)}) :
              stack' = scraps \o <<Call("create", r)>>
  BY DEF Present
<1>2. PICK r \in Ids, target \in TargetAhead(a) :
         /\ vb[r].st = "new"
         /\ \E v \in NewVblank(a, w, target) : vb' = [vb EXCEPT ![r] = v]
         /\ \E scraps \in Calls("scrap", IF a.update \/ a.kind = "notify" THEN {}
                                        ELSE {q \in Ids : Overwrites(q, w, target)}) :
              stack' = scraps \o <<Call("create", r)>>
  BY <1>1
<1>3. PICK v \in NewVblank(a, w, target) : vb' = [vb EXCEPT ![r] = v]
  BY <1>2
<1>4. PICK S \in SUBSET {q \in Ids : Overwrites(q, w, target)} :
        \E scraps \in Calls("scrap", S) : stack' = scraps \o <<Call("create", r)>>
  BY <1>2
<1>5. PICK s \in Calls("scrap", S) : stack' = s \o <<Call("create", r)>>
  BY <1>4
<1> DEFINE c == Call("create", r)
<1>6. c \in Frame
  BY CallTyped DEF VblankFns
<1>7. s \in Seq(Frame) /\ \A i \in DOMAIN s : s[i].fn = "scrap" /\ s[i].of \in S
  <2>1. IsFiniteSet(S)
    <3>1. IsFiniteSet(Ids)
      BY PresentAssumption, FS_Interval DEF Ids
    <3>2. S \in SUBSET Ids
      BY <1>4
    <3> QED
      BY <3>1, <3>2, FS_Subset
  <2>2. \A x \in S : Call("scrap", x) \in Frame
    BY <1>4, CallTyped DEF VblankFns
  <2> QED
    BY <1>5, <2>1, <2>2, CallsTyped
<1>8. \A f \in Elements(s) : f.fn = "scrap" /\ f.of \in S
  BY <1>7 DEF Elements
<1>9. stack' = s \o <<c>>
  BY <1>5
<1> HIDE DEF c
<1>10. \A f \in Elements(stack') : f \in Elements(s) \/ f = c
  BY <1>6, <1>7, <1>9, FollowedElements
<1>11. \A f \in Elements(stack') :
         \/ f = Call("create", r)
         \/ f.fn = "scrap" /\ f.of \in Ids /\ Overwrites(f.of, w, target)
  BY <1>4, <1>8, <1>10 DEF c
<1>12. Makes(a, w, r, target, v)
  BY <1>1, <1>2, <1>3, <1>11 DEF Makes
<1> QED
  BY <1>1, <1>2, <1>12

LEMMA ChecksCalls ==
  ASSUME Inv, Restack \/ PrepareModeset
  PROVE  \A f \in Elements(stack') : f.fn \in {"check", "checked"}
<1>1. CASE Restack
  <2>1. PICK w \in (Windows \ gone) \cup {NoWin} : stack' \in Checks({full, w} \ {NoWin})
    BY <1>1 DEF Restack
  <2>2. {full, w} \ {NoWin} \in SUBSET Windows
    BY DEF Inv, TypeOK
  <2> QED
    BY <2>1, <2>2, ChecksTyped
<1>2. CASE PrepareModeset
  <2> DEFINE c == Call("checked", NoId)
  <2>1. PICK checks \in Checks(Windows \ gone) : stack' = checks \o <<c>>
    BY <1>2 DEF PrepareModeset
  <2>2. checks \in Seq(Frame) /\ \A f \in Elements(checks) : f.fn = "check"
    BY <2>1, ChecksTyped DEF Leaves
  <2>3. c \in Frame /\ c.fn = "checked"
    BY CallTyped DEF OtherFns
  <2> HIDE DEF c
  <2> QED
    BY <2>1, <2>2, <2>3, FollowedElements
<1> QED
  BY <1>1, <1>2

\* present_destroy_window calls for the window's requests, then for the window.
Destroys(w) ==
  /\ w \in Windows \ gone /\ gone' = gone \cup {w}
  /\ \A f \in Elements(stack') :
       f = Call("clear", w) \/ (f.fn = "abort" /\ f.of \in Ids /\ Contains(window_list[w], f.of))
  /\ \A r \in Ids : Contains(window_list[w], r) => Call("abort", r) \in Elements(stack')
  /\ Call("clear", w) \in Elements(stack')

LEMMA DestroyCalls == ASSUME Inv, DestroyWindow PROVE \E w \in Windows : Destroys(w)
<1>1. PICK w \in Windows \ gone :
        /\ gone' = gone \cup {w}
        /\ stack' = [i \in DOMAIN window_list[w] |-> Call("abort", window_list[w][i])]
                    \o <<Call("clear", w)>>
  BY DEF DestroyWindow
<1> DEFINE list == window_list[w]
           s    == [i \in DOMAIN list |-> Call("abort", list[i])]
           c    == Call("clear", w)
<1>2. list \in Seq(Ids) /\ Len(list) \in Nat /\ DOMAIN list = 1 .. Len(list)
  BY LenProperties DEF Inv, TypeOK
<1>3. c \in Frame
  BY CallTyped DEF WindowFns
<1>4. DOMAIN s = DOMAIN list /\ \A i \in DOMAIN s : s[i] = Call("abort", list[i])
  OBVIOUS
<1>5. \A i \in DOMAIN s : s[i] \in Frame /\ s[i].fn = "abort" /\ s[i].of = list[i] /\ list[i] \in Ids
  BY <1>2, <1>4, CallTyped DEF VblankFns
<1>6. s \in Seq(Frame)
  <2>1. s \in [1 .. Len(list) -> Frame]
    BY <1>2, <1>4, <1>5
  <2> QED
    BY <1>2, <2>1, SeqDef
<1>7. stack' = s \o <<c>>
  BY <1>1
<1> HIDE DEF s, c, list
<1>8. \A f \in Elements(s) : f.fn = "abort" /\ f.of \in Ids /\ Contains(list, f.of)
  BY <1>2, <1>4, <1>5 DEF Elements, Contains
<1>9. \A r \in Ids : Contains(list, r) => Call("abort", r) \in Elements(s)
  BY <1>2, <1>4 DEF Elements, Contains
<1> DEFINE u == <<c>>
<1>10. u \in Seq(Frame) /\ Elements(u) = {c}
  <2>1. u \in Seq(Frame) /\ Len(u) = 1 /\ u[1] = c
    BY <1>3, OneElement
  <2> HIDE DEF u
  <2>2. Elements(u) = {u[i] : i \in 1 .. 1}
    BY <2>1, ElementsOf
  <2> QED
    BY <2>1, <2>2
<1>11. stack' = s \o u
  BY <1>7
<1> HIDE DEF u
<1>12. Elements(stack') = Elements(s) \cup {c}
  BY <1>6, <1>10, <1>11, ConcatElements
<1> QED
  BY <1>1, <1>8, <1>9, <1>12 DEF Destroys, c, list
-----------------------------------------------------------------------------
(***************************************************************************)
(* Copies: they are called last, and the unflip that they call is not over *)
(* before they are drawn, unless the driver unflips at once.               *)
(***************************************************************************)
LEMMA NoCopiesAfter ==
  ASSUME Inv, stack # <<>>, Top.fn # "unflip", Copying, NEW S, After(S),
         \A f \in S : f.fn # "copy"
  PROVE  NoCopies(stack')
  BY DEF Copying, After, NoCopies

LEMMA NoCopiesBefore ==
  ASSUME Inv, stack = <<>> \/ Top.fn \in {"drain", "trigger"}, Copying, NEW S, Before(S),
         \A f \in S : f.fn # "copy"
  PROVE  NoCopies(stack')
<1>1. NoCopies(stack)
  <2>1. CASE stack = <<>>
    BY <2>1, NoCalls DEF NoCopies
  <2>2. CASE stack # <<>>
    <3>1. Elements(stack) = {Top} \cup Elements(Rest) /\ Top.fn \in {"drain", "trigger"}
      BY <2>2, BelowTop
    <3> QED
      BY <2>2, <3>1 DEF Copying, NoCopies
  <2> QED
    BY <2>1, <2>2
<1> QED
  BY <1>1 DEF Before, NoCopies

\* The calls of a stack s, from its own point of view.
LEMMA HiddenFrom ==
  ASSUME NEW s \in Seq(Frame), stack' = s, NoCopies(s)
  PROVE  Hidden'
<1>1. CASE s = <<>>
  BY <1>1 DEF Hidden, Copying, CopiesToScreen, Running
<1>2. CASE s # <<>>
  <2>1. /\ Elements(s) = {Head(s)} \cup Elements(Tail(s)) /\ Tail(s) \in Seq(Frame)
    BY <1>2, Innermost
  <2>2. Head(s).fn # "copy" /\ NoCopies(Tail(s))
    BY <2>1 DEF NoCopies
  <2>3. Tail(s) # <<>> => NoCopies(Tail(Tail(s)))
    <3> SUFFICES ASSUME Tail(s) # <<>> PROVE NoCopies(Tail(Tail(s)))
      OBVIOUS
    <3>1. Elements(Tail(s)) = {Head(Tail(s))} \cup Elements(Tail(Tail(s)))
      BY <2>1, Innermost
    <3> QED
      BY <2>2, <3>1 DEF NoCopies
  <2>4. Copying'
    BY <2>2, <2>3 DEF Copying, Top, Rest, NoCopies, Elements
  <2>5. CopiesToScreen'
    BY <2>2 DEF CopiesToScreen, Running, Top
  <2> QED
    BY <2>4, <2>5 DEF Hidden
<1> QED
  BY <1>1, <1>2

LEMMA ReturnsAfter ==
  ASSUME Inv, \/ Requeue \/ WaitFence \/ WaitFlip \/ FlipSucceeds \/ CopyLater \/ CopyTearFree
              \/ Post \/ CheckQueued \/ Abort \/ ClearWindowFlip \/ Drained
  PROVE  After({}) /\ stack # <<>> /\ Top.fn # "unflip"
<1>1. CASE Requeue \/ WaitFence \/ WaitFlip \/ FlipSucceeds
  BY <1>1, Returned DEF Requeue, WaitFence, WaitFlip, FlipSucceeds, Running
<1>2. CASE CopyLater \/ CopyTearFree
  BY <1>2, Returned DEF CopyLater, CopyTearFree, BackToQueue, Running
<1>3. CASE Post \/ CheckQueued \/ Abort \/ ClearWindowFlip
  BY <1>3, Returned DEF Post, CheckQueued, Abort, ClearWindowFlip, Running
<1>4. CASE Drained
  BY <1>4, Returned DEF Drained, Drains, Running
<1> QED
  BY <1>1, <1>2, <1>3, <1>4

LEMMA CallsOfExecute ==
  ASSUME Inv, Running("execute") \/ Running("flip") \/ Running("copy") \/ Running("notify") \/ Running("scrap")
              \/ Running("create"),
         NEW fn \in VblankFns
  PROVE  stack # <<>> /\ Top.of \in Ids /\ Call(fn, Top.of) \in Frame
  BY RunsFn, CallTyped DEF HoldFns, OwnerFns

LEMMA OneAfter ==
  ASSUME Inv, Execute \/ FlipFails \/ Copy \/ Notify \/ Scrap \/ Create
  PROVE  /\ stack # <<>> /\ Top.fn # "unflip"
         /\ \E fn \in {"execute", "flip", "flip_over", "post"} : After({Call(fn, Top.of)})
<1>1. CASE Execute
  <2>1. stack # <<>> /\ Top.fn = "execute"
    BY <1>1 DEF Execute, Running
  <2>2. PICK fn \in {"flip", "flip_over", "post"} : Continue(<<Call(fn, Top.of)>>)
    BY <1>1 DEF Execute
  <2>3. Call(fn, Top.of) \in Frame
    BY <1>1, CallsOfExecute DEF Execute, VblankFns
  <2> QED
    BY <2>1, <2>2, <2>3, OneCall
<1>2. CASE FlipFails
  <2>1. Call("flip_over", Top.of) \in Frame /\ stack # <<>> /\ Top.fn = "flip"
    BY <1>2, CallsOfExecute DEF FlipFails, VblankFns, Running
  <2>2. After({Call("flip_over", Top.of)})
    BY <1>2, <2>1, OneCall DEF FlipFails
  <2> QED
    BY <2>1, <2>2
<1>3. CASE Copy
  <2>1. Call("post", Top.of) \in Frame /\ stack # <<>> /\ Top.fn = "copy"
    BY <1>3, CallsOfExecute DEF Copy, VblankFns, Running
  <2>2. After({Call("post", Top.of)})
    BY <1>3, <2>1, OneCall DEF Copy
  <2> QED
    BY <2>1, <2>2
<1>4. CASE Notify
  <2>1. Call("execute", Top.of) \in Frame /\ stack # <<>> /\ Top.fn = "notify"
    BY <1>4, CallsOfExecute DEF Notify, VblankFns, Running
  <2>2. PICK c : Continue(If(c, <<Call("execute", Top.of)>>))
    BY <1>4 DEF Notify
  <2>3. After({Call("execute", Top.of)})
    BY <2>1, <2>2, OneCall
  <2> QED
    BY <2>1, <2>3
<1>5. CASE Scrap
  <2>1. Call("execute", Top.of) \in Frame /\ stack # <<>> /\ Top.fn = "scrap"
    BY <1>5, CallsOfExecute DEF Scrap, VblankFns, Running
  <2>2. After({Call("execute", Top.of)})
    BY <1>5, <2>1, OneCall DEF Scrap
  <2> QED
    BY <2>1, <2>2
<1>6. CASE Create
  <2>1. Call("execute", Top.of) \in Frame /\ stack # <<>> /\ Top.fn = "create"
    BY <1>6, CallsOfExecute DEF Create, VblankFns, Running
  <2>2. Continue(<<>>) \/ Continue(<<Call("execute", Top.of)>>)
    BY <1>6 DEF Create
  <2>3. After({Call("execute", Top.of)})
    BY <2>1, <2>2, OneCall, Returned DEF After
  <2> QED
    BY <2>1, <2>3
<1> QED
  BY <1>1, <1>2, <1>3, <1>4, <1>5, <1>6
LEMMA OtherCalls == Call("unflip", NoId) \in Frame /\ Call("unflipped", NoId) \in Frame
                    /\ Call("try_ready", NoId) \in Frame /\ Call("drain", NoId) \in Frame
  BY CallTyped DEF OtherFns

LEMMA AfterFlipNotify ==
  ASSUME Inv, FlipNotify
  PROVE  /\ stack # <<>> /\ Top.fn = "notify" /\ Top.of \in Ids
         /\ After({Call("unflip", NoId), Call("post", Top.of), Call("try_ready", NoId)})
<1>1. /\ stack # <<>> /\ Top.fn = "notify" /\ Top.of \in Ids /\ Call("post", Top.of) \in Frame
  BY CallsOfExecute, RunsFn DEF FlipNotify, VblankFns
<1>2. PICK c : Continue(If(c, <<Call("unflip", NoId)>>)
                        \o <<Call("post", Top.of), Call("try_ready", NoId)>>)
  BY DEF FlipNotify
<1> QED
  BY <1>1, <1>2, OtherCalls, ThreeCalls

LEMMA AfterTryReady ==
  ASSUME Inv, TryReady
  PROVE  /\ stack # <<>> /\ Top.fn = "try_ready"
         /\ \/ After({})
            \/ \E r \in Ids : /\ Contains(flip_queue, r) /\ vb[r].queued = TRUE
                              /\ After({Call("execute", r)})
<1>1. stack # <<>> /\ Top.fn = "try_ready"
  BY DEF TryReady, Running
<1>2. CASE Continue(<<>>)
  BY <1>1, <1>2, Returned
<1>3. CASE \E i \in DOMAIN flip_queue :
             FirstReady(i) /\ Continue(<<Call("execute", flip_queue[i])>>)
  <2>1. PICK i \in DOMAIN flip_queue :
          FirstReady(i) /\ Continue(<<Call("execute", flip_queue[i])>>)
    BY <1>3
  <2>2. flip_queue \in Seq(Ids) /\ DOMAIN flip_queue = 1 .. Len(flip_queue)
    BY LenProperties DEF Inv, TypeOK
  <2>3. flip_queue[i] \in Ids /\ Contains(flip_queue, flip_queue[i])
    BY <2>1, <2>2 DEF Contains
  <2>4. vb[flip_queue[i]].queued = TRUE
    BY <2>1, <2>3, FieldTypes DEF FirstReady, Inv
  <2>5. Call("execute", flip_queue[i]) \in Frame
    BY <2>3, CallTyped DEF VblankFns
  <2>6. After({Call("execute", flip_queue[i])})
    BY <1>1, <2>1, <2>5, OneCall
  <2> QED
    BY <1>1, <2>3, <2>4, <2>6
<1> QED
  BY <1>2, <1>3 DEF TryReady

LEMMA AfterCheckFlipWindow ==
  ASSUME Inv, CheckFlipWindow
  PROVE  /\ stack # <<>> /\ Top.fn = "check" /\ Top.of \in Windows
         /\ After({Call("unflip", NoId), Call("check_queued", Top.of)})
<1>1. stack # <<>> /\ Top.fn = "check" /\ Top.of \in Windows
  BY RunsFn DEF CheckFlipWindow, WindowFns
<1>2. Call("check_queued", Top.of) \in Frame
  BY <1>1, CallTyped DEF WindowFns
<1>3. PICK c, d : Continue(If(c, <<Call("unflip", NoId)>>) \o If(d, <<Call("check_queued", Top.of)>>))
  BY DEF CheckFlipWindow
<1> QED
  BY <1>1, <1>2, <1>3, OtherCalls, TwoCalls

LEMMA BeforeEvents ==
  ASSUME Inv, Kernel
  PROVE  /\ stack = <<>> \/ Top.fn = "drain"
         /\ \/ FlipEvent /\ Before({Call("unflipped", NoId)}) /\ Unflip \in flips /\ flips' = flips \ {Unflip}
            \/ \E r \in Ids : /\ Before({Call("notify", r)})
                              /\ \/ VblankEvent /\ <<r, 0>> \in events /\ events' = events \ {<<r, 0>>}
                                 \/ FlipEvent /\ r \in flips /\ flips' = flips \ {r} /\ scanout' = r
                                 \/ FakeFlipEvent /\ r \in fakes /\ fakes' = fakes \ {r}
<1>1. stack = <<>> \/ Top.fn = "drain"
  BY DEF Kernel, VblankEvent, FlipEvent, FakeFlipEvent, HandlesEvents, AtEventLoop, Drains, Running
<1>2. \A r \in Ids : Call("notify", r) \in Frame
  BY CallTyped DEF VblankFns
<1>3. CASE VblankEvent
  <2>1. PICK r \in Ids : <<r, 0>> \in events /\ events' = events \ {<<r, 0>>}
                         /\ stack' = <<Call("notify", r)>> \o stack
    BY <1>3 DEF VblankEvent
  <2>2. Before({Call("notify", r)})
    BY <1>2, <2>1, Pushes
  <2> QED
    BY <1>1, <1>3, <2>1, <2>2
<1>4. CASE FlipEvent
  <2>1. PICK id \in flips : /\ flips' = flips \ {id} /\ scanout' = (IF id = Unflip THEN Screen ELSE id)
                            /\ stack' = <<IF id = Unflip THEN Call("unflipped", NoId) ELSE Call("notify", id)>>
                                        \o stack
    BY <1>4 DEF FlipEvent
  <2>2. CASE id = Unflip
    <3>1. stack' = <<Call("unflipped", NoId)>> \o stack
      BY <2>1, <2>2
    <3>2. Before({Call("unflipped", NoId)})
      BY <3>1, OtherCalls, Pushes
    <3> QED
      BY <1>1, <1>4, <2>1, <2>2, <3>2
  <2>3. CASE id # Unflip
    <3>1. id \in Ids /\ stack' = <<Call("notify", id)>> \o stack
      BY <2>1, <2>3 DEF Inv, TypeOK
    <3>2. Before({Call("notify", id)})
      BY <1>2, <3>1, Pushes
    <3> QED
      BY <1>1, <1>4, <2>1, <2>3, <3>1, <3>2
  <2> QED
    BY <2>2, <2>3
<1>5. CASE FakeFlipEvent
  <2>1. PICK r \in Ids : r \in fakes /\ fakes' = fakes \ {r} /\ stack' = <<Call("notify", r)>> \o stack
    <3>1. fakes \subseteq Ids
      BY DEF Inv, TypeOK
    <3> QED
      BY <1>5, <3>1 DEF FakeFlipEvent
  <2>2. Before({Call("notify", r)})
    BY <1>2, <2>1, Pushes
  <2> QED
    BY <1>1, <1>5, <2>1, <2>2
<1> QED
  BY <1>3, <1>4, <1>5 DEF Kernel

LEMMA AfterTrigger ==
  ASSUME Inv, Trigger
  PROVE  /\ stack # <<>> /\ Top.fn = "trigger" /\ Top.of \in Ids
         /\ \/ After({})
            \/ Live(Top.of) /\ vb[Top.of].callback = TRUE /\ Before({Call("execute", Top.of)})
<1>1. stack # <<>> /\ Top.fn = "trigger" /\ Top.of \in Ids /\ Call("execute", Top.of) \in Frame
  BY RunsFn, CallTyped DEF Trigger, VblankFns
<1>2. CASE Live(Top.of) /\ vb[Top.of].callback
  <2>1. stack' = <<Call("execute", Top.of)>> \o stack
    BY <1>2 DEF Trigger
  <2>2. vb[Top.of].callback = TRUE
    BY <1>1, <1>2, FieldTypes DEF Inv
  <2> QED
    BY <1>1, <1>2, <2>1, <2>2, Pushes
<1>3. CASE ~(Live(Top.of) /\ vb[Top.of].callback)
  <2>1. stack' = Rest
    BY <1>3 DEF Trigger, Rest
  <2> QED
    BY <1>1, <2>1 DEF After
<1> QED
  BY <1>2, <1>3

LEMMA BeforeTriggerFence ==
  ASSUME Inv, TriggerFence
  PROVE  stack = <<>> /\ \E r \in Ids : Before({Call("trigger", r)})
<1>1. PICK r \in Ids : stack' = <<Call("trigger", r)>> /\ stack = <<>>
  BY DEF TriggerFence, AtEventLoop
<1>2. Call("trigger", r) \in Frame
  BY CallTyped DEF VblankFns
<1>3. Few(stack', {Call("trigger", r)})
  BY <1>1, <1>2, FewCalls
<1> QED
  BY <1>1, <1>3 DEF Few, Before

LEMMA AfterUnflip ==
  ASSUME Inv, UnflipNotify \/ Checked
  PROVE  /\ stack # <<>> /\ Top.fn \in {"unflipped", "checked"}
         /\ UnflipNotify => After({Call("try_ready", NoId)}) /\ Top.fn = "unflipped"
         /\ Checked => After({Call("drain", NoId)}) /\ Top.fn = "checked"
<1>1. CASE UnflipNotify
  BY <1>1, OneCall, OtherCalls DEF UnflipNotify, Checked, Running
<1>2. CASE Checked
  BY <1>2, OneCall, OtherCalls DEF UnflipNotify, Checked, Running
<1> QED
  BY <1>1, <1>2

\* No other action calls for a copy.
LEMMA OthersCopyNothing ==
  ASSUME Inv, Next, Copying, ~FlipOver, ~StartUnflip, ~Tick, ~Cursor
  PROVE  NoCopies(stack')
<1>1. CASE \/ Requeue \/ WaitFence \/ WaitFlip \/ FlipSucceeds \/ CopyLater \/ CopyTearFree
           \/ Post \/ CheckQueued \/ Abort \/ ClearWindowFlip \/ Drained
  <2>1. After({}) /\ stack # <<>> /\ Top.fn # "unflip"
    BY <1>1, ReturnsAfter
  <2> QED
    BY <2>1, NoCopiesAfter
<1>2. CASE Execute \/ FlipFails \/ Copy \/ Notify \/ Scrap \/ Create
  <2>1. stack # <<>> /\ Top.fn # "unflip"
    BY <1>2, OneAfter
  <2>2. PICK fn \in {"execute", "flip", "flip_over", "post"} : After({Call(fn, Top.of)})
    BY <1>2, OneAfter
  <2>3. Call(fn, Top.of).fn # "copy"
    BY CallTyped
  <2> QED
    BY <2>1, <2>2, <2>3, NoCopiesAfter
<1>3. CASE FlipNotify
  <2>1. stack # <<>> /\ Top.fn = "notify"
        /\ After({Call("unflip", NoId), Call("post", Top.of), Call("try_ready", NoId)})
    BY <1>3, AfterFlipNotify
  <2>2. \A f \in {Call("unflip", NoId), Call("post", Top.of), Call("try_ready", NoId)} : f.fn # "copy"
    BY CallTyped
  <2> QED
    BY <2>1, <2>2, NoCopiesAfter
<1>4. CASE TryReady
  <2>1. stack # <<>> /\ Top.fn # "unflip"
    BY <1>4, AfterTryReady
  <2>2. CASE After({})
    BY <2>1, <2>2, NoCopiesAfter
  <2>3. CASE \E r \in Ids : After({Call("execute", r)})
    <3>1. PICK r \in Ids : After({Call("execute", r)})
      BY <2>3
    <3>2. \A f \in {Call("execute", r)} : f.fn # "copy"
      BY CallTyped
    <3> QED
      BY <2>1, <3>1, <3>2, NoCopiesAfter
  <2> QED
    BY <1>4, <2>2, <2>3, AfterTryReady
<1>5. CASE CheckFlipWindow
  <2>1. stack # <<>> /\ Top.fn = "check"
        /\ After({Call("unflip", NoId), Call("check_queued", Top.of)})
    BY <1>5, AfterCheckFlipWindow
  <2>2. \A f \in {Call("unflip", NoId), Call("check_queued", Top.of)} : f.fn # "copy"
    BY CallTyped
  <2> QED
    BY <2>1, <2>2, NoCopiesAfter
<1>6. CASE UnflipNotify \/ Checked
  <2>1. stack # <<>> /\ Top.fn # "unflip" /\ \E S : After(S) /\ \A f \in S : f.fn # "copy"
    <3>1. \A f \in {Call("try_ready", NoId)} : f.fn # "copy"
      BY CallTyped
    <3>2. \A f \in {Call("drain", NoId)} : f.fn # "copy"
      BY CallTyped
    <3> QED
      BY <1>6, <3>1, <3>2, AfterUnflip
  <2> QED
    BY <2>1, NoCopiesAfter
<1>7. CASE Kernel
  <2>1. stack = <<>> \/ Top.fn = "drain"
    BY <1>7, BeforeEvents
  <2>2. PICK c : Before({c}) /\ (c = Call("unflipped", NoId) \/ \E r \in Ids : c = Call("notify", r))
    BY <1>7, BeforeEvents
  <2>3. \A f \in {c} : f.fn # "copy"
    BY <2>2, CallTyped
  <2> QED
    BY <2>1, <2>2, <2>3, NoCopiesBefore
<1>8. CASE Trigger \/ TriggerFence
  <2>1. CASE Trigger
    <3>1. stack # <<>> /\ Top.fn = "trigger"
      BY <2>1, AfterTrigger
    <3>2. \A f \in {Call("execute", Top.of)} : f.fn # "copy"
      BY CallTyped
    <3>3. CASE After({})
      BY <3>1, <3>3, NoCopiesAfter
    <3>4. CASE Before({Call("execute", Top.of)})
      BY <3>1, <3>2, <3>4, NoCopiesBefore
    <3> QED
      BY <2>1, <3>3, <3>4, AfterTrigger
  <2>2. CASE TriggerFence
    <3>1. PICK r \in Ids : stack = <<>> /\ Before({Call("trigger", r)})
      BY <2>2, BeforeTriggerFence
    <3>2. \A f \in {Call("trigger", r)} : f.fn # "copy"
      BY CallTyped
    <3> QED
      BY <3>1, <3>2, NoCopiesBefore
  <2> QED
    BY <1>8, <2>1, <2>2
<1>9. CASE Present
  <2>1. PICK a \in setup.attrs, w \in Windows, r \in Ids : \E target, v : Makes(a, w, r, target, v)
    BY <1>9, PresentMakes
  <2> QED
    BY <2>1, CallTyped DEF Makes, NoCopies
<1>10. CASE Restack \/ PrepareModeset
  BY <1>10, ChecksCalls DEF NoCopies
<1>11. CASE DestroyWindow
  <2>1. PICK w \in Windows : Destroys(w)
    BY <1>11, DestroyCalls
  <2> QED
    BY <2>1, CallTyped DEF Destroys, NoCopies
<1> QED
  BY <1>1, <1>2, <1>3, <1>4, <1>5, <1>6, <1>7, <1>8, <1>9, <1>10, <1>11 DEF Next, Server
LEMMA AllScreenHides ==
  ASSUME Inv', \A x \in Drawable : winpix'[x] = Screen
  PROVE  CopiesToScreen'
<1> SUFFICES ASSUME Running("copy")'
             PROVE  winpix'[vb'[Head(stack').of].window] = Screen
  BY DEF CopiesToScreen, Top
<1>1. stack' # <<>> /\ Head(stack').fn = "copy" /\ stack' \in Seq(Frame)
  BY DEF Running, Top, Inv, TypeOK
<1>2. PICK c \in Frame : c = Head(stack') /\ c \in Elements(stack')
  BY <1>1, Innermost
<1>3. Sound(c)'
  BY <1>2 DEF Inv, Calling, Elements
<1>4. vb'[c.of].window \in Windows
  BY <1>1, <1>2, <1>3 DEF Sound, OwnerFns
<1> QED
  BY <1>2, <1>4 DEF Drawable

LEMMA StartUnflipHides ==
  ASSUME Inv, Inv', Hidden, StartUnflip, setup.at_once = FALSE
  PROVE  Hidden'
<1>1. stack # <<>> /\ Top.fn = "unflip" /\ stack' = Rest /\ Rest \in Seq(Frame)
  <2>1. stack # <<>> /\ Top.fn = "unflip" /\ Continue(<<>>)
    BY DEF StartUnflip, Running
  <2> QED
    BY <2>1, Runs DEF Continue, Rest
<1>2. Copying'
  <2>1. Rest # <<>> => NoCopies(Tail(Rest)) /\ Head(Rest).fn # "unflip"
    <3>1. Rest # <<>> => NoCopies(Tail(Rest))
      BY <1>1 DEF Hidden, Copying
    <3>2. Rest # <<>> => Head(Rest) \in Elements(Rest)
      BY <1>1, Innermost
    <3> QED
      BY <1>1, <3>1, <3>2, BelowTop DEF TopFns
  <2> QED
    BY <1>1, <2>1 DEF Copying, Top, Rest, NoCopies, Elements
<1>3. CopiesToScreen'
  <2>1. flip_pending = NoId
    <3>1. Sound(Top)
      BY <1>1, Runs
    <3> QED
      BY <1>1, <3>1 DEF Sound
  <2>2. \A x \in Drawable : winpix'[x] = Screen
    BY <2>1, RestoresScreen DEF StartUnflip
  <2> QED
    BY <2>2, AllScreenHides
<1> QED
  BY <1>2, <1>3 DEF Hidden

LEMMA FlipOverHides ==
  ASSUME Inv, Inv', Hidden, FlipOver
  PROVE  Hidden'
<1>1. stack # <<>> /\ Top.fn = "flip_over" /\ Top.of \in Ids
  BY RunsFn DEF FlipOver, HoldFns, OwnerFns
<1>2. Sound(Top) /\ Rest \in Seq(Frame) /\ NoCopies(Rest) /\ ~Running("flip")
  BY <1>1, Runs DEF Hidden, Copying, Running
<1> DEFINE w == vb[Top.of].window
           c == Call("copy", Top.of)
           u == Call("unflip", NoId)
<1>3. w \in Windows
  BY <1>1, <1>2 DEF Sound, OwnerFns
<1>4. c \in Frame /\ u \in Frame /\ c.fn = "copy" /\ u.fn = "unflip" /\ c.of = Top.of
  BY <1>1, CallTyped DEF VblankFns, OtherFns
<1>5. UNCHANGED flip /\ Continue(If(Unflips(w), <<u>>) \o <<c>>)
  BY DEF FlipOver
<1>6. IF Aborts(w) THEN SetAbortFlip ELSE UNCHANGED <<vb, winpix>>
  BY DEF FlipOver
<1> HIDE DEF c, u
<1>7. CASE Unflips(w)
  <2>1. stack' = <<u, c>> \o Rest
    <3>1. <<u>> \o <<c>> = <<u, c>>
      <4>1. <<u>> \in Seq(Frame) /\ <<u, c>> = Append(<<u>>, c)
        BY <1>4, OneElement
      <4> QED
        BY <1>4, <4>1, AppendIsConcat
    <3> QED
      BY <1>5, <1>7, <3>1 DEF Continue, If, Rest
  <2>2. <<u, c>> \o Rest = <<u>> \o (<<c>> \o Rest)
    BY <1>2, <1>4, TwoFrames, Zenon
  <2>3. /\ <<c>> \o Rest \in Seq(Frame) /\ Head(<<c>> \o Rest) = c /\ Tail(<<c>> \o Rest) = Rest
        /\ <<c>> \o Rest # <<>>
    BY <1>2, <1>4, Pushed
  <2>4. stack' # <<>> /\ Head(stack') = u /\ Tail(stack') = <<c>> \o Rest
    <3> DEFINE t == <<c>> \o Rest
    <3>1. t \in Seq(Frame) /\ stack' = <<u>> \o t
      BY <2>1, <2>2, <2>3
    <3> HIDE DEF t
    <3>2. stack' # <<>> /\ Head(stack') = u /\ Tail(stack') = t
      BY <1>4, <3>1, Pushed
    <3> QED
      BY <3>2 DEF t
  <2>5. Tail(Tail(stack')) = Rest
    BY <2>3, <2>4
  <2>6. Copying'
    BY <1>2, <1>4, <2>4, <2>5 DEF Copying, Top, Rest, NoCopies, Elements
  <2>7. CopiesToScreen'
    BY <1>4, <2>4 DEF CopiesToScreen, Running, Top
  <2> QED
    BY <2>6, <2>7 DEF Hidden
<1>8. CASE ~Unflips(w)
  <2>1. stack' = <<c>> \o Rest
    <3>1. <<>> \o <<c>> = <<c>>
      BY <1>4, OneElement, ConcatEmptySeq
    <3> QED
      BY <1>5, <1>8, <3>1 DEF Continue, If, Rest
  <2>2. Head(stack') = c /\ Tail(stack') = Rest /\ stack' # <<>>
    BY <1>2, <1>4, <2>1, Pushed
  <2>3. Copying'
    BY <1>2, <1>4, <2>2 DEF Copying, Top, Rest, NoCopies, Elements
  <2>4. CopiesToScreen'
    <3>1. CASE Aborts(w)
      <4>1. flip_pending # NoId /\ Accepted /\ flip_pending \in Ids
        BY <1>2, <3>1 DEF Aborts, Accepted, Inv, TypeOK
      <4>2. \A x \in Drawable : winpix'[x] = Screen
        <5>1. CASE vb[flip_pending].abort
          <6>1. vb[flip_pending].abort = TRUE
            BY <4>1, <5>1, FieldTypes DEF Inv
          <6> QED
            BY <1>6, <3>1, <4>1, <5>1, <6>1 DEF SetAbortFlip, Inv, Drawn, Ending
        <5>2. CASE ~vb[flip_pending].abort
          BY <1>6, <3>1, <4>1, <5>2, RestoresScreen DEF SetAbortFlip
        <5> QED
          BY <5>1, <5>2
      <4> QED
        BY <4>2, AllScreenHides
    <3>2. CASE ~Aborts(w)
      <4>1. UNCHANGED <<vb, winpix>>
        BY <1>6, <3>2
      <4>2. CASE flip_pending # NoId
        BY <1>4, <1>5, <2>2, <3>2, <4>1, <4>2 DEF CopiesToScreen, Running, Top, Aborts
      <4>3. CASE flip_pending = NoId /\ flip_window # w
        BY <1>4, <1>5, <2>2, <4>1, <4>3 DEF CopiesToScreen, Running, Top
      <4>4. CASE flip_pending = NoId /\ flip_window = w
        <5>1. unflip = TRUE
          BY <1>8, <4>4 DEF Unflips, Inv, TypeOK
        <5>2. \A x \in Drawable : winpix'[x] = Screen
          BY <4>1, <5>1 DEF Inv, Drawn, Ending
        <5> QED
          BY <5>2, AllScreenHides
      <4> QED
        BY <4>2, <4>3, <4>4
    <3> QED
      BY <3>1, <3>2
  <2> QED
    BY <2>3, <2>4 DEF Hidden
<1> QED
  BY <1>7, <1>8

LEMMA NextHides ==
  ASSUME Inv, [Next]_vars, setup.at_once = FALSE, Hidden
  PROVE  Hidden'
<1>1. Inv'
  BY NextKeeps
<1>2. CASE FlipOver
  BY <1>1, <1>2, FlipOverHides
<1>3. CASE StartUnflip
  BY <1>1, <1>3, StartUnflipHides
<1>4. CASE Tick \/ Cursor
  <2>1. stack' = stack /\ (stack = <<>> \/ Top.fn = "drain")
    BY <1>4 DEF Tick, Cursor, AtEventLoop, Drains, Running
  <2>2. Copying'
    BY <2>1 DEF Hidden, Copying, Top, Rest, NoCopies, Elements
  <2>3. CopiesToScreen'
    BY <2>1 DEF CopiesToScreen, Running, Top
  <2> QED
    BY <2>2, <2>3 DEF Hidden
<1>5. CASE Next /\ ~FlipOver /\ ~StartUnflip /\ ~Tick /\ ~Cursor
  <2>1. NoCopies(stack')
    BY <1>5, OthersCopyNothing DEF Hidden
  <2>2. stack' \in Seq(Frame)
    BY <1>1 DEF Inv, TypeOK
  <2> QED
    BY <2>1, <2>2, HiddenFrom
<1>6. CASE UNCHANGED vars
  <2>1. UNCHANGED <<vb, winpix, flip_pending, flip_window, stack>>
    BY <1>6 DEF vars
  <2>2. Copying'
    BY <2>1 DEF Hidden, Copying, Top, Rest, NoCopies, Elements
  <2>3. CopiesToScreen'
    BY <2>1 DEF Hidden, CopiesToScreen, Running, Top
  <2> QED
    BY <2>2, <2>3 DEF Hidden
<1> QED
  BY <1>2, <1>3, <1>4, <1>5, <1>6

LEMMA SetupStays ==
  ASSUME [Next]_vars
  PROVE  setup' = setup
<1>1. CASE Kernel \/ Tick \/ Present \/ TriggerFence \/ Restack \/ DestroyWindow \/ Cursor \/ PrepareModeset
  BY <1>1 DEF Kernel, VblankEvent, FlipEvent, FakeFlipEvent, Tick, Present, TriggerFence, Restack,
     DestroyWindow, Cursor, PrepareModeset
<1>2. CASE \/ Requeue \/ WaitFence \/ WaitFlip \/ Execute \/ FlipSucceeds \/ FlipFails \/ FlipOver
           \/ CopyLater \/ Copy \/ CopyTearFree \/ Post \/ Notify
  BY <1>2 DEF Requeue, WaitFence, WaitFlip, Execute, FlipSucceeds, FlipFails, FlipOver,
     CopyLater, Copy, CopyTearFree, Post, Notify
<1>3. CASE \/ FlipNotify \/ TryReady
           \/ StartUnflip \/ UnflipNotify \/ CheckFlipWindow \/ CheckQueued \/ Scrap \/ Create
           \/ Trigger \/ Abort \/ ClearWindowFlip \/ Checked \/ Drained
  BY <1>3 DEF FlipNotify, TryReady, StartUnflip, UnflipNotify, CheckFlipWindow, CheckQueued, Scrap, Create,
     Trigger, Abort, ClearWindowFlip, Checked, Drained
<1>4. CASE UNCHANGED vars
  BY <1>4 DEF vars
<1> QED
  BY <1>1, <1>2, <1>3, <1>4 DEF Next, Server

\* CopiesToScreen: when a copy is drawn its window draws to the screen's pixmap, unless
\* the flip of another window hides it: the window's own flip was aborted or unflipped
\* first.  With a driver that unflips by setting a mode the end of the unflip would start
\* another flip before the copy is drawn.
THEOREM CopiesDrawn == Spec => [](~setup.at_once => CopiesToScreen)
<1> DEFINE H == setup.at_once = FALSE => Hidden
<1>1. Init => H
  <2>1. Init => stack = <<>>
    BY DEF Init
  <2> QED
    BY <2>1 DEF Hidden, Copying, CopiesToScreen, Running
<1>2. Inv /\ [Next]_vars /\ H => H'
  BY NextHides, SetupStays
<1>3. Inv /\ H => (~setup.at_once => CopiesToScreen)
  BY DEF Hidden, Inv, TypeOK
<1> HIDE DEF H
<1> QED
  BY <1>1, <1>2, <1>3, Holds, PTL DEF Spec
-----------------------------------------------------------------------------
(***************************************************************************)
(* Time, when the driver does not fail: what is executed is due, or a      *)
(* frame early if it is to be copied; and a flip has one event under way.  *)
(***************************************************************************)
LEMMA SameDue ==
  ASSUME NEW q, SameTimes(q)
  PROVE  Exec(q)' = Exec(q) /\ Slack(q)' = Slack(q) /\ (Due(q)' <=> Due(q))
  BY DEF SameTimes, Exec, Slack, Due

LEMMA CalmKeeps ==
  ASSUME NEW q, OnSchedule(q), Calm(q)
  PROVE  OnSchedule(q)'
<1>1. SameTimes(q)
  BY DEF Calm
<1>2. Exec(q)' = Exec(q) /\ Slack(q)' = Slack(q) /\ (Due(q)' <=> Due(q))
  BY <1>1, SameDue
<1>3. Shaped(q)'
  BY <1>1 DEF OnSchedule, Shaped, SameTimes
<1>4. Single(q)'
  BY <1>1 DEF OnSchedule, Single, SameTimes, Calm, Coming
<1>5. Begun(q)' => Begun(q)
  BY <1>1 DEF Begun, SameTimes, Calm
<1>6. \A n \in Coming : <<q, n>> \in events' => Exec(q)' <= n + Slack(q)'
  BY <1>2 DEF OnSchedule, Calm
<1>7. vb'[q].st = "new" => q \notin fakes' /\ \A n \in Coming : <<q, n>> \notin events'
  BY <1>1 DEF OnSchedule, SameTimes, Calm
<1>8. flip_pixmap' = q => vb'[q].pixmap = FALSE /\ vb'[q].st # "new"
  BY <1>1 DEF OnSchedule, SameTimes, Calm
<1> QED
  BY <1>2, <1>3, <1>4, <1>5, <1>6, <1>7, <1>8 DEF OnSchedule, Coming

LEMMA CalmOnTime ==
  ASSUME NEW g, OnTime(g), g.fn \in OwnerFns => Calm(g.of), g.fn \notin TopFns
  PROVE  OnTime(g)'
<1>1. CASE g.fn \notin OwnerFns
  BY <1>1 DEF OnTime, DueFns, OwnerFns, TopFns
<1>2. CASE g.fn \in OwnerFns
  <2>1. SameTimes(g.of)
    BY <1>2 DEF Calm
  <2>2. Due(g.of)' <=> Due(g.of)
    BY <2>1, SameDue
  <2>3. g.fn = "copy" => Due(g.of)' /\ (vb'[g.of].reason # "other" => vb'[g.of].early # 0)
    BY <2>1, <2>2 DEF OnTime, SameTimes, DueFns
  <2>4. g.fn = "post" /\ vb'[g.of].idled > 0 /\ vb'[g.of].pixmap = TRUE => vb'[g.of].target <= 0
    BY <1>2, <2>1 DEF OnTime, SameTimes, Calm
  <2>5. g.fn = "create" => /\ g.of \notin fakes' /\ Unasked(g.of)' /\ vb'[g.of].early = 0
                           /\ vb'[g.of].callback = FALSE /\ vb'[g.of].flip_ready = FALSE
    BY <1>2, <2>1 DEF OnTime, SameTimes, Calm, Unasked, Coming
  <2>6. g.fn \in {"create", "copy", "post"}
    BY <1>2 DEF OwnerFns, TopFns
  <2> QED
    BY <2>3, <2>4, <2>5, <2>6 DEF OnTime, DueFns
<1> QED
  BY <1>1, <1>2

\* Calls of old wait, those of new are made; the requests of M change.
LEMMA PunctualStep ==
  ASSUME Inv, Punctual, NEW old, NEW new, NEW M,
         \A f \in Elements(stack') : f \in old \/ f \in new,
         \A g \in old : g \in Elements(stack) /\ g.fn \notin TopFns,
         \A g \in old : g.fn \in OwnerFns => g.of \notin M,
         \A f \in new : OnTime(f)',
         \A q \in Ids : q \notin M => Calm(q),
         \A q \in Ids : q \in M => OnSchedule(q)',
         Reported'
  PROVE  Punctual'
<1>1. \A q \in Ids : OnSchedule(q)'
  BY CalmKeeps DEF Punctual
<1>2. \A g \in old : OnTime(g)'
  <2> TAKE g \in old
  <2>1. g \in Elements(stack) /\ g.fn \notin TopFns /\ OnTime(g)
    BY DEF Punctual
  <2>2. g.fn \in OwnerFns => Calm(g.of)
    <3> SUFFICES ASSUME g.fn \in OwnerFns PROVE Calm(g.of)
      OBVIOUS
    <3>1. g \in Frame
      BY <2>1, ElementsOf DEF Inv, TypeOK
    <3>2. g.of \in Ids
      BY <3>1, FrameTyped DEF HoldFns
    <3> QED
      BY <3>2
  <2> QED
    BY <2>1, <2>2, CalmOnTime
<1>3. \A f \in Elements(stack') : OnTime(f)'
  BY <1>2
<1> QED
  BY <1>1, <1>3 DEF Punctual, Elements

LEMMA NoFlipCalled ==
  ASSUME Inv', \A f \in Elements(stack') : f.fn # "flip"
  PROVE  ~Running("flip")'
<1> SUFFICES ASSUME stack' # <<>> PROVE Head(stack').fn # "flip"
  BY DEF Running, Top
<1>1. stack' \in Seq(Frame)
  BY DEF Inv, TypeOK
<1> QED
  BY <1>1, Innermost

LEMMA ReportedKept ==
  ASSUME Inv', Reported, flip_pending' = flip_pending, flips' \subseteq flips \cup {Unflip},
         \A f \in Elements(stack') : f.fn # "flip"
  PROVE  Reported'
<1>1. ~Running("flip")'
  BY NoFlipCalled
<1> QED
  BY <1>1, IdsNat DEF Reported

-----------------------------------------------------------------------------
(***************************************************************************)
(* Every step keeps that.                                                  *)
(***************************************************************************)
LEMMA PunctualAfter ==
  ASSUME Inv, Inv', Punctual, stack # <<>>, NEW new, After(new), NEW M,
         \A f \in new : OnTime(f)' /\ f.fn # "flip",
         \A g \in Elements(Rest) : g.fn \in OwnerFns => g.of \notin M,
         \A q \in Ids : q \notin M => Calm(q),
         \A q \in Ids : q \in M => OnSchedule(q)',
         flip_pending' = flip_pending, flips' \subseteq flips \cup {Unflip}
  PROVE  Punctual'
<1>1. /\ \A g \in Elements(Rest) : g \in Elements(stack) /\ g.fn \notin TopFns
      /\ \A f \in Elements(stack') : f \in Elements(Rest) \/ f \in new
  BY BelowTop DEF After
<1>2. \A f \in Elements(stack') : f.fn # "flip"
  BY <1>1 DEF TopFns
<1>3. Reported'
  BY <1>2, ReportedKept DEF Punctual
<1> QED
  BY <1>1, <1>3, PunctualStep

LEMMA PunctualBefore ==
  ASSUME Inv, Inv', Punctual, stack = <<>> \/ Top.fn \in {"drain", "trigger"},
         NEW new, Before(new),
         \A f \in new : OnTime(f)' /\ f.fn # "flip",
         \A q \in Ids : Calm(q),
         flip_pending' = flip_pending, flips' \subseteq flips \cup {Unflip}
  PROVE  Punctual'
<1>1. \A g \in Elements(stack) : g.fn \notin TopFns
  <2>1. CASE stack = <<>>
    BY <2>1, NoCalls
  <2>2. CASE stack # <<>> /\ Top.fn \in {"drain", "trigger"}
    BY <2>2, BelowTop DEF TopFns
  <2> QED
    BY <2>1, <2>2
<1>2. \A f \in Elements(stack') : f \in Elements(stack) \/ f \in new
  BY DEF Before
<1>3. \A f \in Elements(stack') : f.fn # "flip"
  BY <1>1, <1>2 DEF TopFns
<1>4. Reported'
  BY <1>3, ReportedKept DEF Punctual
<1> DEFINE M == {}
<1>5. \A q : q \notin M
  OBVIOUS
<1> HIDE DEF M
<1> QED
  BY <1>1, <1>2, <1>4, <1>5, PunctualStep

\* The handler of r, which is the only request that changes.
LEMMA PunctualOne ==
  ASSUME Inv, Inv', Punctual, stack # <<>>, NEW new, After(new), NEW r,
         r = Top.of, Top.fn \in HoldFns \cup {"execute"},
         \A f \in new : OnTime(f)' /\ f.fn # "flip",
         \A q \in Ids : q # r => Calm(q), OnSchedule(r)',
         flip_pending' = flip_pending, flips' \subseteq flips \cup {Unflip}
  PROVE  Punctual'
<1>1. \A g \in Elements(Rest) : g.fn \in OwnerFns => g.of \notin {r}
  BY HoldApart, ExecuteApart DEF HoldFns
<1> QED
  BY <1>1, PunctualAfter

LEMMA CalmWhere ==
  ASSUME NEW q, vb'[q] = vb[q], \A n \in Coming : <<q, n>> \in events' => <<q, n>> \in events,
         q \in fakes' => q \in fakes, q \in flips' => q \in flips,
         Contains(flip_queue', q) => Contains(flip_queue, q), flip_pixmap' = q => flip_pixmap = q
  PROVE  Calm(q)
  BY DEF Calm, SameTimes

LEMMA AllCalm ==
  ASSUME vb' = vb, events' \subseteq events, fakes' \subseteq fakes,
         flips' \subseteq flips \cup {Unflip}, flip_queue' = flip_queue, flip_pixmap' = flip_pixmap
  PROVE  \A q \in Ids : Calm(q)
  BY CalmWhere, IdsNat

\* These know nothing of the time.
LEMMA OthersOnTime ==
  ASSUME NEW f, f.fn \notin DueFns \cup {"post", "create"}
  PROVE  OnTime(f)' /\ f.fn # "flip"
  BY DEF OnTime, DueFns

LEMMA TopOnTime ==
  ASSUME Inv, Punctual, stack # <<>>
  PROVE  OnTime(Top) /\ Sound(Top) /\ \A g \in Elements(Rest) : OnTime(g)
  BY BelowTop, Runs DEF Punctual

LEMMA Numbers ==
  ASSUME Inv, NEW r \in Ids
  PROVE  /\ vb[r].target \in Int /\ vb[r].target >= -1 /\ vb[r].early \in {0, 1, 2}
         /\ Exec(r) = vb[r].target - vb[r].early /\ Exec(r) \in Int
         /\ Slack(r) \in {0, 1} /\ (vb[r].flip = FALSE => Slack(r) = 1)
         /\ (vb[r].flip = TRUE => Slack(r) = 0) /\ vb[r].flip \in {TRUE, FALSE}
<1>1. TypeOK /\ MaxAhead \in Int
  BY PresentAssumption DEF Inv
<1>2. vb[r].target \in -1 .. MaxAhead /\ vb[r].early \in 0 .. 2 /\ vb[r].flip \in {TRUE, FALSE}
  BY <1>1, FieldTypes
<1>3. vb[r].target \in Int /\ vb[r].target >= -1 /\ vb[r].early \in {0, 1, 2}
  BY <1>1, <1>2
<1>4. Exec(r) = vb[r].target - vb[r].early /\ Exec(r) \in Int
  BY <1>3 DEF Exec
<1>5. Slack(r) = IF vb[r].flip = TRUE THEN 0 ELSE 1
  BY DEF Slack
<1> QED
  BY <1>2, <1>3, <1>4, <1>5

LEMMA PunctualQuiet ==
  ASSUME Inv, Inv', Punctual,
         Cursor \/ Restack \/ PrepareModeset \/ DestroyWindow \/ Checked \/ Drained \/ TriggerFence
  PROVE  Punctual'
<1>1. \A q \in Ids : Calm(q)
  BY AllCalm DEF Cursor, Restack, PrepareModeset, DestroyWindow, Checked, Drained, TriggerFence
<1>2. flip_pending' = flip_pending /\ flips' \subseteq flips \cup {Unflip}
  BY DEF Cursor, Restack, PrepareModeset, DestroyWindow, Checked, Drained, TriggerFence
<1>3. CASE Cursor
  <2> DEFINE S == {}
  <2>1. stack = <<>> /\ Before(S) /\ \A f \in S : OnTime(f)' /\ f.fn # "flip"
    BY <1>3 DEF Cursor, AtEventLoop, Before
  <2> HIDE DEF S
  <2> QED
    BY <1>1, <1>2, <2>1, PunctualBefore
<1>4. CASE Restack \/ PrepareModeset \/ DestroyWindow
  <2> DEFINE S == Elements(stack')
  <2>1. stack = <<>> /\ Before(S)
    BY <1>4 DEF Restack, PrepareModeset, DestroyWindow, AtEventLoop, Before
  <2>2. \A f \in S : f.fn \in {"check", "checked", "abort", "clear"}
    <3>1. CASE Restack \/ PrepareModeset
      BY <3>1, ChecksCalls
    <3>2. CASE DestroyWindow
      <4>1. PICK w \in Windows : Destroys(w)
        BY <3>2, DestroyCalls
      <4> QED
        BY <4>1, CallTyped DEF Destroys
    <3> QED
      BY <1>4, <3>1, <3>2
  <2>3. \A f \in S : OnTime(f)' /\ f.fn # "flip"
    <3> TAKE f \in S
    <3>1. f.fn \notin DueFns \cup {"post", "create"}
      BY <2>2 DEF DueFns
    <3> QED
      BY <3>1, OthersOnTime
  <2> HIDE DEF S
  <2> QED
    BY <1>1, <1>2, <2>1, <2>3, PunctualBefore
<1>5. CASE TriggerFence
  <2>1. PICK r \in Ids : stack = <<>> /\ Before({Call("trigger", r)})
    BY <1>5, BeforeTriggerFence
  <2>2. Call("trigger", r).fn \notin DueFns \cup {"post", "create"}
    BY CallTyped DEF DueFns
  <2>3. \A f \in {Call("trigger", r)} : OnTime(f)' /\ f.fn # "flip"
    BY <2>2, OthersOnTime
  <2> QED
    BY <1>1, <1>2, <2>1, <2>3, PunctualBefore
<1>6. CASE Checked \/ Drained
  <2> DEFINE S == {Call("drain", NoId)}
             M == {}
  <2>1. stack # <<>> /\ After(S)
    BY <1>6, AfterUnflip, ReturnsAfter DEF After
  <2>2. Call("drain", NoId).fn \notin DueFns \cup {"post", "create"}
    BY CallTyped DEF DueFns
  <2>3. \A f \in S : OnTime(f)' /\ f.fn # "flip"
    BY <2>2, OthersOnTime
  <2>4. \A q : q \notin M
    OBVIOUS
  <2> HIDE DEF S, M
  <2> QED
    BY <1>1, <1>2, <2>1, <2>3, <2>4, PunctualAfter
<1> QED
  BY <1>3, <1>4, <1>5, <1>6

LEMMA PunctualRequeue == ASSUME Inv, Inv', Punctual, Requeue PROVE Punctual'
<1>1. stack # <<>> /\ Top.fn = "execute" /\ Top.of \in Ids /\ After({})
  BY RunsFn, ReturnsAfter DEF Requeue
<1>2. PICK r \in Ids : r = Top.of
  BY <1>1
<1>3. /\ Exec(r) = 1 /\ events' = events \cup {<<r, 1>>} /\ vb' = vb /\ flips' = flips /\ fakes' = fakes
      /\ flip_queue' = flip_queue /\ flip_pixmap' = flip_pixmap /\ flip_pending' = flip_pending
  BY <1>2 DEF Requeue, QueueVblank
<1>4. \A q \in Ids : q # r => Calm(q)
  BY <1>3, CalmWhere
<1>5. Due(r) /\ OnSchedule(r) /\ vb[r].st = "live"
  <2>1. OnTime(Top) /\ Sound(Top)
    BY <1>1, TopOnTime
  <2>2. Placed(r)
    BY DEF Inv, Lists
  <2> QED
    BY <1>1, <1>2, <2>1, <2>2 DEF OnTime, DueFns, Sound, Placed, Waiting, WithDriver, Live, Punctual
<1>6. Slack(r) = 1 /\ vb[r].flip # TRUE
  <2>1. 1 <= Slack(r)
    BY <1>3, <1>5 DEF Due
  <2>2. vb[r].flip # TRUE
    <3>1. ~(1 <= 0)
      OBVIOUS
    <3> QED
      BY <2>1, <3>1 DEF Slack
  <2> QED
    BY <2>2 DEF Slack
<1>7. Exec(r)' = Exec(r) /\ Slack(r)' = Slack(r) /\ (Due(r)' <=> Due(r))
  BY <1>3 DEF Exec, Slack, Due
<1>8. OnSchedule(r)'
  <2>1. Shaped(r)' /\ Single(r)' /\ (Begun(r)' => Due(r)')
    BY <1>3, <1>5, <1>6, <1>7 DEF OnSchedule, Shaped, Single, Begun
  <2>2. \A n \in Coming : <<r, n>> \in events' => Exec(r)' <= n + Slack(r)'
    <3>1. \A n \in Coming : <<r, n>> \in events' => <<r, n>> \in events \/ n = 1
      BY <1>3
    <3>2. 1 <= 1 + 1
      OBVIOUS
    <3> QED
      BY <1>3, <1>5, <1>6, <1>7, <3>1, <3>2 DEF OnSchedule
  <2>3. vb'[r].st # "new"
    BY <1>3, <1>5
  <2>4. flip_pixmap' = r => vb'[r].pixmap = FALSE
    BY <1>3, <1>5 DEF OnSchedule
  <2> QED
    BY <2>1, <2>2, <2>3, <2>4 DEF OnSchedule
<1>9. \A f \in {} : OnTime(f)' /\ f.fn # "flip"
  OBVIOUS
<1> QED
  BY <1>1, <1>2, <1>3, <1>4, <1>8, <1>9, PunctualOne DEF HoldFns

LEMMA ExecutesLive ==
  ASSUME Inv, Punctual, Running("execute")
  PROVE  /\ stack # <<>> /\ Top.fn = "execute" /\ Top.of \in Ids
         /\ Due(Top.of) /\ OnSchedule(Top.of) /\ vb[Top.of].st = "live"
         /\ vb[Top.of].flip = TRUE => Unasked(Top.of)
         /\ vb[Top.of].window # NoWin
<1>1. stack # <<>> /\ Top.fn = "execute" /\ Top.of \in Ids
  BY RunsFn
<1>2. OnTime(Top) /\ Sound(Top) /\ Placed(Top.of) /\ OnSchedule(Top.of)
  BY <1>1, TopOnTime DEF Inv, Lists, Punctual
<1>3. NoWin \notin Windows
  BY PresentAssumption
<1> QED
  BY <1>1, <1>2, <1>3 DEF OnTime, DueFns, Sound, Placed, Waiting, WithDriver, Live

\* An execution that waits: for its fence, or for the flip that is with the driver.
LEMMA PunctualWaits == ASSUME Inv, Inv', Punctual, WaitFence \/ WaitFlip PROVE Punctual'
<1>1. /\ stack # <<>> /\ Top.fn = "execute" /\ Top.of \in Ids /\ After({})
      /\ Due(Top.of) /\ OnSchedule(Top.of) /\ vb[Top.of].st = "live"
      /\ vb[Top.of].flip = TRUE => Unasked(Top.of)
  BY ExecutesLive, ReturnsAfter DEF WaitFence, WaitFlip
<1>2. PICK r \in Ids : r = Top.of
  BY <1>1
<1>3. /\ events' = events /\ flips' = flips /\ fakes' = fakes
      /\ flip_pixmap' = flip_pixmap /\ flip_pending' = flip_pending
  BY DEF WaitFence, WaitFlip
<1>4. \/ vb' = [vb EXCEPT ![r].callback = TRUE]
      \/ vb' = [vb EXCEPT ![r].flip_ready = TRUE]
  BY <1>2 DEF WaitFence, WaitFlip
<1>5. vb \in [Ids -> Vblank] /\ vb[r] \in Vblank
  BY DEF Inv, TypeOK
<1>6. /\ \A q \in Ids : q # r => vb'[q] = vb[q]
      /\ vb'[r] = [vb[r] EXCEPT !.callback = TRUE] \/ vb'[r] = [vb[r] EXCEPT !.flip_ready = TRUE]
  BY <1>4, <1>5
<1>7. /\ vb'[r].st = vb[r].st /\ vb'[r].flip = vb[r].flip /\ vb'[r].reason = vb[r].reason
      /\ vb'[r].early = vb[r].early /\ vb'[r].sync = vb[r].sync /\ vb'[r].pixmap = vb[r].pixmap
      /\ vb'[r].queued = vb[r].queued /\ vb'[r].target = vb[r].target
  <2> DEFINE v == vb[r]
  <2>1. v \in Vblank
    BY <1>5
  <2> HIDE DEF v
  <2>2. LET a == [v EXCEPT !.callback = TRUE]
        IN /\ a.st = v.st /\ a.flip = v.flip /\ a.reason = v.reason
           /\ a.early = v.early /\ a.sync = v.sync /\ a.pixmap = v.pixmap
           /\ a.queued = v.queued /\ a.target = v.target
    BY <2>1 DEF Vblank
  <2>3. LET a == [v EXCEPT !.flip_ready = TRUE]
        IN /\ a.st = v.st /\ a.flip = v.flip /\ a.reason = v.reason
           /\ a.early = v.early /\ a.sync = v.sync /\ a.pixmap = v.pixmap
           /\ a.queued = v.queued /\ a.target = v.target
    BY <2>1 DEF Vblank
  <2> QED
    BY <1>6, <2>2, <2>3 DEF v
<1>8. \A q \in Ids : q # r /\ Contains(flip_queue', q) => Contains(flip_queue, q)
  <2>1. CASE WaitFence
    BY <2>1 DEF WaitFence
  <2>2. CASE WaitFlip
    <3>1. flip_queue \in Seq(Ids) /\ Once(flip_queue)
      BY DEF Inv, TypeOK, Lists
    <3> DEFINE list == Without(flip_queue, r)
    <3>2. list \in Seq(Ids) /\ \A q : Contains(list, q) => Contains(flip_queue, q)
      BY <3>1, WithoutTyped, WithoutHas
    <3>3. flip_queue' = Append(list, r)
      BY <1>2, <2>2 DEF WaitFlip
    <3> HIDE DEF list
    <3> QED
      BY <3>2, <3>3, AppendHas
  <2> QED
    BY <2>1, <2>2
<1>9. \A q \in Ids : q # r => Calm(q)
  BY <1>3, <1>6, <1>8, CalmWhere
<1>10. Exec(r)' = Exec(r) /\ Slack(r)' = Slack(r) /\ (Due(r)' <=> Due(r))
  BY <1>7 DEF Exec, Slack, Due
<1>11. OnSchedule(r)'
  <2>1. Shaped(r)'
    BY <1>1, <1>2, <1>7 DEF OnSchedule, Shaped
  <2>2. Single(r)'
    BY <1>1, <1>2, <1>3, <1>7 DEF OnSchedule, Single, Unasked
  <2>3. Due(r)'
    BY <1>1, <1>2, <1>10
  <2>4. \A n \in Coming : <<r, n>> \in events' => Exec(r)' <= n + Slack(r)'
    BY <1>1, <1>2, <1>3, <1>10 DEF OnSchedule
  <2>5. vb'[r].st # "new" /\ (flip_pixmap' = r => vb'[r].pixmap = FALSE)
    BY <1>1, <1>2, <1>3, <1>7 DEF OnSchedule
  <2> QED
    BY <2>1, <2>2, <2>3, <2>4, <2>5 DEF OnSchedule
<1>12. \A f \in {} : OnTime(f)' /\ f.fn # "flip"
  OBVIOUS
<1> QED
  BY <1>1, <1>2, <1>3, <1>9, <1>11, <1>12, PunctualOne DEF HoldFns

\* present_execute goes on when it is time to.
LEMMA PunctualExecute == ASSUME Inv, Inv', Punctual, setup.fails = FALSE, Execute PROVE Punctual'
<1>1. /\ stack # <<>> /\ Top.fn = "execute" /\ Top.of \in Ids
      /\ Due(Top.of) /\ OnSchedule(Top.of) /\ vb[Top.of].st = "live"
      /\ vb[Top.of].flip = TRUE => Unasked(Top.of)
      /\ vb[Top.of].window # NoWin
  BY ExecutesLive DEF Execute
<1>2. PICK r \in Ids : r = Top.of
  BY <1>1
<1> DEFINE F == Presents(r) /\ vb[r].flip
<1>3. PICK flipping \in BOOLEAN : flipping <=> F
  <2>1. F \in BOOLEAN
    OBVIOUS
  <2> QED
    BY <2>1
<1>0. PICK next : next = IF flipping THEN "flip" ELSE IF Presents(r) THEN "flip_over" ELSE "post"
  OBVIOUS
<1> DEFINE c == Call(next, r)
<1>4. /\ Ready(r) /\ ~(Flips(r) /\ IsFlipping)
      /\ flip_queue' = If(flipping, <<r>>) \o Without(flip_queue, r)
      /\ vb' = [vb EXCEPT ![r].queued = FALSE]
      /\ flip_pending' = IF flipping THEN r ELSE flip_pending
      /\ Continue(<<c>>)
      /\ flip_pixmap' = flip_pixmap /\ events' = events /\ flips' = flips /\ fakes' = fakes
  BY <1>0, <1>2, <1>3 DEF Execute, If
<1>5. c \in Frame /\ c.fn = next /\ c.of = r /\ After({c})
  <2>1. c \in Frame
    BY <1>0, CallTyped DEF VblankFns
  <2>2. c.fn = next /\ c.of = r
    BY CallTyped
  <2> HIDE DEF c
  <2> QED
    BY <1>1, <1>4, <2>1, <2>2, OneCall
<1>6. vb \in [Ids -> Vblank] /\ vb[r] \in Vblank
  BY DEF Inv, TypeOK
<1>7. /\ \A q \in Ids : q # r => vb'[q] = vb[q]
      /\ vb'[r] = [vb[r] EXCEPT !.queued = FALSE]
  BY <1>4, <1>6
<1>8. /\ vb'[r].st = vb[r].st /\ vb'[r].flip = vb[r].flip /\ vb'[r].reason = vb[r].reason
      /\ vb'[r].early = vb[r].early /\ vb'[r].sync = vb[r].sync /\ vb'[r].pixmap = vb[r].pixmap
      /\ vb'[r].queued = FALSE /\ vb'[r].target = vb[r].target /\ vb'[r].idled = vb[r].idled
  <2> DEFINE v == vb[r]
  <2>1. v \in Vblank
    BY <1>6
  <2> HIDE DEF v
  <2>2. LET a == [v EXCEPT !.queued = FALSE]
        IN /\ a.st = v.st /\ a.flip = v.flip /\ a.reason = v.reason
           /\ a.early = v.early /\ a.sync = v.sync /\ a.pixmap = v.pixmap
           /\ a.queued = FALSE /\ a.target = v.target /\ a.idled = v.idled
    BY <2>1 DEF Vblank
  <2> QED
    BY <1>7, <2>2 DEF v
<1>9. \A q \in Ids : q # r /\ Contains(flip_queue', q) => Contains(flip_queue, q)
  <2>1. flip_queue \in Seq(Ids) /\ Once(flip_queue)
    BY DEF Inv, TypeOK, Lists
  <2> DEFINE list == Without(flip_queue, r)
  <2>2. list \in Seq(Ids) /\ \A q : Contains(list, q) => Contains(flip_queue, q)
    BY <2>1, WithoutTyped, WithoutHas
  <2>3. flip_queue' = If(flipping, <<r>>) \o list
    BY <1>4
  <2> HIDE DEF list
  <2>4. CASE flipping
    <3>1. flip_queue' = <<r>> \o list
      BY <2>3, <2>4 DEF If
    <3> QED
      BY <2>2, <3>1, PrependHas
  <2>5. CASE ~flipping
    <3>1. flip_queue' = list
      BY <2>2, <2>3, <2>5, ConcatEmptySeq DEF If
    <3> QED
      BY <2>2, <3>1
  <2> QED
    BY <2>4, <2>5
<1>10. \A q \in Ids : q # r => Calm(q)
  BY <1>4, <1>7, <1>9, CalmWhere
<1>11. Exec(r)' = Exec(r) /\ Slack(r)' = Slack(r) /\ (Due(r)' <=> Due(r))
  BY <1>8 DEF Exec, Slack, Due
<1>12. OnSchedule(r)'
  <2>1. Shaped(r)'
    BY <1>1, <1>2, <1>8 DEF OnSchedule, Shaped
  <2>2. Single(r)'
    BY <1>1, <1>2, <1>4, <1>8 DEF OnSchedule, Single, Unasked
  <2>3. Due(r)'
    BY <1>1, <1>2, <1>11
  <2>4. \A n \in Coming : <<r, n>> \in events' => Exec(r)' <= n + Slack(r)'
    BY <1>1, <1>2, <1>4, <1>11 DEF OnSchedule
  <2>5. vb'[r].st # "new" /\ (flip_pixmap' = r => vb'[r].pixmap = FALSE)
    BY <1>1, <1>2, <1>4, <1>8 DEF OnSchedule
  <2> QED
    BY <2>1, <2>2, <2>3, <2>4, <2>5 DEF OnSchedule
<1>13. vb[r].pixmap \in {TRUE, FALSE} /\ vb[r].flip \in {TRUE, FALSE}
  BY <1>6 DEF Vblank
<1> HIDE DEF c
<1>14. OnTime(c)'
  <2>1. CASE next = "flip"
    BY <1>1, <1>2, <1>5, <1>11, <2>1 DEF OnTime, DueFns
  <2>2. CASE next = "flip_over"
    <3>1. Presents(r)
      BY <1>0, <1>3, <2>2
    <3>2. vb'[r].reason # "other" => vb'[r].early # 0
      BY <1>8, <3>1 DEF Presents, IsTearFree
    <3> QED
      BY <1>1, <1>2, <1>5, <1>11, <2>2, <3>2 DEF OnTime, DueFns
  <2>3. CASE next = "post"
    <3>1. ~Presents(r)
      BY <1>0, <1>3, <2>3
    <3>2. ASSUME vb[r].pixmap = TRUE PROVE vb[r].target <= 0
      <4>1. vb[r].reason # "other" /\ vb[r].early = 0
        BY <1>1, <1>2, <3>1, <3>2 DEF Presents, IsTearFree
      <4>2. vb[r].flip # TRUE
        BY <1>1, <1>2, <4>1 DEF OnSchedule, Shaped
      <4>3. Exec(r) # 1
        BY <1>4 DEF Ready
      <4>4. Exec(r) <= Slack(r)
        BY <1>1, <1>2 DEF Due
      <4>5. /\ vb[r].target \in Int /\ Exec(r) = vb[r].target - vb[r].early
            /\ (vb[r].flip = FALSE => Slack(r) = 1)
        BY Numbers
      <4>6. Slack(r) = 1
        BY <1>13, <4>2, <4>5
      <4>7. Exec(r) = vb[r].target
        BY <4>1, <4>5
      <4> QED
        BY <4>3, <4>4, <4>5, <4>6, <4>7
    <3> QED
      BY <1>5, <1>8, <2>3, <3>2 DEF OnTime, DueFns
  <2> QED
    BY <1>0, <2>1, <2>2, <2>3
<1>15. CASE ~flipping
  <2> HIDE DEF c
  <2>1. c.fn # "flip" /\ flip_pending' = flip_pending
    BY <1>0, <1>4, <1>5, <1>15
  <2>2. \A f \in {c} : OnTime(f)' /\ f.fn # "flip"
    BY <1>14, <2>1
  <2> QED
    BY <1>1, <1>2, <1>4, <1>5, <1>10, <1>12, <2>1, <2>2, PunctualOne DEF HoldFns
<1>16. CASE flipping
  <2>1. flip_pending = NoId
    BY <1>1, <1>2, <1>3, <1>4, <1>16 DEF Flips, Presents, IsFlipping
  <2>2. \A q \in Ids : q \notin flips
    BY <2>1, IdsNat DEF Punctual, Reported
  <2>3. Reported'
    BY <1>4, <2>2 DEF Reported
  <2> DEFINE old == Elements(Rest)
             new == {c}
             M == {r}
  <2>4. /\ \A f \in Elements(stack') : f \in old \/ f \in new
        /\ \A g \in old : g \in Elements(stack) /\ g.fn \notin TopFns
        /\ \A f \in new : OnTime(f)'
    BY <1>1, <1>5, <1>14, BelowTop DEF After
  <2>5. \A g \in old : g.fn \in OwnerFns => g.of \notin M
    BY <1>1, <1>2, ExecuteApart DEF HoldFns
  <2>6. (\A q \in Ids : q \notin M => Calm(q)) /\ (\A q \in Ids : q \in M => OnSchedule(q)')
    BY <1>10, <1>12
  <2> HIDE DEF old, new, M
  <2> QED
    BY <2>3, <2>4, <2>5, <2>6, PunctualStep
<1> QED
  BY <1>15, <1>16

\* The flip that the driver accepts, or refuses, is due.
LEMMA FlipsPending ==
  ASSUME Inv, Punctual, Running("flip")
  PROVE  /\ stack # <<>> /\ Top.fn = "flip" /\ Top.of \in Ids /\ Top.of = flip_pending
         /\ WithDriver(Top.of) /\ Due(Top.of) /\ OnSchedule(Top.of)
         /\ \A q \in Ids : q \notin flips
         /\ \A g \in Elements(Rest) : g.fn \in OwnerFns => g.of # Top.of
<1>1. stack # <<>> /\ Top.fn = "flip" /\ Top.of \in Ids
  BY RunsFn
<1>2. OnTime(Top) /\ Sound(Top) /\ Placed(Top.of) /\ OnSchedule(Top.of)
  BY <1>1, TopOnTime DEF Inv, Lists, Punctual
<1>3. Top.of = flip_pending /\ WithDriver(Top.of) /\ Due(Top.of)
  BY <1>1, <1>2 DEF Sound, Placed, OnTime, DueFns
<1>4. \A g \in Elements(Rest) : g.fn \in OwnerFns => g.of # Top.of
  BY <1>1, <1>3, HoldApart DEF HoldFns
<1> QED
  BY <1>1, <1>2, <1>3, <1>4 DEF Punctual, Reported

LEMMA PunctualFlipSucceeds == ASSUME Inv, Inv', Punctual, FlipSucceeds PROVE Punctual'
<1>1. /\ stack # <<>> /\ Top.fn = "flip" /\ Top.of \in Ids /\ Top.of = flip_pending
      /\ WithDriver(Top.of) /\ Due(Top.of) /\ OnSchedule(Top.of)
      /\ \A q \in Ids : q \notin flips
      /\ \A g \in Elements(Rest) : g.fn \in OwnerFns => g.of # Top.of
      /\ After({})
  BY FlipsPending, ReturnsAfter DEF FlipSucceeds
<1>2. PICK r \in Ids : r = Top.of
  BY <1>1
<1>3. /\ vb' = vb /\ events' = events /\ flips' = flips \cup {r} /\ fakes' = fakes
      /\ flip_queue' = flip_queue /\ flip_pixmap' = flip_pixmap /\ flip_pending' = flip_pending
  BY <1>2 DEF FlipSucceeds
<1>4. \A q \in Ids : q # r => Calm(q)
  BY <1>3, CalmWhere
<1>5. OnSchedule(r)'
  BY <1>1, <1>2, <1>3 DEF OnSchedule, Shaped, Single, Begun, Due, Exec, Slack
<1>6. \A f \in Elements(stack') : f \in Elements(Rest) /\ f.fn # "flip"
  BY <1>1, BelowTop DEF After, TopFns
<1>7. Reported'
  <2>1. ~Running("flip")'
    BY <1>6, NoFlipCalled
  <2> QED
    BY <1>1, <1>2, <1>3, <2>1 DEF Reported
<1> DEFINE old == Elements(Rest)
           new == {}
           M == {r}
<1>8. /\ \A f \in Elements(stack') : f \in old \/ f \in new
      /\ \A g \in old : g \in Elements(stack) /\ g.fn \notin TopFns
      /\ \A f \in new : OnTime(f)'
      /\ \A g \in old : g.fn \in OwnerFns => g.of \notin M
  BY <1>1, <1>2, <1>6, BelowTop
<1>9. (\A q \in Ids : q \notin M => Calm(q)) /\ (\A q \in Ids : q \in M => OnSchedule(q)')
  BY <1>4, <1>5
<1> HIDE DEF old, new, M
<1> QED
  BY <1>7, <1>8, <1>9, PunctualStep

LEMMA PunctualFlipFails == ASSUME Inv, Inv', Punctual, FlipFails PROVE Punctual'
<1>1. /\ stack # <<>> /\ Top.fn = "flip" /\ Top.of \in Ids /\ Top.of = flip_pending
      /\ WithDriver(Top.of) /\ Due(Top.of) /\ OnSchedule(Top.of)
      /\ \A q \in Ids : q \notin flips
      /\ \A g \in Elements(Rest) : g.fn \in OwnerFns => g.of # Top.of
  BY FlipsPending DEF FlipFails
<1>2. PICK r \in Ids : r = Top.of
  BY <1>1
<1> DEFINE c == Call("flip_over", r)
<1>3. /\ vb' = [vb EXCEPT ![r].flip = FALSE, ![r].early = 0]
      /\ events' = events /\ flips' = flips /\ fakes' = fakes
      /\ flip_queue' = Without(flip_queue, r) /\ flip_pixmap' = flip_pixmap /\ Continue(<<c>>)
  BY <1>2 DEF FlipFails
<1>4. c \in Frame /\ c.fn = "flip_over" /\ c.of = r
  BY CallTyped DEF VblankFns
<1> HIDE DEF c
<1>5. After({c})
  BY <1>1, <1>3, <1>4, OneCall
<1>6. vb \in [Ids -> Vblank] /\ vb[r] \in Vblank
  BY DEF Inv, TypeOK
<1>7. /\ \A q \in Ids : q # r => vb'[q] = vb[q]
      /\ vb'[r] = [vb[r] EXCEPT !.flip = FALSE, !.early = 0]
  BY <1>3, <1>6
<1>8. /\ vb'[r].st = vb[r].st /\ vb'[r].flip = FALSE /\ vb'[r].reason = vb[r].reason
      /\ vb'[r].early = 0 /\ vb'[r].pixmap = vb[r].pixmap /\ vb'[r].target = vb[r].target
  <2> DEFINE v == vb[r]
  <2>1. v \in Vblank
    BY <1>6
  <2> HIDE DEF v
  <2>2. LET a == [v EXCEPT !.flip = FALSE, !.early = 0]
        IN /\ a.st = v.st /\ a.flip = FALSE /\ a.reason = v.reason
           /\ a.early = 0 /\ a.pixmap = v.pixmap /\ a.target = v.target
    BY <2>1 DEF Vblank
  <2> QED
    BY <1>7, <2>2 DEF v
<1>9. \A q \in Ids : Contains(flip_queue', q) => Contains(flip_queue, q)
  BY <1>3, WithoutHas DEF Inv, TypeOK, Lists
<1>10. \A q \in Ids : q # r => Calm(q)
  BY <1>3, <1>7, <1>9, CalmWhere
<1>11. vb[r].reason = "other" /\ vb[r].early \in {0, 1} /\ Unasked(r) /\ vb[r].st = "live"
  BY <1>1, <1>2 DEF WithDriver, Live, OnSchedule, Shaped, Single, Unasked
<1>12. Exec(r)' = vb[r].target /\ Slack(r)' = 1 /\ Due(r)'
  <2>1. Exec(r)' = vb[r].target - 0 /\ Slack(r)' = 1
    BY <1>8 DEF Exec, Slack
  <2>2. vb[r].target - vb[r].early <= 0 /\ vb[r].target \in Int
    BY <1>1, <1>2, Numbers DEF Due, WithDriver
  <2> QED
    BY <1>11, <2>1, <2>2 DEF Due
<1>13. OnSchedule(r)'
  BY <1>1, <1>2, <1>3, <1>8, <1>11, <1>12 DEF OnSchedule, Shaped, Single, Unasked, WithDriver
<1>14. OnTime(c)'
  BY <1>4, <1>8, <1>11, <1>12 DEF OnTime
<1>15. Reported'
  BY <1>1, <1>3 DEF Reported
<1> DEFINE old == Elements(Rest)
           new == {c}
           M == {r}
<1>16. /\ \A f \in Elements(stack') : f \in old \/ f \in new
       /\ \A g \in old : g \in Elements(stack) /\ g.fn \notin TopFns
       /\ \A f \in new : OnTime(f)'
       /\ \A g \in old : g.fn \in OwnerFns => g.of \notin M
  BY <1>1, <1>2, <1>5, <1>14, BelowTop DEF After
<1>17. (\A q \in Ids : q \notin M => Calm(q)) /\ (\A q \in Ids : q \in M => OnSchedule(q)')
  BY <1>10, <1>13
<1> HIDE DEF old, new, M
<1> QED
  BY <1>15, <1>16, <1>17, PunctualStep

\* The abort of a flip, and its window's end, change nothing of the time.
LEMMA AbortCalm ==
  ASSUME Inv, UNCHANGED <<events, flips, fakes, flip_queue, flip_pixmap>>,
         \/ vb' = vb
         \/ /\ flip_pending # NoId
            /\ \/ vb' = [vb EXCEPT ![flip_pending].abort = TRUE]
               \/ vb' = [vb EXCEPT ![flip_pending].abort = TRUE, ![flip_pending].window = NoWin]
  PROVE  \A q \in Ids : SameTimes(q) /\ vb'[q].idled = vb[q].idled /\ Calm(q)
<1>1. PICK p : p = flip_pending
  OBVIOUS
<1>2. vb \in [Ids -> Vblank] /\ p \in Ids \cup {NoId}
  BY <1>1 DEF Inv, TypeOK
<1>3. \/ vb' = vb
      \/ /\ p # NoId
         /\ \/ vb' = [vb EXCEPT ![p].abort = TRUE]
            \/ vb' = [vb EXCEPT ![p].abort = TRUE, ![p].window = NoWin]
  BY <1>1
<1> SUFFICES ASSUME NEW q \in Ids
             PROVE  SameTimes(q) /\ vb'[q].idled = vb[q].idled
  BY DEF Calm
<1>4. vb'[q] \in {vb[q], [vb[q] EXCEPT !.abort = TRUE],
                  [vb[q] EXCEPT !.abort = TRUE, !.window = NoWin]}
  <2>1. CASE vb' = vb
    BY <2>1
  <2>2. CASE p # NoId /\ vb' = [vb EXCEPT ![p].abort = TRUE]
    <3>1. vb'[q] = IF q = p THEN [vb[q] EXCEPT !.abort = TRUE] ELSE vb[q]
      BY <1>2, <2>2
    <3> QED
      BY <3>1
  <2>3. CASE p # NoId /\ vb' = [vb EXCEPT ![p].abort = TRUE, ![p].window = NoWin]
    <3>1. vb'[q] = IF q = p THEN [vb[q] EXCEPT !.abort = TRUE, !.window = NoWin] ELSE vb[q]
      BY <1>2, <2>3
    <3> QED
      BY <3>1
  <2> QED
    BY <1>3, <2>1, <2>2, <2>3
<1> DEFINE v == vb[q]
<1>5. v \in Vblank /\ NoWin \in Windows \cup {NoWin}
  BY <1>2
<1> HIDE DEF v
<1>6. LET a == [v EXCEPT !.abort = TRUE]
      IN /\ a.st = v.st /\ a.flip = v.flip /\ a.reason = v.reason /\ a.early = v.early
         /\ a.sync = v.sync /\ a.pixmap = v.pixmap /\ a.queued = v.queued /\ a.target = v.target
         /\ a.callback = v.callback /\ a.flip_ready = v.flip_ready /\ a.idled = v.idled
  BY <1>5 DEF Vblank
<1>7. LET a == [v EXCEPT !.abort = TRUE, !.window = NoWin]
      IN /\ a.st = v.st /\ a.flip = v.flip /\ a.reason = v.reason /\ a.early = v.early
         /\ a.sync = v.sync /\ a.pixmap = v.pixmap /\ a.queued = v.queued /\ a.target = v.target
         /\ a.callback = v.callback /\ a.flip_ready = v.flip_ready /\ a.idled = v.idled
  BY <1>5 DEF Vblank
<1>8. vb'[q] \in {v, [v EXCEPT !.abort = TRUE], [v EXCEPT !.abort = TRUE, !.window = NoWin]}
  BY <1>4 DEF v
<1>9. /\ vb'[q].st = v.st /\ vb'[q].flip = v.flip /\ vb'[q].reason = v.reason /\ vb'[q].early = v.early
      /\ vb'[q].sync = v.sync /\ vb'[q].pixmap = v.pixmap /\ vb'[q].queued = v.queued
      /\ vb'[q].target = v.target /\ vb'[q].callback = v.callback
      /\ vb'[q].flip_ready = v.flip_ready /\ vb'[q].idled = v.idled
  BY <1>6, <1>7, <1>8
<1> QED
  BY <1>9 DEF SameTimes, v

LEMMA PunctualFlipOver == ASSUME Inv, Inv', Punctual, FlipOver PROVE Punctual'
<1>1. stack # <<>> /\ Top.fn = "flip_over" /\ Top.of \in Ids
  BY RunsFn DEF FlipOver, HoldFns, OwnerFns
<1>2. PICK r \in Ids : r = Top.of
  BY <1>1
<1> DEFINE c == Call("copy", r)
           u == Call("unflip", NoId)
<1>3. c \in Frame /\ u \in Frame /\ c.fn = "copy" /\ u.fn = "unflip" /\ c.of = r
  BY CallTyped DEF VblankFns, OtherFns
<1>4. PICK i : Continue(If(i, <<u>>) \o <<c>>)
  BY <1>2 DEF FlipOver
<1> HIDE DEF c, u
<1>5. After({u, c})
  BY <1>1, <1>3, <1>4, TwoCalls
<1>6. UNCHANGED <<events, flips, fakes, flip_queue, flip_pixmap, flip_pending>>
  BY DEF FlipOver
<1>7. \A q \in Ids : SameTimes(q) /\ vb'[q].idled = vb[q].idled /\ Calm(q)
  <2>1. Aborts(vb[Top.of].window) => flip_pending # NoId
    BY DEF Aborts
  <2>2. \/ vb' = vb
        \/ flip_pending # NoId /\ vb' = [vb EXCEPT ![flip_pending].abort = TRUE]
    BY <2>1 DEF FlipOver, SetAbortFlip
  <2> QED
    BY <1>6, <2>2, AbortCalm
<1>8. OnTime(c)'
  <2>1. OnTime(Top) /\ SameTimes(r)
    BY <1>1, <1>7, TopOnTime
  <2>2. Due(r)'
    BY <1>1, <1>2, <2>1, SameDue DEF OnTime, DueFns
  <2>3. vb'[r].reason # "other" => vb'[r].early # 0
    BY <1>1, <1>2, <2>1 DEF OnTime, SameTimes
  <2> QED
    BY <1>3, <2>2, <2>3 DEF OnTime
<1>9. \A f \in {u, c} : OnTime(f)' /\ f.fn # "flip"
  <2>1. u.fn \notin DueFns \cup {"post", "create"}
    BY <1>3 DEF DueFns
  <2>2. OnTime(u)'
    BY <2>1, OthersOnTime
  <2> QED
    BY <1>3, <1>8, <2>2
<1> DEFINE M == {}
<1>10. \A q : q \notin M
  OBVIOUS
<1> HIDE DEF M
<1> QED
  BY <1>1, <1>5, <1>6, <1>7, <1>9, <1>10, PunctualAfter

\* These call nothing that depends on the time.
LEMMA PunctualCalm ==
  ASSUME Inv, Inv', Punctual, stack # <<>>, NEW S, After(S), \A q \in Ids : Calm(q),
         \A f \in S : f.fn \notin DueFns \cup {"post", "create"},
         flip_pending' = flip_pending, flips' \subseteq flips \cup {Unflip}
  PROVE  Punctual'
<1>1. \A f \in S : OnTime(f)' /\ f.fn # "flip"
  BY OthersOnTime
<1> DEFINE M == {}
<1>2. \A q : q \notin M
  OBVIOUS
<1> HIDE DEF M
<1> QED
  BY <1>1, <1>2, PunctualAfter

LEMMA PunctualFlipEnds ==
  ASSUME Inv, Inv', Punctual,
         CheckFlipWindow \/ ClearWindowFlip \/ StartUnflip \/ UnflipNotify
  PROVE  Punctual'
<1>1. CASE CheckFlipWindow
  <2>1. /\ stack # <<>> /\ Top.fn = "check" /\ Top.of \in Windows
        /\ After({Call("unflip", NoId), Call("check_queued", Top.of)})
    BY <1>1, AfterCheckFlipWindow
  <2>2. PICK w : w = Top.of
    OBVIOUS
  <2>3. \A f \in {Call("unflip", NoId), Call("check_queued", w)} :
          f.fn \notin DueFns \cup {"post", "create"}
    BY CallTyped DEF DueFns
  <2>4. UNCHANGED <<events, flips, fakes, flip_queue, flip_pixmap, flip_pending>>
    BY <1>1 DEF CheckFlipWindow
  <2>5. \A q \in Ids : Calm(q)
    <3>1. Aborts(Top.of) => flip_pending # NoId
      BY DEF Aborts
    <3>2. \/ vb' = vb
          \/ flip_pending # NoId /\ vb' = [vb EXCEPT ![flip_pending].abort = TRUE]
      BY <1>1, <3>1 DEF CheckFlipWindow, SetAbortFlip
    <3> QED
      BY <2>4, <3>2, AbortCalm
  <2> QED
    BY <2>1, <2>2, <2>3, <2>4, <2>5, PunctualCalm
<1>2. CASE ClearWindowFlip
  <2>1. stack # <<>> /\ After({})
    BY <1>2, ReturnsAfter
  <2>2. UNCHANGED <<events, flips, fakes, flip_queue, flip_pixmap, flip_pending>>
    BY <1>2 DEF ClearWindowFlip
  <2>3. \A q \in Ids : Calm(q)
    <3>1. Aborts(Top.of) => flip_pending # NoId
      BY DEF Aborts
    <3>2. \/ vb' = vb
          \/ /\ flip_pending # NoId
             /\ vb' = [vb EXCEPT ![flip_pending].abort = TRUE, ![flip_pending].window = NoWin]
      BY <1>2, <3>1 DEF ClearWindowFlip
    <3> QED
      BY <2>2, <3>2, AbortCalm
  <2>4. \A f \in {} : f.fn \notin DueFns \cup {"post", "create"}
    OBVIOUS
  <2> QED
    BY <2>1, <2>2, <2>3, <2>4, PunctualCalm
<1>3. CASE StartUnflip
  <2> DEFINE c == Call("unflipped", NoId)
             S == {c}
  <2>1. stack # <<>> /\ (Continue(<<>>) \/ Continue(<<c>>))
    BY <1>3 DEF StartUnflip, Running
  <2>2. c \in Frame /\ c.fn = "unflipped"
    BY OtherCalls, CallTyped
  <2> HIDE DEF c
  <2>3. After(S)
    BY <2>1, <2>2, OneCall, Returned DEF After
  <2>4. \A q \in Ids : Calm(q)
    <3>1. /\ vb' = vb /\ events' = events /\ fakes' = fakes /\ flips' \subseteq flips \cup {Unflip}
          /\ flip_queue' = flip_queue /\ flip_pixmap' = flip_pixmap
      BY <1>3 DEF StartUnflip
    <3> QED
      BY <3>1, AllCalm
  <2>5. flip_pending' = flip_pending /\ flips' \subseteq flips \cup {Unflip}
    BY <1>3 DEF StartUnflip
  <2>6. \A f \in S : f.fn \notin DueFns \cup {"post", "create"}
    BY <2>2 DEF DueFns
  <2> HIDE DEF S
  <2> QED
    BY <2>1, <2>3, <2>4, <2>5, <2>6, PunctualCalm
<1>4. CASE UnflipNotify
  <2>1. stack # <<>> /\ After({Call("try_ready", NoId)})
    BY <1>4, AfterUnflip
  <2>2. \A f \in {Call("try_ready", NoId)} : f.fn \notin DueFns \cup {"post", "create"}
    BY CallTyped DEF DueFns
  <2>3. /\ UNCHANGED <<events, flips, fakes, flip_queue, flip_pending>> /\ vb' = IdleFlip(vb)
        /\ flip_pixmap' = NoId
    BY <1>4 DEF UnflipNotify
  <2>4. \A q \in Ids : Calm(q)
    <3> TAKE q \in Ids
    <3>1. flip_pixmap' # q
      BY <2>3, IdsNat
    <3>2. OnSchedule(q)
      BY DEF Punctual
    <3>3. vb[q] \in Vblank /\ vb'[q] = IF q = flip_pixmap /\ q # NoId THEN [vb[q] EXCEPT !.idled = @ + 1] ELSE vb[q]
      BY <2>3, IdleFlipSame DEF Inv, TypeOK
    <3>4. CASE q = flip_pixmap
      <4> DEFINE v == vb[q]
      <4>1. v \in Vblank /\ vb'[q] \in {v, [v EXCEPT !.idled = @ + 1]}
        BY <3>3
      <4> HIDE DEF v
      <4>2. LET a == [v EXCEPT !.idled = @ + 1]
            IN /\ a.st = v.st /\ a.flip = v.flip /\ a.reason = v.reason /\ a.early = v.early
               /\ a.sync = v.sync /\ a.pixmap = v.pixmap /\ a.queued = v.queued /\ a.target = v.target
               /\ a.callback = v.callback /\ a.flip_ready = v.flip_ready
        BY <4>1 DEF Vblank
      <4>3. SameTimes(q)
        BY <4>1, <4>2 DEF SameTimes, v
      <4>4. vb[q].pixmap = FALSE
        BY <3>2, <3>4 DEF OnSchedule
      <4> QED
        BY <2>3, <3>1, <4>3, <4>4 DEF Calm
    <3>5. CASE q # flip_pixmap
      <4>1. vb'[q] = vb[q]
        BY <3>3, <3>5
      <4> QED
        BY <2>3, <3>1, <4>1, CalmWhere
    <3> QED
      BY <3>4, <3>5
  <2> QED
    BY <2>1, <2>2, <2>3, <2>4, PunctualCalm
<1> QED
  BY <1>1, <1>2, <1>3, <1>4

\* A copy that is made is due, and comes only once for TearFree.
LEMMA CopiesDue ==
  ASSUME Inv, Punctual, Running("copy")
  PROVE  /\ stack # <<>> /\ Top.fn = "copy" /\ Top.of \in Ids
         /\ Due(Top.of) /\ OnSchedule(Top.of) /\ vb[Top.of].st = "live" /\ Slack(Top.of) = 1
         /\ vb[Top.of].flip = FALSE /\ vb[Top.of].pixmap = TRUE
         /\ vb[Top.of].reason # "other" => vb[Top.of].early # 0
         /\ Exec(Top.of) = vb[Top.of].target - vb[Top.of].early /\ vb[Top.of].target \in Int
         /\ vb[Top.of].early \in {0, 1, 2} /\ Exec(Top.of) <= 1
<1>1. stack # <<>> /\ Top.fn = "copy" /\ Top.of \in Ids
  BY RunsFn DEF HoldFns, OwnerFns
<1>2. OnTime(Top) /\ Sound(Top) /\ OnSchedule(Top.of)
  BY <1>1, TopOnTime DEF Punctual
<1>3. /\ Due(Top.of) /\ vb[Top.of].st = "live" /\ vb[Top.of].flip = FALSE /\ vb[Top.of].pixmap = TRUE
      /\ vb[Top.of].reason # "other" => vb[Top.of].early # 0
  BY <1>1, <1>2 DEF OnTime, DueFns, Sound, OwnerFns, Live
<1>4. Slack(Top.of) = 1 /\ Exec(Top.of) <= 1
  BY <1>3 DEF Slack, Due
<1> QED
  BY <1>1, <1>2, <1>3, <1>4, Numbers

LEMMA PunctualCopyLater == ASSUME Inv, Inv', Punctual, CopyLater PROVE Punctual'
<1>1. /\ stack # <<>> /\ Top.fn = "copy" /\ Top.of \in Ids
      /\ Due(Top.of) /\ OnSchedule(Top.of) /\ vb[Top.of].st = "live" /\ Slack(Top.of) = 1
      /\ vb[Top.of].flip = FALSE /\ vb[Top.of].pixmap = TRUE
      /\ vb[Top.of].reason # "other" => vb[Top.of].early # 0
      /\ After({})
  BY CopiesDue, ReturnsAfter DEF CopyLater
<1>2. PICK r \in Ids : r = Top.of
  BY <1>1
<1>3. /\ vb' = [vb EXCEPT ![r].queued = TRUE] /\ events' = events \cup {<<r, 1>>} /\ Exec(r) = 1
      /\ UNCHANGED <<flips, fakes, flip_queue, flip_pixmap, flip_pending>>
  BY <1>2 DEF CopyLater, BackToQueue, QueueVblank
<1>4. vb \in [Ids -> Vblank] /\ vb[r] \in Vblank
  BY DEF Inv, TypeOK
<1>5. /\ \A q \in Ids : q # r => vb'[q] = vb[q]
      /\ vb'[r] = [vb[r] EXCEPT !.queued = TRUE]
  BY <1>3, <1>4
<1>6. /\ vb'[r].st = vb[r].st /\ vb'[r].flip = vb[r].flip /\ vb'[r].reason = vb[r].reason
      /\ vb'[r].early = vb[r].early /\ vb'[r].pixmap = vb[r].pixmap /\ vb'[r].target = vb[r].target
      /\ vb'[r].callback = vb[r].callback /\ vb'[r].flip_ready = vb[r].flip_ready
  <2> DEFINE v == vb[r]
  <2>1. v \in Vblank
    BY <1>4
  <2> HIDE DEF v
  <2>2. LET a == [v EXCEPT !.queued = TRUE]
        IN /\ a.st = v.st /\ a.flip = v.flip /\ a.reason = v.reason /\ a.early = v.early
           /\ a.pixmap = v.pixmap /\ a.target = v.target
           /\ a.callback = v.callback /\ a.flip_ready = v.flip_ready
    BY <2>1 DEF Vblank
  <2> QED
    BY <1>5, <2>2 DEF v
<1>7. \A q \in Ids : q # r => Calm(q)
  BY <1>3, <1>5, CalmWhere
<1>8. Exec(r)' = Exec(r) /\ Slack(r)' = Slack(r) /\ (Due(r)' <=> Due(r))
  BY <1>6 DEF Exec, Slack, Due
<1>9. OnSchedule(r)'
  <2>1. Shaped(r)'
    BY <1>1, <1>2, <1>6 DEF OnSchedule, Shaped
  <2>2. Single(r)' /\ Due(r)'
    BY <1>1, <1>2, <1>6, <1>8 DEF Single
  <2>3. \A n \in Coming : <<r, n>> \in events' => Exec(r)' <= n + Slack(r)'
    <3>1. \A n \in Coming : <<r, n>> \in events' => <<r, n>> \in events \/ n = 1
      BY <1>3
    <3>2. 1 <= 1 + 1
      OBVIOUS
    <3> QED
      BY <1>1, <1>2, <1>3, <1>8, <3>1, <3>2 DEF OnSchedule
  <2>4. vb'[r].st # "new" /\ (flip_pixmap' = r => vb'[r].pixmap = FALSE)
    BY <1>1, <1>2, <1>3, <1>6 DEF OnSchedule
  <2> QED
    BY <2>1, <2>2, <2>3, <2>4 DEF OnSchedule
<1>10. \A f \in {} : OnTime(f)' /\ f.fn # "flip"
  OBVIOUS
<1> QED
  BY <1>1, <1>2, <1>3, <1>7, <1>9, <1>10, PunctualOne DEF HoldFns, OwnerFns

\* What a copy made of its vblank: its pixmap is idle.
LEMMA CopiedTimes ==
  ASSUME Inv, NEW r \in Ids
  PROVE  /\ Copied(r) \in [Ids -> Vblank] /\ \A q \in Ids : q # r => Copied(r)[q] = vb[q]
         /\ Copied(r)[r].st = vb[r].st /\ Copied(r)[r].flip = vb[r].flip
         /\ Copied(r)[r].reason = vb[r].reason /\ Copied(r)[r].early = vb[r].early
         /\ Copied(r)[r].sync = vb[r].sync /\ Copied(r)[r].pixmap = vb[r].pixmap
         /\ Copied(r)[r].queued = vb[r].queued /\ Copied(r)[r].target = vb[r].target
         /\ Copied(r)[r].callback = vb[r].callback /\ Copied(r)[r].flip_ready = vb[r].flip_ready
<1>1. Copied(r) \in [Ids -> Vblank] /\ \A q \in Ids : q # r => Copied(r)[q] = vb[q]
  BY CopiedFields DEF Inv
<1>2. vb \in [Ids -> Vblank] /\ vb[r] \in Vblank
  BY DEF Inv, TypeOK
<1> DEFINE v == vb[r]
<1>3. v \in Vblank /\ Copied(r)[r] = [v EXCEPT !.idled = @ + 1]
  BY <1>2 DEF Copied
<1> HIDE DEF v
<1>4. LET a == [v EXCEPT !.idled = @ + 1]
      IN /\ a.st = v.st /\ a.flip = v.flip /\ a.reason = v.reason /\ a.early = v.early
         /\ a.sync = v.sync /\ a.pixmap = v.pixmap /\ a.queued = v.queued /\ a.target = v.target
         /\ a.callback = v.callback /\ a.flip_ready = v.flip_ready
  BY <1>3 DEF Vblank
<1> QED
  BY <1>1, <1>3, <1>4 DEF v

LEMMA PunctualCopy == ASSUME Inv, Inv', Punctual, setup.fails = FALSE, Copy PROVE Punctual'
<1>1. /\ stack # <<>> /\ Top.fn = "copy" /\ Top.of \in Ids
      /\ Due(Top.of) /\ OnSchedule(Top.of) /\ vb[Top.of].st = "live"
      /\ vb[Top.of].flip = FALSE /\ vb[Top.of].pixmap = TRUE
      /\ Exec(Top.of) = vb[Top.of].target - vb[Top.of].early /\ vb[Top.of].target \in Int
      /\ Exec(Top.of) <= 1
  BY CopiesDue DEF Copy
<1>2. PICK r \in Ids : r = Top.of
  BY <1>1
<1> DEFINE c == Call("post", r)
<1>3. /\ vb' = Copied(r) /\ Continue(<<c>>)
      /\ UNCHANGED <<events, flips, fakes, flip_queue, flip_pixmap, flip_pending>>
  BY <1>2 DEF Copy
<1>4. Exec(r) # 1 /\ vb[r].reason = "other"
  BY <1>2 DEF Copy, Copies, IsTearFree
<1>5. vb[r].early = 0 /\ vb[r].target <= 0
  <2>1. vb[r].early = 0
    BY <1>1, <1>2, <1>4 DEF OnSchedule, Shaped
  <2>2. Exec(r) = vb[r].target
    BY <1>1, <1>2, <2>1
  <2> QED
    BY <1>1, <1>2, <1>4, <2>1, <2>2
<1>6. c \in Frame /\ c.fn = "post" /\ c.of = r
  BY CallTyped DEF VblankFns
<1> HIDE DEF c
<1>7. After({c})
  BY <1>1, <1>3, <1>6, OneCall
<1>8. /\ \A q \in Ids : q # r => vb'[q] = vb[q]
      /\ vb'[r].st = vb[r].st /\ vb'[r].flip = vb[r].flip
      /\ vb'[r].reason = vb[r].reason /\ vb'[r].early = vb[r].early
      /\ vb'[r].sync = vb[r].sync /\ vb'[r].pixmap = vb[r].pixmap
      /\ vb'[r].queued = vb[r].queued /\ vb'[r].target = vb[r].target
      /\ vb'[r].callback = vb[r].callback /\ vb'[r].flip_ready = vb[r].flip_ready
  BY <1>3, CopiedTimes
<1>9. \A q \in Ids : q # r => Calm(q)
  BY <1>3, <1>8, CalmWhere
<1>10. OnSchedule(r)'
  BY <1>1, <1>2, <1>3, <1>8 DEF OnSchedule, Shaped, Single, Begun, Due, Exec, Slack
<1>11. OnTime(c)'
  BY <1>5, <1>6, <1>8 DEF OnTime, DueFns
<1>12. \A f \in {c} : OnTime(f)' /\ f.fn # "flip"
  BY <1>6, <1>11
<1> QED
  BY <1>1, <1>2, <1>3, <1>7, <1>9, <1>10, <1>12, PunctualOne DEF HoldFns, OwnerFns

LEMMA PunctualCopyTearFree ==
  ASSUME Inv, Inv', Punctual, setup.fails = FALSE, CopyTearFree PROVE Punctual'
<1>1. /\ stack # <<>> /\ Top.fn = "copy" /\ Top.of \in Ids
      /\ Due(Top.of) /\ OnSchedule(Top.of) /\ vb[Top.of].st = "live"
      /\ vb[Top.of].flip = FALSE /\ vb[Top.of].pixmap = TRUE
      /\ vb[Top.of].reason # "other" => vb[Top.of].early # 0
      /\ Exec(Top.of) = vb[Top.of].target - vb[Top.of].early /\ vb[Top.of].target \in Int
      /\ vb[Top.of].early \in {0, 1, 2} /\ Exec(Top.of) <= 1
      /\ After({})
  BY CopiesDue, ReturnsAfter DEF CopyTearFree
<1>2. PICK r \in Ids : r = Top.of
  BY <1>1
<1> DEFINE v == Copied(r)
           w == [v EXCEPT ![r].early = 0]
<1>3. /\ vb' = [w EXCEPT ![r].queued = TRUE]
      /\ \/ fakes' = fakes \cup {r} /\ events' = events
         \/ fakes' = fakes /\ \E n : events' = events \cup {<<r, n>>}
      /\ Exec(r) # 1 /\ vb[r].reason # "other"
      /\ UNCHANGED <<flips, flip_queue, flip_pixmap, flip_pending>>
  BY <1>2 DEF CopyTearFree, BackToQueue, QueueVblank, Copies, IsTearFree
<1>4. /\ v \in [Ids -> Vblank] /\ \A q \in Ids : q # r => v[q] = vb[q]
      /\ v[r].st = vb[r].st /\ v[r].flip = vb[r].flip
      /\ v[r].reason = vb[r].reason /\ v[r].pixmap = vb[r].pixmap /\ v[r].target = vb[r].target
  BY CopiedTimes
<1> HIDE DEF v
<1>5. /\ \A q \in Ids : q # r => vb'[q] = vb[q]
      /\ vb'[r].st = vb[r].st /\ vb'[r].flip = vb[r].flip
      /\ vb'[r].reason = vb[r].reason /\ vb'[r].pixmap = vb[r].pixmap /\ vb'[r].target = vb[r].target
      /\ vb'[r].early = 0
  <2> DEFINE a == v[r]
  <2>1. a \in Vblank
    BY <1>4
  <2>2. vb' = [v EXCEPT ![r] = [a EXCEPT !.early = 0, !.queued = TRUE]]
    BY <1>3, <1>4
  <2>3. \A q \in Ids : vb'[q] = IF q = r THEN [a EXCEPT !.early = 0, !.queued = TRUE] ELSE v[q]
    BY <1>4, <2>2
  <2> HIDE DEF a
  <2>4. LET b == [a EXCEPT !.early = 0, !.queued = TRUE]
        IN /\ b.st = a.st /\ b.flip = a.flip /\ b.reason = a.reason /\ b.pixmap = a.pixmap
           /\ b.target = a.target /\ b.early = 0
    BY <2>1 DEF Vblank
  <2> QED
    BY <1>4, <2>3, <2>4 DEF a
<1>6. \A q \in Ids : q # r => Calm(q)
  BY <1>3, <1>5, CalmWhere
<1>7. vb[r].target <= 1
  <2>1. CASE vb[r].early = 2
    BY <1>1, <1>2, <1>3, <2>1 DEF OnSchedule, Shaped
  <2>2. CASE vb[r].early = 1
    BY <1>1, <1>2, <1>3, <2>2
  <2> QED
    BY <1>1, <1>2, <1>3, <2>1, <2>2
<1>8. Exec(r)' = vb[r].target /\ Slack(r)' = 1
  BY <1>1, <1>2, <1>5 DEF Exec, Slack
<1>9. OnSchedule(r)'
  <2>1. Shaped(r)'
    BY <1>1, <1>2, <1>5, <1>7 DEF Shaped
  <2>2. Single(r)' /\ Due(r)'
    BY <1>1, <1>2, <1>5, <1>7, <1>8 DEF Single, Due
  <2>3. \A n \in Coming : Exec(r)' <= n + Slack(r)'
    <3> TAKE n \in Coming
    <3>1. n \in Int /\ n >= 0
      BY PresentAssumption DEF Coming
    <3> QED
      BY <1>1, <1>2, <1>7, <1>8, <3>1
  <2>4. vb'[r].st # "new" /\ (flip_pixmap' = r => vb'[r].pixmap = FALSE)
    BY <1>1, <1>2, <1>3, <1>5 DEF OnSchedule
  <2> QED
    BY <2>1, <2>2, <2>3, <2>4 DEF OnSchedule
<1>10. \A f \in {} : OnTime(f)' /\ f.fn # "flip"
  OBVIOUS
<1> QED
  BY <1>1, <1>2, <1>3, <1>6, <1>9, <1>10, PunctualOne DEF HoldFns, OwnerFns

\* A vblank that is freed is waited for by nobody.
LEMMA FreedOnSchedule ==
  ASSUME NEW r, vb'[r].flip = FALSE, vb'[r].reason = "other", vb'[r].early = 0,
         vb'[r].pixmap = FALSE, vb'[r].target = -1, vb'[r].st = "freed"
  PROVE  OnSchedule(r)'
<1>1. Exec(r)' = -1 /\ Slack(r)' = 1
  BY DEF Exec, Slack
<1>2. Due(r)' /\ Shaped(r)' /\ Single(r)'
  BY <1>1 DEF Due, Shaped, Single
<1>3. \A n \in Coming : Exec(r)' <= n + Slack(r)'
  <2> TAKE n \in Coming
  <2>1. n \in Int /\ n >= 0
    BY PresentAssumption DEF Coming
  <2> QED
    BY <1>1, <2>1
<1> QED
  BY <1>2, <1>3 DEF OnSchedule

LEMMA PunctualFrees == ASSUME Inv, Inv', Punctual, Post \/ Abort PROVE Punctual'
<1>1. stack # <<>> /\ Top.fn \in HoldFns /\ Top.of \in Ids /\ After({})
  BY RunsFn, ReturnsAfter DEF Post, Abort, HoldFns, OwnerFns
<1>2. PICK r \in Ids : r = Top.of
  BY <1>1
<1>3. /\ vb' = [vb EXCEPT ![r] = Freed(Completed(vb[r]))] \/ vb' = [vb EXCEPT ![r] = Freed(vb[r])]
      /\ flip_queue' = Without(flip_queue, r) /\ events' \subseteq events /\ fakes' \subseteq fakes
      /\ UNCHANGED <<flips, flip_pixmap, flip_pending>>
  BY <1>2 DEF Post, Abort
<1>4. vb \in [Ids -> Vblank] /\ vb[r] \in Vblank /\ Completed(vb[r]) \in Vblank
  BY CompletedTyped DEF Inv, TypeOK
<1>5. /\ \A q \in Ids : q # r => vb'[q] = vb[q]
      /\ \E v \in Vblank : vb'[r] = Freed(v)
  BY <1>3, <1>4
<1>6. OnSchedule(r)'
  <2>1. PICK v \in Vblank : vb'[r] = Freed(v)
    BY <1>5
  <2> DEFINE u == Freed(v)
  <2>2. /\ u.flip = FALSE /\ u.reason = "other" /\ u.early = 0 /\ u.pixmap = FALSE
        /\ u.target = -1 /\ u.st = "freed"
    BY FreedTyped
  <2>3. vb'[r] = u
    BY <2>1
  <2> HIDE DEF u
  <2>4. /\ vb'[r].flip = FALSE /\ vb'[r].reason = "other" /\ vb'[r].early = 0
        /\ vb'[r].pixmap = FALSE /\ vb'[r].target = -1 /\ vb'[r].st = "freed"
    BY <2>2, <2>3
  <2> QED
    BY <2>4, FreedOnSchedule
<1>7. \A q \in Ids : Contains(flip_queue', q) => Contains(flip_queue, q)
  BY <1>3, WithoutHas DEF Inv, TypeOK, Lists
<1>8. \A q \in Ids : q # r => Calm(q)
  BY <1>3, <1>5, <1>7, CalmWhere
<1>9. \A f \in {} : OnTime(f)' /\ f.fn # "flip"
  OBVIOUS
<1> QED
  BY <1>1, <1>2, <1>3, <1>6, <1>8, <1>9, PunctualOne

\* A vblank that is notified, retried or triggered is due, and a flip waits for no event.
LEMMA PunctualNotify == ASSUME Inv, Inv', Punctual, Notify PROVE Punctual'
<1>1. stack # <<>> /\ Top.fn = "notify" /\ Top.of \in Ids
  BY RunsFn DEF Notify
<1>2. PICK r \in Ids : r = Top.of
  BY <1>1
<1> DEFINE c == Call("execute", r)
<1>3. PICK i : Continue(If(i, <<c>>))
  BY <1>2 DEF Notify
<1>4. vb' = vb /\ UNCHANGED <<events, flips, fakes, flip_queue, flip_pixmap, flip_pending>>
  BY DEF Notify
<1>5. c \in Frame /\ c.fn = "execute" /\ c.of = r
  BY CallTyped DEF VblankFns
<1> HIDE DEF c
<1>6. After({c})
  BY <1>1, <1>3, <1>5, OneCall
<1>7. \A q \in Ids : Calm(q)
  BY <1>4, AllCalm
<1>8. OnTime(c)'
  <2>1. OnTime(Top)
    BY <1>1, TopOnTime
  <2>2. Due(r) /\ (vb[r].flip = TRUE => Unasked(r))
    BY <1>1, <1>2, <2>1 DEF OnTime, DueFns
  <2> QED
    BY <1>4, <1>5, <2>2 DEF OnTime, DueFns, Due, Exec, Slack, Unasked
<1>9. \A f \in {c} : OnTime(f)' /\ f.fn # "flip"
  BY <1>5, <1>8
<1> DEFINE M == {}
<1>10. \A q : q \notin M
  OBVIOUS
<1> HIDE DEF M
<1> QED
  BY <1>1, <1>4, <1>6, <1>7, <1>9, <1>10, PunctualAfter

LEMMA PunctualTryReady == ASSUME Inv, Inv', Punctual, TryReady PROVE Punctual'
<1>1. stack # <<>>
  BY AfterTryReady
<1>2. vb' = vb /\ UNCHANGED <<events, flips, fakes, flip_queue, flip_pixmap, flip_pending>>
  BY DEF TryReady
<1>3. \A q \in Ids : Calm(q)
  BY <1>2, AllCalm
<1> DEFINE M == {}
<1>4. \A q : q \notin M
  OBVIOUS
<1> HIDE DEF M
<1>5. CASE After({})
  <2>1. \A f \in {} : OnTime(f)' /\ f.fn # "flip"
    OBVIOUS
  <2> QED
    BY <1>1, <1>2, <1>3, <1>4, <1>5, <2>1, PunctualAfter
<1>6. CASE \E r \in Ids : Contains(flip_queue, r) /\ After({Call("execute", r)})
  <2>1. PICK r \in Ids : Contains(flip_queue, r) /\ After({Call("execute", r)})
    BY <1>6
  <2> DEFINE c == Call("execute", r)
  <2>2. c.fn = "execute" /\ c.of = r
    BY CallTyped
  <2>3. After({c})
    BY <2>1
  <2> HIDE DEF c
  <2>4. OnSchedule(r)
    BY DEF Punctual
  <2>5. Due(r) /\ (vb[r].flip = TRUE => Unasked(r))
    BY <2>1, <2>4 DEF OnSchedule, Begun, Single, Unasked
  <2>6. OnTime(c)'
    BY <1>2, <2>2, <2>5 DEF OnTime, DueFns, Due, Exec, Slack, Unasked
  <2>7. \A f \in {c} : OnTime(f)' /\ f.fn # "flip"
    BY <2>2, <2>6
  <2> QED
    BY <1>1, <1>2, <1>3, <1>4, <2>3, <2>7, PunctualAfter
<1> QED
  BY <1>5, <1>6, AfterTryReady

LEMMA PunctualTrigger == ASSUME Inv, Inv', Punctual, Trigger PROVE Punctual'
<1>1. stack # <<>> /\ Top.fn = "trigger" /\ Top.of \in Ids
  BY AfterTrigger
<1>2. PICK r \in Ids : r = Top.of
  BY <1>1
<1>3. vb' = vb /\ UNCHANGED <<events, flips, fakes, flip_queue, flip_pixmap, flip_pending>>
  BY DEF Trigger
<1>4. \A q \in Ids : Calm(q)
  BY <1>3, AllCalm
<1>5. CASE After({})
  <2>1. \A f \in {} : f.fn \notin DueFns \cup {"post", "create"}
    OBVIOUS
  <2> QED
    BY <1>1, <1>3, <1>4, <1>5, <2>1, PunctualCalm
<1>6. CASE vb[r].callback = TRUE /\ Before({Call("execute", r)})
  <2> DEFINE c == Call("execute", r)
  <2>1. c.fn = "execute" /\ c.of = r
    BY CallTyped
  <2>2. Before({c})
    BY <1>6
  <2> HIDE DEF c
  <2>3. OnSchedule(r)
    BY DEF Punctual
  <2>4. Due(r) /\ (vb[r].flip = TRUE => Unasked(r))
    BY <1>6, <2>3 DEF OnSchedule, Begun, Single, Unasked
  <2>5. OnTime(c)'
    BY <1>3, <2>1, <2>4 DEF OnTime, DueFns, Due, Exec, Slack, Unasked
  <2>6. \A f \in {c} : OnTime(f)' /\ f.fn # "flip"
    BY <2>1, <2>5
  <2> QED
    BY <1>1, <1>3, <1>4, <2>2, <2>6, PunctualBefore
<1> QED
  BY <1>2, <1>5, <1>6, AfterTrigger

\* The flip that was with the driver is over: it had no event left, nor another report.
LEMMA PunctualFlipNotify == ASSUME Inv, Inv', Punctual, FlipNotify PROVE Punctual'
<1>1. /\ stack # <<>> /\ Top.fn = "notify" /\ Top.of \in Ids
      /\ After({Call("unflip", NoId), Call("post", Top.of), Call("try_ready", NoId)})
  BY AfterFlipNotify
<1>2. PICK r \in Ids : r = Top.of
  BY <1>1
<1>3. /\ Contains(flip_queue, r) /\ ~vb[r].queued
      /\ flip_queue' = Without(flip_queue, r) /\ flip_pixmap' = r /\ flip_pending' = NoId
      /\ vb' = [IdleFlip(vb) EXCEPT ![r].pixmap = FALSE]
      /\ UNCHANGED <<events, flips, fakes>>
  BY <1>2 DEF FlipNotify
<1>4. r = flip_pending /\ WithDriver(r)
  <2>1. Placed(r) /\ vb[r].queued \in {TRUE, FALSE}
    BY FieldTypes DEF Inv, Lists
  <2> QED
    BY <1>3, <2>1 DEF Placed
<1>5. \A q \in Ids : q \notin flips
  <2>1. OnTime(Top)
    BY <1>1, TopOnTime
  <2>2. r \notin flips
    BY <1>1, <1>2, <2>1 DEF OnTime
  <2> QED
    BY <1>4, <2>2 DEF Punctual, Reported
<1> DEFINE v == IdleFlip(vb)
<1>6. /\ v \in [Ids -> Vblank]
      /\ \A q \in Ids : v[q] = IF q = flip_pixmap /\ q # NoId THEN [vb[q] EXCEPT !.idled = @ + 1] ELSE vb[q]
  BY IdleFlipSame DEF Inv
<1> HIDE DEF v
<1>7. /\ \A q \in Ids : q # r => vb'[q] = v[q]
      /\ vb'[r] = [v[r] EXCEPT !.pixmap = FALSE]
  BY <1>3, <1>6 DEF v
<1>8. \A q \in Ids : /\ v[q].st = vb[q].st /\ v[q].flip = vb[q].flip
                     /\ v[q].reason = vb[q].reason /\ v[q].early = vb[q].early
                     /\ v[q].sync = vb[q].sync /\ v[q].pixmap = vb[q].pixmap
                     /\ v[q].queued = vb[q].queued /\ v[q].target = vb[q].target
                     /\ v[q].callback = vb[q].callback /\ v[q].flip_ready = vb[q].flip_ready
                     /\ v[q].idled = vb[q].idled \/ q = flip_pixmap
  <2> TAKE q \in Ids
  <2> DEFINE a == vb[q]
             b == v[q]
  <2>1. a \in Vblank /\ (b = a \/ (b = [a EXCEPT !.idled = @ + 1] /\ q = flip_pixmap))
    BY <1>6 DEF Inv, TypeOK
  <2> HIDE DEF a, b
  <2>2. LET c == [a EXCEPT !.idled = @ + 1]
        IN /\ c.st = a.st /\ c.flip = a.flip /\ c.reason = a.reason /\ c.early = a.early
           /\ c.sync = a.sync /\ c.pixmap = a.pixmap /\ c.queued = a.queued /\ c.target = a.target
           /\ c.callback = a.callback /\ c.flip_ready = a.flip_ready
    BY <2>1 DEF Vblank
  <2>3. /\ b.st = a.st /\ b.flip = a.flip /\ b.reason = a.reason /\ b.early = a.early
        /\ b.sync = a.sync /\ b.pixmap = a.pixmap /\ b.queued = a.queued /\ b.target = a.target
        /\ b.callback = a.callback /\ b.flip_ready = a.flip_ready
        /\ b.idled = a.idled \/ q = flip_pixmap
    BY <2>1, <2>2
  <2> QED
    BY <2>3 DEF a, b
<1>9. /\ vb'[r].st = vb[r].st /\ vb'[r].flip = vb[r].flip
      /\ vb'[r].reason = vb[r].reason /\ vb'[r].early = vb[r].early
      /\ vb'[r].sync = vb[r].sync /\ vb'[r].pixmap = FALSE
      /\ vb'[r].queued = vb[r].queued /\ vb'[r].target = vb[r].target
      /\ vb'[r].callback = vb[r].callback /\ vb'[r].flip_ready = vb[r].flip_ready
  <2> DEFINE a == v[r]
  <2>1. a \in Vblank /\ vb'[r] = [a EXCEPT !.pixmap = FALSE]
    BY <1>6, <1>7
  <2> HIDE DEF a
  <2>2. LET c == [a EXCEPT !.pixmap = FALSE]
        IN /\ c.st = a.st /\ c.flip = a.flip /\ c.reason = a.reason /\ c.early = a.early
           /\ c.sync = a.sync /\ c.pixmap = FALSE /\ c.queued = a.queued /\ c.target = a.target
           /\ c.callback = a.callback /\ c.flip_ready = a.flip_ready
    BY <2>1 DEF Vblank
  <2>3. /\ vb'[r].st = a.st /\ vb'[r].flip = a.flip /\ vb'[r].reason = a.reason /\ vb'[r].early = a.early
        /\ vb'[r].sync = a.sync /\ vb'[r].pixmap = FALSE /\ vb'[r].queued = a.queued
        /\ vb'[r].target = a.target /\ vb'[r].callback = a.callback /\ vb'[r].flip_ready = a.flip_ready
    BY <2>1, <2>2
  <2> QED
    BY <1>8, <2>3 DEF a
<1>10. \A q \in Ids : Contains(flip_queue', q) => Contains(flip_queue, q)
  BY <1>3, WithoutHas DEF Inv, TypeOK, Lists
<1>11. ASSUME NEW q \in Ids, q # r PROVE Calm(q)
  <2>1. SameTimes(q)
    BY <1>7, <1>8, <1>11 DEF SameTimes
  <2>2. vb'[q].idled = vb[q].idled \/ vb[q].pixmap = FALSE
    <3>1. OnSchedule(q)
      BY DEF Punctual
    <3> QED
      BY <1>7, <1>8, <1>11, <3>1 DEF OnSchedule
  <2> QED
    BY <1>3, <1>10, <1>11, <2>1, <2>2 DEF Calm
<1>12. OnSchedule(r)'
  <2>1. OnSchedule(r) /\ vb[r].st = "live"
    BY <1>4 DEF Punctual, WithDriver, Live
  <2>2. Exec(r)' = Exec(r) /\ Slack(r)' = Slack(r) /\ (Due(r)' <=> Due(r))
    BY <1>9 DEF Exec, Slack, Due
  <2>3. Shaped(r)'
    BY <1>9, <2>1 DEF OnSchedule, Shaped
  <2>4. Single(r)'
    BY <1>3, <1>9, <1>10, <2>1 DEF OnSchedule, Single
  <2>5. Due(r)'
    BY <1>3, <2>1, <2>2 DEF OnSchedule, Begun
  <2>6. \A n \in Coming : <<r, n>> \in events' => Exec(r)' <= n + Slack(r)'
    BY <1>3, <2>1, <2>2 DEF OnSchedule
  <2>7. vb'[r].st # "new" /\ vb'[r].pixmap = FALSE
    BY <1>9, <2>1
  <2> QED
    BY <2>3, <2>4, <2>5, <2>6, <2>7 DEF OnSchedule
<1>13. Reported'
  BY <1>3, <1>5 DEF Reported
<1> DEFINE c == Call("unflip", NoId)
           d == Call("post", r)
           e == Call("try_ready", NoId)
<1>14. c.fn = "unflip" /\ d.fn = "post" /\ d.of = r /\ e.fn = "try_ready"
  BY CallTyped
<1>15. After({c, d, e})
  BY <1>1, <1>2
<1> HIDE DEF c, d, e
<1>16. \A f \in {c, d, e} : OnTime(f)'
  <2>1. OnTime(c)' /\ OnTime(e)'
    <3>1. c.fn \notin DueFns \cup {"post", "create"} /\ e.fn \notin DueFns \cup {"post", "create"}
      BY <1>14 DEF DueFns
    <3> QED
      BY <3>1, OthersOnTime
  <2>2. OnTime(d)'
    BY <1>9, <1>14 DEF OnTime, DueFns
  <2> QED
    BY <2>1, <2>2
<1> DEFINE old == Elements(Rest)
           new == {c, d, e}
           M == {r}
<1>17. \A f \in Elements(stack') : f \in old \/ f \in new
  BY <1>15 DEF After
<1>18. \A g \in old : g \in Elements(stack) /\ g.fn \notin TopFns
  BY <1>1, BelowTop
<1>19. \A g \in old : g.fn \in OwnerFns => g.of \notin M
  BY <1>1, <1>4, HoldApart DEF HoldFns
<1>20. (\A q \in Ids : q \notin M => Calm(q)) /\ (\A q \in Ids : q \in M => OnSchedule(q)')
  BY <1>11, <1>12
<1>21. \A f \in new : OnTime(f)'
  BY <1>16
<1> HIDE DEF old, new, M
<1> QED
  BY <1>13, <1>17, <1>18, <1>19, <1>20, <1>21, PunctualStep

\* A flip that may not flip any more is copied in the frame it was for.
LEMMA NoFlipTimes ==
  ASSUME NEW v \in Vblank
  PROVE  /\ NoFlip(v).st = v.st /\ NoFlip(v).flip = FALSE /\ NoFlip(v).reason = v.reason
         /\ NoFlip(v).early = (IF v.sync = TRUE THEN 0 ELSE v.early) /\ NoFlip(v).sync = v.sync
         /\ NoFlip(v).pixmap = v.pixmap /\ NoFlip(v).queued = v.queued
         /\ NoFlip(v).target = v.target /\ NoFlip(v).callback = v.callback
         /\ NoFlip(v).flip_ready = v.flip_ready
<1>1. v.sync \in BOOLEAN
  BY DEF Vblank
<1> QED
  BY <1>1 DEF NoFlip, Vblank

LEMMA PunctualCheckQueued == ASSUME Inv, Inv', Punctual, CheckQueued PROVE Punctual'
<1>1. After({}) /\ stack # <<>>
  BY ReturnsAfter
<1>2. UNCHANGED <<events, flips, fakes, flip_queue, flip_pixmap, flip_pending>>
  BY DEF CheckQueued
<1> DEFINE M == {q \in Ids : vb[q].queued = TRUE}
<1>3. \A q \in Ids : vb'[q] = vb[q]
                     \/ (q \in M /\ vb[q].flip = TRUE /\ vb'[q] = NoFlip(vb[q]))
  <2> TAKE q \in Ids
  <2>1. vb[q].queued \in BOOLEAN /\ vb[q].flip \in BOOLEAN
    BY FieldTypes DEF Inv
  <2> QED
    BY <2>1 DEF CheckQueued
<1>4. \A q \in Ids : vb'[q] = vb[q] => Calm(q)
  BY <1>2, CalmWhere
<1>5. \A q \in Ids : q \notin M => Calm(q)
  BY <1>3, <1>4
<1>6. ASSUME NEW q \in Ids PROVE OnSchedule(q)'
  <2>1. OnSchedule(q)
    BY DEF Punctual
  <2>2. CASE vb'[q] = vb[q]
    BY <1>4, <2>1, <2>2, CalmKeeps
  <2>3. CASE vb[q].flip = TRUE /\ vb'[q] = NoFlip(vb[q])
    <3> DEFINE v == NoFlip(vb[q])
    <3>1. /\ v.st = vb[q].st /\ v.flip = FALSE /\ v.reason = vb[q].reason
          /\ v.early = (IF vb[q].sync = TRUE THEN 0 ELSE vb[q].early)
          /\ v.pixmap = vb[q].pixmap /\ v.queued = vb[q].queued
          /\ v.target = vb[q].target /\ v.callback = vb[q].callback
          /\ v.flip_ready = vb[q].flip_ready
      BY NoFlipTimes, FieldTypes DEF Inv
    <3>2. vb'[q] = v
      BY <2>3
    <3> HIDE DEF v
    <3>3. /\ vb[q].reason = "other" /\ vb[q].early \in {0, 1} /\ (vb[q].early # 0 => vb[q].sync = TRUE)
          /\ vb[q].target \in Int /\ Exec(q) = vb[q].target - vb[q].early /\ Slack(q) = 0
      BY <2>1, <2>3, Numbers DEF OnSchedule, Shaped
    <3>4. vb'[q].flip = FALSE /\ vb'[q].reason = "other" /\ vb'[q].early = 0
          /\ vb'[q].target = vb[q].target
      BY <3>1, <3>2, <3>3
    <3>5. Exec(q)' = vb[q].target /\ Slack(q)' = 1 /\ Exec(q)' <= Exec(q) + 1
      <4>1. Exec(q)' = vb[q].target - 0 /\ Slack(q)' = 1
        BY <3>4 DEF Exec, Slack
      <4> QED
        BY <3>3, <4>1
    <3>6. Shaped(q)' /\ Single(q)'
      BY <3>4 DEF Shaped, Single
    <3>7. Begun(q)' => Begun(q)
      BY <1>2, <3>1, <3>2 DEF Begun
    <3>8. Due(q) => Due(q)'
      BY <3>3, <3>5 DEF Due
    <3>9. \A n \in Coming : <<q, n>> \in events' => Exec(q)' <= n + Slack(q)'
      <4> TAKE n \in Coming
      <4>1. n \in Int
        BY PresentAssumption DEF Coming
      <4>2. <<q, n>> \in events' => Exec(q) <= n + Slack(q)
        BY <1>2, <2>1 DEF OnSchedule
      <4> QED
        BY <3>3, <3>5, <4>1, <4>2
    <3>10. vb'[q].st = "new" => q \notin fakes' /\ \A n \in Coming : <<q, n>> \notin events'
      BY <1>2, <2>1, <3>1, <3>2 DEF OnSchedule
    <3>11. flip_pixmap' = q => vb'[q].pixmap = FALSE /\ vb'[q].st # "new"
      BY <1>2, <2>1, <3>1, <3>2 DEF OnSchedule
    <3> QED
      BY <2>1, <3>6, <3>7, <3>8, <3>9, <3>10, <3>11 DEF OnSchedule
  <2> QED
    BY <1>3, <2>2, <2>3
<1>7. \A g \in Elements(Rest) : g.fn \in OwnerFns => g.of \notin M
  <2> TAKE g \in Elements(Rest)
  <2>1. Sound(g)
    BY <1>1, Runs
  <2> QED
    BY <2>1 DEF Sound
<1>8. \A f \in {} : OnTime(f)' /\ f.fn # "flip"
  OBVIOUS
<1> HIDE DEF M
<1> QED
  BY <1>1, <1>2, <1>5, <1>6, <1>7, <1>8, PunctualAfter

\* A request that is scrapped has no pixmap to show any more.
LEMMA PunctualScrap == ASSUME Inv, Inv', Punctual, Scrap PROVE Punctual'
<1>1. stack # <<>> /\ Top.fn = "scrap" /\ Top.of \in Ids
  BY RunsFn DEF Scrap, HoldFns
<1>2. PICK r \in Ids : r = Top.of
  BY <1>1
<1>3. vb \in [Ids -> Vblank] /\ vb[r] \in Vblank /\ OnSchedule(r) /\ vb[r].flip_ready \in BOOLEAN
  BY FieldTypes DEF Punctual, Inv, TypeOK
<1>4. vb' = [vb EXCEPT ![r] = [vb[r] EXCEPT !.idled = @ + 1, !.pixmap = FALSE, !.flip = FALSE]]
  BY <1>2, <1>3 DEF Scrap
<1>5. UNCHANGED <<events, flips, fakes, flip_queue, flip_pixmap, flip_pending>>
  BY DEF Scrap
<1>6. /\ vb'[r].st = vb[r].st /\ vb'[r].flip = FALSE /\ vb'[r].reason = vb[r].reason
      /\ vb'[r].early = vb[r].early /\ vb'[r].pixmap = FALSE
      /\ vb'[r].queued = vb[r].queued /\ vb'[r].target = vb[r].target
      /\ vb'[r].callback = vb[r].callback /\ vb'[r].flip_ready = vb[r].flip_ready
  <2> DEFINE v == vb[r]
  <2>1. v \in Vblank /\ vb'[r] = [v EXCEPT !.idled = @ + 1, !.pixmap = FALSE, !.flip = FALSE]
    BY <1>3, <1>4
  <2> HIDE DEF v
  <2>2. LET a == [v EXCEPT !.idled = @ + 1, !.pixmap = FALSE, !.flip = FALSE]
        IN /\ a.st = v.st /\ a.flip = FALSE /\ a.reason = v.reason /\ a.early = v.early
           /\ a.pixmap = FALSE /\ a.queued = v.queued /\ a.target = v.target
           /\ a.callback = v.callback /\ a.flip_ready = v.flip_ready
    BY <2>1 DEF Vblank
  <2>3. /\ vb'[r].st = v.st /\ vb'[r].flip = FALSE /\ vb'[r].reason = v.reason
        /\ vb'[r].early = v.early /\ vb'[r].pixmap = FALSE
        /\ vb'[r].queued = v.queued /\ vb'[r].target = v.target
        /\ vb'[r].callback = v.callback /\ vb'[r].flip_ready = v.flip_ready
    BY <2>1, <2>2
  <2> QED
    BY <2>3 DEF v
<1>7. \A q \in Ids : q # r => Calm(q)
  <2>1. \A q \in Ids : q # r => vb'[q] = vb[q]
    BY <1>3, <1>4
  <2> QED
    BY <1>5, <2>1, CalmWhere
<1>8. /\ Exec(r) \in Int /\ Slack(r) \in {0, 1} /\ Exec(r)' = Exec(r) /\ Slack(r)' = 1
      /\ Due(r) => Due(r)'
  <2>1. Exec(r) \in Int /\ Slack(r) \in {0, 1}
    BY Numbers
  <2>2. Exec(r)' = Exec(r) /\ Slack(r)' = 1
    BY <1>6 DEF Exec, Slack
  <2> QED
    BY <2>1, <2>2 DEF Due
<1>9. OnSchedule(r)'
  <2>1. Shaped(r)' /\ Single(r)'
    BY <1>3, <1>6 DEF OnSchedule, Shaped, Single
  <2>2. Begun(r)' => Due(r)'
    BY <1>3, <1>5, <1>6, <1>8 DEF OnSchedule, Begun
  <2>3. \A n \in Coming : <<r, n>> \in events' => Exec(r)' <= n + Slack(r)'
    <3> TAKE n \in Coming
    <3>1. n \in Int
      BY PresentAssumption DEF Coming
    <3>2. <<r, n>> \in events' => Exec(r) <= n + Slack(r)
      BY <1>3, <1>5 DEF OnSchedule
    <3> QED
      BY <1>8, <3>1, <3>2
  <2>4. vb'[r].st = "new" => r \notin fakes' /\ \A n \in Coming : <<r, n>> \notin events'
    BY <1>3, <1>5, <1>6 DEF OnSchedule
  <2>5. flip_pixmap' = r => vb'[r].pixmap = FALSE /\ vb'[r].st # "new"
    BY <1>3, <1>5, <1>6 DEF OnSchedule
  <2> QED
    BY <2>1, <2>2, <2>3, <2>4, <2>5 DEF OnSchedule
<1> DEFINE c == Call("execute", r)
<1>10. c \in Frame /\ c.fn = "execute" /\ c.of = r
  BY CallTyped DEF VblankFns
<1>11. Continue(If(vb[r].flip_ready, <<c>>))
  BY <1>2 DEF Scrap
<1> HIDE DEF c
<1>12. CASE vb[r].flip_ready = TRUE
  <2>1. After({c})
    BY <1>1, <1>10, <1>11, OneCall
  <2>2. Due(r)'
    BY <1>3, <1>8, <1>12 DEF OnSchedule, Begun
  <2>3. \A f \in {c} : OnTime(f)' /\ f.fn # "flip"
    BY <1>6, <1>10, <2>2 DEF OnTime
  <2> QED
    BY <1>1, <1>2, <1>5, <1>7, <1>9, <2>1, <2>3, PunctualOne DEF HoldFns
<1>13. CASE vb[r].flip_ready = FALSE
  <2>1. After({})
    <3>1. Continue(<<>>)
      BY <1>11, <1>13 DEF If
    <3> QED
      BY <1>1, <3>1, Returned
  <2>2. \A f \in {} : OnTime(f)' /\ f.fn # "flip"
    OBVIOUS
  <2> QED
    BY <1>1, <1>2, <1>5, <1>7, <1>9, <2>1, <2>2, PunctualOne DEF HoldFns
<1> QED
  BY <1>3, <1>12, <1>13

\* A new request waits for its event, or is executed when there is nothing to wait for.
LEMMA PunctualCreate == ASSUME Inv, Inv', Punctual, setup.fails = FALSE, Create PROVE Punctual'
<1>1. stack # <<>> /\ Top.fn = "create" /\ Top.of \in Ids
  BY RunsFn DEF Create, HoldFns, OwnerFns
<1>2. PICK r \in Ids : r = Top.of
  BY <1>1
<1>3. PICK early : early = Earlier(vb[r])
  OBVIOUS
<1>4. PICK exec : exec = vb[r].target - early
  OBVIOUS
<1>5. /\ vb' = [vb EXCEPT ![r].early = early, ![r].queued = TRUE]
      /\ \/ exec > 0 /\ events' = events \cup {<<r, exec>>} /\ Continue(<<>>)
         \/ ~(exec > 0) /\ events' = events /\ Continue(<<Call("execute", r)>>)
      /\ UNCHANGED <<flips, fakes, flip_queue, flip_pixmap, flip_pending>>
  BY <1>2, <1>3, <1>4 DEF Create, QueueVblank
<1>6. vb \in [Ids -> Vblank] /\ vb[r] \in Vblank /\ OnSchedule(r)
  BY DEF Punctual, Inv, TypeOK
<1>7. /\ early \in {0, 1, 2} /\ vb[r].target \in Int /\ vb[r].target >= -1
      /\ vb[r].target <= MaxAhead /\ MaxAhead \in Int
      /\ vb[r].flip \in BOOLEAN /\ vb[r].sync \in BOOLEAN
      /\ early = 2 => vb[r].reason = "tearfree_flipping" /\ vb[r].target <= 1
      /\ vb[r].reason = "other" =>
           early = IF vb[r].flip = TRUE /\ vb[r].sync = TRUE THEN 1 ELSE 0
      /\ vb[r].reason # "other" => early # 0
  <2>1. TypeOK /\ MaxAhead \in Int
    BY PresentAssumption DEF Inv
  <2>2. vb[r].target \in -1 .. MaxAhead /\ vb[r].flip \in BOOLEAN /\ vb[r].sync \in BOOLEAN
    BY <2>1, FieldTypes
  <2>3. /\ early \in {0, 1, 2}
        /\ early = 2 => vb[r].reason = "tearfree_flipping" /\ vb[r].target <= 1
        /\ vb[r].reason = "other" => early = IF vb[r].flip = TRUE /\ vb[r].sync = TRUE THEN 1 ELSE 0
        /\ vb[r].reason # "other" => early # 0
    BY <1>3, <2>2 DEF Earlier
  <2> QED
    BY <2>1, <2>2, <2>3
<1>8. /\ r \notin fakes /\ Unasked(r) /\ vb[r].early = 0 /\ vb[r].callback = FALSE
      /\ vb[r].flip_ready = FALSE
  <2>1. OnTime(Top)
    BY <1>1, TopOnTime
  <2> QED
    BY <1>1, <1>2, <2>1 DEF OnTime
<1>9. r # flip_pending /\ vb[r].st = "live" /\ ~Contains(flip_queue, r) /\ r \notin flips
  <2>1. Sound(Top) /\ Placed(r)
    BY <1>1, Runs DEF Inv, Lists
  <2>2. r # flip_pending /\ vb[r].st = "live" /\ vb[r].queued = FALSE
    BY <1>1, <1>2, <2>1 DEF Sound, OwnerFns, Live
  <2>3. ~Contains(flip_queue, r)
    BY <2>1, <2>2 DEF Placed
  <2> QED
    BY <2>2, <2>3 DEF Punctual, Reported
<1>10. /\ vb'[r].st = vb[r].st /\ vb'[r].flip = vb[r].flip /\ vb'[r].reason = vb[r].reason
       /\ vb'[r].early = early /\ vb'[r].sync = vb[r].sync /\ vb'[r].pixmap = vb[r].pixmap
       /\ vb'[r].queued = TRUE /\ vb'[r].target = vb[r].target
       /\ vb'[r].callback = FALSE /\ vb'[r].flip_ready = FALSE
  <2> DEFINE v == vb[r]
  <2>1. v \in Vblank /\ vb'[r] = [v EXCEPT !.early = early, !.queued = TRUE]
    BY <1>5, <1>6
  <2>2. v.callback = FALSE /\ v.flip_ready = FALSE
    BY <1>8
  <2> HIDE DEF v
  <2>3. LET a == [v EXCEPT !.early = early, !.queued = TRUE]
        IN /\ a.st = v.st /\ a.flip = v.flip /\ a.reason = v.reason /\ a.early = early
           /\ a.sync = v.sync /\ a.pixmap = v.pixmap /\ a.queued = TRUE /\ a.target = v.target
           /\ a.callback = v.callback /\ a.flip_ready = v.flip_ready
    BY <2>1 DEF Vblank
  <2>4. /\ vb'[r].st = v.st /\ vb'[r].flip = v.flip /\ vb'[r].reason = v.reason
        /\ vb'[r].early = early /\ vb'[r].sync = v.sync /\ vb'[r].pixmap = v.pixmap
        /\ vb'[r].queued = TRUE /\ vb'[r].target = v.target
        /\ vb'[r].callback = FALSE /\ vb'[r].flip_ready = FALSE
    BY <2>1, <2>2, <2>3
  <2> QED
    BY <2>4 DEF v
<1>11. \A q \in Ids : q # r => Calm(q)
  <2>1. \A q \in Ids : q # r => vb'[q] = vb[q]
    BY <1>5, <1>6
  <2>2. \A q \in Ids : q # r => \A n \in Coming : <<q, n>> \in events' => <<q, n>> \in events
    BY <1>5
  <2> QED
    BY <1>5, <2>1, <2>2, CalmWhere
<1>12. /\ Exec(r)' = exec /\ exec \in Int /\ Slack(r)' \in {0, 1}
       /\ ~(exec > 0) => Due(r)'
  <2>1. Exec(r)' = exec /\ Slack(r)' \in {0, 1}
    BY <1>4, <1>10 DEF Exec, Slack
  <2>2. exec \in Int
    BY <1>4, <1>7
  <2> QED
    BY <2>1, <2>2 DEF Due
<1>13. \A n \in Coming : <<r, n>> \in events' => n = exec
  BY <1>5, <1>8 DEF Unasked
<1>14. OnSchedule(r)'
  <2>1. Shaped(r)'
    <3>1. vb'[r].flip = TRUE => /\ vb'[r].reason = "other" /\ vb'[r].early \in {0, 1}
                                /\ vb'[r].early # 0 => vb'[r].sync = TRUE
      BY <1>6, <1>7, <1>10 DEF OnSchedule, Shaped
    <3>2. vb'[r].reason = "other" /\ vb'[r].early # 0 => vb'[r].flip = TRUE
      BY <1>7, <1>10
    <3>3. vb'[r].reason # "other" /\ (vb'[r].early = 2 \/ vb'[r].early = 0) => vb'[r].target <= 1
      BY <1>7, <1>10
    <3> QED
      BY <3>1, <3>2, <3>3 DEF Shaped
  <2>2. Single(r)'
    BY <1>5, <1>8, <1>9, <1>10, <1>13 DEF Single
  <2>3. ~Begun(r)'
    BY <1>5, <1>8, <1>9, <1>10 DEF Begun
  <2>4. \A n \in Coming : <<r, n>> \in events' => Exec(r)' <= n + Slack(r)'
    BY <1>12, <1>13
  <2>5. vb'[r].st # "new"
    BY <1>9, <1>10
  <2>6. flip_pixmap' = r => vb'[r].pixmap = FALSE
    BY <1>5, <1>6, <1>10 DEF OnSchedule
  <2> QED
    BY <2>1, <2>2, <2>3, <2>4, <2>5, <2>6 DEF OnSchedule
<1>15. CASE exec > 0 /\ Continue(<<>>)
  <2>1. After({})
    BY <1>1, <1>15, Returned
  <2>2. \A f \in {} : OnTime(f)' /\ f.fn # "flip"
    OBVIOUS
  <2> QED
    BY <1>1, <1>2, <1>5, <1>11, <1>14, <2>1, <2>2, PunctualOne DEF HoldFns, OwnerFns
<1>16. CASE ~(exec > 0) /\ events' = events /\ Continue(<<Call("execute", r)>>)
  <2> DEFINE c == Call("execute", r)
  <2>1. c \in Frame /\ c.fn = "execute" /\ c.of = r /\ Continue(<<c>>)
    BY <1>16, CallTyped DEF VblankFns
  <2> HIDE DEF c
  <2>2. After({c})
    BY <1>1, <2>1, OneCall
  <2>3. Unasked(r)'
    BY <1>8, <1>16 DEF Unasked
  <2>4. \A f \in {c} : OnTime(f)' /\ f.fn # "flip"
    BY <1>12, <1>16, <2>1, <2>3 DEF OnTime
  <2> QED
    BY <1>1, <1>2, <1>5, <1>11, <1>14, <2>2, <2>4, PunctualOne DEF HoldFns, OwnerFns
<1> QED
  BY <1>5, <1>15, <1>16

\* What the kernel reports is due, and what it reports of a flip is its last event.
LEMMA PunctualKernel == ASSUME Inv, Inv', Punctual, Kernel PROVE Punctual'
<1>1. stack = <<>> \/ Top.fn \in {"drain", "trigger"}
  BY BeforeEvents
<1>2. vb' = vb /\ UNCHANGED <<flip_queue, flip_pixmap, flip_pending>>
  BY DEF Kernel, VblankEvent, FlipEvent, FakeFlipEvent
<1>3. events' \subseteq events /\ flips' \subseteq flips /\ fakes' \subseteq fakes
  BY DEF Kernel, VblankEvent, FlipEvent, FakeFlipEvent
<1>4. \A q \in Ids : Calm(q)
  BY <1>2, <1>3, AllCalm
<1>5. CASE Before({Call("unflipped", NoId)})
  <2> DEFINE S == {Call("unflipped", NoId)}
  <2>1. \A f \in S : f.fn \notin DueFns \cup {"post", "create"}
    BY CallTyped DEF DueFns
  <2>2. \A f \in S : OnTime(f)' /\ f.fn # "flip"
    BY <2>1, OthersOnTime
  <2>3. Before(S)
    BY <1>5
  <2> HIDE DEF S
  <2> QED
    BY <1>1, <1>2, <1>3, <1>4, <2>2, <2>3, PunctualBefore
<1>6. ASSUME NEW r \in Ids, Before({Call("notify", r)}),
             \/ VblankEvent /\ <<r, 0>> \in events /\ events' = events \ {<<r, 0>>}
             \/ FlipEvent /\ r \in flips /\ flips' = flips \ {r} /\ scanout' = r
             \/ FakeFlipEvent /\ r \in fakes /\ fakes' = fakes \ {r}
      PROVE  Punctual'
  <2> DEFINE c == Call("notify", r)
  <2>1. c.fn = "notify" /\ c.of = r /\ Before({c})
    BY <1>6, CallTyped
  <2> HIDE DEF c
  <2>2. OnSchedule(r) /\ Placed(r) /\ Reported
    BY DEF Punctual, Inv, Lists
  <2>3. Due(r)' /\ (vb'[r].flip = TRUE => Unasked(r)') /\ r \notin flips'
    <3>1. Due(r)' <=> Due(r)
      BY <1>2 DEF Due, Exec, Slack
    <3>2. r \in flips => Contains(flip_queue, r) /\ vb[r].flip = TRUE
      BY <2>2 DEF Reported, Placed, WithDriver
    <3>3. CASE VblankEvent /\ <<r, 0>> \in events /\ events' = events \ {<<r, 0>>}
      <4>1. 0 \in Coming /\ MaxAhead \in Int
        BY PresentAssumption DEF Coming
      <4>2. Due(r)
        <5>1. Exec(r) <= 0 + Slack(r) /\ Slack(r) \in {0, 1}
          BY <2>2, <3>3, <4>1, Numbers DEF OnSchedule
        <5>2. Exec(r) <= Slack(r)
          BY <5>1
        <5> QED
          BY <5>2 DEF Due
      <4>3. vb[r].flip = TRUE => Unasked(r)' /\ ~Contains(flip_queue, r)
        BY <2>2, <3>3, <4>1 DEF OnSchedule, Single, Unasked
      <4> QED
        BY <1>2, <1>3, <3>1, <3>2, <4>2, <4>3
    <3>4. CASE FlipEvent /\ r \in flips /\ flips' = flips \ {r}
      <4>1. Due(r) /\ Unasked(r)
        BY <2>2, <3>2, <3>4 DEF OnSchedule, Begun, Single, Unasked
      <4>2. Unasked(r)'
        BY <1>3, <4>1 DEF Unasked
      <4> QED
        BY <3>1, <3>4, <4>1, <4>2
    <3>5. CASE FakeFlipEvent /\ r \in fakes
      <4>1. Due(r) /\ vb[r].flip # TRUE
        BY <2>2, <3>5 DEF OnSchedule, Begun, Single
      <4> QED
        BY <1>2, <1>3, <3>1, <3>2, <4>1
    <3> QED
      BY <1>6, <3>3, <3>4, <3>5
  <2>4. \A f \in {c} : OnTime(f)' /\ f.fn # "flip"
    BY <2>1, <2>3 DEF OnTime
  <2> QED
    BY <1>1, <1>2, <1>3, <1>4, <2>1, <2>4, PunctualBefore
<1> QED
  BY <1>5, <1>6, BeforeEvents

\* A frame brings every exec_msc and every event nearer alike.
LEMMA TickTimes ==
  ASSUME Inv, Tick, NEW q \in Ids
  PROVE  /\ vb'[q].st = vb[q].st /\ vb'[q].flip = vb[q].flip /\ vb'[q].reason = vb[q].reason
         /\ vb'[q].early = vb[q].early /\ vb'[q].sync = vb[q].sync
         /\ vb'[q].pixmap = vb[q].pixmap /\ vb'[q].queued = vb[q].queued
         /\ vb'[q].callback = vb[q].callback /\ vb'[q].flip_ready = vb[q].flip_ready
         /\ vb'[q].idled = vb[q].idled
         /\ vb'[q].target = IF vb[q].target > -1 THEN vb[q].target - 1 ELSE -1
<1> DEFINE v == vb[q]
           t == Sooner(v.target, -1)
<1>1. v \in Vblank /\ vb'[q] = [v EXCEPT !.target = t]
  BY DEF Tick, Inv, TypeOK
<1>2. t = IF vb[q].target > -1 THEN vb[q].target - 1 ELSE -1
  BY DEF Sooner
<1> HIDE DEF v, t
<1>3. LET a == [v EXCEPT !.target = t]
      IN /\ a.st = v.st /\ a.flip = v.flip /\ a.reason = v.reason /\ a.early = v.early
         /\ a.sync = v.sync /\ a.pixmap = v.pixmap /\ a.queued = v.queued
         /\ a.callback = v.callback /\ a.flip_ready = v.flip_ready /\ a.idled = v.idled
         /\ a.target = t
  BY <1>1 DEF Vblank
<1>4. /\ vb'[q].st = v.st /\ vb'[q].flip = v.flip /\ vb'[q].reason = v.reason
      /\ vb'[q].early = v.early /\ vb'[q].sync = v.sync /\ vb'[q].pixmap = v.pixmap
      /\ vb'[q].queued = v.queued /\ vb'[q].callback = v.callback
      /\ vb'[q].flip_ready = v.flip_ready /\ vb'[q].idled = v.idled /\ vb'[q].target = t
  BY <1>1, <1>3
<1> QED
  BY <1>2, <1>4 DEF v

LEMMA TickEvents ==
  ASSUME Inv, Tick, NEW q, NEW n, <<q, n>> \in events'
  PROVE  \E m \in Coming : <<q, m>> \in events /\ n = IF m > 0 THEN m - 1 ELSE 0
<1>1. PICK e \in events : <<q, n>> = <<e[1], Sooner(e[2], 0)>>
  BY DEF Tick
<1>2. e \in Ids \X (0 .. MaxAhead + 2)
  BY DEF Inv, TypeOK
<1>3. PICK p \in Ids, m \in 0 .. MaxAhead + 2 : e = <<p, m>>
  BY <1>2
<1>4. q = p /\ n = Sooner(m, 0)
  BY <1>1, <1>3
<1> QED
  BY <1>1, <1>3, <1>4 DEF Sooner, Coming

LEMMA PunctualTick == ASSUME Inv, Inv', Punctual, Tick PROVE Punctual'
<1>1. UNCHANGED <<flips, fakes, flip_queue, flip_pixmap, flip_pending, stack>>
  BY DEF Tick
<1>2. \A n \in Coming : n \in Int /\ n >= 0
  BY PresentAssumption DEF Coming
<1>3. ASSUME NEW q \in Ids
      PROVE  /\ Exec(q)' \in Int /\ Exec(q) \in Int /\ Slack(q)' = Slack(q) /\ Slack(q) \in {0, 1}
             /\ Exec(q)' = Exec(q) - 1 \/ (Exec(q)' <= -1 /\ Exec(q)' = Exec(q))
             /\ vb'[q].target <= vb[q].target /\ vb[q].target \in Int /\ vb'[q].target \in Int
  <2>1. /\ vb[q].target \in Int /\ vb[q].target >= -1 /\ vb[q].early \in {0, 1, 2}
        /\ Exec(q) = vb[q].target - vb[q].early /\ Slack(q) \in {0, 1}
    BY <1>3, Numbers
  <2>2. /\ vb'[q].early = vb[q].early /\ vb'[q].flip = vb[q].flip
        /\ vb'[q].target = IF vb[q].target > -1 THEN vb[q].target - 1 ELSE -1
    BY <1>3, TickTimes
  <2>3. Slack(q)' = Slack(q) /\ Exec(q)' = vb'[q].target - vb'[q].early
    BY <2>2 DEF Slack, Exec
  <2> QED
    BY <2>1, <2>2, <2>3
<1>4. ASSUME NEW q \in Ids, Due(q) PROVE Due(q)'
  <2>1. Exec(q) <= Slack(q)
    BY <1>4 DEF Due
  <2>2. Exec(q)' <= Slack(q)'
    BY <1>3, <2>1
  <2> QED
    BY <2>2 DEF Due
<1>5. ASSUME NEW q \in Ids PROVE Unasked(q) => Unasked(q)'
  BY TickEvents DEF Unasked
<1>6. ASSUME NEW q \in Ids PROVE OnSchedule(q)'
  <2>1. OnSchedule(q)
    BY DEF Punctual
  <2>2. /\ vb'[q].st = vb[q].st /\ vb'[q].flip = vb[q].flip /\ vb'[q].reason = vb[q].reason
        /\ vb'[q].early = vb[q].early /\ vb'[q].sync = vb[q].sync /\ vb'[q].pixmap = vb[q].pixmap
        /\ vb'[q].queued = vb[q].queued /\ vb'[q].callback = vb[q].callback
        /\ vb'[q].flip_ready = vb[q].flip_ready
    BY TickTimes
  <2>3. Shaped(q)'
    <3>1. vb[q].target <= 1 => vb'[q].target <= 1
      BY <1>3
    <3> QED
      BY <2>1, <2>2, <3>1 DEF OnSchedule, Shaped
  <2>4. Single(q)'
    <3> SUFFICES ASSUME vb'[q].flip = TRUE
                 PROVE  /\ q \notin fakes'
                        /\ \A n \in Coming : <<q, n>> \in events' =>
                             /\ ~Contains(flip_queue', q) /\ vb'[q].callback = FALSE
                             /\ \A m \in Coming : <<q, m>> \in events' => m = n
      BY DEF Single
    <3>1. /\ q \notin fakes
          /\ \A n \in Coming : <<q, n>> \in events =>
                             /\ ~Contains(flip_queue, q) /\ vb[q].callback = FALSE
                             /\ \A m \in Coming : <<q, m>> \in events => m = n
      BY <2>1, <2>2 DEF OnSchedule, Single
    <3>2. ASSUME NEW n \in Coming, <<q, n>> \in events'
          PROVE  /\ ~Contains(flip_queue', q) /\ vb'[q].callback = FALSE
                 /\ \A m \in Coming : <<q, m>> \in events' => m = n
      <4>1. PICK k \in Coming : <<q, k>> \in events /\ n = IF k > 0 THEN k - 1 ELSE 0
        BY <3>2, TickEvents
      <4>2. ASSUME NEW m \in Coming, <<q, m>> \in events' PROVE m = n
        <5>1. PICK j \in Coming : <<q, j>> \in events /\ m = IF j > 0 THEN j - 1 ELSE 0
          BY <4>2, TickEvents
        <5>2. j = k
          BY <3>1, <4>1, <5>1
        <5> QED
          BY <4>1, <5>1, <5>2
      <4> QED
        BY <1>1, <2>2, <3>1, <4>1, <4>2
    <3> QED
      BY <1>1, <3>1, <3>2
  <2>5. Begun(q)' => Due(q)'
    BY <1>1, <1>4, <2>1, <2>2 DEF OnSchedule, Begun
  <2>6. ASSUME NEW n \in Coming, <<q, n>> \in events' PROVE Exec(q)' <= n + Slack(q)'
    <3>1. PICK m \in Coming : <<q, m>> \in events /\ n = IF m > 0 THEN m - 1 ELSE 0
      BY <2>6, TickEvents
    <3>2. Exec(q) <= m + Slack(q) /\ m \in Int /\ m >= 0
      BY <1>2, <2>1, <3>1 DEF OnSchedule
    <3> QED
      BY <1>3, <3>1, <3>2
  <2>7. vb'[q].st = "new" => q \notin fakes' /\ \A n \in Coming : <<q, n>> \notin events'
    <3>1. vb'[q].st = "new" => q \notin fakes' /\ Unasked(q)
      BY <1>1, <2>1, <2>2 DEF OnSchedule, Unasked
    <3> QED
      BY <1>5, <3>1 DEF Unasked
  <2>8. flip_pixmap' = q => vb'[q].pixmap = FALSE /\ vb'[q].st # "new"
    BY <1>1, <2>1, <2>2 DEF OnSchedule
  <2> QED
    BY <2>3, <2>4, <2>5, <2>6, <2>7, <2>8 DEF OnSchedule
<1>7. ASSUME NEW f \in Elements(stack) PROVE OnTime(f)'
  <2>1. OnTime(f)
    BY DEF Punctual
  <2>2. f \in Frame
    BY ElementsOf DEF Inv, TypeOK
  <2>3. CASE f.fn \notin DueFns \cup {"post", "create"}
    BY <2>3, OthersOnTime
  <2>4. CASE f.fn \in DueFns \cup {"post", "create"}
    <3>1. f.of \in Ids
      BY <2>2, <2>4, FrameTyped DEF DueFns, HoldFns, OwnerFns
    <3>2. PICK q \in Ids : q = f.of
      BY <3>1
    <3>3. /\ vb'[q].flip = vb[q].flip /\ vb'[q].reason = vb[q].reason
          /\ vb'[q].early = vb[q].early /\ vb'[q].pixmap = vb[q].pixmap
          /\ vb'[q].callback = vb[q].callback
          /\ vb'[q].flip_ready = vb[q].flip_ready /\ vb'[q].idled = vb[q].idled
      BY TickTimes
    <3>4. vb[q].target <= 0 => vb'[q].target <= 0
      BY <1>3
    <3>5. (Due(q) => Due(q)') /\ (Unasked(q) => Unasked(q)')
      BY <1>4, <1>5
    <3>6. f.fn \in DueFns => Due(q)'
      BY <2>1, <3>2, <3>5 DEF OnTime
    <3>7. f.fn = "post" /\ vb'[q].idled > 0 /\ vb'[q].pixmap = TRUE => vb'[q].target <= 0
      BY <2>1, <3>2, <3>3, <3>4 DEF OnTime
    <3>8. f.fn \in {"flip_over", "copy"} /\ vb'[q].reason # "other" => vb'[q].early # 0
      BY <2>1, <3>2, <3>3 DEF OnTime
    <3>9. f.fn = "create" => /\ q \notin fakes' /\ Unasked(q)' /\ vb'[q].early = 0
                             /\ vb'[q].callback = FALSE /\ vb'[q].flip_ready = FALSE
      BY <1>1, <2>1, <3>2, <3>3, <3>5 DEF OnTime
    <3>10. f.fn \in {"notify", "execute"} /\ vb'[q].flip = TRUE => Unasked(q)'
      BY <2>1, <3>2, <3>3, <3>5 DEF OnTime
    <3>11. f.fn = "notify" => q \notin flips'
      BY <1>1, <2>1, <3>2 DEF OnTime
    <3> QED
      BY <3>2, <3>6, <3>7, <3>8, <3>9, <3>10, <3>11 DEF OnTime
  <2> QED
    BY <2>3, <2>4
<1>8. Reported'
  BY <1>1 DEF Punctual, Reported, Running, Top
<1> QED
  BY <1>1, <1>6, <1>7, <1>8 DEF Punctual, Elements

\* A request that is to be flipped is one that the driver does not refuse.
LEMMA NewTimes ==
  ASSUME NEW a, NEW w, NEW target, NEW v \in NewVblank(a, w, target)
  PROVE  /\ v.st = "live" /\ v.early = 0 /\ v.queued = FALSE /\ v.callback = FALSE
         /\ v.flip_ready = FALSE /\ (v.flip = TRUE => v.reason = "other")
<1> DEFINE F == (a.kind = "flip" /\ CheckFlip(w) /\ (target > 0 \/ setup.async_caps))
           P == (a.kind # "notify")
           S == (F /\ target > 0)
           A == a.kind = "flip" /\ (target > 0 \/ setup.async_caps)
<1>1. PICK why \in IF A THEN Reasons ELSE {"other"} : v = NewRecord(w, P, target, F, S, why, a.fence)
  BY Zenon DEF NewVblank, NewRecord
<1>2. F => why = "other"
  BY <1>1 DEF CheckFlip, Reasons
<1>3. PICK e : e = a.fence
  OBVIOUS
<1> HIDE DEF F, P, S, A
<1>4. v = [st |-> "live", window |-> w, asked |-> w, pixmap |-> P, target |-> target,
           early |-> 0, queued |-> FALSE, flip |-> F, sync |-> S, flip_ready |-> FALSE,
           abort |-> FALSE, reason |-> why, fence |-> e, callback |-> FALSE,
           done |-> 0, idled |-> 0]
  BY <1>1, <1>3 DEF Blank, NewRecord
<1>5. /\ v.st = "live" /\ v.early = 0 /\ v.queued = FALSE /\ v.callback = FALSE
      /\ v.flip_ready = FALSE /\ v.flip = F /\ v.reason = why
  BY <1>4
<1> QED
  BY <1>2, <1>5

LEMMA PunctualPresent == ASSUME Inv, Inv', Punctual, Present PROVE Punctual'
<1>0. PICK a \in setup.attrs, w \in Windows, r \in Ids : \E target, v : Makes(a, w, r, target, v)
  BY PresentMakes
<1>1. PICK target, v : Makes(a, w, r, target, v)
  BY <1>0
<1>2. /\ vb[r].st = "new" /\ v \in NewVblank(a, w, target) /\ vb' = [vb EXCEPT ![r] = v]
      /\ \A f \in Elements(stack') : f = Call("create", r) \/ f.fn = "scrap"
  BY <1>1 DEF Makes
<1>3. vb \in [Ids -> Vblank] /\ OnSchedule(r) /\ Placed(r) /\ Reported
  BY DEF Punctual, Inv, TypeOK, Lists
<1>4. vb'[r] = v /\ \A q \in Ids : q # r => vb'[q] = vb[q]
  BY <1>2, <1>3
<1>5. stack = <<>> /\ UNCHANGED <<events, flips, fakes, flip_queue, flip_pixmap, flip_pending>>
  BY DEF Present, AtEventLoop
<1>6. \A q \in Ids : q # r => Calm(q)
  BY <1>4, <1>5, CalmWhere
<1>7. /\ r # flip_pending /\ ~Contains(flip_queue, r) /\ r \notin fakes /\ r \notin flips
      /\ Unasked(r) /\ flip_pixmap # r
  <2>1. r # flip_pending /\ vb[r].queued # TRUE
    BY <1>2, <1>3 DEF Placed, Waiting, WithDriver, Live
  <2>2. ~Contains(flip_queue, r)
    BY <1>3, <2>1 DEF Placed
  <2>3. r \notin flips
    BY <1>3, <2>1 DEF Reported
  <2>4. r \notin fakes /\ Unasked(r) /\ flip_pixmap # r
    BY <1>2, <1>3 DEF OnSchedule, Unasked
  <2> QED
    BY <2>1, <2>2, <2>3, <2>4
<1>8. /\ vb'[r].st = "live" /\ vb'[r].early = 0 /\ vb'[r].queued = FALSE /\ vb'[r].callback = FALSE
      /\ vb'[r].flip_ready = FALSE /\ (vb'[r].flip = TRUE => vb'[r].reason = "other")
  <2>1. /\ v.st = "live" /\ v.early = 0 /\ v.queued = FALSE /\ v.callback = FALSE
        /\ v.flip_ready = FALSE /\ (v.flip = TRUE => v.reason = "other")
    BY <1>2, NewTimes
  <2> QED
    BY <1>4, <2>1
<1>9. OnSchedule(r)'
  <2>1. Shaped(r)'
    BY <1>8 DEF Shaped
  <2>2. Single(r)'
    BY <1>5, <1>7 DEF Single, Unasked
  <2>3. ~Begun(r)'
    BY <1>5, <1>7, <1>8 DEF Begun
  <2>4. \A n \in Coming : <<r, n>> \notin events'
    BY <1>5, <1>7 DEF Unasked
  <2> QED
    BY <1>5, <1>7, <1>8, <2>1, <2>2, <2>3, <2>4 DEF OnSchedule
<1> DEFINE c == Call("create", r)
<1>10. c.fn = "create" /\ c.of = r
  BY CallTyped
<1>11. OnTime(c)'
  BY <1>5, <1>7, <1>8, <1>10 DEF OnTime, DueFns, Unasked
<1>12. \A f \in Elements(stack') : OnTime(f)' /\ f.fn # "flip"
  <2> TAKE f \in Elements(stack')
  <2>1. CASE f = c
    BY <1>10, <1>11, <2>1
  <2>2. CASE f.fn = "scrap"
    <3>1. f.fn \notin DueFns \cup {"post", "create"}
      BY <2>2 DEF DueFns
    <3> QED
      BY <3>1, OthersOnTime
  <2> QED
    BY <1>2, <2>1, <2>2
<1>13. Reported'
  BY <1>3, <1>5, <1>12, ReportedKept
<1> DEFINE old == {}
           new == Elements(stack')
           M == {r}
<1>14. /\ \A f \in Elements(stack') : f \in old \/ f \in new
       /\ \A g : g \notin old
       /\ \A f \in new : OnTime(f)'
  BY <1>12
<1>15. (\A q \in Ids : q \notin M => Calm(q)) /\ (\A q \in Ids : q \in M => OnSchedule(q)')
  BY <1>6, <1>9
<1> HIDE DEF old, new, M
<1> QED
  BY <1>13, <1>14, <1>15, PunctualStep

-----------------------------------------------------------------------------
LEMMA InitPunctual == Init => Punctual
<1> SUFFICES ASSUME Init PROVE Punctual
  OBVIOUS
<1>1. /\ vb = [r \in Ids |-> Blank] /\ flip_queue = <<>> /\ flip_pixmap = NoId
      /\ events = {} /\ flips = {} /\ fakes = {} /\ stack = <<>>
  BY DEF Init
<1>2. Elements(stack) = {} /\ ~Contains(flip_queue, 0)
  BY <1>1, NoCalls, HasNone
<1>3. ASSUME NEW r \in Ids PROVE OnSchedule(r)
  <2>1. vb[r] = Blank
    BY <1>1
  <2>2. /\ vb[r].flip = FALSE /\ vb[r].reason = "other" /\ vb[r].early = 0 /\ vb[r].callback = FALSE
        /\ vb[r].flip_ready = FALSE /\ vb[r].pixmap = FALSE /\ vb[r].st = "new"
    BY <2>1 DEF Blank
  <2>3. ~Contains(flip_queue, r) /\ flip_pixmap # r
    BY <1>1, HasNone, IdsNat
  <2> QED
    BY <1>1, <2>2, <2>3 DEF OnSchedule, Shaped, Single, Begun
<1> QED
  BY <1>1, <1>2, <1>3 DEF Punctual, Reported

LEMMA PunctualStutter == ASSUME Punctual, UNCHANGED vars PROVE Punctual'
<1>1. UNCHANGED <<vb, events, flips, fakes, flip_queue, flip_pixmap, flip_pending, stack>>
  BY DEF vars
<1>2. \A r : OnSchedule(r) => OnSchedule(r)'
  BY <1>1 DEF OnSchedule, Shaped, Single, Begun, Due, Exec, Slack
<1>3. \A f : OnTime(f) => OnTime(f)'
  BY <1>1 DEF OnTime, Unasked, Due, Exec, Slack
<1>4. Reported'
  BY <1>1 DEF Punctual, Reported, Running, Top
<1> QED
  BY <1>1, <1>2, <1>3, <1>4 DEF Punctual, Elements

LEMMA NextPunctual ==
  ASSUME Inv, [Next]_vars, setup.fails = FALSE, Punctual
  PROVE  Punctual'
<1>1. Inv'
  BY NextKeeps
<1>2. CASE Server
  <2>1. CASE Requeue \/ WaitFence \/ WaitFlip \/ Execute \/ FlipSucceeds \/ FlipFails \/ FlipOver
    BY <1>1, <2>1, PunctualRequeue, PunctualWaits, PunctualExecute, PunctualFlipSucceeds,
       PunctualFlipFails, PunctualFlipOver
  <2>2. CASE CopyLater \/ Copy \/ CopyTearFree \/ Post \/ Notify \/ FlipNotify \/ TryReady
    BY <1>1, <2>2, PunctualCopyLater, PunctualCopy, PunctualCopyTearFree, PunctualFrees,
       PunctualNotify, PunctualFlipNotify, PunctualTryReady
  <2>3. CASE StartUnflip \/ UnflipNotify \/ CheckFlipWindow \/ CheckQueued \/ Scrap \/ Create
    BY <1>1, <2>3, PunctualFlipEnds, PunctualCheckQueued, PunctualScrap, PunctualCreate
  <2>4. CASE Trigger \/ Abort \/ ClearWindowFlip \/ Checked \/ Drained
    BY <1>1, <2>4, PunctualTrigger, PunctualFrees, PunctualFlipEnds, PunctualQuiet
  <2> QED
    BY <1>2, <2>1, <2>2, <2>3, <2>4 DEF Server
<1>3. CASE Kernel
  BY <1>1, <1>3, PunctualKernel
<1>4. CASE Tick
  BY <1>1, <1>4, PunctualTick
<1>5. CASE Present
  BY <1>1, <1>5, PunctualPresent
<1>6. CASE TriggerFence \/ Restack \/ DestroyWindow \/ Cursor \/ PrepareModeset
  BY <1>1, <1>6, PunctualQuiet
<1>7. CASE UNCHANGED vars
  BY <1>7, PunctualStutter
<1> QED
  BY <1>2, <1>3, <1>4, <1>5, <1>6, <1>7 DEF Next

\* Punctual: when nothing that the driver is asked fails, what is executed is due, and a
\* flip has one event under way.
THEOREM InTime == Spec => [](~setup.fails => Punctual)
<1> DEFINE H == setup.fails = FALSE => Punctual
<1>1. Init => H
  BY InitPunctual
<1>2. Inv /\ [Next]_vars /\ H => H'
  BY NextPunctual, SetupStays
<1>3. Inv => setup.fails \in BOOLEAN
  BY PresentAssumption DEF Inv, TypeOK, SetupType
<1>4. Inv /\ H => (~setup.fails => Punctual)
  BY <1>3
<1> HIDE DEF H
<1> QED
  BY <1>1, <1>2, <1>4, Holds, PTL DEF Spec

\* The assertions of present_unflip, present_flip_notify and present_restore_screen_pixmap.
LEMMA AssertionsReached ==
  ASSUME Inv
  PROVE  /\ Running("unflip") => unflip = FALSE /\ flip_pending = NoId /\ flip_pixmap # NoId
         /\ Running("notify") /\ Contains(flip_queue, Top.of) /\ ~vb[Top.of].queued
              => Top.of = flip_pending
         /\ flip_window # NoWin => flip_pixmap # NoId
<1>1. Running("unflip") => unflip = FALSE /\ flip_pending = NoId /\ flip_pixmap # NoId
  BY Runs DEF Running, Sound
<1>2. ASSUME Running("notify"), Contains(flip_queue, Top.of), ~vb[Top.of].queued
      PROVE  Top.of = flip_pending
  <2>1. Top.of \in Ids
    BY <1>2, RunsFn
  <2>2. Placed(Top.of)
    BY <2>1 DEF Inv, Lists
  <2> QED
    BY <1>2, <2>2 DEF Placed
<1> QED
  BY <1>1, <1>2 DEF Inv, Flipping

\* AssertionsHold: the assertions of present_unflip, present_restore_screen_pixmap and
\* present_flip_notify hold wherever they are reached, and the driver is asked to flip or
\* to unflip only when it has done what it was asked before, unless a call of it failed.
THEOREM Asserts == Spec => [](~setup.fails => AssertionsHold)
<1>1. ASSUME Inv, Punctual PROVE AssertionsHold
  <2>1. Running("unflip") => unflip = FALSE /\ flip_pending = NoId
    BY <1>1, AssertionsReached
  <2>2. ASSUME Running("flip") \/ Running("unflip") PROVE flips = {}
    <3>1. \A r \in Ids : r \notin flips
      BY <1>1, <2>1, <2>2, IdsNat DEF Punctual, Reported
    <3>2. unflip # TRUE
      <4>1. CASE Running("flip")
        <5>1. flip_pending \in Ids
          BY <1>1, <4>1, FlipsPending
        <5> QED
          BY <1>1, <5>1, IdsNat DEF Inv, Flipping
      <4>2. CASE Running("unflip")
        BY <2>1, <4>2
      <4> QED
        BY <2>2, <4>1, <4>2
    <3>3. Unflip \notin flips /\ flips \subseteq Ids \cup {Unflip}
      BY <1>1, <3>2 DEF Inv, Flipping, TypeOK
    <3> QED
      BY <3>1, <3>3
  <2> QED
    BY <1>1, <2>2, AssertionsReached DEF AssertionsHold
<1>2. Inv /\ (~setup.fails => Punctual) => (~setup.fails => AssertionsHold)
  BY <1>1
<1> QED
  BY <1>2, Holds, InTime, PTL

\* NotEarly: a copy is shown in the frame that was asked for or later, unless a call of the
\* driver failed: present_execute_wait and present_execute_copy send what is a frame early
\* to the next vblank.
THEOREM CopiesInTime == Spec => []NotEarly
<1>1. ASSUME Inv, ~setup.fails => Punctual PROVE NotEarly
  <2> SUFFICES ASSUME Running("post"), vb[Top.of].idled > 0, vb[Top.of].pixmap, ~setup.fails
               PROVE  vb[Top.of].target <= 0
    BY DEF NotEarly
  <2>1. stack # <<>> /\ Top.fn = "post" /\ Top.of \in Ids
    BY <1>1, RunsFn DEF HoldFns, OwnerFns
  <2>2. vb[Top.of].pixmap = TRUE
    BY <1>1, <2>1, FieldTypes DEF Inv
  <2>3. OnTime(Top)
    BY <1>1, <2>1, TopOnTime
  <2> QED
    BY <2>1, <2>2, <2>3 DEF OnTime
<1>2. Inv /\ (~setup.fails => Punctual) => NotEarly
  BY <1>1
<1> QED
  BY <1>2, Holds, InTime, PTL
-----------------------------------------------------------------------------
(***************************************************************************)
(* The promise of Present, with a driver that does not fail.               *)
(***************************************************************************)
LEMMA Unseen ==
  ASSUME NEW q
  PROVE  /\ SameStatus(q) => Status(q)' = Status(q)
         /\ SamePixmap(q) => Pixmap(q)' = Pixmap(q)
  BY DEF SameStatus, SamePixmap, Status, Pixmap

\* An action of PresentPromise from what it changes.
LEMMA Stutters ==
  ASSUME \A q \in Ids : SameStatus(q) /\ SamePixmap(q) /\ SameAsked(q),
         scanout' = scanout, gone' = gone
  PROVE  UNCHANGED Promise!vars
<1>1. [q \in Ids |-> Status(q)]' = [q \in Ids |-> Status(q)]
  BY Unseen
<1>2. [q \in Ids |-> Pixmap(q)]' = [q \in Ids |-> Pixmap(q)]
  BY Unseen
<1>3. [q \in Ids |-> vb[q].asked]' = [q \in Ids |-> vb[q].asked]
  BY DEF SameAsked
<1> QED
  BY <1>1, <1>2, <1>3 DEF Promise!vars, Display

LEMMA Idles ==
  ASSUME NEW r \in Ids, Pixmap(r) = "held", Display # r, Pixmap(r)' = "idle",
         \A q \in Ids : SameStatus(q) /\ SameAsked(q) /\ (q # r => SamePixmap(q)),
         scanout' = scanout, gone' = gone
  PROVE  Promise!Next
<1> DEFINE P == [q \in Ids |-> Pixmap(q)]
<1>1. [q \in Ids |-> Status(q)]' = [q \in Ids |-> Status(q)]
  BY Unseen
<1>2. P' = [P EXCEPT ![r] = "idle"]
  BY Unseen
<1>3. [q \in Ids |-> vb[q].asked]' = [q \in Ids |-> vb[q].asked]
  BY DEF SameAsked
<1>4. Promise!Idle(r)
  BY <1>1, <1>2, <1>3 DEF Promise!Idle, Display
<1> QED
  BY <1>4 DEF Promise!Next

LEMMA Shows ==
  ASSUME NEW r \in Ids, Pixmap(r) = "held", scanout' = r,
         \A q \in Ids : SameStatus(q) /\ SamePixmap(q) /\ SameAsked(q), gone' = gone
  PROVE  Promise!Next
<1>1. [q \in Ids |-> Status(q)]' = [q \in Ids |-> Status(q)]
  BY Unseen
<1>2. [q \in Ids |-> Pixmap(q)]' = [q \in Ids |-> Pixmap(q)]
  BY Unseen
<1>3. [q \in Ids |-> vb[q].asked]' = [q \in Ids |-> vb[q].asked]
  BY DEF SameAsked
<1>4. r # Screen
  BY IdsNat DEF Screen
<1>5. Promise!Show(r)
  BY <1>1, <1>2, <1>3, <1>4 DEF Promise!Show, Display
<1> QED
  BY <1>5 DEF Promise!Next

LEMMA ShowsScreen ==
  ASSUME scanout' = Screen,
         \A q \in Ids : SameStatus(q) /\ SamePixmap(q) /\ SameAsked(q), gone' = gone
  PROVE  Promise!Next
<1>1. [q \in Ids |-> Status(q)]' = [q \in Ids |-> Status(q)]
  BY Unseen
<1>2. [q \in Ids |-> Pixmap(q)]' = [q \in Ids |-> Pixmap(q)]
  BY Unseen
<1>3. [q \in Ids |-> vb[q].asked]' = [q \in Ids |-> vb[q].asked]
  BY DEF SameAsked
<1>4. Promise!ShowScreen
  BY <1>1, <1>2, <1>3 DEF Promise!ShowScreen, Display
<1> QED
  BY <1>4 DEF Promise!Next

LEMMA Asks ==
  ASSUME NEW r \in Ids, NEW w \in Windows \ gone, NEW p \in {"client", "held"},
         Status(r) = "new", Status(r)' = "asked", Pixmap(r)' = p, vb'[r].asked = w,
         \A q \in Ids : q # r => SameStatus(q) /\ SamePixmap(q) /\ SameAsked(q),
         scanout' = scanout, gone' = gone
  PROVE  Promise!Next
<1> DEFINE S == [q \in Ids |-> Status(q)]
           P == [q \in Ids |-> Pixmap(q)]
           A == [q \in Ids |-> vb[q].asked]
<1>1. S' = [S EXCEPT ![r] = "asked"]
  BY Unseen
<1>2. P' = [P EXCEPT ![r] = p]
  BY Unseen
<1>3. A' = [A EXCEPT ![r] = w]
  BY DEF SameAsked
<1>4. Promise!Ask(r)
  BY <1>1, <1>2, <1>3 DEF Promise!Ask, Display
<1> QED
  BY <1>4 DEF Promise!Next

LEMMA Finishes ==
  ASSUME NEW r \in Ids, Status(r) = "asked", Status(r)' = "done", vb[r].asked \notin gone,
         \A q \in Ids : SameAsked(q) /\ Pixmap(q)' = Pixmap(q) /\ (q # r => SameStatus(q)),
         scanout' = scanout, gone' = gone
  PROVE  Promise!Next
<1> DEFINE S == [q \in Ids |-> Status(q)]
<1>1. S' = [S EXCEPT ![r] = "done"]
  BY Unseen
<1>2. [q \in Ids |-> Pixmap(q)]' = [q \in Ids |-> Pixmap(q)]
  OBVIOUS
<1>3. [q \in Ids |-> vb[q].asked]' = [q \in Ids |-> vb[q].asked]
  BY DEF SameAsked
<1>4. Promise!Complete(r)
  BY <1>1, <1>2, <1>3 DEF Promise!Complete, Display
<1> QED
  BY <1>4 DEF Promise!Next

LEMMA Drops ==
  ASSUME NEW S \in SUBSET Ids, gone \subseteq gone', scanout' = scanout,
         \A q \in S : /\ Status(q) = "asked" /\ Status(q)' = "dropped" /\ vb[q].asked \in gone'
                      /\ Pixmap(q)' = Pixmap(q) \/ (q # Display /\ Pixmap(q)' = "client"),
         \A q \in Ids : SameAsked(q) /\ (q \notin S => SameStatus(q) /\ SamePixmap(q))
  PROVE  Promise!Next
<1>1. [q \in Ids |-> Status(q)]' = [q \in Ids |-> IF q \in S THEN "dropped" ELSE Status(q)]
  BY Unseen
<1>2. \A q \in Ids : Pixmap(q)' # Pixmap(q) => q \in S \ {Display} /\ Pixmap(q)' = "client"
  BY Unseen
<1>3. [q \in Ids |-> vb[q].asked]' = [q \in Ids |-> vb[q].asked]
  BY DEF SameAsked
<1>4. Promise!Drop(S)
  BY <1>1, <1>2, <1>3 DEF Promise!Drop, Display
<1> QED
  BY <1>4 DEF Promise!Next

\* The views of the records that occur.
LEMMA Views ==
  ASSUME NEW r
  PROVE  /\ vb[r].idled = 0 /\ Holding(r) => Pixmap(r) = "held"
         /\ vb[r].idled = 0 /\ ~Holding(r) => Pixmap(r) = "client"
         /\ vb[r].idled = 1 => Pixmap(r) = "idle"
         /\ vb[r].done = 0 /\ vb[r].st = "new" => Status(r) = "new"
         /\ vb[r].done = 0 /\ vb[r].st = "live" => Status(r) = "asked"
         /\ vb[r].done = 0 /\ vb[r].st = "freed" => Status(r) = "dropped"
         /\ vb[r].done = 1 => Status(r) = "done"
<1>1. ~(0 > 1) /\ ~(1 > 1) /\ 0 # 1
  OBVIOUS
<1> QED
  BY <1>1 DEF Status, Pixmap

-----------------------------------------------------------------------------
(***************************************************************************)
(* What was sent for each request, and what is on display.                 *)
(***************************************************************************)
Fulfils == Promise!Next \/ UNCHANGED Promise!vars

LEMMA SteadyKeeps ==
  ASSUME NEW q, Kept(q), Steady(q), gone \subseteq gone'
  PROVE  Kept(q)'
<1>1. /\ vb'[q].st = vb[q].st /\ vb'[q].done = vb[q].done /\ vb'[q].idled = vb[q].idled
      /\ vb'[q].asked = vb[q].asked /\ vb'[q].pixmap = vb[q].pixmap /\ vb'[q].window = vb[q].window
      /\ CopiedOnce(q)' <=> CopiedOnce(q)
  BY DEF Steady, Alike, CopiedOnce
<1>2. /\ vb'[q].pixmap = TRUE /\ (vb'[q].queued = TRUE \/ q = flip_pending')
           => vb'[q].idled = IF CopiedOnce(q)' THEN 1 ELSE 0
      /\ flip_pixmap' = q => vb'[q].idled = 0
  BY <1>1 DEF Steady, Kept
<1>3. Live(q)' <=> Live(q)
  BY <1>1 DEF Live
<1> QED
  BY <1>1, <1>2, <1>3 DEF Kept

LEMMA SteadyKnows ==
  ASSUME NEW g, Knows(g), g.fn \in HoldFns => Steady(g.of), gone \subseteq gone'
  PROVE  Knows(g)'
  BY DEF Knows, Steady, Alike, HoldFns, OwnerFns

\* Calls of old wait, those of new are made; the requests of M change.
LEMMA PromisedStep ==
  ASSUME Inv, Promised, NEW old, NEW new, NEW M,
         \A f \in Elements(stack') : f \in old \/ f \in new,
         \A g \in old : g \in Elements(stack) /\ (g.fn \in HoldFns => g.of \notin M),
         \A f \in new : Knows(f)',
         \A q \in Ids : q \notin M => Steady(q),
         \A q \in Ids : q \in M => Kept(q)',
         gone \subseteq gone', Doomed', Displayed'
  PROVE  Promised'
<1>1. \A q \in Ids : Kept(q)'
  BY SteadyKeeps DEF Promised
<1>2. \A g \in old : Knows(g)'
  <2> TAKE g \in old
  <2>1. g \in Elements(stack) /\ Knows(g)
    BY DEF Promised
  <2>2. g.fn \in HoldFns => Steady(g.of)
    <3> SUFFICES ASSUME g.fn \in HoldFns PROVE Steady(g.of)
      OBVIOUS
    <3>1. g \in Frame
      BY <2>1, ElementsOf DEF Inv, TypeOK
    <3>2. g.of \in Ids
      BY <3>1, FrameTyped
    <3> QED
      BY <3>2
  <2> QED
    BY <2>1, <2>2, SteadyKnows
<1>3. \A f \in Elements(stack') : Knows(f)'
  BY <1>2
<1> QED
  BY <1>1, <1>3 DEF Promised, Elements

\* No window is gone that a request is for, unless its aborts run.
LEMMA NoneGone ==
  ASSUME Inv, Promised, stack = <<>> \/ Top.fn \notin {"abort", "clear"}
  PROVE  /\ \A f \in Elements(stack) : f.fn \notin {"abort", "clear"}
         /\ \A r \in Ids : Live(r) => vb[r].window \notin gone
<1>1. \A f \in Elements(stack) : f.fn \notin {"abort", "clear"}
  <2>1. CASE stack = <<>>
    BY <2>1, NoCalls
  <2>2. CASE stack # <<>> /\ Top.fn \notin {"abort", "clear"}
    BY <2>2, Runs DEF Over
  <2> QED
    BY <2>1, <2>2
<1>2. Call("abort", 0).fn = "abort" /\ \A r : Call("abort", r).fn = "abort" /\ Call("clear", r).fn = "clear"
  BY CallTyped
<1> QED
  BY <1>1, <1>2 DEF Promised, Doomed

LEMMA DoomedKept ==
  ASSUME Inv, Promised, stack = <<>> \/ Top.fn \notin {"abort", "clear"}, gone' = gone,
         \A q \in Ids : Live(q)' => vb'[q].window \notin gone \/ (Live(q) /\ vb'[q].window = vb[q].window)
  PROVE  Doomed'
<1>1. \A q \in Ids : Live(q)' => vb'[q].window \notin gone'
  BY NoneGone
<1> QED
  BY <1>1 DEF Doomed

LEMMA DisplayedKept ==
  ASSUME Inv', \A f \in Elements(stack') : f.fn \notin {"notify", "unflipped"},
         scanout' \in {Screen, flip_pixmap'}
  PROVE  Displayed'
<1>1. stack' # <<>> => Head(stack') \in Elements(stack')
  <2>1. stack' \in Seq(Frame)
    BY DEF Inv, TypeOK
  <2> QED
    BY <2>1, Innermost
<1> QED
  BY <1>1 DEF Displayed, Flipped, Running, Top

\* What the calls that are below the top, and those made, leave on display.
LEMMA DisplayedAfter ==
  ASSUME Inv, Inv', stack # <<>>, NEW new, After(new),
         \A f \in new : f.fn \notin {"notify", "unflipped"},
         scanout' \in {Screen, flip_pixmap'}
  PROVE  Displayed'
<1>1. \A f \in Elements(stack') : f.fn \notin {"notify", "unflipped"}
  BY BelowTop DEF After, TopFns
<1> QED
  BY <1>1, DisplayedKept

LEMMA NotFlipped ==
  ASSUME Promised, stack = <<>> \/ Top.fn # "notify"
  PROVE  scanout \in {Screen, flip_pixmap}
  BY DEF Promised, Displayed, Flipped, Running

\* Nobody is told anything.
LEMMA StutterOnly ==
  ASSUME \A q \in Ids : Alike(vb'[q], vb[q]),
         flip_pixmap' = flip_pixmap, scanout' = scanout, gone' = gone
  PROVE  UNCHANGED Promise!vars
<1>1. \A q \in Ids : SameStatus(q) /\ SamePixmap(q) /\ SameAsked(q)
  BY DEF Alike, SameStatus, SamePixmap, SameAsked, Holding
<1> QED
  BY <1>1, Stutters

LEMMA OthersKnow ==
  ASSUME NEW f, f.fn \notin HoldFns \cup {"clear"}
  PROVE  Knows(f)'
  BY DEF Knows, HoldFns, OwnerFns

LEMMA SteadyStays ==
  ASSUME Inv, Promised, stack = <<>> \/ Top.fn \notin {"abort", "clear"},
         \A q \in Ids : Steady(q), gone' = gone
  PROVE  Doomed'
<1>1. \A q \in Ids : Live(q)' => Live(q) /\ vb'[q].window = vb[q].window
  BY DEF Steady, Alike, Live
<1> QED
  BY <1>1, DoomedKept

LEMMA SteadyAfter ==
  ASSUME Inv, Inv', Promised, stack # <<>>, Top.fn \notin {"abort", "clear"}, ~Flipped,
         NEW new, After(new),
         \A f \in new : Knows(f)' /\ f.fn \notin {"notify", "unflipped"},
         \A q \in Ids : Steady(q),
         flip_pixmap' = flip_pixmap, scanout' = scanout, gone' = gone
  PROVE  Promised' /\ Fulfils
<1> DEFINE M == {}
<1>1. \A q : q \notin M
  OBVIOUS
<1> HIDE DEF M
<1>2. scanout' \in {Screen, flip_pixmap'}
  BY DEF Promised, Displayed
<1>3. Displayed'
  BY <1>2, DisplayedAfter
<1>4. Doomed'
  BY SteadyStays
<1>5. \A g \in Elements(Rest) : g \in Elements(stack) /\ (g.fn \in HoldFns => g.of \notin M)
  BY <1>1, BelowTop
<1>6. \A f \in Elements(stack') : f \in Elements(Rest) \/ f \in new
  BY DEF After
<1>7. Promised'
  BY <1>1, <1>3, <1>4, <1>5, <1>6, PromisedStep
<1>8. UNCHANGED Promise!vars
  BY StutterOnly DEF Steady
<1> QED
  BY <1>7, <1>8 DEF Fulfils

LEMMA SteadyBefore ==
  ASSUME Inv, Inv', Promised, stack = <<>> \/ Top.fn \notin {"abort", "clear"},
         NEW new, Before(new), \A f \in new : Knows(f)',
         \A q \in Ids : Steady(q), Displayed', gone' = gone
  PROVE  Promised'
<1> DEFINE M == {}
<1>1. \A q : q \notin M
  OBVIOUS
<1> HIDE DEF M
<1>2. Doomed'
  BY SteadyStays
<1>3. \A g \in Elements(stack) : g \in Elements(stack) /\ (g.fn \in HoldFns => g.of \notin M)
  BY <1>1
<1>4. \A f \in Elements(stack') : f \in Elements(stack) \/ f \in new
  BY DEF Before
<1> QED
  BY <1>1, <1>2, <1>3, <1>4, PromisedStep

\* What waits below a call that is not at the top of the stack for long.
LEMMA DisplayedBefore ==
  ASSUME Inv, Inv', Promised, stack = <<>> \/ Top.fn \in {"drain", "trigger"},
         NEW new, Before(new), \A f \in new : f.fn \notin {"notify", "unflipped"},
         flip_pixmap' = flip_pixmap, scanout' = scanout
  PROVE  Displayed'
<1>1. \A g \in Elements(stack) : g.fn \notin TopFns
  <2>1. CASE stack = <<>>
    BY <2>1, NoCalls
  <2>2. CASE stack # <<>> /\ Top.fn \in {"drain", "trigger"}
    BY <2>2, BelowTop DEF TopFns
  <2> QED
    BY <2>1, <2>2
<1>2. \A f \in Elements(stack') : f.fn \notin {"notify", "unflipped"}
  BY <1>1 DEF Before, TopFns
<1>3. scanout' \in {Screen, flip_pixmap'}
  BY NotFlipped
<1> QED
  BY <1>2, <1>3, DisplayedKept

LEMMA AllSteady ==
  ASSUME vb' = vb, flip_pending' = flip_pending, flip_pixmap' = flip_pixmap
  PROVE  \A q \in Ids : Steady(q)
  BY DEF Steady, Alike

\* A notification of the flip that is with the driver is present_flip_notify's.
LEMMA NotifiesOther ==
  ASSUME Inv, Notify
  PROVE  ~Flipped
<1> SUFFICES ASSUME Flipped PROVE FALSE
  OBVIOUS
<1>1. Top.of \in Ids /\ Top.of = flip_pending
  BY RunsFn DEF Flipped
<1>2. Contains(flip_queue, Top.of) /\ vb[Top.of].queued = FALSE
  BY <1>1 DEF Inv, Lists, Placed, WithDriver
<1> QED
  BY <1>2 DEF Notify

\* Steps that change no record.
LEMMA FulfilsIdle ==
  ASSUME Inv, Inv', Promised,
         \/ Requeue \/ FlipSucceeds \/ Notify \/ TryReady \/ Checked \/ Drained
  PROVE  Promised' /\ Fulfils
<1>1. /\ vb' = vb /\ flip_pending' = flip_pending /\ flip_pixmap' = flip_pixmap
      /\ scanout' = scanout /\ gone' = gone
  BY DEF Requeue, FlipSucceeds, Notify, TryReady, Checked, Drained
<1>2. \A q \in Ids : Steady(q)
  BY <1>1, AllSteady
<1>3. ~Flipped
  <2>1. CASE Notify
    BY <2>1, NotifiesOther
  <2>2. CASE ~Notify
    <3>1. Top.fn # "notify"
      BY <2>2 DEF Requeue, FlipSucceeds, TryReady, Checked, Drained, Drains, Running
    <3> QED
      BY <3>1 DEF Flipped, Running
  <2> QED
    BY <2>1, <2>2
<1>4. stack # <<>> /\ Top.fn \notin {"abort", "clear"}
  BY DEF Requeue, FlipSucceeds, Notify, TryReady, Checked, Drained, Drains, Running
<1>5. \E new : After(new) /\ \A f \in new : f.fn \in {"execute", "drain"}
  <2> DEFINE E == {}
  <2>0. /\ \A f \in E : f.fn \in {"execute", "drain"}
        /\ Requeue \/ FlipSucceeds \/ Drained => After(E)
        /\ TryReady => After(E) \/ \E r \in Ids : After({Call("execute", r)})
    BY ReturnsAfter, AfterTryReady
  <2> HIDE DEF E
  <2>1. CASE Requeue \/ FlipSucceeds \/ Drained
    BY <2>1, <2>0
  <2>2. CASE Notify
    <3>1. Running("notify") /\ Top.of \in Ids
      BY <2>2, RunsFn DEF Notify
    <3>2. PICK r \in Ids : r = Top.of
      BY <3>1
    <3> DEFINE c == Call("execute", r)
    <3>3. c \in Frame /\ c.fn = "execute" /\ \E b : Continue(If(b, <<c>>))
      BY <2>2, <3>2, CallTyped DEF VblankFns, Notify
    <3> HIDE DEF c
    <3>4. After({c})
      BY <1>4, <3>3, OneCall
    <3> QED
      BY <3>3, <3>4
  <2>3. CASE TryReady
    <3>1. CASE After(E)
      BY <3>1, <2>0
    <3>2. CASE \E r \in Ids : After({Call("execute", r)})
      BY <3>2, CallTyped
    <3> QED
      BY <2>3, <2>0, <3>1, <3>2
  <2>4. CASE Checked
    BY <2>4, AfterUnflip, CallTyped
  <2> QED
    BY <2>1, <2>2, <2>3, <2>4
<1>6. PICK new : After(new) /\ \A f \in new : f.fn \in {"execute", "drain"}
  BY <1>5
<1>7. \A f \in new : Knows(f)' /\ f.fn \notin {"notify", "unflipped"}
  BY <1>6, OthersKnow DEF HoldFns, OwnerFns
<1> QED
  BY <1>1, <1>2, <1>3, <1>4, <1>6, <1>7, SteadyAfter

LEMMA FulfilsTrigger ==
  ASSUME Inv, Inv', Promised, Trigger \/ TriggerFence \/ Cursor \/ Restack \/ PrepareModeset
  PROVE  Promised' /\ Fulfils
<1>1. /\ vb' = vb /\ flip_pending' = flip_pending /\ flip_pixmap' = flip_pixmap
      /\ scanout' = scanout /\ gone' = gone
  BY DEF Trigger, TriggerFence, Cursor, Restack, PrepareModeset
<1>2. \A q \in Ids : Steady(q)
  BY <1>1, AllSteady
<1>3. stack = <<>> \/ (Top.fn \in {"drain", "trigger"} /\ stack # <<>>)
  BY DEF Trigger, TriggerFence, Cursor, Restack, PrepareModeset, AtEventLoop, Running
<1>4. \E new : Before(new) /\ \A f \in new : f.fn \in {"execute", "trigger", "check", "checked"}
  <2> DEFINE E == {}
  <2>1. CASE Trigger
    <3>1. After(E) \/ Before({Call("execute", Top.of)})
      BY <2>1, AfterTrigger
    <3>2. After(E) => Before(E)
      <4>1. stack # <<>>
        BY <2>1, AfterTrigger
      <4> QED
        BY <4>1, BelowTop DEF After, Before
    <3>3. \A f \in E : f.fn = "execute"
      OBVIOUS
    <3> HIDE DEF E
    <3>4. Call("execute", Top.of).fn = "execute"
      BY CallTyped
    <3> DEFINE c == Call("execute", Top.of)
    <3>5. \A f \in {c} : f.fn = "execute"
      BY <3>4
    <3> HIDE DEF c
    <3>6. Before(E) \/ Before({c})
      BY <3>1, <3>2 DEF c
    <3> QED
      BY <3>3, <3>5, <3>6
  <2>2. CASE TriggerFence
    <3>1. PICK r \in Ids : Before({Call("trigger", r)})
      BY <2>2, BeforeTriggerFence
    <3> DEFINE c == Call("trigger", r)
    <3>2. \A f \in {c} : f.fn = "trigger"
      BY CallTyped
    <3> HIDE DEF c
    <3> QED
      BY <3>1, <3>2 DEF c
  <2>3. CASE Cursor
    <3>1. Before(E) /\ \A f \in E : f.fn = "execute"
      BY <2>3 DEF Cursor, Before
    <3> HIDE DEF E
    <3> QED
      BY <3>1
  <2>4. CASE Restack \/ PrepareModeset
    <3>1. Before(Elements(stack'))
      BY DEF Before
    <3> QED
      BY <2>4, <3>1, ChecksCalls
  <2> QED
    BY <2>1, <2>2, <2>3, <2>4
<1>5. PICK new : Before(new) /\ \A f \in new : f.fn \in {"execute", "trigger", "check", "checked"}
  BY <1>4
<1>6. \A f \in new : Knows(f)' /\ f.fn \notin {"notify", "unflipped"}
  BY <1>5, OthersKnow DEF HoldFns, OwnerFns
<1>7. Displayed'
  BY <1>1, <1>3, <1>5, <1>6, DisplayedBefore
<1>8. Promised'
  BY <1>1, <1>2, <1>3, <1>5, <1>6, <1>7, SteadyBefore
<1>9. UNCHANGED Promise!vars
  BY <1>1, <1>2, StutterOnly DEF Steady
<1> QED
  BY <1>8, <1>9 DEF Fulfils

\* The fields that nobody is told of.
LEMMA AlikeFields ==
  ASSUME NEW v \in Vblank
  PROVE  /\ Alike(v, v) /\ Alike([v EXCEPT !.callback = TRUE], v) /\ Alike([v EXCEPT !.flip_ready = TRUE], v)
         /\ Alike([v EXCEPT !.queued = FALSE], v) /\ Alike([v EXCEPT !.abort = TRUE], v)
         /\ v.flip = TRUE /\ (v.flip = TRUE => v.reason = "other")
              => /\ Alike([v EXCEPT !.flip = FALSE, !.early = 0], v)
                 /\ Alike([v EXCEPT !.flip = FALSE], v)
  BY DEF Alike, Vblank

LEMMA SteadyOne ==
  ASSUME NEW r \in Ids, \A q \in Ids : q # r => vb'[q] = vb[q], Alike(vb'[r], vb[r]),
         vb'[r].queued = TRUE => vb[r].queued = TRUE,
         flip_pixmap' = flip_pixmap,
         flip_pending' \in {flip_pending, NoId} \/ (flip_pending' = r /\ vb[r].queued = TRUE)
  PROVE  \A q \in Ids : Steady(q)
<1>1. ASSUME NEW q \in Ids PROVE Alike(vb'[q], vb[q])
  BY DEF Alike
<1>2. ASSUME NEW q \in Ids, q # r PROVE Steady(q)
  <2>1. vb'[q] = vb[q] /\ (q = flip_pending' => q = flip_pending)
    BY <1>2, IdsNat
  <2> QED
    BY <1>1, <2>1 DEF Steady
<1>3. Steady(r)
  BY <1>1, IdsNat DEF Steady
<1> QED
  BY <1>2, <1>3

LEMMA TopSound ==
  ASSUME Inv, stack # <<>>
  PROVE  Sound(Top)
  BY Runs

LEMMA PixmapBoolean == ASSUME Inv PROVE \A q \in Ids : vb[q].pixmap \in BOOLEAN /\ vb[q].flip \in BOOLEAN
<1>1. TypeOK
  BY DEF Inv
<1> QED
  BY <1>1, FieldTypes

LEMMA FulfilsWaits == ASSUME Inv, Inv', Promised, WaitFence \/ WaitFlip PROVE Promised' /\ Fulfils
<1>1. /\ stack # <<>> /\ Top.fn = "execute" /\ Top.of \in Ids
      /\ flip_pending' = flip_pending /\ flip_pixmap' = flip_pixmap /\ scanout' = scanout /\ gone' = gone
  BY RunsFn DEF WaitFence, WaitFlip
<1>2. PICK r \in Ids : r = Top.of
  BY <1>1
<1>3. \/ vb' = [vb EXCEPT ![r].callback = TRUE]
      \/ vb' = [vb EXCEPT ![r].flip_ready = TRUE]
  BY <1>2 DEF WaitFence, WaitFlip
<1>4. vb \in [Ids -> Vblank] /\ vb[r] \in Vblank
  BY DEF Inv, TypeOK
<1>5. /\ \A q \in Ids : q # r => vb'[q] = vb[q]
      /\ vb'[r] = [vb[r] EXCEPT !.callback = TRUE] \/ vb'[r] = [vb[r] EXCEPT !.flip_ready = TRUE]
  BY <1>3, <1>4
<1>6. Alike(vb'[r], vb[r]) /\ vb'[r].queued = vb[r].queued
  <2>1. Alike(vb'[r], vb[r])
    BY <1>4, <1>5, AlikeFields
  <2>2. vb'[r].queued = vb[r].queued
    BY <1>4, <1>5 DEF Vblank
  <2> QED
    BY <2>1, <2>2
<1>7. \A q \in Ids : Steady(q)
  BY <1>1, <1>5, <1>6, SteadyOne
<1> DEFINE E == {}
<1>8. After(E) /\ \A f \in E : Knows(f)' /\ f.fn \notin {"notify", "unflipped"}
  BY ReturnsAfter
<1>9. ~Flipped
  BY <1>1 DEF Flipped, Running
<1> HIDE DEF E
<1> QED
  BY <1>1, <1>7, <1>8, <1>9, SteadyAfter

\* present_execute: what is to be shown is not idle, and what was shown is.
LEMMA FulfilsExecute == ASSUME Inv, Inv', Punctual, Promised, Execute PROVE Promised' /\ Fulfils
<1>1. /\ stack # <<>> /\ Top.fn = "execute" /\ Top.of \in Ids
      /\ OnSchedule(Top.of) /\ vb[Top.of].window # NoWin
      /\ flip_pixmap' = flip_pixmap /\ scanout' = scanout /\ gone' = gone
  BY ExecutesLive DEF Execute
<1>2. PICK r \in Ids : r = Top.of
  BY <1>1
<1> DEFINE F == Presents(r) /\ vb[r].flip
<1>3. PICK flipping \in BOOLEAN : flipping <=> F
  <2>1. F \in BOOLEAN
    OBVIOUS
  <2> QED
    BY <2>1
<1>0. PICK next : next = IF flipping THEN "flip" ELSE IF Presents(r) THEN "flip_over" ELSE "post"
  OBVIOUS
<1> DEFINE c == Call(next, r)
<1>4. /\ ~(Flips(r) /\ IsFlipping)
      /\ vb' = [vb EXCEPT ![r].queued = FALSE]
      /\ flip_pending' = IF flipping THEN r ELSE flip_pending
      /\ Continue(<<c>>)
  BY <1>0, <1>2, <1>3 DEF Execute, If
<1>5. c \in Frame /\ c.fn = next /\ c.of = r
  <2>1. c \in Frame
    BY <1>0, CallTyped DEF VblankFns
  <2> QED
    BY <2>1, CallTyped
<1> HIDE DEF c
<1>6. After({c})
  BY <1>1, <1>4, <1>5, OneCall
<1>7. vb \in [Ids -> Vblank] /\ vb[r] \in Vblank
  BY DEF Inv, TypeOK
<1>8. /\ \A q \in Ids : q # r => vb'[q] = vb[q]
      /\ vb'[r] = [vb[r] EXCEPT !.queued = FALSE]
  BY <1>4, <1>7
<1>9. Alike(vb'[r], vb[r]) /\ vb'[r].queued = FALSE
  BY <1>7, <1>8, AlikeFields DEF Vblank
<1>10. vb[r].queued = TRUE
  <2>1. Sound(Top) /\ Placed(r)
    BY <1>1, TopSound DEF Inv, Lists
  <2> SUFFICES ASSUME r = flip_pending PROVE FALSE
    BY <1>1, <1>2, <2>1 DEF Sound
  <2>2. vb[r].flip = TRUE /\ vb[r].pixmap = TRUE
    BY <2>1 DEF Placed, WithDriver
  <2> QED
    BY <1>1, <1>2, <1>4, <2>2, IdsNat DEF Flips, IsFlipping
<1>11. \A q \in Ids : Steady(q)
  BY <1>1, <1>4, <1>8, <1>9, <1>10, SteadyOne
<1>12. Knows(c)'
  <2>1. vb[r].pixmap = TRUE => vb[r].idled = IF CopiedOnce(r) THEN 1 ELSE 0
    BY <1>10 DEF Promised, Kept
  <2>2. vb'[r].idled = vb[r].idled /\ vb'[r].pixmap = vb[r].pixmap
    BY <1>9 DEF Alike
  <2>3. next = "flip_over" => Presents(r)
    BY <1>0
  <2>4. next = "flip_over" => vb'[r].idled = 0
    BY <2>1, <2>2, <2>3, PixmapBoolean DEF Presents, CopiedOnce, IsTearFree
  <2>5. next = "post" /\ vb[r].pixmap = TRUE => CopiedOnce(r)
    <3>1. next = "post" => ~Presents(r)
      BY <1>0
    <3> QED
      BY <1>1, <1>2, <3>1 DEF Presents, CopiedOnce, IsTearFree
  <2>6. next \in {"flip", "flip_over", "post"}
    BY <1>0
  <2> QED
    BY <1>5, <2>1, <2>2, <2>4, <2>5, <2>6 DEF Knows
<1>13. \A f \in {c} : Knows(f)' /\ f.fn \notin {"notify", "unflipped"}
  BY <1>0, <1>5, <1>12
<1>14. ~Flipped
  BY <1>1 DEF Flipped, Running
<1> QED
  BY <1>1, <1>6, <1>11, <1>13, <1>14, SteadyAfter

LEMMA TargetAlike ==
  ASSUME NEW v \in Vblank, NEW n
  PROVE  Alike([v EXCEPT !.target = n], v) /\ [v EXCEPT !.target = n].queued = v.queued
  BY DEF Alike, Vblank

LEMMA NoFlipAlike ==
  ASSUME NEW v \in Vblank, v.reason = "other"
  PROVE  Alike(NoFlip(v), v) /\ NoFlip(v).queued = v.queued
<1> DEFINE e == IF v.sync THEN 0 ELSE v.early
<1>1. NoFlip(v) = [v EXCEPT !.flip = FALSE, !.early = e]
  BY DEF NoFlip
<1> HIDE DEF e
<1>2. LET a == [v EXCEPT !.flip = FALSE, !.early = e]
      IN /\ a.st = v.st /\ a.done = v.done /\ a.idled = v.idled /\ a.asked = v.asked
         /\ a.pixmap = v.pixmap /\ a.window = v.window /\ a.queued = v.queued
         /\ a.reason = v.reason
  BY DEF Vblank
<1> QED
  BY <1>1, <1>2 DEF Alike

\* A flip that the driver refuses becomes a copy.
LEMMA FulfilsFlipFails == ASSUME Inv, Inv', Punctual, Promised, FlipFails PROVE Promised' /\ Fulfils
<1>1. /\ stack # <<>> /\ Top.fn = "flip" /\ Top.of \in Ids /\ Top.of = flip_pending
      /\ WithDriver(Top.of) /\ OnSchedule(Top.of)
      /\ flip_pending' = NoId /\ flip_pixmap' = flip_pixmap /\ scanout' = scanout /\ gone' = gone
  BY FlipsPending DEF FlipFails
<1>2. PICK r \in Ids : r = Top.of
  BY <1>1
<1> DEFINE c == Call("flip_over", r)
<1>3. vb' = [vb EXCEPT ![r].flip = FALSE, ![r].early = 0] /\ Continue(<<c>>)
  BY <1>2 DEF FlipFails
<1>4. c \in Frame /\ c.fn = "flip_over" /\ c.of = r
  BY CallTyped DEF VblankFns
<1> HIDE DEF c
<1>5. After({c})
  BY <1>1, <1>3, <1>4, OneCall
<1>6. vb \in [Ids -> Vblank] /\ vb[r] \in Vblank
  BY DEF Inv, TypeOK
<1>7. /\ \A q \in Ids : q # r => vb'[q] = vb[q]
      /\ vb'[r] = [vb[r] EXCEPT !.flip = FALSE, !.early = 0]
  BY <1>3, <1>6
<1>8. /\ vb[r].flip = TRUE /\ vb[r].reason = "other" /\ vb[r].pixmap = TRUE
      /\ vb[r].queued = FALSE
  BY <1>1, <1>2 DEF WithDriver, OnSchedule, Shaped
<1>9. Alike(vb'[r], vb[r]) /\ vb'[r].queued = FALSE
  <2>1. [vb[r] EXCEPT !.flip = FALSE, !.early = 0].queued = vb[r].queued
    BY <1>6 DEF Vblank
  <2> QED
    BY <1>6, <1>7, <1>8, <2>1, AlikeFields
<1>10. \A q \in Ids : Steady(q)
  BY <1>1, <1>7, <1>9, SteadyOne
<1>11. Knows(c)'
  <2>1. vb[r].idled = 0
    BY <1>1, <1>2, <1>8 DEF Promised, Kept, CopiedOnce
  <2>2. vb'[r].idled = 0
    BY <1>9, <2>1 DEF Alike
  <2> QED
    BY <1>4, <2>2 DEF Knows
<1>12. \A f \in {c} : Knows(f)' /\ f.fn \notin {"notify", "unflipped"}
  BY <1>4, <1>11
<1>13. ~Flipped
  BY <1>1 DEF Flipped, Running
<1> QED
  BY <1>1, <1>5, <1>10, <1>12, <1>13, SteadyAfter

\* present_set_abort_flip
LEMMA AbortSteady ==
  ASSUME Inv, flip_pending' = flip_pending, flip_pixmap' = flip_pixmap,
         vb' = vb \/ (flip_pending # NoId /\ vb' = [vb EXCEPT ![flip_pending].abort = TRUE])
  PROVE  \A q \in Ids : Steady(q)
<1>1. CASE vb' = vb
  BY <1>1, AllSteady
<1>2. CASE flip_pending # NoId /\ vb' = [vb EXCEPT ![flip_pending].abort = TRUE]
  <2>1. flip_pending \in Ids /\ vb \in [Ids -> Vblank]
    BY <1>2 DEF Inv, TypeOK
  <2>2. PICK r \in Ids : r = flip_pending
    BY <2>1
  <2>3. vb' = [vb EXCEPT ![r].abort = TRUE] /\ vb[r] \in Vblank
    BY <1>2, <2>1, <2>2
  <2>4. vb'[r] = [vb[r] EXCEPT !.abort = TRUE] /\ \A q \in Ids : q # r => vb'[q] = vb[q]
    BY <2>1, <2>3
  <2>5. Alike(vb'[r], vb[r])
    BY <2>3, <2>4, AlikeFields
  <2>6. vb'[r].queued = vb[r].queued
    BY <2>3, <2>4 DEF Vblank
  <2> QED
    BY <2>4, <2>5, <2>6, SteadyOne
<1> QED
  BY <1>1, <1>2

LEMMA FulfilsFlipOver == ASSUME Inv, Inv', Promised, FlipOver PROVE Promised' /\ Fulfils
<1>1. /\ stack # <<>> /\ Top.fn = "flip_over" /\ Top.of \in Ids
      /\ flip_pending' = flip_pending /\ flip_pixmap' = flip_pixmap /\ scanout' = scanout /\ gone' = gone
  BY RunsFn DEF FlipOver, HoldFns, OwnerFns
<1>2. PICK r \in Ids : r = Top.of
  BY <1>1
<1> DEFINE c == Call("copy", r)
           u == Call("unflip", NoId)
<1>3. c \in Frame /\ u \in Frame /\ c.fn = "copy" /\ u.fn = "unflip" /\ c.of = r
  BY CallTyped DEF VblankFns, OtherFns
<1>4. PICK i : Continue(If(i, <<u>>) \o <<c>>)
  BY <1>2 DEF FlipOver
<1> HIDE DEF c, u
<1>5. After({u, c})
  BY <1>1, <1>3, <1>4, TwoCalls
<1>6. \A q \in Ids : Steady(q)
  <2>1. Aborts(vb[Top.of].window) => flip_pending # NoId
    BY DEF Aborts
  <2>2. vb' = vb \/ (flip_pending # NoId /\ vb' = [vb EXCEPT ![flip_pending].abort = TRUE])
    BY <2>1 DEF FlipOver, SetAbortFlip
  <2> QED
    BY <1>1, <2>2, AbortSteady
<1>7. Knows(c)'
  <2>1. Knows(Top)
    BY <1>1, BelowTop DEF Promised
  <2>2. vb[r].idled = 0 /\ vb'[r].idled = vb[r].idled
    BY <1>1, <1>2, <1>6, <2>1 DEF Knows, Steady, Alike
  <2> QED
    BY <1>3, <2>2 DEF Knows
<1>8. Knows(u)'
  BY <1>3 DEF Knows
<1>9. \A f \in {u, c} : Knows(f)' /\ f.fn \notin {"notify", "unflipped"}
  BY <1>3, <1>7, <1>8
<1>10. ~Flipped
  BY <1>1 DEF Flipped, Running
<1> QED
  BY <1>1, <1>5, <1>6, <1>9, <1>10, SteadyAfter

LEMMA FulfilsChecks ==
  ASSUME Inv, Inv', Punctual, Promised, CheckFlipWindow \/ CheckQueued
  PROVE  Promised' /\ Fulfils
<1>1. CASE CheckFlipWindow
  <2>1. /\ stack # <<>> /\ Top.fn = "check" /\ Top.of \in Windows
        /\ After({Call("unflip", NoId), Call("check_queued", Top.of)})
        /\ flip_pending' = flip_pending /\ flip_pixmap' = flip_pixmap /\ scanout' = scanout /\ gone' = gone
    BY <1>1, AfterCheckFlipWindow DEF CheckFlipWindow
  <2>2. PICK w : w = Top.of
    OBVIOUS
  <2> DEFINE c == Call("check_queued", w)
             u == Call("unflip", NoId)
  <2>3. c.fn = "check_queued" /\ u.fn = "unflip" /\ After({u, c})
    BY <2>1, <2>2, CallTyped
  <2> HIDE DEF c, u
  <2>4. \A q \in Ids : Steady(q)
    <3>1. Aborts(Top.of) => flip_pending # NoId
      BY DEF Aborts
    <3>2. vb' = vb \/ (flip_pending # NoId /\ vb' = [vb EXCEPT ![flip_pending].abort = TRUE])
      BY <1>1, <3>1 DEF CheckFlipWindow, SetAbortFlip
    <3> QED
      BY <2>1, <3>2, AbortSteady
  <2>5. \A f \in {u, c} : Knows(f)' /\ f.fn \notin {"notify", "unflipped"}
    BY <2>3 DEF Knows
  <2>6. ~Flipped
    BY <2>1 DEF Flipped, Running
  <2> QED
    BY <2>1, <2>3, <2>4, <2>5, <2>6, SteadyAfter
<1>2. CASE CheckQueued
  <2> DEFINE E == {}
  <2>1. /\ stack # <<>> /\ Top.fn = "check_queued" /\ After(E)
        /\ flip_pending' = flip_pending /\ flip_pixmap' = flip_pixmap /\ scanout' = scanout /\ gone' = gone
    BY <1>2, ReturnsAfter DEF CheckQueued, Running
  <2>2. \A f \in E : Knows(f)' /\ f.fn \notin {"notify", "unflipped"}
    OBVIOUS
  <2> HIDE DEF E
  <2>3. ASSUME NEW q \in Ids PROVE Steady(q)
    <3>1. vb[q].queued \in BOOLEAN /\ vb[q].flip \in BOOLEAN /\ vb[q] \in Vblank
      BY FieldTypes DEF Inv
    <3>2. vb'[q] = vb[q] \/ (vb[q].flip = TRUE /\ vb'[q] = NoFlip(vb[q]))
      BY <1>2, <3>1 DEF CheckQueued
    <3>3. vb[q].flip = TRUE => vb[q].reason = "other"
      BY DEF Punctual, OnSchedule, Shaped
    <3>4. Alike(vb'[q], vb[q]) /\ vb'[q].queued = vb[q].queued
      BY <3>1, <3>2, <3>3, NoFlipAlike, AlikeFields
    <3> QED
      BY <2>1, <3>4 DEF Steady
  <2>4. ~Flipped
    BY <2>1 DEF Flipped, Running
  <2> QED
    BY <2>1, <2>2, <2>3, <2>4, SteadyAfter
<1> QED
  BY <1>1, <1>2

LEMMA FulfilsTick == ASSUME Inv, Inv', Promised, Tick PROVE Promised' /\ Fulfils
<1>1. /\ flip_pending' = flip_pending /\ flip_pixmap' = flip_pixmap /\ scanout' = scanout
      /\ gone' = gone /\ stack' = stack
  BY DEF Tick
<1>2. stack = <<>> \/ Top.fn = "drain"
  BY DEF Tick, AtEventLoop, Drains, Running
<1>3. ASSUME NEW q \in Ids PROVE Steady(q)
  <2>1. vb[q] \in Vblank
    BY DEF Inv, TypeOK
  <2>2. PICK n : vb'[q] = [vb[q] EXCEPT !.target = n]
    BY DEF Tick
  <2>3. Alike(vb'[q], vb[q]) /\ vb'[q].queued = vb[q].queued
    BY <2>1, <2>2, TargetAlike
  <2> QED
    BY <1>1, <2>3 DEF Steady
<1> DEFINE E == {}
<1>4. Before(E) /\ \A f \in E : Knows(f)'
  BY <1>1 DEF Before
<1> HIDE DEF E
<1>5. Displayed'
  <2>1. Displayed
    BY DEF Promised
  <2> QED
    BY <1>1, <2>1 DEF Displayed, Flipped, Running, Top
<1>6. Promised'
  BY <1>1, <1>2, <1>3, <1>4, <1>5, SteadyBefore
<1>7. UNCHANGED Promise!vars
  BY <1>1, <1>3, StutterOnly DEF Steady
<1> QED
  BY <1>6, <1>7 DEF Fulfils

\* What the kernel reports is handled first.
LEMMA PromisedEvent ==
  ASSUME Inv, Inv', Promised, stack = <<>> \/ Top.fn = "drain",
         NEW c \in Frame, stack' = <<c>> \o stack, c.fn \in {"notify", "unflipped"},
         vb' = vb, flip_pending' = flip_pending, flip_pixmap' = flip_pixmap, gone' = gone,
         c.fn = "notify" => scanout' = IF c.of = flip_pending THEN flip_pending ELSE scanout,
         c.fn = "unflipped" => scanout' = Screen
  PROVE  Promised'
<1>1. stack \in Seq(Frame)
  BY DEF Inv, TypeOK
<1>2. /\ stack' # <<>> /\ Head(stack') = c
      /\ Elements(stack') = {c} \cup Elements(stack)
  BY <1>1, Pushed
<1>3. \A q \in Ids : Steady(q)
  BY AllSteady
<1> DEFINE S == {c}
<1>4. Before(S) /\ \A f \in S : Knows(f)'
  BY <1>2 DEF Before, Knows
<1> HIDE DEF S
<1>5. scanout \in {Screen, flip_pixmap}
  BY NotFlipped
<1>6. Displayed'
  <2>1. Flipped' <=> c.fn = "notify" /\ c.of = flip_pending
    BY <1>2 DEF Flipped, Running, Top
  <2>2. Running("unflipped")' <=> c.fn = "unflipped"
    BY <1>2 DEF Running, Top
  <2>3. ~Flipped' => scanout' \in {Screen, flip_pixmap'}
    BY <1>5, <2>1
  <2> QED
    BY <2>1, <2>2, <2>3 DEF Displayed
<1> QED
  BY <1>3, <1>4, <1>6, SteadyBefore

LEMMA FulfilsKernel == ASSUME Inv, Inv', Punctual, Promised, Kernel PROVE Promised' /\ Fulfils
<1>1. /\ vb' = vb /\ flip_pending' = flip_pending /\ flip_pixmap' = flip_pixmap /\ gone' = gone
      /\ stack = <<>> \/ Top.fn = "drain"
  BY BeforeEvents DEF Kernel, VblankEvent, FlipEvent, FakeFlipEvent
<1>2. \A q \in Ids : SameStatus(q) /\ SamePixmap(q) /\ SameAsked(q)
  BY <1>1 DEF SameStatus, SamePixmap, SameAsked, Holding
<1>3. CASE VblankEvent \/ FakeFlipEvent
  <2>1. PICK r \in Ids : /\ stack' = <<Call("notify", r)>> \o stack /\ scanout' = scanout
                         /\ <<r, 0>> \in events \/ r \in fakes
    <3>1. fakes \subseteq Ids
      BY DEF Inv, TypeOK
    <3> QED
      BY <1>3, <3>1 DEF VblankEvent, FakeFlipEvent
  <2>2. OnSchedule(r) /\ Placed(r) /\ 0 \in Coming
    BY PresentAssumption DEF Punctual, Inv, Lists, Coming
  <2>3. r # flip_pending
    BY <2>1, <2>2 DEF OnSchedule, Single, Placed, WithDriver
  <2> DEFINE c == Call("notify", r)
  <2>4. c \in Frame /\ c.fn = "notify" /\ c.of = r /\ stack' = <<c>> \o stack
    BY <2>1, CallTyped DEF VblankFns
  <2> HIDE DEF c
  <2>5. Promised'
    BY <1>1, <2>1, <2>3, <2>4, PromisedEvent
  <2>6. UNCHANGED Promise!vars
    BY <1>1, <1>2, <2>1, Stutters
  <2> QED
    BY <2>5, <2>6 DEF Fulfils
<1>4. CASE FlipEvent
  <2>1. PICK id \in flips : /\ scanout' = (IF id = Unflip THEN Screen ELSE id)
                            /\ stack' = <<IF id = Unflip THEN Call("unflipped", NoId) ELSE Call("notify", id)>>
                                        \o stack
    BY <1>4 DEF FlipEvent
  <2>2. CASE id = Unflip
    <3> DEFINE c == Call("unflipped", NoId)
    <3>1. c \in Frame /\ c.fn = "unflipped" /\ stack' = <<c>> \o stack /\ scanout' = Screen
      BY <2>1, <2>2, OtherCalls, CallTyped
    <3> HIDE DEF c
    <3>2. Promised'
      BY <1>1, <3>1, PromisedEvent
    <3>3. Promise!Next
      BY <1>1, <1>2, <3>1, ShowsScreen
    <3> QED
      BY <3>2, <3>3 DEF Fulfils
  <2>3. CASE id # Unflip
    <3>1. id \in Ids /\ id = flip_pending /\ WithDriver(id) /\ OnSchedule(id)
      BY <2>1, <2>3 DEF Inv, TypeOK, Punctual, Reported, Lists, Placed
    <3>2. PICK r \in Ids : r = id
      BY <3>1
    <3> DEFINE c == Call("notify", r)
    <3>3. /\ c \in Frame /\ c.fn = "notify" /\ c.of = r /\ stack' = <<c>> \o stack
          /\ scanout' = r /\ r = flip_pending
      BY <2>1, <2>3, <3>1, <3>2, CallTyped DEF VblankFns
    <3> HIDE DEF c
    <3>4. Promised'
      BY <1>1, <3>3, PromisedEvent
    <3>5. vb[r].flip = TRUE /\ vb[r].pixmap = TRUE /\ vb[r].reason = "other"
      BY <3>1, <3>2 DEF WithDriver, OnSchedule, Shaped
    <3>6. vb[r].idled = 0
      BY <3>3, <3>5 DEF Promised, Kept, CopiedOnce
    <3>7. Pixmap(r) = "held"
      BY <3>5, <3>6, Views DEF Holding
    <3>8. Promise!Next
      BY <1>1, <1>2, <3>3, <3>7, Shows
    <3> QED
      BY <3>4, <3>8 DEF Fulfils
  <2> QED
    BY <2>2, <2>3
<1> QED
  BY <1>3, <1>4 DEF Kernel

LEMMA ViewsAfter ==
  ASSUME NEW r
  PROVE  /\ vb'[r].idled = 0 /\ Holding(r)' => Pixmap(r)' = "held"
         /\ vb'[r].idled = 0 /\ ~Holding(r)' => Pixmap(r)' = "client"
         /\ vb'[r].idled = 1 => Pixmap(r)' = "idle"
         /\ vb'[r].done = 0 /\ vb'[r].st = "live" => Status(r)' = "asked"
         /\ vb'[r].done = 0 /\ vb'[r].st = "freed" => Status(r)' = "dropped"
         /\ vb'[r].done = 1 => Status(r)' = "done"
<1>1. ~(0 > 1) /\ ~(1 > 1) /\ 0 # 1
  OBVIOUS
<1> QED
  BY <1>1 DEF Status, Pixmap

\* The pixmap of one request changes hands, or how it is to be executed.
SameRequest(r) ==
  /\ vb'[r].st = vb[r].st /\ vb'[r].done = vb[r].done
  /\ vb'[r].asked = vb[r].asked /\ vb'[r].window = vb[r].window

LEMMA RequestFields ==
  ASSUME Inv, NEW r \in Ids, NEW e, NEW b,
         \/ vb'[r] = [vb[r] EXCEPT !.queued = TRUE]
         \/ vb'[r] = [vb[r] EXCEPT !.early = e, !.queued = TRUE]
         \/ vb'[r] = [vb[r] EXCEPT !.idled = b]
         \/ vb'[r] = [vb[r] EXCEPT !.idled = b, !.early = e, !.queued = TRUE]
         \/ vb'[r] = [vb[r] EXCEPT !.idled = b, !.pixmap = FALSE, !.flip = FALSE]
  PROVE  SameRequest(r)
<1> DEFINE v == vb[r]
<1>1. v \in Vblank
  BY DEF Inv, TypeOK
<1>2. \/ vb'[r] = [v EXCEPT !.queued = TRUE]
      \/ vb'[r] = [v EXCEPT !.early = e, !.queued = TRUE]
      \/ vb'[r] = [v EXCEPT !.idled = b]
      \/ vb'[r] = [v EXCEPT !.idled = b, !.early = e, !.queued = TRUE]
      \/ vb'[r] = [v EXCEPT !.idled = b, !.pixmap = FALSE, !.flip = FALSE]
  OBVIOUS
<1> HIDE DEF v
<1> DEFINE Is(a) == a.st = v.st /\ a.done = v.done /\ a.asked = v.asked /\ a.window = v.window
<1>3. Is([v EXCEPT !.queued = TRUE])
  BY <1>1 DEF Vblank
<1>4. Is([v EXCEPT !.early = e, !.queued = TRUE])
  BY <1>1 DEF Vblank
<1>5. Is([v EXCEPT !.idled = b])
  BY <1>1 DEF Vblank
<1>6. Is([v EXCEPT !.idled = b, !.early = e, !.queued = TRUE])
  BY <1>1 DEF Vblank
<1>7. Is([v EXCEPT !.idled = b, !.pixmap = FALSE, !.flip = FALSE])
  BY <1>1 DEF Vblank
<1> HIDE DEF Is
<1>8. Is(vb'[r])
  BY <1>2, <1>3, <1>4, <1>5, <1>6, <1>7
<1> QED
  BY <1>8 DEF SameRequest, v, Is

LEMMA ChangesOne ==
  ASSUME Inv, Inv', Promised, stack # <<>>, Top.fn \in HoldFns \ {"abort"},
         NEW r \in Ids, r = Top.of, vb[r].st = "live", SameRequest(r),
         NEW new, After(new), \A f \in new : Knows(f)' /\ f.fn \notin {"notify", "unflipped"},
         \A q \in Ids : q # r => vb'[q] = vb[q],
         vb'[r].idled \in {0, 1}, flip_pixmap = r => vb'[r].idled = 0,
         vb'[r].pixmap = TRUE /\ (vb'[r].queued = TRUE \/ r = flip_pending)
           => vb'[r].idled = IF CopiedOnce(r)' THEN 1 ELSE 0,
         flip_pending' = flip_pending, flip_pixmap' = flip_pixmap, scanout' = scanout, gone' = gone
  PROVE  Promised'
<1> DEFINE M == {r}
<1>1. \A q : q \in M <=> q = r
  OBVIOUS
<1> HIDE DEF M
<1>2. \A q \in Ids : q \notin M => Steady(q)
  BY <1>1 DEF Steady, Alike
<1>3. Kept(r)'
  <2>1. Kept(r) /\ (Live(r)' <=> Live(r)) /\ Live(r)
    BY DEF Promised, SameRequest, Live
  <2> QED
    BY <2>1 DEF Kept, SameRequest
<1>4. \A g \in Elements(Rest) : g \in Elements(stack) /\ (g.fn \in HoldFns => g.of \notin M)
  BY <1>1, BelowTop, HoldApart
<1>5. Top.fn \notin {"abort", "clear", "notify"}
  BY DEF HoldFns, OwnerFns
<1>6. Doomed'
  <2>1. \A q \in Ids : Live(q)' => Live(q) /\ vb'[q].window = vb[q].window
    BY DEF SameRequest, Live
  <2> QED
    BY <1>5, <2>1, DoomedKept
<1>7. Displayed'
  <2>1. scanout' \in {Screen, flip_pixmap'}
    BY <1>5, NotFlipped
  <2> QED
    BY <2>1, DisplayedAfter
<1>8. \A f \in Elements(stack') : f \in Elements(Rest) \/ f \in new
  BY DEF After
<1>9. (\A q \in Ids : q \in M => Kept(q)') /\ (\A f \in new : Knows(f)') /\ gone \subseteq gone'
  BY <1>1, <1>3
<1> QED
  BY <1>2, <1>4, <1>6, <1>7, <1>8, <1>9, PromisedStep

\* A pixmap that is to be copied or flipped is not on display.
LEMMA OffDisplay ==
  ASSUME Promised, stack = <<>> \/ Top.fn # "notify", NEW r \in Ids, flip_pixmap # r
  PROVE  Display # r
<1>1. scanout \in {Screen, flip_pixmap}
  BY NotFlipped
<1>2. NoWin # r
  BY PresentAssumption
<1> QED
  BY <1>1, <1>2 DEF Display

LEMMA IdlesOne ==
  ASSUME Promised, stack # <<>>, Top.fn # "notify", NEW r \in Ids, SameRequest(r),
         vb[r].pixmap = TRUE, flip_pixmap # r, vb[r].idled = 0, vb'[r].idled = 1,
         \A q \in Ids : q # r => vb'[q] = vb[q],
         flip_pixmap' = flip_pixmap, scanout' = scanout, gone' = gone
  PROVE  Promise!Next
<1>1. Pixmap(r) = "held" /\ Pixmap(r)' = "idle"
  BY Views, ViewsAfter DEF Holding
<1>2. Display # r
  BY OffDisplay
<1>3. \A q \in Ids : SameStatus(q) /\ SameAsked(q) /\ (q # r => SamePixmap(q))
  BY DEF SameRequest, SameStatus, SameAsked, SamePixmap, Holding
<1> QED
  BY <1>1, <1>2, <1>3, Idles

LEMMA StuttersOne ==
  ASSUME NEW r \in Ids, SameRequest(r), vb'[r].idled = vb[r].idled, vb'[r].pixmap = vb[r].pixmap,
         \A q \in Ids : q # r => vb'[q] = vb[q],
         flip_pixmap' = flip_pixmap, scanout' = scanout, gone' = gone
  PROVE  UNCHANGED Promise!vars
<1>1. \A q \in Ids : SameStatus(q) /\ SameAsked(q) /\ SamePixmap(q)
  BY DEF SameRequest, SameStatus, SameAsked, SamePixmap, Holding
<1> QED
  BY <1>1, Stutters

\* The copy that is to be made.
LEMMA CopiesHeld ==
  ASSUME Inv, Punctual, Promised, Running("copy")
  PROVE  /\ stack # <<>> /\ Top.fn = "copy" /\ Top.fn \in HoldFns \ {"abort"} /\ Top.of \in Ids
         /\ vb[Top.of].st = "live" /\ vb[Top.of].pixmap = TRUE /\ vb[Top.of].queued = FALSE
         /\ Top.of # flip_pending /\ flip_pixmap # Top.of /\ vb[Top.of].idled = 0
         /\ vb[Top.of].reason # "other" => vb[Top.of].early # 0
<1>1. /\ stack # <<>> /\ Top.fn = "copy" /\ Top.of \in Ids /\ OnSchedule(Top.of)
      /\ vb[Top.of].st = "live" /\ vb[Top.of].pixmap = TRUE
      /\ vb[Top.of].reason # "other" => vb[Top.of].early # 0
  BY CopiesDue
<1>2. Knows(Top)
  BY <1>1, BelowTop DEF Promised
<1>3. flip_pixmap # Top.of
  BY <1>1 DEF OnSchedule
<1>4. vb[Top.of].queued = FALSE /\ Top.of # flip_pending
  BY <1>1, TopSound DEF Sound, OwnerFns
<1> QED
  BY <1>1, <1>2, <1>3, <1>4 DEF Knows, HoldFns, OwnerFns

LEMMA FulfilsCopyLater == ASSUME Inv, Inv', Punctual, Promised, CopyLater PROVE Promised' /\ Fulfils
<1>1. /\ stack # <<>> /\ Top.fn \in HoldFns \ {"abort"} /\ Top.of \in Ids
      /\ vb[Top.of].st = "live" /\ vb[Top.of].idled = 0
      /\ vb[Top.of].reason # "other" => vb[Top.of].early # 0
      /\ UNCHANGED <<flip_pending, flip_pixmap, scanout, gone>>
  BY CopiesHeld DEF CopyLater
<1>2. PICK r \in Ids : r = Top.of
  BY <1>1
<1>3. vb' = [vb EXCEPT ![r].queued = TRUE] /\ vb \in [Ids -> Vblank] /\ vb[r] \in Vblank
  BY <1>2 DEF CopyLater, BackToQueue, Inv, TypeOK
<1>4. /\ \A q \in Ids : q # r => vb'[q] = vb[q]
      /\ vb'[r] = [vb[r] EXCEPT !.queued = TRUE]
  BY <1>3
<1>5. SameRequest(r)
  BY <1>4, RequestFields
<1>6. /\ vb'[r].idled = vb[r].idled /\ vb'[r].reason = vb[r].reason
      /\ vb'[r].early = vb[r].early /\ vb'[r].pixmap = vb[r].pixmap
  <2> DEFINE v == vb[r]
  <2>1. v \in Vblank /\ vb'[r] = [v EXCEPT !.queued = TRUE]
    BY <1>3, <1>4
  <2> HIDE DEF v
  <2>2. vb'[r].idled = v.idled /\ vb'[r].reason = v.reason /\ vb'[r].early = v.early
        /\ vb'[r].pixmap = v.pixmap
    BY <2>1 DEF Vblank
  <2> QED
    BY <2>2 DEF v
<1> DEFINE E == {}
<1>7. After(E) /\ \A f \in E : Knows(f)' /\ f.fn \notin {"notify", "unflipped"}
  BY ReturnsAfter
<1> HIDE DEF E
<1>8. vb'[r].idled = 0 /\ ~CopiedOnce(r)'
  BY <1>1, <1>2, <1>6 DEF CopiedOnce
<1>9. Promised'
  BY <1>1, <1>2, <1>4, <1>5, <1>7, <1>8, ChangesOne
<1>10. UNCHANGED Promise!vars
  BY <1>1, <1>4, <1>5, <1>6, StuttersOne
<1> QED
  BY <1>9, <1>10 DEF Fulfils

\* present_execute_copy: the pixmap is idle.
LEMMA FulfilsCopy == ASSUME Inv, Inv', Punctual, Promised, Copy PROVE Promised' /\ Fulfils
<1>1. /\ stack # <<>> /\ Top.fn = "copy" /\ Top.fn \in HoldFns \ {"abort"} /\ Top.of \in Ids
      /\ vb[Top.of].st = "live" /\ vb[Top.of].pixmap = TRUE /\ vb[Top.of].queued = FALSE
      /\ Top.of # flip_pending /\ flip_pixmap # Top.of /\ vb[Top.of].idled = 0
      /\ UNCHANGED <<flip_pending, flip_pixmap, scanout, gone>>
  BY CopiesHeld DEF Copy
<1>2. PICK r \in Ids : r = Top.of
  BY <1>1
<1> DEFINE c == Call("post", r)
<1>3. /\ vb' = [vb EXCEPT ![r].idled = @ + 1] /\ Continue(<<c>>)
      /\ vb \in [Ids -> Vblank] /\ vb[r] \in Vblank
  BY <1>2 DEF Copy, Copied, Inv, TypeOK
<1>4. c \in Frame /\ c.fn = "post" /\ c.of = r
  BY CallTyped DEF VblankFns
<1> HIDE DEF c
<1>5. After({c})
  BY <1>1, <1>3, <1>4, OneCall
<1>6. /\ \A q \in Ids : q # r => vb'[q] = vb[q]
      /\ vb'[r] = [vb[r] EXCEPT !.idled = vb[r].idled + 1]
  BY <1>3
<1>7. SameRequest(r)
  BY <1>6, RequestFields
<1>8. vb'[r].idled = 1 /\ vb'[r].queued = FALSE
  <2> DEFINE v == vb[r]
  <2>1. v \in Vblank /\ vb'[r] = [v EXCEPT !.idled = v.idled + 1] /\ v.idled = 0 /\ v.queued = FALSE
    BY <1>1, <1>2, <1>3, <1>6
  <2> HIDE DEF v
  <2>2. vb'[r].idled = v.idled + 1 /\ vb'[r].queued = v.queued
    BY <2>1 DEF Vblank
  <2> QED
    BY <2>1, <2>2
<1>9. \A f \in {c} : Knows(f)' /\ f.fn \notin {"notify", "unflipped"}
  BY <1>4, <1>8 DEF Knows
<1>10. Promised'
  BY <1>1, <1>2, <1>5, <1>6, <1>7, <1>8, <1>9, ChangesOne
<1>11. Promise!Next
  BY <1>1, <1>2, <1>6, <1>7, <1>8, IdlesOne
<1> QED
  BY <1>10, <1>11 DEF Fulfils

LEMMA FulfilsCopyTearFree ==
  ASSUME Inv, Inv', Punctual, Promised, CopyTearFree PROVE Promised' /\ Fulfils
<1>1. /\ stack # <<>> /\ Top.fn = "copy" /\ Top.fn \in HoldFns \ {"abort"} /\ Top.of \in Ids
      /\ vb[Top.of].st = "live" /\ vb[Top.of].pixmap = TRUE /\ vb[Top.of].queued = FALSE
      /\ Top.of # flip_pending /\ flip_pixmap # Top.of /\ vb[Top.of].idled = 0
      /\ UNCHANGED <<flip_pending, flip_pixmap, scanout, gone>>
  BY CopiesHeld DEF CopyTearFree
<1>2. PICK r \in Ids : r = Top.of
  BY <1>1
<1> DEFINE v == vb[r]
           b == [v EXCEPT !.idled = v.idled + 1, !.early = 0, !.queued = TRUE]
<1>3. vb \in [Ids -> Vblank] /\ v \in Vblank /\ v.idled = 0 /\ v.reason # "other"
  BY <1>1, <1>2 DEF CopyTearFree, IsTearFree, Inv, TypeOK
<1>4. vb' = [[Copied(r) EXCEPT ![r].early = 0] EXCEPT ![r].queued = TRUE]
  BY <1>2 DEF CopyTearFree, BackToQueue
<1>5. Copied(r)[r] = [v EXCEPT !.idled = v.idled + 1] /\ Copied(r) \in [Ids -> Vblank]
      /\ \A q \in Ids : q # r => Copied(r)[q] = vb[q]
  <2>1. Copied(r) = [vb EXCEPT ![r] = [v EXCEPT !.idled = v.idled + 1]]
    BY DEF Copied
  <2>2. Copied(r) \in [Ids -> Vblank] /\ \A q \in Ids : q # r => Copied(r)[q] = vb[q]
    BY CopiedTimes
  <2> QED
    BY <1>3, <2>1, <2>2
<1>6. (\A q \in Ids : q # r => vb'[q] = vb[q]) /\ vb'[r] = b
  <2> DEFINE C == Copied(r)
  <2>1. /\ vb' = [[C EXCEPT ![r].early = 0] EXCEPT ![r].queued = TRUE] /\ C \in [Ids -> Vblank]
        /\ C[r] = [v EXCEPT !.idled = v.idled + 1] /\ \A q \in Ids : q # r => C[q] = vb[q]
    BY <1>4, <1>5
  <2> HIDE DEF C
  <2>2. vb'[r] = [C[r] EXCEPT !.early = 0, !.queued = TRUE] /\ \A q \in Ids : q # r => vb'[q] = C[q]
    BY <2>1
  <2> QED
    BY <2>1, <2>2
<1>7. SameRequest(r)
  BY <1>6, RequestFields
<1>8. vb'[r].idled = 1 /\ vb'[r].early = 0 /\ vb'[r].reason = vb[r].reason
  <2>1. v \in Vblank /\ vb'[r] = b /\ v.idled = 0
    BY <1>3, <1>6
  <2> HIDE DEF v
  <2>2. vb'[r].idled = v.idled + 1 /\ vb'[r].early = 0 /\ vb'[r].reason = v.reason
    BY <2>1 DEF Vblank
  <2> QED
    BY <2>1, <2>2 DEF v
<1>9. CopiedOnce(r)'
  BY <1>3, <1>8 DEF CopiedOnce
<1> DEFINE E == {}
<1>10. After(E) /\ \A f \in E : Knows(f)' /\ f.fn \notin {"notify", "unflipped"}
  BY ReturnsAfter
<1> HIDE DEF E, v, b
<1>11. Promised'
  BY <1>1, <1>2, <1>6, <1>7, <1>8, <1>9, <1>10, ChangesOne
<1>12. Promise!Next
  BY <1>1, <1>2, <1>6, <1>7, <1>8, IdlesOne
<1> QED
  BY <1>11, <1>12 DEF Fulfils

\* present_vblank_scrap
LEMMA FulfilsScrap == ASSUME Inv, Inv', Punctual, Promised, Scrap PROVE Promised' /\ Fulfils
<1>1. /\ stack # <<>> /\ Top.fn = "scrap" /\ Top.of \in Ids
      /\ UNCHANGED <<flip_pending, flip_pixmap, scanout, gone>>
  BY RunsFn DEF Scrap, HoldFns
<1>2. PICK r \in Ids : r = Top.of
  BY <1>1
<1>3. /\ vb \in [Ids -> Vblank] /\ vb[r] \in Vblank /\ OnSchedule(r) /\ vb[r].idled = 0
      /\ vb[r].queued = TRUE /\ vb[r].pixmap = TRUE /\ Placed(r) /\ vb[r].flip_ready \in BOOLEAN
  <2>1. Sound(Top) /\ Knows(Top)
    BY <1>1, TopSound, BelowTop DEF Promised
  <2> QED
    BY <1>1, <1>2, <2>1, FieldTypes DEF Sound, Knows, Punctual, Inv, TypeOK, Lists
<1>4. vb[r].st = "live" /\ flip_pixmap # r
  BY <1>3 DEF Placed, Waiting, Live, OnSchedule
<1>5. /\ \A q \in Ids : q # r => vb'[q] = vb[q]
      /\ vb'[r] = [vb[r] EXCEPT !.idled = vb[r].idled + 1, !.pixmap = FALSE, !.flip = FALSE]
  BY <1>2, <1>3 DEF Scrap
<1>6. SameRequest(r)
  BY <1>5, RequestFields
<1>7. vb'[r].idled = 1 /\ vb'[r].pixmap = FALSE
  <2> DEFINE v == vb[r]
  <2>1. /\ v \in Vblank /\ v.idled = 0
        /\ vb'[r] = [v EXCEPT !.idled = v.idled + 1, !.pixmap = FALSE, !.flip = FALSE]
    BY <1>3, <1>5
  <2> HIDE DEF v
  <2>2. vb'[r].idled = v.idled + 1 /\ vb'[r].pixmap = FALSE
    BY <2>1 DEF Vblank
  <2> QED
    BY <2>1, <2>2
<1>8. \E new : After(new) /\ \A f \in new : f.fn = "execute"
  <2> DEFINE c == Call("execute", r)
             E == {}
  <2>1. c \in Frame /\ c.fn = "execute" /\ Continue(If(vb[r].flip_ready, <<c>>))
    BY <1>2, CallTyped DEF VblankFns, Scrap
  <2> HIDE DEF c
  <2>2. After({c})
    BY <1>1, <2>1, OneCall
  <2> QED
    BY <2>1, <2>2
<1>9. PICK new : After(new) /\ \A f \in new : f.fn = "execute"
  BY <1>8
<1>10. \A f \in new : Knows(f)' /\ f.fn \notin {"notify", "unflipped"}
  BY <1>9, OthersKnow DEF HoldFns, OwnerFns
<1>11. Top.fn \in HoldFns \ {"abort"}
  BY <1>1 DEF HoldFns
<1>12. Promised'
  BY <1>1, <1>2, <1>4, <1>5, <1>6, <1>7, <1>9, <1>10, <1>11, ChangesOne
<1>13. Promise!Next
  BY <1>1, <1>2, <1>3, <1>4, <1>5, <1>6, <1>7, IdlesOne
<1> QED
  BY <1>12, <1>13 DEF Fulfils

LEMMA FulfilsCreate == ASSUME Inv, Inv', Punctual, Promised, Create PROVE Promised' /\ Fulfils
<1>1. /\ stack # <<>> /\ Top.fn = "create" /\ Top.fn \in HoldFns \ {"abort"} /\ Top.of \in Ids
      /\ UNCHANGED <<flip_pending, flip_pixmap, scanout, gone>>
  BY RunsFn DEF Create, HoldFns, OwnerFns
<1>2. PICK r \in Ids : r = Top.of
  BY <1>1
<1>3. PICK early : early = Earlier(vb[r])
  OBVIOUS
<1> DEFINE c == Call("execute", r)
<1>4. /\ vb' = [vb EXCEPT ![r].early = early, ![r].queued = TRUE]
      /\ Continue(<<>>) \/ Continue(<<c>>)
  BY <1>2, <1>3 DEF Create, QueueVblank
<1>5. /\ vb \in [Ids -> Vblank] /\ vb[r] \in Vblank /\ vb[r].st = "live" /\ vb[r].idled = 0
  <2>1. Sound(Top) /\ Knows(Top)
    BY <1>1, TopSound, BelowTop DEF Promised
  <2> QED
    BY <1>1, <1>2, <2>1 DEF Sound, OwnerFns, Live, Knows, Inv, TypeOK
<1>6. /\ \A q \in Ids : q # r => vb'[q] = vb[q]
      /\ vb'[r] = [vb[r] EXCEPT !.early = early, !.queued = TRUE]
  BY <1>4, <1>5
<1>7. SameRequest(r)
  BY <1>6, RequestFields
<1>8. /\ vb'[r].idled = vb[r].idled /\ vb'[r].pixmap = vb[r].pixmap
      /\ vb'[r].reason = vb[r].reason /\ vb'[r].early = early
  <2> DEFINE v == vb[r]
  <2>1. v \in Vblank /\ vb'[r] = [v EXCEPT !.early = early, !.queued = TRUE]
    BY <1>5, <1>6
  <2> HIDE DEF v
  <2>2. vb'[r].idled = v.idled /\ vb'[r].pixmap = v.pixmap /\ vb'[r].reason = v.reason
        /\ vb'[r].early = early
    BY <2>1 DEF Vblank
  <2> QED
    BY <2>2 DEF v
<1>9. ~CopiedOnce(r)'
  <2>1. vb[r].reason # "other" => early # 0
    BY <1>3 DEF Earlier
  <2> QED
    BY <1>8, <2>1 DEF CopiedOnce
<1>10. c \in Frame /\ c.fn = "execute"
  BY CallTyped DEF VblankFns
<1> HIDE DEF c
<1>11. After({c})
  BY <1>1, <1>4, <1>10, OneCall, Returned DEF After
<1>12. \A f \in {c} : Knows(f)' /\ f.fn \notin {"notify", "unflipped"}
  BY <1>10, OthersKnow DEF HoldFns, OwnerFns
<1>13. vb'[r].idled = 0
  BY <1>5, <1>8
<1>14. Promised'
  BY <1>1, <1>2, <1>5, <1>6, <1>7, <1>9, <1>11, <1>12, <1>13, ChangesOne
<1>15. UNCHANGED Promise!vars
  BY <1>1, <1>6, <1>7, <1>8, StuttersOne
<1> QED
  BY <1>14, <1>15 DEF Fulfils

LEMMA NewAsked ==
  ASSUME NEW a, NEW w, NEW target, NEW v \in NewVblank(a, w, target)
  PROVE  v.asked = w /\ v.done = Blank.done /\ v.idled = Blank.idled
<1>1. PICK why, p, f, s, e : v = NewRecord(w, p, target, f, s, why, e)
  BY NewIs
<1>2. v = [st |-> "live", window |-> w, asked |-> w, pixmap |-> p, target |-> target,
           early |-> 0, queued |-> FALSE, flip |-> f, sync |-> s, flip_ready |-> FALSE,
           abort |-> FALSE, reason |-> why, fence |-> e, callback |-> FALSE,
           done |-> 0, idled |-> 0]
  BY <1>1 DEF Blank, NewRecord
<1>3. v.asked = w /\ v.done = 0 /\ v.idled = 0
  BY <1>2
<1>4. Blank.done = 0 /\ Blank.idled = 0
  BY DEF Blank
<1> QED
  BY <1>3, <1>4

\* A new request is not gone, and those it makes pointless were not copied.
LEMMA FulfilsPresent == ASSUME Inv, Inv', Punctual, Promised, Present PROVE Promised' /\ Fulfils
<1>1. stack = <<>> /\ UNCHANGED <<flip_pending, flip_pixmap, scanout, gone>>
  BY DEF Present, AtEventLoop
<1>2. PICK a \in setup.attrs, w \in Windows, r \in Ids : \E target, v : Makes(a, w, r, target, v)
  BY <1>1, PresentMakes
<1>3. PICK target, v : Makes(a, w, r, target, v)
  BY <1>2
<1>4. /\ w \in Windows \ gone /\ vb[r].st = "new" /\ v \in NewVblank(a, w, target)
      /\ vb' = [vb EXCEPT ![r] = v] /\ vb \in [Ids -> Vblank]
  BY <1>3 DEF Makes, Inv, TypeOK
<1>5. /\ vb'[r].st = "live" /\ vb'[r].window = w /\ vb'[r].asked = w /\ vb'[r].queued = FALSE
      /\ vb'[r].done = 0 /\ vb'[r].idled = 0
      /\ \A q \in Ids : q # r => vb'[q] = vb[q]
  <2>1. PICK u \in NewVblank(a, w, target) : u = v
    BY <1>4
  <2>2. u.asked = w /\ u.done = 0 /\ u.idled = 0
    <3>1. Blank.done = 0 /\ Blank.idled = 0
      BY DEF Blank
    <3>2. u.asked = w /\ u.done = Blank.done /\ u.idled = Blank.idled
      BY NewAsked
    <3> QED
      BY <3>1, <3>2
  <2>3. u.st = "live" /\ u.window = w /\ u.queued = FALSE /\ u.abort = FALSE
    BY NewLive
  <2>4. vb'[r] = u /\ \A q \in Ids : q # r => vb'[q] = vb[q]
    BY <1>4, <2>1
  <2> QED
    BY <2>2, <2>3, <2>4
<1>6. /\ r # flip_pending /\ flip_pixmap # r /\ ~Live(r) /\ vb[r].queued \in BOOLEAN
      /\ vb[r].done = 0
  <2>1. Placed(r) /\ OnSchedule(r) /\ Kept(r) /\ vb[r].queued \in BOOLEAN
    BY FieldTypes DEF Inv, Lists, Punctual, Promised
  <2> QED
    BY <1>4, <2>1 DEF Placed, WithDriver, Live, OnSchedule, Kept
<1>7. ASSUME NEW f \in Elements(stack') PROVE Knows(f)' /\ f.fn \notin {"notify", "unflipped"}
  <2>1. CASE f = Call("create", r)
    <3>1. f.fn = "create" /\ f.of = r
      BY <2>1, CallTyped
    <3> QED
      BY <1>5, <3>1 DEF Knows
  <2>2. CASE f.fn = "scrap" /\ f.of \in Ids /\ Overwrites(f.of, w, target)
    <3>1. PICK q \in Ids : q = f.of
      BY <2>2
    <3>2. /\ vb[q].pixmap = TRUE /\ vb[q].queued = TRUE /\ ~CopiedOnce(q) /\ Placed(q) /\ Kept(q)
      <4>1. vb[q].pixmap \in BOOLEAN /\ vb[q].queued \in BOOLEAN /\ Placed(q) /\ Kept(q)
        BY FieldTypes DEF Inv, Lists, Promised
      <4>2. vb[q].pixmap /\ vb[q].queued /\ (IsTearFree(q) => vb[q].early # 0)
        BY <2>2, <3>1 DEF Overwrites
      <4> QED
        BY <4>1, <4>2 DEF IsTearFree, CopiedOnce
    <3>3. vb[q].idled = 0 /\ q # r
      BY <1>6, <3>2 DEF Kept, Placed, Waiting
    <3> QED
      BY <1>5, <2>2, <3>1, <3>3 DEF Knows
  <2> QED
    BY <1>3, <2>1, <2>2 DEF Makes
<1>8. Kept(r)'
  <2>1. Live(r)' /\ w # NoWin
    BY <1>4, <1>5, PresentAssumption DEF Live
  <2> QED
    BY <1>1, <1>5, <1>6, <2>1 DEF Kept
<1> DEFINE M == {r}
           old == {}
           new == Elements(stack')
<1>9. (\A q : q \in M <=> q = r) /\ (\A g : g \notin old) /\ gone \subseteq gone'
      /\ (\A f \in Elements(stack') : f \in old \/ f \in new) /\ (\A f \in new : Knows(f)')
  BY <1>1, <1>7
<1> HIDE DEF M, old, new
<1>10. \A q \in Ids : q \notin M => Steady(q)
  BY <1>1, <1>5, <1>9 DEF Steady, Alike
<1>11. Doomed'
  <2>1. \A q \in Ids : Live(q)' => vb'[q].window \notin gone \/ (Live(q) /\ vb'[q].window = vb[q].window)
    BY <1>4, <1>5 DEF Live
  <2> QED
    BY <1>1, <2>1, DoomedKept
<1>12. Displayed'
  <2>1. scanout' \in {Screen, flip_pixmap'}
    BY <1>1, NotFlipped
  <2> QED
    BY <1>7, <2>1, DisplayedKept
<1>13. \A q \in Ids : q \in M => Kept(q)'
  BY <1>8, <1>9
<1>14. Promised'
  BY <1>9, <1>10, <1>11, <1>12, <1>13, PromisedStep
<1>15. Promise!Next
  <2>1. Status(r) = "new" /\ Status(r)' = "asked"
    BY <1>4, <1>5, <1>6, Views, ViewsAfter
  <2>2. PICK p \in {"client", "held"} : Pixmap(r)' = p
    <3>1. Pixmap(r)' \in {"client", "held"}
      BY <1>5, ViewsAfter
    <3> QED
      BY <3>1
  <2>3. \A q \in Ids : q # r => SameStatus(q) /\ SamePixmap(q) /\ SameAsked(q)
    BY <1>1, <1>5 DEF SameStatus, SamePixmap, SameAsked, Holding
  <2> QED
    BY <1>1, <1>4, <1>5, <2>1, <2>2, <2>3, Asks
<1> QED
  BY <1>14, <1>15 DEF Fulfils

\* A vblank is freed.
LEMMA FreesOne ==
  ASSUME Inv, Inv', Promised, stack # <<>>, Top.fn \in {"post", "abort"}, Continue(<<>>),
         NEW r \in Ids, r = Top.of,
         \A q \in Ids : q # r => vb'[q] = vb[q],
         vb'[r].st = "freed", vb'[r].pixmap = FALSE, vb'[r].idled = vb[r].idled,
         vb'[r].done \in {0, 1},
         flip_pending' = flip_pending, flip_pixmap' = flip_pixmap, scanout' = scanout, gone' = gone
  PROVE  Promised'
<1>1. Elements(stack') = Elements(Rest)
  BY Runs, Returns DEF Continue, Rest
<1> DEFINE M == {r}
           E == {}
<1>2. (\A q : q \in M <=> q = r) /\ (\A f : f \notin E) /\ gone \subseteq gone'
  OBVIOUS
<1> HIDE DEF M, E
<1>3. \A q \in Ids : q \notin M => Steady(q)
  BY <1>2 DEF Steady, Alike
<1>4. \A q \in Ids : q \in M => Kept(q)'
  <2>1. Kept(r) /\ ~Live(r)'
    BY DEF Promised, Live
  <2>2. Kept(r)'
    BY <2>1 DEF Kept
  <2> QED
    BY <1>2, <2>2
<1>5. Top.fn \in HoldFns /\ Top.fn # "notify"
  BY DEF HoldFns, OwnerFns
<1>6. \A g \in Elements(Rest) : g \in Elements(stack) /\ (g.fn \in HoldFns => g.of \notin M)
  BY <1>2, <1>5, BelowTop, HoldApart
<1>7. Displayed'
  <2>1. scanout' \in {Screen, flip_pixmap'}
    BY <1>5, NotFlipped
  <2>2. After(E) /\ \A f \in E : f.fn \notin {"notify", "unflipped"}
    BY <1>1, <1>2 DEF After
  <2> QED
    BY <2>1, <2>2, DisplayedAfter
<1>8. Doomed'
  <2> SUFFICES ASSUME NEW q \in Ids, Live(q)', vb'[q].window \in gone'
               PROVE  \/ Call("abort", q) \in Elements(stack')
                      \/ q = flip_pending' /\ Call("clear", vb'[q].window) \in Elements(stack')
    BY DEF Doomed
  <2>1. q # r /\ vb'[q] = vb[q]
    BY DEF Live
  <2>2. Live(q) /\ vb[q].window \in gone
    BY <2>1 DEF Live
  <2>3. \/ Call("abort", q) \in Elements(stack)
        \/ q = flip_pending /\ Call("clear", vb[q].window) \in Elements(stack)
    BY <2>2 DEF Promised, Doomed
  <2>4. Call("abort", q) # Top /\ Call("clear", vb[q].window) # Top
    BY <2>1, CallTyped
  <2> QED
    BY <1>1, <2>1, <2>3, <2>4, BelowTop
<1>9. (\A f \in Elements(stack') : f \in Elements(Rest) \/ f \in E) /\ (\A f \in E : Knows(f)')
  BY <1>1, <1>2
<1> QED
  BY <1>2, <1>3, <1>4, <1>6, <1>7, <1>8, <1>9, PromisedStep

\* present_execute_post: complete, unless the window is gone.
LEMMA FulfilsPost == ASSUME Inv, Inv', Promised, Post PROVE Promised' /\ Fulfils
<1>1. /\ stack # <<>> /\ Top.fn = "post" /\ Top.of \in Ids /\ Continue(<<>>)
      /\ UNCHANGED <<flip_pending, flip_pixmap, scanout, gone>>
  BY RunsFn DEF Post, HoldFns, OwnerFns
<1>2. PICK r \in Ids : r = Top.of
  BY <1>1
<1>3. vb \in [Ids -> Vblank] /\ vb[r] \in Vblank /\ vb[r].pixmap \in BOOLEAN
  BY FieldTypes DEF Inv, TypeOK
<1>4. /\ Live(r) /\ Kept(r) /\ vb[r].done = 0 /\ vb[r].idled \in {0, 1}
      /\ vb[r].pixmap = TRUE => vb[r].idled = 1
  <2>1. Sound(Top) /\ Knows(Top) /\ Kept(r)
    BY <1>1, TopSound, BelowTop DEF Promised
  <2>2. Live(r)
    BY <1>1, <1>2, <2>1 DEF Sound, OwnerFns
  <2> QED
    BY <1>1, <1>2, <2>1, <2>2 DEF Knows, Kept
<1>5. /\ \A q \in Ids : q # r => vb'[q] = vb[q]
      /\ vb'[r] = Freed(Completed(vb[r]))
  BY <1>2, <1>3 DEF Post
<1>6. /\ vb'[r].st = "freed" /\ vb'[r].pixmap = FALSE /\ vb'[r].idled = vb[r].idled
      /\ vb'[r].asked = vb[r].asked /\ vb'[r].done = IF vb[r].window = NoWin THEN 0 ELSE 1
  <2> DEFINE c == Completed(vb[r])
  <2>1. /\ c \in Vblank /\ c.asked = vb[r].asked /\ c.idled = vb[r].idled
        /\ c.done = IF vb[r].window = NoWin THEN 0 ELSE 1
    BY <1>3, <1>4, CompletedTyped
  <2>2. vb'[r] = Freed(c)
    BY <1>5
  <2> HIDE DEF c
  <2>3. /\ Freed(c).st = "freed" /\ Freed(c).pixmap = FALSE /\ Freed(c).idled = c.idled
        /\ Freed(c).asked = c.asked /\ Freed(c).done = c.done
    BY <2>1, FreedTyped
  <2> QED
    BY <2>1, <2>2, <2>3
<1>7. Promised'
  <2>1. vb'[r].done \in {0, 1}
    BY <1>6
  <2> QED
    BY <1>1, <1>2, <1>5, <1>6, <2>1, FreesOne
<1>8. \A q \in Ids : /\ SameAsked(q) /\ Pixmap(q)' = Pixmap(q)
                     /\ SamePixmap(q) \/ q = r
                     /\ q # r => SameStatus(q)
  <2>1. \A q \in Ids : q # r => SameStatus(q) /\ SamePixmap(q) /\ SameAsked(q)
    BY <1>1, <1>5 DEF SameStatus, SamePixmap, SameAsked, Holding
  <2>2. Pixmap(r)' = Pixmap(r)
    <3>1. CASE vb[r].idled = 1
      BY <1>6, <3>1, Views, ViewsAfter
    <3>2. CASE vb[r].idled = 0
      <4>1. vb[r].pixmap = FALSE
        BY <1>3, <1>4, <3>2
      <4>2. SamePixmap(r)
        BY <1>1, <1>6, <4>1 DEF SamePixmap, Holding
      <4> QED
        BY <4>2, Unseen
    <3> QED
      BY <1>4, <3>1, <3>2
  <2>3. SameAsked(r)
    BY <1>6 DEF SameAsked
  <2> QED
    BY <2>1, <2>2, <2>3, Unseen
<1>9. Status(r) = "asked"
  BY <1>4, Views DEF Live
<1>10. CASE vb[r].window # NoWin
  <2>1. Status(r)' = "done"
    BY <1>6, <1>10, ViewsAfter
  <2>2. vb[r].asked \notin gone
    <3>1. vb[r].window \notin gone
      BY <1>1, <1>4, NoneGone
    <3> QED
      BY <1>4, <1>10, <3>1 DEF Kept
  <2>3. Promise!Next
    BY <1>1, <1>8, <1>9, <2>1, <2>2, Finishes
  <2> QED
    BY <1>7, <2>3 DEF Fulfils
<1>11. CASE vb[r].window = NoWin
  <2>1. Status(r)' = "dropped"
    BY <1>6, <1>11, ViewsAfter
  <2>2. vb[r].asked \in gone'
    BY <1>1, <1>4, <1>11 DEF Kept
  <2> DEFINE S == {r}
  <2>3. S \in SUBSET Ids /\ gone \subseteq gone' /\ \A q : q \in S <=> q = r
    BY <1>1
  <2> HIDE DEF S
  <2>4. \A q \in S : /\ Status(q) = "asked" /\ Status(q)' = "dropped" /\ vb[q].asked \in gone'
                     /\ Pixmap(q)' = Pixmap(q) \/ (q # Display /\ Pixmap(q)' = "client")
    BY <1>8, <1>9, <2>1, <2>2, <2>3
  <2>5. \A q \in Ids : SameAsked(q) /\ (q \notin S => SameStatus(q) /\ SamePixmap(q))
    BY <1>8, <2>3
  <2>6. Promise!Next
    BY <1>1, <2>3, <2>4, <2>5, Drops
  <2> QED
    BY <1>7, <2>6 DEF Fulfils
<1> QED
  BY <1>10, <1>11

\* present_scmd_abort_vblank
LEMMA FulfilsAbort == ASSUME Inv, Inv', Punctual, Promised, Abort PROVE Promised' /\ Fulfils
<1>1. /\ stack # <<>> /\ Top.fn = "abort" /\ Top.of \in Ids /\ Continue(<<>>)
      /\ UNCHANGED <<flip_pending, flip_pixmap, scanout, gone>>
  BY RunsFn DEF Abort, HoldFns
<1>2. PICK r \in Ids : r = Top.of
  BY <1>1
<1>3. vb \in [Ids -> Vblank] /\ vb[r] \in Vblank /\ vb[r].pixmap \in BOOLEAN
  BY FieldTypes DEF Inv, TypeOK
<1>4. /\ Live(r) /\ Kept(r) /\ vb[r].done = 0 /\ vb[r].idled \in {0, 1}
      /\ vb[r].asked \in gone /\ OnSchedule(r)
  <2>1. Sound(Top) /\ Knows(Top) /\ Kept(r) /\ Placed(r) /\ OnSchedule(r)
    BY <1>1, TopSound, BelowTop DEF Promised, Inv, Lists, Punctual
  <2>2. Live(r) /\ vb[r].window \in Windows
    BY <1>1, <1>2, <2>1 DEF Sound, Placed, Waiting
  <2>3. vb[r].window \in gone /\ vb[r].window # NoWin
    BY <1>1, <1>2, <2>1, <2>2, PresentAssumption DEF Knows
  <2> QED
    BY <2>1, <2>2, <2>3 DEF Kept
<1>5. /\ \A q \in Ids : q # r => vb'[q] = vb[q]
      /\ vb'[r] = Freed(vb[r])
  BY <1>2, <1>3 DEF Abort
<1>6. /\ vb'[r].st = "freed" /\ vb'[r].pixmap = FALSE /\ vb'[r].idled = vb[r].idled
      /\ vb'[r].asked = vb[r].asked /\ vb'[r].done = 0
  <2>1. /\ Freed(vb[r]).st = "freed" /\ Freed(vb[r]).pixmap = FALSE
        /\ Freed(vb[r]).idled = vb[r].idled /\ Freed(vb[r]).asked = vb[r].asked
        /\ Freed(vb[r]).done = vb[r].done
    BY <1>3, FreedTyped
  <2> QED
    BY <1>4, <1>5, <2>1
<1>7. Promised'
  <2>1. vb'[r].done \in {0, 1}
    BY <1>6
  <2> QED
    BY <1>1, <1>2, <1>5, <1>6, <2>1, FreesOne
<1>8. \A q \in Ids : q # r => SameStatus(q) /\ SamePixmap(q) /\ SameAsked(q)
  BY <1>1, <1>5 DEF SameStatus, SamePixmap, SameAsked, Holding
<1>9. Status(r) = "asked" /\ Status(r)' = "dropped" /\ SameAsked(r)
  BY <1>4, <1>6, Views, ViewsAfter DEF Live, SameAsked
<1>10. Pixmap(r)' = Pixmap(r) \/ (r # Display /\ Pixmap(r)' = "client")
  <2>1. CASE vb[r].idled = 1
    BY <1>6, <2>1, Views, ViewsAfter
  <2>2. CASE vb[r].idled = 0 /\ flip_pixmap = r
    <3>1. vb[r].pixmap = FALSE
      BY <1>4, <2>2 DEF OnSchedule
    <3>2. SamePixmap(r)
      BY <1>1, <1>6, <3>1 DEF SamePixmap, Holding
    <3> QED
      BY <3>2, Unseen
  <2>3. CASE vb[r].idled = 0 /\ flip_pixmap # r
    <3>1. ~Holding(r)'
      BY <1>1, <1>6, <2>3 DEF Holding
    <3>2. Pixmap(r)' = "client"
      BY <1>6, <2>3, <3>1, ViewsAfter
    <3>3. Display # r
      BY <1>1, <2>3, OffDisplay
    <3> QED
      BY <3>2, <3>3
  <2> QED
    BY <1>4, <2>1, <2>2, <2>3
<1> DEFINE S == {r}
<1>11. S \in SUBSET Ids /\ gone \subseteq gone' /\ \A q : q \in S <=> q = r
  BY <1>1
<1> HIDE DEF S
<1>12. \A q \in S : /\ Status(q) = "asked" /\ Status(q)' = "dropped" /\ vb[q].asked \in gone'
                    /\ Pixmap(q)' = Pixmap(q) \/ (q # Display /\ Pixmap(q)' = "client")
  BY <1>1, <1>4, <1>9, <1>10, <1>11
<1>13. \A q \in Ids : SameAsked(q) /\ (q \notin S => SameStatus(q) /\ SamePixmap(q))
  BY <1>8, <1>9, <1>11
<1>14. Promise!Next
  BY <1>1, <1>11, <1>12, <1>13, Drops
<1> QED
  BY <1>7, <1>14 DEF Fulfils

\* The window of the pending flip is no more.
LEMMA ClearFields ==
  ASSUME Inv, ClearWindowFlip, Top.of \in Windows, NEW q \in Ids
  PROVE  /\ vb'[q].done = vb[q].done /\ vb'[q].asked = vb[q].asked
         /\ \/ vb'[q].window = vb[q].window
            \/ vb'[q].window = NoWin /\ vb[q].window = Top.of
         /\ q = flip_pending /\ vb[q].window = Top.of => vb'[q].window = NoWin
<1>1. PICK w \in Windows : w = Top.of
  OBVIOUS
<1>2. CASE ~Aborts(w)
  <2>1. vb' = vb
    BY <1>1, <1>2 DEF ClearWindowFlip
  <2>2. ~(q = flip_pending /\ vb[q].window = w)
    BY <1>2, IdsNat DEF Aborts
  <2> QED
    BY <1>1, <2>1, <2>2
<1>3. CASE Aborts(w)
  <2>1. PICK p \in Ids : p = flip_pending
    BY <1>3 DEF Aborts, Inv, TypeOK
  <2>2. vb \in [Ids -> Vblank] /\ vb[p].window = w
    BY <1>3, <2>1 DEF Aborts, Inv, TypeOK
  <2>3. vb' = [vb EXCEPT ![p].abort = TRUE, ![p].window = NoWin]
    BY <1>1, <1>3, <2>1 DEF ClearWindowFlip
  <2>4. vb'[q] = IF q = p THEN [vb[q] EXCEPT !.abort = TRUE, !.window = NoWin] ELSE vb[q]
    BY <2>2, <2>3
  <2> DEFINE v == vb[q]
  <2>5. v \in Vblank
    BY <2>2
  <2> HIDE DEF v
  <2>6. LET a == [v EXCEPT !.abort = TRUE, !.window = NoWin]
        IN a.done = v.done /\ a.asked = v.asked /\ a.window = NoWin
    BY <2>5 DEF Vblank
  <2>7. CASE q = p
    <3>1. vb'[q].done = v.done /\ vb'[q].asked = v.asked /\ vb'[q].window = NoWin
      BY <2>4, <2>6, <2>7 DEF v
    <3> QED
      BY <1>1, <2>2, <2>7, <3>1 DEF v
  <2>8. CASE q # p
    BY <2>1, <2>4, <2>8
  <2> QED
    BY <2>7, <2>8
<1> QED
  BY <1>2, <1>3

\* present_scmd_clear_window_flip: the flip of a window that is gone is with no window.
LEMMA FulfilsClear == ASSUME Inv, Inv', Promised, ClearWindowFlip PROVE Promised' /\ Fulfils
<1>1. /\ stack # <<>> /\ Top.fn = "clear" /\ Top.of \in Windows
      /\ UNCHANGED <<flip_pending, flip_pixmap, scanout, gone, events, flips, fakes, flip_queue>>
  BY RunsFn DEF ClearWindowFlip, WindowFns
<1>2. Elements(stack) = {Top} /\ Elements(stack') = {}
  <2>1. \A g \in Elements(Rest) : Over(Top, g)
    BY <1>1, Runs
  <2>2. Elements(Rest) = {}
    BY <1>1, <2>1 DEF Over
  <2>3. Elements(stack') = Elements(Rest)
    BY <1>1, Runs, Returns DEF ClearWindowFlip, Continue, Rest
  <2> QED
    BY <1>1, <2>2, <2>3, Runs
<1>3. PICK w \in Windows : w = Top.of
  BY <1>1
<1>4. w \in gone /\ w # NoWin /\ gone \subseteq Windows
  <2>1. Knows(Top)
    BY <1>2 DEF Promised
  <2> QED
    BY <1>1, <1>3, <2>1, PresentAssumption DEF Knows, Inv, TypeOK
<1>5. \A q \in Ids : SameTimes(q) /\ vb'[q].idled = vb[q].idled
  <2>1. \/ vb' = vb
        \/ /\ flip_pending # NoId
           /\ vb' = [vb EXCEPT ![flip_pending].abort = TRUE, ![flip_pending].window = NoWin]
    BY DEF ClearWindowFlip, Aborts
  <2> QED
    BY <1>1, <2>1, AbortCalm
<1>6. \A q \in Ids :
        /\ vb'[q].done = vb[q].done /\ vb'[q].asked = vb[q].asked
        /\ vb'[q].window = vb[q].window \/ (vb'[q].window = NoWin /\ vb[q].window = w)
        /\ q = flip_pending /\ vb[q].window = w => vb'[q].window = NoWin
  BY <1>1, <1>3, ClearFields
<1>7. Doomed'
  <2> SUFFICES ASSUME NEW q \in Ids, Live(q)', vb'[q].window \in gone' PROVE FALSE
    BY DEF Doomed
  <2>1. vb'[q].window \in gone /\ vb'[q].window # NoWin
    BY <1>1, <1>4, PresentAssumption
  <2>2. Live(q) /\ vb[q].window \in gone /\ vb'[q].window = vb[q].window
    BY <1>5, <1>6, <2>1 DEF Live, SameTimes
  <2>3. \/ Call("abort", q) = Top
        \/ q = flip_pending /\ Call("clear", vb[q].window) = Top
    BY <1>2, <2>2 DEF Promised, Doomed
  <2>4. q = flip_pending /\ vb[q].window = w
    BY <1>1, <1>3, <2>3, CallTyped
  <2> QED
    BY <1>6, <2>1, <2>4
<1>8. \A q \in Ids : Kept(q)'
  <2> TAKE q \in Ids
  <2>1. /\ Kept(q) /\ SameTimes(q) /\ vb'[q].idled = vb[q].idled
        /\ vb'[q].done = vb[q].done /\ vb'[q].asked = vb[q].asked
        /\ vb'[q].window = vb[q].window \/ (vb'[q].window = NoWin /\ vb[q].window = w)
    BY <1>5, <1>6 DEF Promised
  <2>2. Live(q)' <=> Live(q)
    BY <2>1 DEF SameTimes, Live
  <2>3. CopiedOnce(q)' <=> CopiedOnce(q)
    BY <2>1 DEF SameTimes, CopiedOnce
  <2>4. /\ vb'[q].idled \in {0, 1} /\ vb'[q].done \in {0, 1}
        /\ vb'[q].st = "new" => vb'[q].idled = 0 /\ vb'[q].done = 0
        /\ vb'[q].pixmap = TRUE => Live(q)'
        /\ flip_pixmap' = q => vb'[q].idled = 0
    BY <1>1, <2>1, <2>2 DEF Kept, SameTimes
  <2>5. Live(q)' => /\ vb'[q].done = 0
                    /\ vb'[q].window # NoWin => vb'[q].window = vb'[q].asked
                    /\ vb'[q].window = NoWin => vb'[q].asked \in gone'
    BY <1>1, <1>4, <2>1, <2>2 DEF Kept
  <2>6. vb'[q].pixmap = TRUE /\ (vb'[q].queued = TRUE \/ q = flip_pending')
          => vb'[q].idled = IF CopiedOnce(q)' THEN 1 ELSE 0
    BY <1>1, <2>1, <2>3 DEF Kept, SameTimes
  <2> QED
    BY <2>4, <2>5, <2>6 DEF Kept
<1>9. Displayed'
  <2>1. scanout' \in {Screen, flip_pixmap'}
    BY <1>1, NotFlipped
  <2> QED
    BY <1>2, <2>1, DisplayedKept
<1>10. Promised'
  BY <1>2, <1>7, <1>8, <1>9 DEF Promised
<1>11. UNCHANGED Promise!vars
  <2>1. \A q \in Ids : SameStatus(q) /\ SamePixmap(q) /\ SameAsked(q)
    BY <1>1, <1>5, <1>6 DEF SameTimes, SameStatus, SamePixmap, SameAsked, Holding
  <2> QED
    BY <1>1, <2>1, Stutters
<1> QED
  BY <1>10, <1>11 DEF Fulfils

\* present_destroy_window: whatever is for the window will be dropped.
LEMMA FulfilsDestroy == ASSUME Inv, Inv', Promised, DestroyWindow PROVE Promised' /\ Fulfils
<1>1. /\ stack = <<>> /\ UNCHANGED <<flip_pending, flip_pixmap, scanout>> /\ vb' = vb
  BY DEF DestroyWindow, AtEventLoop
<1>2. PICK w \in Windows : Destroys(w)
  BY DestroyCalls
<1>3. gone' = gone \cup {w} /\ gone \subseteq gone'
  BY <1>2 DEF Destroys
<1>4. ASSUME NEW f \in Elements(stack')
      PROVE  Knows(f)' /\ f.fn \notin {"notify", "unflipped"}
  <2>1. CASE f = Call("clear", w)
    <3>1. f.fn = "clear" /\ f.of = w
      BY <2>1, CallTyped
    <3> QED
      BY <1>3, <3>1 DEF Knows
  <2>2. CASE f.fn = "abort" /\ f.of \in Ids /\ Contains(window_list[w], f.of)
    <3>1. PICK q \in Ids : q = f.of
      BY <2>2
    <3>2. vb[q].window = w
      BY <2>2, <3>1 DEF Inv, Lists, Placed
    <3>3. vb'[q].window \in gone'
      BY <1>1, <1>3, <3>2
    <3> QED
      BY <2>2, <3>1, <3>3 DEF Knows
  <2> QED
    BY <1>2, <2>1, <2>2 DEF Destroys
<1>5. Doomed'
  <2> SUFFICES ASSUME NEW q \in Ids, Live(q)', vb'[q].window \in gone'
               PROVE  \/ Call("abort", q) \in Elements(stack')
                      \/ q = flip_pending' /\ Call("clear", vb'[q].window) \in Elements(stack')
    BY DEF Doomed
  <2>1. Live(q) /\ vb'[q].window = vb[q].window
    BY <1>1 DEF Live
  <2>2. vb[q].window = w
    BY <1>1, <1>3, <2>1, NoneGone
  <2>3. Placed(q) /\ ~Owned(q)
    BY <1>1, NoCalls DEF Inv, Lists, Owned
  <2>4. CASE q = flip_pending
    BY <1>1, <1>2, <2>1, <2>2, <2>4 DEF Destroys
  <2>5. CASE vb[q].queued = TRUE
    <3>1. Contains(window_list[w], q)
      BY <2>2, <2>3, <2>5 DEF Placed, Waiting
    <3> QED
      BY <1>2, <3>1 DEF Destroys
  <2> QED
    BY <2>1, <2>3, <2>4, <2>5 DEF Placed
<1>6. \A q \in Ids : Kept(q)'
  BY <1>1, <1>3, AllSteady, SteadyKeeps DEF Promised
<1>7. Displayed'
  <2>1. scanout' \in {Screen, flip_pixmap'}
    BY <1>1, NotFlipped
  <2> QED
    BY <1>4, <2>1, DisplayedKept
<1>8. Promised'
  BY <1>4, <1>5, <1>6, <1>7 DEF Promised
<1> DEFINE S == {}
<1>9. S \in SUBSET Ids /\ \A q : q \notin S
  OBVIOUS
<1> HIDE DEF S
<1>10. \A q \in Ids : SameStatus(q) /\ SamePixmap(q) /\ SameAsked(q)
  BY <1>1 DEF SameStatus, SamePixmap, SameAsked, Holding
<1>11. Promise!Next
  BY <1>1, <1>3, <1>9, <1>10, Drops
<1> QED
  BY <1>8, <1>11 DEF Fulfils

\* present_unflip: the driver shows the screen's pixmap, now or later.
LEMMA FulfilsStartUnflip == ASSUME Inv, Inv', Promised, StartUnflip PROVE Promised' /\ Fulfils
<1>1. /\ stack # <<>> /\ Top.fn = "unflip"
      /\ vb' = vb /\ UNCHANGED <<flip_pending, flip_pixmap, gone>>
  BY RunsFn DEF StartUnflip
<1>2. \A q \in Ids : Steady(q)
  BY <1>1, AllSteady
<1>3. CASE Continue(<<>>) /\ scanout' = scanout
  <2> DEFINE E == {}
  <2>1. After(E) /\ \A f : f \notin E
    BY <1>1, <1>3, Returned
  <2> HIDE DEF E
  <2>2. ~Flipped
    BY <1>1 DEF Flipped, Running
  <2> QED
    BY <1>1, <1>2, <1>3, <2>1, <2>2, SteadyAfter
<1>4. CASE Continue(<<Call("unflipped", NoId)>>) /\ scanout' = Screen
  <2> DEFINE c == Call("unflipped", NoId)
  <2>1. c \in Frame /\ c.fn = "unflipped" /\ Continue(<<c>>)
    BY <1>4, OtherCalls, CallTyped
  <2> HIDE DEF c
  <2> DEFINE M == {}
             new == {c}
  <2>2. After(new)
    BY <1>1, <2>1, OneCall
  <2>3. (\A f \in new : f.fn = "unflipped") /\ (\A q : q \notin M)
    BY <2>1
  <2> HIDE DEF M, new
  <2>4. \A f \in new : Knows(f)'
    BY <2>3 DEF Knows
  <2>5. Doomed'
    BY <1>1, <1>2, SteadyStays
  <2>6. Displayed'
    <3>1. \A f \in Elements(stack') : f.fn # "notify"
      BY <1>1, <2>2, <2>3, BelowTop DEF After, TopFns
    <3>2. stack' # <<>> => Head(stack') \in Elements(stack')
      <4>1. stack' \in Seq(Frame)
        BY DEF Inv, TypeOK
      <4> QED
        BY <4>1, Innermost
    <3>3. ~Flipped'
      BY <3>1, <3>2 DEF Flipped, Running, Top
    <3> QED
      BY <1>4, <3>3 DEF Displayed
  <2>7. \A g \in Elements(Rest) : g \in Elements(stack) /\ (g.fn \in HoldFns => g.of \notin M)
    BY <1>1, <2>3, BelowTop
  <2>8. \A f \in Elements(stack') : f \in Elements(Rest) \/ f \in new
    BY <2>2 DEF After
  <2>9. Promised'
    BY <1>1, <1>2, <2>3, <2>4, <2>5, <2>6, <2>7, <2>8, PromisedStep
  <2>10. Promise!Next
    <3>1. \A q \in Ids : SameStatus(q) /\ SamePixmap(q) /\ SameAsked(q)
      BY <1>1 DEF SameStatus, SamePixmap, SameAsked, Holding
    <3> QED
      BY <1>1, <1>4, <3>1, ShowsScreen
  <2> QED
    BY <2>9, <2>10 DEF Fulfils
<1> QED
  BY <1>3, <1>4 DEF StartUnflip

\* The pixmap of the current flip is idle: its request gets that event, and no other.
LEMMA IdleRequest ==
  ASSUME TypeOK, NEW q \in Ids
  PROVE  /\ IdleFlip(vb)[q] \in Vblank
         /\ q # flip_pixmap => IdleFlip(vb)[q] = vb[q]
         /\ q = flip_pixmap => /\ IdleFlip(vb)[q].idled = vb[q].idled + 1
                               /\ IdleFlip(vb)[q].done = vb[q].done
                               /\ IdleFlip(vb)[q].asked = vb[q].asked
<1>1. /\ vb[q] \in Vblank /\ IdleFlip(vb)[q] \in Vblank
      /\ IdleFlip(vb)[q] = IF q = flip_pixmap /\ q # NoId
                           THEN [vb[q] EXCEPT !.idled = @ + 1] ELSE vb[q]
  BY IdleFlipSame DEF TypeOK
<1> DEFINE v == vb[q]
<1>2. v \in Vblank
  BY <1>1
<1> HIDE DEF v
<1>3. LET a == [v EXCEPT !.idled = @ + 1]
      IN a.idled = v.idled + 1 /\ a.done = v.done /\ a.asked = v.asked
  BY <1>2 DEF Vblank
<1>4. q # NoId
  BY IdsNat
<1> QED
  BY <1>1, <1>3, <1>4 DEF v

\* No call relies on the pixmap of the current flip: its request has none of its own.
LEMMA IdleKnows ==
  ASSUME Inv, Punctual, Promised, stack # <<>>, Top.fn \in {"notify", "unflipped"},
         NEW new, After(new), \A f \in new : Knows(f)', gone' = gone,
         \A q \in Ids : vb'[q].idled = vb[q].idled \/ q = flip_pixmap,
         \A q \in Ids : vb'[q].pixmap = TRUE => vb[q].pixmap = TRUE
  PROVE  \A f \in Elements(stack') : Knows(f)'
<1> SUFFICES ASSUME NEW f \in Elements(Rest) PROVE Knows(f)'
  BY DEF After
<1>1. Knows(f) /\ Sound(f) /\ Over(Top, f) /\ f \in Frame
  BY Runs, BelowTop DEF Promised
<1>2. f.fn \notin {"create", "scrap", "abort", "clear", "flip_over"}
  BY <1>1 DEF Over, TopFns
<1>3. CASE f.fn \in {"copy", "post"}
  <2>1. PICK q \in Ids : q = f.of
    BY <1>1, <1>3, FrameTyped DEF HoldFns, OwnerFns
  <2>2. OnSchedule(q)
    BY DEF Punctual
  <2>3. vb[q].pixmap = TRUE => vb'[q].idled = vb[q].idled
    BY <2>2 DEF OnSchedule
  <2>4. CASE f.fn = "copy"
    <3>1. vb[q].pixmap = TRUE /\ vb[q].idled = 0
      BY <1>1, <2>1, <2>4 DEF Sound, Knows
    <3>2. vb'[q].idled = 0
      BY <2>3, <3>1
    <3> QED
      BY <2>1, <2>4, <3>2 DEF Knows
  <2>5. CASE f.fn = "post"
    <3>1. vb'[q].pixmap = TRUE => vb'[q].idled = 1
      BY <1>1, <2>1, <2>3, <2>5 DEF Knows
    <3> QED
      BY <2>1, <2>5, <3>1 DEF Knows
  <2> QED
    BY <1>3, <2>4, <2>5
<1>4. CASE f.fn \notin {"copy", "post"}
  BY <1>2, <1>4 DEF Knows
<1> QED
  BY <1>3, <1>4

\* A current flip that ends leaves its request as it should be.
LEMMA IdleKept ==
  ASSUME NEW p, Kept(p), OnSchedule(p), flip_pixmap = p, flip_pixmap' # p, gone' = gone,
         vb'[p].idled = vb[p].idled + 1, vb'[p].done = vb[p].done, vb'[p].asked = vb[p].asked,
         vb'[p].st = vb[p].st, vb'[p].window = vb[p].window, vb'[p].pixmap = vb[p].pixmap
  PROVE  vb[p].idled = 0 /\ vb'[p].idled = 1 /\ Kept(p)'
<1>1. vb[p].idled = 0 /\ vb[p].pixmap = FALSE /\ vb[p].st # "new"
  BY DEF Kept, OnSchedule
<1>2. vb'[p].idled = 1
  BY <1>1
<1>3. Live(p)' <=> Live(p)
  BY DEF Live
<1> QED
  BY <1>1, <1>2, <1>3 DEF Kept

\* The unflip is done: the screen's pixmap is on display, that of the last flip idle.
LEMMA FulfilsUnflipNotify ==
  ASSUME Inv, Inv', Punctual, Promised, UnflipNotify
  PROVE  Promised' /\ Fulfils
<1>1. /\ stack # <<>> /\ Top.fn = "unflipped" /\ After({Call("try_ready", NoId)})
      /\ flip_pixmap' = NoId /\ UNCHANGED <<flip_pending, scanout, gone>>
      /\ vb' = IdleFlip(vb)
  BY AfterUnflip DEF UnflipNotify
<1>2. PICK p \in Ids : p = flip_pixmap
  <2>1. unflip = TRUE
    BY <1>1, TopSound DEF Sound
  <2> QED
    BY <2>1 DEF Inv, Flipping, TypeOK
<1>3. scanout = Screen /\ p # NoId
  BY <1>1, IdsNat DEF Promised, Displayed, Running
<1>4. /\ \A q \in Ids : q # p => vb'[q] = vb[q]
      /\ vb'[p].idled = vb[p].idled + 1 /\ vb'[p].done = vb[p].done /\ vb'[p].asked = vb[p].asked
  BY <1>1, <1>2, IdleRequest DEF Inv
<1>5. vb'[p].st = vb[p].st /\ vb'[p].window = vb[p].window /\ vb'[p].pixmap = vb[p].pixmap
  BY <1>1, <1>2, IdleFlipSame DEF Inv
<1>6. vb[p].idled = 0 /\ vb'[p].idled = 1 /\ Kept(p)'
  <2>1. Kept(p) /\ OnSchedule(p)
    BY DEF Promised, Punctual
  <2> QED
    BY <1>1, <1>2, <1>3, <1>4, <1>5, <2>1, IdleKept
<1> DEFINE c == Call("try_ready", NoId)
           S == {c}
<1>7. After(S) /\ \A f \in S : f.fn = "try_ready"
  BY <1>1, CallTyped
<1> HIDE DEF c, S
<1>8. \A f \in S : Knows(f)'
  BY <1>7 DEF Knows
<1>9. \A q \in Ids : /\ vb'[q].idled = vb[q].idled \/ q = flip_pixmap
                     /\ vb'[q].pixmap = TRUE => vb[q].pixmap = TRUE
                     /\ vb'[q].st = vb[q].st /\ vb'[q].window = vb[q].window
                     /\ vb'[q].done = vb[q].done /\ vb'[q].asked = vb[q].asked
                     /\ vb'[q].pixmap = vb[q].pixmap
  BY <1>2, <1>4, <1>5
<1> DEFINE M == {p}
           old == {}
           new == Elements(stack')
<1>10. (\A q : q \in M <=> q = p) /\ (\A g : g \notin old) /\ gone \subseteq gone'
       /\ \A f \in Elements(stack') : f \in old \/ f \in new
  BY <1>1
<1>11. \A f \in new : Knows(f)'
  BY <1>1, <1>7, <1>8, <1>9, IdleKnows
<1> HIDE DEF M, old, new
<1>12. \A q \in Ids : q \notin M => Steady(q)
  BY <1>1, <1>3, <1>4, <1>10, IdsNat DEF Steady, Alike
<1>13. \A q \in Ids : q \in M => Kept(q)'
  BY <1>6, <1>10
<1>14. Doomed'
  <2>1. \A q \in Ids : Live(q)' => Live(q) /\ vb'[q].window = vb[q].window
    BY <1>9 DEF Live
  <2> QED
    BY <1>1, <2>1, DoomedKept
<1>15. Displayed'
  <2>1. scanout' \in {Screen, flip_pixmap'}
    BY <1>1, <1>3
  <2> QED
    BY <1>1, <1>7, <2>1, DisplayedAfter
<1>16. Promised'
  BY <1>10, <1>11, <1>12, <1>13, <1>14, <1>15, PromisedStep
<1>17. Promise!Next
  <2>1. Pixmap(p) = "held" /\ Pixmap(p)' = "idle"
    BY <1>2, <1>6, Views, ViewsAfter DEF Holding
  <2>2. Display # p
    BY <1>3, PresentAssumption DEF Display
  <2>3. \A q \in Ids : SameStatus(q) /\ SameAsked(q) /\ (q # p => SamePixmap(q))
    BY <1>1, <1>2, <1>4, <1>9, IdsNat DEF SameStatus, SameAsked, SamePixmap, Holding
  <2> QED
    BY <1>1, <2>1, <2>2, <2>3, Idles
<1> QED
  BY <1>16, <1>17 DEF Fulfils

\* The flip that ended is the pending one, whose pixmap is now on display.
LEMMA EndsPending ==
  ASSUME Inv, Punctual, Promised, FlipNotify
  PROVE  \E r \in Ids :
           /\ r = Top.of /\ r = flip_pending /\ scanout = r /\ flip_pixmap # r
           /\ vb[r].st = "live" /\ vb[r].pixmap = TRUE /\ vb[r].idled = 0 /\ Kept(r)
<1>1. stack # <<>> /\ Top.fn = "notify" /\ Top.of \in Ids
  BY AfterFlipNotify
<1>2. PICK r \in Ids : r = Top.of
  BY <1>1
<1>3. r = flip_pending
  <2>1. Contains(flip_queue, r) /\ ~vb[r].queued
    BY <1>2 DEF FlipNotify
  <2>2. Placed(r) /\ vb[r].queued \in {TRUE, FALSE}
    BY FieldTypes DEF Inv, Lists
  <2> QED
    BY <2>1, <2>2 DEF Placed
<1>4. Placed(r) /\ Kept(r) /\ OnSchedule(r)
  BY DEF Inv, Lists, Promised, Punctual
<1>5. vb[r].st = "live" /\ vb[r].pixmap = TRUE /\ vb[r].flip = TRUE
  BY <1>3, <1>4 DEF Placed, WithDriver, Live
<1>6. vb[r].reason = "other"
  BY <1>4, <1>5 DEF OnSchedule, Shaped
<1>7. vb[r].idled = 0
  BY <1>3, <1>4, <1>5, <1>6 DEF Kept, CopiedOnce
<1>8. flip_pixmap # r
  BY <1>4, <1>5 DEF OnSchedule
<1>9. scanout = r
  BY <1>1, <1>2, <1>3 DEF Promised, Displayed, Flipped, Running
<1> QED
  BY <1>2, <1>3, <1>4, <1>5, <1>7, <1>8, <1>9

\* What present_flip_notify changes of the requests.
LEMMA FlipNotifyFields ==
  ASSUME Inv, FlipNotify, NEW r \in Ids, r = Top.of, flip_pixmap # r
  PROVE  /\ \A q \in Ids : q # r => vb'[q] = IdleFlip(vb)[q]
         /\ vb'[r].st = vb[r].st /\ vb'[r].window = vb[r].window /\ vb'[r].asked = vb[r].asked
         /\ vb'[r].done = vb[r].done /\ vb'[r].idled = vb[r].idled /\ vb'[r].pixmap = FALSE
<1>1. vb' = [IdleFlip(vb) EXCEPT ![r].pixmap = FALSE]
  BY DEF FlipNotify
<1>2. IdleFlip(vb) \in [Ids -> Vblank] /\ IdleFlip(vb)[r] = vb[r]
  BY IdleRequest, IdleFlipTyped DEF Inv
<1> DEFINE v == vb[r]
<1>3. v \in Vblank /\ vb'[r] = [v EXCEPT !.pixmap = FALSE]
  BY <1>1, <1>2
<1> HIDE DEF v
<1>4. LET a == [v EXCEPT !.pixmap = FALSE]
      IN /\ a.st = v.st /\ a.window = v.window /\ a.asked = v.asked
         /\ a.done = v.done /\ a.idled = v.idled /\ a.pixmap = FALSE
  BY <1>3 DEF Vblank
<1>5. /\ vb'[r].st = v.st /\ vb'[r].window = v.window /\ vb'[r].asked = v.asked
      /\ vb'[r].done = v.done /\ vb'[r].idled = v.idled /\ vb'[r].pixmap = FALSE
  BY <1>3, <1>4
<1>6. \A q \in Ids : q # r => vb'[q] = IdleFlip(vb)[q]
  BY <1>1, <1>2
<1> QED
  BY <1>5, <1>6 DEF v

\* present_flip_notify: the pixmap of the flip before is idle, that of this flip held.
LEMMA FulfilsFlipNotify ==
  ASSUME Inv, Inv', Punctual, Promised, FlipNotify
  PROVE  Promised' /\ Fulfils
<1>1. /\ stack # <<>> /\ Top.fn = "notify" /\ UNCHANGED <<scanout, gone>>
      /\ flip_pixmap' = Top.of /\ flip_pending' = NoId
      /\ After({Call("unflip", NoId), Call("post", Top.of), Call("try_ready", NoId)})
  BY AfterFlipNotify DEF FlipNotify
<1>2. PICK r \in Ids :
        /\ r = Top.of /\ r = flip_pending /\ scanout = r /\ flip_pixmap # r
        /\ vb[r].st = "live" /\ vb[r].pixmap = TRUE /\ vb[r].idled = 0 /\ Kept(r)
  BY EndsPending
<1>3. /\ \A q \in Ids : q # r => vb'[q] = IdleFlip(vb)[q]
      /\ vb'[r].st = vb[r].st /\ vb'[r].window = vb[r].window /\ vb'[r].asked = vb[r].asked
      /\ vb'[r].done = vb[r].done /\ vb'[r].idled = vb[r].idled /\ vb'[r].pixmap = FALSE
  BY <1>2, FlipNotifyFields
<1>4. PICK p : p = flip_pixmap
  OBVIOUS
<1>5. p # r /\ p \in Ids \cup {NoId} /\ flip_pixmap' = r /\ r # NoId
  BY <1>1, <1>2, <1>4, IdsNat DEF Inv, TypeOK
<1>6. \A q \in Ids : q # r /\ q # p => vb'[q] = vb[q]
  BY <1>3, <1>4, IdleRequest DEF Inv
<1>7. p \in Ids => /\ vb'[p].idled = vb[p].idled + 1 /\ vb'[p].done = vb[p].done
                   /\ vb'[p].asked = vb[p].asked /\ vb'[p].st = vb[p].st
                   /\ vb'[p].window = vb[p].window /\ vb'[p].pixmap = vb[p].pixmap
  <2> SUFFICES ASSUME p \in Ids
               PROVE  /\ vb'[p].idled = vb[p].idled + 1 /\ vb'[p].done = vb[p].done
                      /\ vb'[p].asked = vb[p].asked /\ vb'[p].st = vb[p].st
                      /\ vb'[p].window = vb[p].window /\ vb'[p].pixmap = vb[p].pixmap
    OBVIOUS
  <2>1. vb'[p] = IdleFlip(vb)[p]
    BY <1>3, <1>5
  <2>2. /\ IdleFlip(vb)[p].idled = vb[p].idled + 1 /\ IdleFlip(vb)[p].done = vb[p].done
        /\ IdleFlip(vb)[p].asked = vb[p].asked
    BY <1>4, IdleRequest DEF Inv
  <2>3. /\ IdleFlip(vb)[p].st = vb[p].st /\ IdleFlip(vb)[p].window = vb[p].window
        /\ IdleFlip(vb)[p].pixmap = vb[p].pixmap
    BY IdleFlipSame DEF Inv
  <2> QED
    BY <2>1, <2>2, <2>3
<1>8. p \in Ids => vb[p].idled = 0 /\ vb'[p].idled = 1 /\ Kept(p)'
  <2>1. ASSUME p \in Ids PROVE Kept(p) /\ OnSchedule(p)
    BY <2>1 DEF Promised, Punctual
  <2> QED
    BY <1>1, <1>4, <1>5, <1>7, <2>1, IdleKept
<1>9. Kept(r)'
  <2>1. Live(r)' /\ Live(r)
    BY <1>2, <1>3 DEF Live
  <2> QED
    BY <1>1, <1>2, <1>3, <2>1 DEF Kept
<1>10. \A q \in Ids : /\ vb'[q].idled = vb[q].idled \/ q = flip_pixmap
                      /\ vb'[q].pixmap = TRUE => vb[q].pixmap = TRUE
                      /\ vb'[q].st = vb[q].st /\ vb'[q].window = vb[q].window
                      /\ vb'[q].done = vb[q].done /\ vb'[q].asked = vb[q].asked
                      /\ q # r => vb'[q].pixmap = vb[q].pixmap
                      /\ q # p => vb'[q].idled = vb[q].idled
  BY <1>2, <1>3, <1>4, <1>6, <1>7
<1> DEFINE u == Call("unflip", NoId)
           c == Call("post", r)
           d == Call("try_ready", NoId)
           S == {u, c, d}
<1>11. After(S) /\ \A f \in S : f.fn \in {"unflip", "try_ready"} \/ (f.fn = "post" /\ f.of = r)
  <2>1. After(S)
    BY <1>1, <1>2
  <2>2. u.fn = "unflip" /\ c.fn = "post" /\ c.of = r /\ d.fn = "try_ready"
    BY CallTyped
  <2> QED
    BY <2>1, <2>2
<1> HIDE DEF u, c, d, S
<1>12. \A f \in S : Knows(f)'
  BY <1>3, <1>11 DEF Knows
<1> DEFINE M == {r, p}
           old == {}
           new == Elements(stack')
<1>13. (\A q : q \in M <=> q = r \/ q = p) /\ (\A g : g \notin old) /\ gone \subseteq gone'
       /\ \A f \in Elements(stack') : f \in old \/ f \in new
  BY <1>1
<1>14. \A f \in new : Knows(f)'
  BY <1>1, <1>10, <1>11, <1>12, IdleKnows
<1> HIDE DEF M, old, new
<1>15. \A q \in Ids : q \notin M => Steady(q)
  BY <1>1, <1>5, <1>6, <1>13, IdsNat DEF Steady, Alike
<1>16. \A q \in Ids : q \in M => Kept(q)'
  BY <1>8, <1>9, <1>13
<1>17. Doomed'
  <2>1. \A q \in Ids : Live(q)' => Live(q) /\ vb'[q].window = vb[q].window
    BY <1>10 DEF Live
  <2> QED
    BY <1>1, <2>1, DoomedKept
<1>18. Displayed'
  <2>1. scanout' \in {Screen, flip_pixmap'}
    BY <1>1, <1>2
  <2> QED
    BY <1>1, <1>11, <2>1, DisplayedAfter
<1>19. Promised'
  BY <1>13, <1>14, <1>15, <1>16, <1>17, <1>18, PromisedStep
<1>20. \A q \in Ids : SameStatus(q) /\ SameAsked(q) /\ (q # p => SamePixmap(q))
  BY <1>2, <1>4, <1>5, <1>10 DEF SameStatus, SameAsked, SamePixmap, Holding
<1>21. CASE p \in Ids
  <2>1. Pixmap(p) = "held" /\ Pixmap(p)' = "idle"
    BY <1>4, <1>8, <1>21, Views, ViewsAfter DEF Holding
  <2>2. Display # p
    BY <1>2, <1>5, IdsNat DEF Display
  <2>3. Promise!Next
    BY <1>1, <1>20, <1>21, <2>1, <2>2, Idles
  <2> QED
    BY <1>19, <2>3 DEF Fulfils
<1>22. CASE p = NoId
  <2>1. UNCHANGED Promise!vars
    BY <1>1, <1>20, <1>22, IdsNat, Stutters
  <2> QED
    BY <1>19, <2>1 DEF Fulfils
<1> QED
  BY <1>5, <1>21, <1>22

-----------------------------------------------------------------------------
LEMMA InitPromised == Init => Promised /\ Promise!Init
<1> SUFFICES ASSUME Init PROVE Promised /\ Promise!Init
  OBVIOUS
<1>1. \A r \in Ids : vb[r] = Blank
  BY DEF Init
<1>2. /\ Blank.st = "new" /\ Blank.idled = 0 /\ Blank.done = 0 /\ Blank.pixmap = FALSE
      /\ Blank.asked = NoWin
  BY DEF Blank
<1>3. stack = <<>> /\ flip_pixmap = NoId /\ scanout = Screen /\ gone = {}
  BY DEF Init
<1>4. \A r \in Ids : /\ vb[r].st = "new" /\ vb[r].idled = 0 /\ vb[r].done = 0
                     /\ vb[r].pixmap = FALSE /\ vb[r].asked = NoWin
  BY <1>1, <1>2
<1>5. \A r \in Ids : Kept(r)
  BY <1>4 DEF Kept, Live
<1>6. Doomed
  BY <1>4 DEF Doomed, Live
<1>7. Displayed
  BY <1>3 DEF Displayed, Flipped, Running
<1>8. Promised
  BY <1>3, <1>5, <1>6, <1>7, NoCalls DEF Promised
<1>9. \A r \in Ids : ~Holding(r)
  BY <1>3, <1>4, IdsNat DEF Holding
<1>10. \A r \in Ids : Status(r) = "new" /\ Pixmap(r) = "client"
  BY <1>4, <1>9, Views
<1>11. Display = NoWin
  BY <1>3 DEF Display
<1>12. Promise!Init
  BY <1>3, <1>4, <1>10, <1>11 DEF Promise!Init
<1> QED
  BY <1>8, <1>12

LEMMA StutterPromised == ASSUME Promised, UNCHANGED vars PROVE Promised' /\ Fulfils
<1>1. UNCHANGED <<vb, flip_pending, flip_pixmap, scanout, gone, stack>>
  BY DEF vars
<1>2. \A r \in Ids : Kept(r)'
  BY <1>1, AllSteady, SteadyKeeps DEF Promised
<1>3. \A f \in Elements(stack) : Knows(f)'
  BY <1>1 DEF Promised, Knows
<1>4. Doomed'
  BY <1>1 DEF Promised, Doomed, Live
<1>5. Displayed'
  BY <1>1 DEF Promised, Displayed, Flipped, Running, Top
<1>6. Promised'
  BY <1>1, <1>2, <1>3, <1>4, <1>5 DEF Promised
<1>7. \A q \in Ids : SameStatus(q) /\ SamePixmap(q) /\ SameAsked(q)
  BY <1>1 DEF SameStatus, SamePixmap, SameAsked, Holding
<1>8. UNCHANGED Promise!vars
  BY <1>1, <1>7, Stutters
<1> QED
  BY <1>6, <1>8 DEF Fulfils

\* Every step does what the promise allows, or nothing that it speaks of.
LEMMA NextPromised ==
  ASSUME Inv, Punctual, Promised, [Next]_vars
  PROVE  Promised' /\ Fulfils
<1>1. Inv'
  BY NextKeeps
<1>2. CASE UNCHANGED vars
  BY <1>2, StutterPromised
<1>3. CASE \/ Requeue \/ FlipSucceeds \/ Notify \/ TryReady \/ Checked \/ Drained
  BY <1>1, <1>3, FulfilsIdle
<1>4. CASE Trigger \/ TriggerFence \/ Cursor \/ Restack \/ PrepareModeset
  BY <1>1, <1>4, FulfilsTrigger
<1>5. CASE WaitFence \/ WaitFlip
  BY <1>1, <1>5, FulfilsWaits
<1>6. CASE Execute
  BY <1>1, <1>6, FulfilsExecute
<1>7. CASE FlipFails \/ FlipOver
  BY <1>1, <1>7, FulfilsFlipFails, FulfilsFlipOver
<1>8. CASE CheckFlipWindow \/ CheckQueued
  BY <1>1, <1>8, FulfilsChecks
<1>9. CASE Tick \/ Kernel
  BY <1>1, <1>9, FulfilsTick, FulfilsKernel
<1>10. CASE CopyLater \/ Copy \/ CopyTearFree
  BY <1>1, <1>10, FulfilsCopyLater, FulfilsCopy, FulfilsCopyTearFree
<1>11. CASE Scrap \/ Create \/ Present
  BY <1>1, <1>11, FulfilsScrap, FulfilsCreate, FulfilsPresent
<1>12. CASE Post \/ Abort
  BY <1>1, <1>12, FulfilsPost, FulfilsAbort
<1>13. CASE ClearWindowFlip \/ DestroyWindow
  BY <1>1, <1>13, FulfilsClear, FulfilsDestroy
<1>14. CASE StartUnflip \/ UnflipNotify \/ FlipNotify
  BY <1>1, <1>14, FulfilsStartUnflip, FulfilsUnflipNotify, FulfilsFlipNotify
<1> QED
  BY <1>2, <1>3, <1>4, <1>5, <1>6, <1>7, <1>8, <1>9, <1>10, <1>11, <1>12, <1>13, <1>14
     DEF Next, Server

\* Implements: when nothing that the driver is asked fails, present_scmd.c keeps what
\* PresentPromise says.  Every request completes once, or is dropped with its window, and
\* its pixmap is idle once, never while it is on display.
THEOREM FulfilsPromise == Spec /\ ~setup.fails => Implements
<1>1. Init => Promised /\ Promise!Init
  BY InitPromised
<1>2. Inv /\ Punctual /\ Promised /\ [Next]_vars => Promised' /\ Fulfils
  BY NextPromised
<1>3. Inv /\ ~setup.fails /\ [Next]_vars => (~setup.fails)'
  BY SetupStays
<1>4. Fulfils => [Promise!Next]_Promise!vars
  BY DEF Fulfils
<1> QED
  BY <1>1, <1>2, <1>3, <1>4, Holds, InTime, PTL DEF Spec, Implements, Promise!Spec
=============================================================================
