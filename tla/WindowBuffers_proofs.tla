------------------------ MODULE WindowBuffers_proofs ------------------------
(***************************************************************************)
(* The buffers of a window, for any number of pixmaps, clients' pixmaps and*)
(* parts of the window, and any timeout: buffers are counted right, what   *)
(* is shown is what was drawn, and what is not used is freed in time.      *)
(***************************************************************************)
EXTENDS WindowBuffers, TLAPS, SequenceTheorems

\* The buffers are in the order of their release, and the timer is set for the
\* first.
Aging ==
  /\ \A i, j \in DOMAIN available : i <= j => buffer[available[i]].age >= buffer[available[j]].age
  /\ available # <<>> => timer # Off /\ timer = Timeout - buffer[available[1]].age
HasPixmap == mapped => window # NoPixmap

IInv == TypeOK /\ Counted /\ Faithful /\ Aging /\ HasPixmap

-----------------------------------------------------------------------------
(***************************************************************************)
(* Sequences.                                                              *)
(***************************************************************************)
LEMMA InRange ==
  ASSUME NEW S, NEW s \in Seq(S)
  PROVE  /\ Range(s) \subseteq S
         /\ \A i \in 1 .. Len(s) : s[i] \in Range(s)
         /\ \A x \in Range(s) : \E i \in 1 .. Len(s) : x = s[i]
  BY DEF Range

LEMMA Empties == Range(<<>>) = {}
  BY DEF Range

LEMMA AppendRange ==
  ASSUME NEW S, NEW s \in Seq(S), NEW x \in S
  PROVE  Range(Append(s, x)) = Range(s) \cup {x}
<1>1. /\ Append(s, x) \in Seq(S) /\ Len(Append(s, x)) = Len(s) + 1
      /\ \A i \in 1 .. Len(s) : Append(s, x)[i] = s[i]
      /\ Append(s, x)[Len(s) + 1] = x
  BY AppendProperties
<1>2. Len(s) \in Nat /\ Append(s, x) \in [1 .. Len(s) + 1 -> S] /\ s \in [1 .. Len(s) -> S]
  BY <1>1, LenProperties
<1> HIDE <1>1
<1>3. ASSUME NEW y \in Range(Append(s, x)) PROVE y \in Range(s) \cup {x}
  <2>1. PICK i \in 1 .. Len(s) + 1 : y = Append(s, x)[i]
    BY <1>2, <1>3 DEF Range
  <2>2. CASE i = Len(s) + 1
    BY <1>1, <2>1, <2>2
  <2>3. CASE i \in 1 .. Len(s)
    BY <1>1, <1>2, <2>1, <2>3 DEF Range
  <2> QED
    BY <1>2, <2>2, <2>3
<1>4. ASSUME NEW y \in Range(s) PROVE y \in Range(Append(s, x))
  <2>1. PICK i \in 1 .. Len(s) : y = s[i]
    BY <1>2, <1>4 DEF Range
  <2> QED
    BY <1>1, <1>2, <2>1 DEF Range
<1>5. x \in Range(Append(s, x))
  BY <1>1, <1>2 DEF Range
<1> QED
  BY <1>3, <1>4, <1>5

LEMMA SuffixFacts ==
  ASSUME NEW S, NEW s \in Seq(S), NEW k \in 0 .. Len(s)
  PROVE  LET t == SubSeq(s, k + 1, Len(s))
         IN t \in Seq(S) /\ Len(t) = Len(s) - k /\ \A i \in 1 .. Len(s) - k : t[i] = s[k + i]
<1>1. Len(s) \in Nat /\ \A i \in 1 .. Len(s) : s[i] \in S
  BY LenProperties
<1>2. k + 1 \in Int /\ \A i \in k + 1 .. Len(s) : s[i] \in S
  BY <1>1
<1> DEFINE t == SubSeq(s, k + 1, Len(s))
<1>3. /\ t \in Seq(S) /\ Len(t) = IF k + 1 <= Len(s) THEN Len(s) - (k + 1) + 1 ELSE 0
      /\ \A i \in 1 .. Len(s) - (k + 1) + 1 : t[i] = s[k + 1 + i - 1]
  BY <1>1, <1>2, SubSeqProperties
<1> HIDE DEF t
<1>4. t \in Seq(S) /\ Len(t) = Len(s) - k /\ \A i \in 1 .. Len(s) - k : t[i] = s[k + i]
  BY <1>1, <1>3
<1> QED
  BY <1>4 DEF t

LEMMA FrontFacts ==
  ASSUME NEW S, NEW s \in Seq(S), s # <<>>
  PROVE  /\ Len(s) \in Nat \ {0} /\ Last(s) = s[Len(s)] /\ Last(s) \in S
         /\ Front(s) \in Seq(S) /\ Len(Front(s)) = Len(s) - 1
         /\ \A i \in 1 .. Len(s) - 1 : Front(s)[i] = s[i]
<1>1. Len(s) \in Nat /\ Len(s) # 0 /\ \A i \in 1 .. Len(s) : s[i] \in S
  BY LenProperties
<1> DEFINE t == SubSeq(s, 1, Len(s) - 1)
<1>2. /\ t \in Seq(S) /\ Len(t) = IF 1 <= Len(s) - 1 THEN Len(s) - 1 - 1 + 1 ELSE 0
      /\ \A i \in 1 .. Len(s) - 1 - 1 + 1 : t[i] = s[1 + i - 1]
  BY <1>1, SubSeqProperties
<1> HIDE DEF t
<1>3. Len(s) - 1 - 1 + 1 = Len(s) - 1 /\ \A i \in 1 .. Len(s) - 1 : 1 + i - 1 = i
  BY <1>1
<1>4. \A i \in 1 .. Len(s) - 1 : t[i] = s[i]
  BY <1>2, <1>3
<1>5. Len(t) = Len(s) - 1
  <2>1. CASE Len(s) = 1
    BY <1>2, <2>1
  <2>2. CASE Len(s) >= 2
    BY <1>1, <1>2, <1>3, <2>2
  <2>3. \A n \in Nat : n # 0 => n = 1 \/ n >= 2
    OBVIOUS
  <2> QED
    BY <1>1, <2>1, <2>2, <2>3
<1> QED
  BY <1>1, <1>2, <1>4, <1>5 DEF Front, Last, t

-----------------------------------------------------------------------------
(***************************************************************************)
(* Who holds a buffer.                                                     *)
(***************************************************************************)
LEMMA Lists ==
  ASSUME TypeOK
  PROVE  /\ Len(available) \in Nat /\ DOMAIN available = 1 .. Len(available)
         /\ \A i \in 1 .. Len(available) : available[i] \in Pixmaps /\ available[i] \in Range(available)
         /\ Range(available) \subseteq Pixmaps /\ Tied \subseteq Pixmaps
         /\ \A p \in Range(available) : \E i \in 1 .. Len(available) : p = available[i]
         /\ available # <<>> => 1 \in 1 .. Len(available)
         /\ available = <<>> => Range(available) = {}
<1>1. available \in Seq(Pixmaps) /\ unavailable \subseteq Pixmaps
  BY DEF TypeOK
<1>2. Len(available) \in Nat /\ DOMAIN available = 1 .. Len(available) /\ (available # <<>> => Len(available) > 0)
  BY <1>1, LenProperties, EmptySeq
<1> QED
  BY <1>1, <1>2, InRange, Empties DEF Tied

LEMMA Holders ==
  ASSUME IInv
  PROVE  /\ Range(available) \cap unavailable = {}
         /\ unavailable \subseteq with /\ untied \subseteq with
         /\ \A p \in Range(available) : buffer[p].refcnt = 1
         /\ \A p \in unavailable : buffer[p].refcnt = 2
         /\ \A p \in untied : buffer[p].refcnt = 1 /\ p \notin Tied
         /\ \A p \in Pixmaps \ (Tied \cup untied) : buffer[p].refcnt = 0 /\ p \notin with
<1>1. TypeOK /\ Counted /\ HandsOff
  BY DEF IInv, Faithful
<1>2. Range(available) \subseteq Pixmaps
  BY <1>1, Lists
<1>3. /\ Range(available) \cap with = {} /\ unavailable \cup untied = with \cap Pixmaps
      /\ unavailable \subseteq Pixmaps /\ untied \subseteq Pixmaps /\ Tied \cap untied = {}
  BY <1>1 DEF HandsOff, Counted, TypeOK
<1>4. \A p \in Pixmaps : buffer[p].refcnt = Ref(p \in Tied) + Ref(p \in with)
  BY <1>1 DEF Counted
<1>5. Tied = Range(available) \cup unavailable
  BY DEF Tied
<1>6. \A p \in Range(available) : p \in Tied /\ p \notin with /\ p \in Pixmaps
  BY <1>2, <1>3, <1>5
<1>7. \A p \in unavailable : p \in Tied /\ p \in with /\ p \in Pixmaps
  BY <1>3, <1>5
<1>8. \A p \in untied : p \notin Tied /\ p \in with /\ p \in Pixmaps
  BY <1>3
<1>9. \A p \in Pixmaps \ (Tied \cup untied) : p \notin with
  BY <1>3, <1>5
<1> HIDE DEF Tied
<1> QED
  BY <1>3, <1>4, <1>5, <1>6, <1>7, <1>8, <1>9 DEF Ref

-----------------------------------------------------------------------------
(***************************************************************************)
(* The steps that leave the buffers alone.                                 *)
(***************************************************************************)
LEMMA InitHolds == Init => IInv
<1> SUFFICES ASSUME Init PROVE IInv
  OBVIOUS
<1>1. Range(available) = {} /\ Tied = {}
  BY Empties DEF Init, Tied
<1>2. TypeOK
  <2>1. NoBuffer \in Buffer
    BY DEF NoBuffer, Buffer
  <2>2. buffer \in [Pixmaps -> Buffer]
    BY <2>1 DEF Init
  <2>3. timer \in Off .. Timeout
    BY BuffersAssumption DEF Init, Off
  <2> QED
    BY <2>2, <2>3, EmptySeq DEF Init, TypeOK
<1>3. Counted
  BY <1>1, BuffersAssumption DEF Init, Counted, Ref, NoBuffer
<1>4. Faithful
  BY <1>1, BuffersAssumption DEF Init, Faithful, Current, HandsOff, IsClients
<1>5. Aging /\ HasPixmap
  BY DEF Init, Aging, HasPixmap
<1> QED
  BY <1>2, <1>3, <1>4, <1>5 DEF IInv

LEMMA FrameHolds == ASSUME IInv, FrameCallback PROVE IInv'
  BY DEF IInv, FrameCallback, lists, TypeOK, Counted, Tied, Faithful, Current, HandsOff, IsClients, Aging, HasPixmap

LEMMA ReleaseFlipHolds == ASSUME IInv, ReleaseFlip PROVE IInv'
<1>1. PICK c \in ClientPixmaps : with' = with \ {c}
  BY DEF ReleaseFlip
<1>2. UNCHANGED <<mapped, force, window, stale, buffer, available, unavailable, untied,
                  damage, listed, frame_callback, behind, timer>>
  BY DEF ReleaseFlip, lists
<1>3. Tied' = Tied /\ IsClients' = IsClients
  BY <1>2 DEF Tied, IsClients
<1>4. \A p \in Pixmaps : p \in with' <=> p \in with
  BY <1>1, BuffersAssumption
<1>5. TypeOK'
  BY <1>1, <1>2 DEF IInv, TypeOK
<1>6. Counted'
  BY <1>1, <1>2, <1>3, <1>4 DEF IInv, Counted
<1>7. Faithful'
  BY <1>1, <1>2, <1>3 DEF IInv, Faithful, Current, HandsOff
<1>8. Aging' /\ HasPixmap'
  BY <1>2 DEF IInv, Aging, HasPixmap
<1> QED
  BY <1>5, <1>6, <1>7, <1>8 DEF IInv

LEMMA MapHolds == ASSUME IInv, Map PROVE IInv'
<1>1. UNCHANGED <<force, stale, buffer, available, unavailable, untied,
                  damage, listed, frame_callback, with, behind, timer>>
  BY DEF Map, lists, frame
<1>2. /\ mapped' = TRUE /\ window' \in Pixmaps
      /\ window' \notin Tied \cup untied \cup with
  BY DEF Map, Unused
<1>3. Tied' = Tied /\ ~IsClients'
  BY <1>1, <1>2, BuffersAssumption DEF Tied, IsClients
<1>4. TypeOK'
  BY <1>1, <1>2 DEF IInv, TypeOK
<1>5. Counted'
  BY <1>1, <1>2, <1>3 DEF IInv, Counted
<1>6. Faithful'
  BY <1>1, <1>2, <1>3 DEF IInv, Faithful, Current, HandsOff
<1>7. Aging' /\ HasPixmap'
  BY <1>1, <1>2, BuffersAssumption DEF IInv, Aging, HasPixmap
<1> QED
  BY <1>4, <1>5, <1>6, <1>7 DEF IInv

\* Time passes for all buffers at once.
LEMMA TickHolds == ASSUME IInv, Tick PROVE IInv'
<1>1. UNCHANGED <<mapped, force, window, stale, available, unavailable, untied,
                  damage, listed, frame_callback, with, behind>>
  BY DEF Tick, lists, frame
<1>2. TypeOK
  BY DEF IInv
<1>3. /\ \A p \in Pixmaps : /\ buffer[p] \in Buffer /\ buffer'[p] \in Buffer
                            /\ buffer'[p].refcnt = buffer[p].refcnt
                            /\ buffer'[p].stale = buffer[p].stale
                            /\ buffer'[p].damage = buffer[p].damage
      /\ buffer' \in [Pixmaps -> Buffer]
  <2>1. ASSUME NEW p \in Pixmaps
        PROVE  /\ buffer[p] \in Buffer /\ buffer'[p] \in Buffer
               /\ buffer'[p].refcnt = buffer[p].refcnt
               /\ buffer'[p].stale = buffer[p].stale
               /\ buffer'[p].damage = buffer[p].damage
    <3>1. buffer[p] \in Buffer
      BY <1>2 DEF TypeOK
    <3>2. CASE p \in Range(available)
      <4>1. buffer'[p] = [buffer[p] EXCEPT !.age = @ + 1]
        BY <3>2 DEF Tick
      <4> QED
        BY <3>1, <4>1 DEF Buffer
    <3>3. CASE p \notin Range(available)
      BY <3>1, <3>3 DEF Tick
    <3> QED
      BY <3>2, <3>3
  <2>2. buffer' = [p \in Pixmaps |-> buffer'[p]]
    BY DEF Tick
  <2> QED
    BY <2>1, <2>2
<1>4. \A p \in Range(available) : buffer'[p].age = buffer[p].age + 1
  BY <1>2, Lists DEF Tick, TypeOK, Buffer
<1>5. timer \in Off .. Timeout /\ timer' \in Off .. Timeout /\ (timer # Off => timer' = timer - 1 /\ timer' # Off)
  BY <1>2, BuffersAssumption DEF Tick, TypeOK, Off
<1>6. Tied' = Tied /\ IsClients' = IsClients
  BY <1>1 DEF Tied, IsClients
<1>7. TypeOK'
  BY <1>1, <1>2, <1>3, <1>5 DEF TypeOK
<1>8. Counted'
  BY <1>1, <1>3, <1>6 DEF IInv, Counted
<1>9. Faithful'
  BY <1>1, <1>2, <1>3, <1>6, Lists DEF IInv, Faithful, Current, HandsOff
<1>10. Aging'
  <2>1. \A i \in DOMAIN available : available[i] \in Range(available) /\ buffer[available[i]].age \in Nat
    BY <1>2, Lists DEF TypeOK, Buffer
  <2>2. \A i, j \in DOMAIN available : i <= j => buffer'[available[i]].age >= buffer'[available[j]].age
    BY <1>4, <2>1 DEF IInv, Aging
  <2>3. available # <<>> => timer' # Off /\ timer' = Timeout - buffer'[available[1]].age
    BY <1>2, <1>4, <1>5, <2>1, Lists, BuffersAssumption DEF IInv, Aging, Off
  <2> QED
    BY <1>1, <2>2, <2>3 DEF Aging, Off
<1> QED
  BY <1>1, <1>7, <1>8, <1>9, <1>10 DEF IInv, HasPixmap

-----------------------------------------------------------------------------
(***************************************************************************)
(* The timer and the releases.                                             *)
(***************************************************************************)
LEMMA UnrefFacts ==
  ASSUME TypeOK, NEW ps
  PROVE  /\ \A p \in Pixmaps : buffer[p] \in Buffer
         /\ Unref(ps) \in [Pixmaps -> Buffer]
         /\ \A p \in Pixmaps \ ps : Unref(ps)[p] = buffer[p]
         /\ \A p \in Pixmaps \cap ps : buffer[p].refcnt = 1 => Unref(ps)[p] = NoBuffer
         /\ \A p \in Pixmaps \cap ps : buffer[p].refcnt = 2 =>
              Unref(ps)[p] = [buffer[p] EXCEPT !.refcnt = 1]
<1>1. \A p \in Pixmaps : buffer[p] \in Buffer
  BY DEF TypeOK
<1>2. NoBuffer \in Buffer
  BY DEF NoBuffer, Buffer
<1>3. ASSUME NEW p \in Pixmaps PROVE Unref(ps)[p] \in Buffer
  <2>1. CASE p \in ps /\ buffer[p].refcnt > 1
    <3>1. Unref(ps)[p] = [buffer[p] EXCEPT !.refcnt = @ - 1]
      BY <2>1 DEF Unref
    <3>2. buffer[p] \in Buffer /\ buffer[p].refcnt - 1 \in 0 .. 2
      BY <1>1, <2>1 DEF Buffer
    <3> QED
      BY <3>1, <3>2 DEF Buffer
  <2>2. CASE ~(p \in ps /\ buffer[p].refcnt > 1)
    BY <1>1, <1>2, <2>2 DEF Unref
  <2> QED
    BY <2>1, <2>2
<1>4. \A p \in Pixmaps \cap ps : buffer[p].refcnt = 2 => Unref(ps)[p] = [buffer[p] EXCEPT !.refcnt = 1]
  BY <1>1 DEF Unref, Buffer
<1> QED
  BY <1>1, <1>3, <1>4 DEF Unref

LEMMA KeptFacts ==
  ASSUME IInv, NEW k \in 0 .. Len(available)
  PROVE  /\ Kept(k) \in Seq(Pixmaps) /\ Len(Kept(k)) = Len(available) - k
         /\ \A i \in 1 .. Len(available) - k : Kept(k)[i] = available[k + i]
         /\ Expired(k) \subseteq Range(available)
         /\ Range(Kept(k)) = Range(available) \ Expired(k)
<1>1. available \in Seq(Pixmaps)
  BY DEF IInv, TypeOK
<1>2. /\ Kept(k) \in Seq(Pixmaps) /\ Len(Kept(k)) = Len(available) - k
      /\ \A i \in 1 .. Len(available) - k : Kept(k)[i] = available[k + i]
  BY <1>1, SuffixFacts DEF Kept
<1>3. /\ Len(available) \in Nat /\ DOMAIN available = 1 .. Len(available)
      /\ \A i \in 1 .. Len(available) : available[i] \in Range(available)
      /\ \A p \in Range(available) : \E i \in 1 .. Len(available) : p = available[i]
      /\ \A i, j \in 1 .. Len(available) : available[i] = available[j] => i = j
  BY <1>1, InRange, LenProperties DEF IInv, Counted
<1>4. Expired(k) \subseteq Range(available)
  BY <1>3 DEF Expired
<1>5. \A x \in Range(Kept(k)) : \E i \in 1 .. Len(available) - k : x = Kept(k)[i]
  BY <1>2, <1>3, InRange
<1>6. \A i \in 1 .. Len(available) - k : Kept(k)[i] \in Range(Kept(k))
  BY <1>2, <1>3, InRange
<1>7. ASSUME NEW x \in Range(Kept(k)) PROVE x \in Range(available) \ Expired(k)
  <2>1. PICK i \in 1 .. Len(available) - k : x = available[k + i]
    BY <1>2, <1>5
  <2>2. k + i \in 1 .. Len(available) /\ \A j \in 1 .. k : j # k + i /\ j \in 1 .. Len(available)
    BY <1>3
  <2> QED
    BY <1>3, <2>1, <2>2 DEF Expired
<1>8. ASSUME NEW x \in Range(available), x \notin Expired(k) PROVE x \in Range(Kept(k))
  <2>1. PICK i \in 1 .. Len(available) : x = available[i]
    BY <1>3
  <2>2. i - k \in 1 .. Len(available) - k /\ k + (i - k) = i
    BY <1>3, <1>8, <2>1 DEF Expired
  <2>3. x = Kept(k)[i - k]
    BY <1>2, <2>1, <2>2
  <2> QED
    BY <1>6, <2>2, <2>3
<1> QED
  BY <1>2, <1>4, <1>7, <1>8

\* When the overdue buffers are gone, the others are in order and the first of
\* them is young.
LEMMA KeptInOrder ==
  ASSUME IInv, NEW k \in 0 .. Len(available), Overdue(k)
  PROVE  /\ \A i, j \in DOMAIN Kept(k) : Kept(k)[i] = Kept(k)[j] => i = j
         /\ \A i, j \in DOMAIN Kept(k) : i <= j => buffer[Kept(k)[i]].age >= buffer[Kept(k)[j]].age
         /\ Kept(k) # <<>> => Timeout - buffer[Kept(k)[1]].age \in 1 .. Timeout
<1>1. TypeOK /\ Len(available) \in Nat /\ DOMAIN available = 1 .. Len(available)
  BY Lists DEF IInv
<1>2. /\ DOMAIN Kept(k) = 1 .. Len(available) - k
      /\ \A i \in 1 .. Len(available) - k : Kept(k)[i] = available[k + i] /\ k + i \in 1 .. Len(available)
      /\ Kept(k) # <<>> => Len(available) - k > 0
  <2>1. /\ Kept(k) \in Seq(Pixmaps) /\ Len(Kept(k)) = Len(available) - k
        /\ \A i \in 1 .. Len(available) - k : Kept(k)[i] = available[k + i]
    BY KeptFacts
  <2>2. DOMAIN Kept(k) = 1 .. Len(Kept(k)) /\ (Kept(k) # <<>> => Len(Kept(k)) # 0)
    BY <2>1, LenProperties, EmptySeq
  <2>3. \A i \in 1 .. Len(available) - k : k + i \in 1 .. Len(available)
    BY <1>1
  <2>4. \A n \in Nat : \A m \in 0 .. n : n - m # 0 => n - m > 0
    OBVIOUS
  <2> QED
    BY <1>1, <2>1, <2>2, <2>3, <2>4
<1>3. \A i, j \in DOMAIN Kept(k) : Kept(k)[i] = Kept(k)[j] => i = j
  <2>1. \A i, j \in 1 .. Len(available) : available[i] = available[j] => i = j
    BY <1>1 DEF IInv, Counted
  <2>2. ASSUME NEW i \in 1 .. Len(available) - k, NEW j \in 1 .. Len(available) - k, Kept(k)[i] = Kept(k)[j]
        PROVE  i = j
    <3>1. available[k + i] = available[k + j] /\ k + i \in 1 .. Len(available) /\ k + j \in 1 .. Len(available)
      BY <1>2, <2>2
    <3>2. k + i = k + j
      BY <2>1, <3>1
    <3> QED
      BY <1>1, <3>2
  <2> QED
    BY <1>2, <2>2
<1>4. \A i, j \in DOMAIN Kept(k) : i <= j => buffer[Kept(k)[i]].age >= buffer[Kept(k)[j]].age
  <2>1. \A i, j \in 1 .. Len(available) : i <= j => buffer[available[i]].age >= buffer[available[j]].age
    BY <1>1 DEF IInv, Aging
  <2>2. \A i, j \in 1 .. Len(available) - k : i <= j => k + i <= k + j
    BY <1>1
  <2> QED
    BY <1>2, <2>1, <2>2
<1>5. ASSUME Kept(k) # <<>> PROVE Timeout - buffer[Kept(k)[1]].age \in 1 .. Timeout
  <2>1. k + 1 \in 1 .. Len(available) /\ Kept(k)[1] = available[k + 1] /\ k < Len(available)
    BY <1>1, <1>2, <1>5
  <2>2. available[k + 1] \in Pixmaps
    BY <1>1, <2>1, Lists
  <2>3. buffer[available[k + 1]].age \in Nat /\ buffer[available[k + 1]].age < Timeout
    BY <1>1, <2>1, <2>2 DEF Overdue, TypeOK, Buffer
  <2> QED
    BY <2>1, <2>3, BuffersAssumption
<1> QED
  BY <1>3, <1>4, <1>5

LEMMA TimerHolds == ASSUME IInv, TimerCallback PROVE IInv'
<1>1. PICK k \in 0 .. Len(available) :
        Overdue(k) /\ available' = Kept(k) /\ buffer' = Unref(Expired(k))
  BY DEF TimerCallback
<1>2. UNCHANGED <<mapped, force, window, stale, unavailable, untied,
                  damage, listed, frame_callback, with, behind>>
  BY DEF TimerCallback, frame
<1>3. /\ available' \in Seq(Pixmaps) /\ Expired(k) \subseteq Range(available)
      /\ Range(available') = Range(available) \ Expired(k)
  BY <1>1, KeptFacts
<1>4. TypeOK /\ Counted /\ Current /\ HandsOff /\ Range(available) \subseteq Pixmaps
  BY Lists DEF IInv, Faithful
<1>5. Tied' = Tied \ Expired(k) /\ Tied \subseteq Pixmaps /\ IsClients' = IsClients
  BY <1>2, <1>3, <1>4, Holders, Lists DEF Tied, IsClients
<1>6. /\ buffer' \in [Pixmaps -> Buffer]
      /\ \A p \in Pixmaps \ Expired(k) : buffer'[p] = buffer[p]
      /\ \A p \in Expired(k) : buffer'[p] = NoBuffer
  BY <1>1, <1>3, <1>4, UnrefFacts, Holders
<1>7. timer' = IF Kept(k) = <<>> THEN Off ELSE Timeout - buffer[Kept(k)[1]].age
  <2>1. timer' = Rearm(Kept(k), buffer')
    BY <1>1 DEF TimerCallback
  <2>2. CASE Kept(k) = <<>>
    BY <2>1, <2>2 DEF Rearm
  <2>3. CASE Kept(k) # <<>>
    <3>1. Head(Kept(k)) = Kept(k)[1] /\ Kept(k)[1] \in Range(Kept(k))
      BY <1>1, <1>3, <2>3, InRange, EmptySeq, LenProperties
    <3>2. buffer'[Kept(k)[1]] = buffer[Kept(k)[1]]
      BY <1>1, <1>3, <1>4, <1>6, <3>1
    <3> QED
      BY <2>1, <2>3, <3>1, <3>2 DEF Rearm
  <2> QED
    BY <2>2, <2>3
<1>8. TypeOK'
  <2>1. timer' \in Off .. Timeout
    BY <1>1, <1>7, KeptInOrder, BuffersAssumption DEF Off
  <2> QED
    BY <1>2, <1>3, <1>4, <1>6, <2>1 DEF TypeOK
<1>9. Counted'
  <2>1. ASSUME NEW p \in Pixmaps PROVE buffer'[p].refcnt = Ref(p \in Tied') + Ref(p \in with')
    <3>1. CASE p \in Expired(k)
      <4>1. p \notin Tied' /\ p \notin with' /\ buffer'[p].refcnt = 0
        BY <1>2, <1>3, <1>4, <1>5, <1>6, <3>1 DEF HandsOff, NoBuffer
      <4> QED
        BY <4>1 DEF Ref
    <3>2. CASE p \notin Expired(k)
      BY <1>2, <1>4, <1>5, <1>6, <3>2 DEF Counted
    <3> QED
      BY <3>1, <3>2
  <2>2. \A i, j \in DOMAIN available' : available'[i] = available'[j] => i = j
    BY <1>1, KeptInOrder
  <2> QED
    BY <1>2, <1>4, <1>5, <2>1, <2>2 DEF Counted
<1>10. Faithful'
  BY <1>2, <1>3, <1>4, <1>5, <1>6 DEF IInv, Faithful, Current, HandsOff
<1>11. Aging'
  <2>1. \A i \in DOMAIN Kept(k) : buffer'[Kept(k)[i]] = buffer[Kept(k)[i]]
    BY <1>1, <1>3, <1>4, <1>6 DEF Range
  <2>2. \A i, j \in DOMAIN available' : i <= j => buffer'[available'[i]].age >= buffer'[available'[j]].age
    BY <1>1, <2>1, KeptInOrder
  <2>3. available' # <<>> => timer' = Timeout - buffer'[available'[1]].age /\ timer' \in 1 .. Timeout
    <3>1. available' # <<>> => 1 \in DOMAIN Kept(k)
      BY <1>1, <1>3, EmptySeq, LenProperties
    <3> QED
      BY <1>1, <1>7, <2>1, <3>1, KeptInOrder
  <2> QED
    BY <2>2, <2>3, BuffersAssumption DEF Aging, Off
<1> QED
  BY <1>2, <1>8, <1>9, <1>10, <1>11 DEF IInv, HasPixmap

\* A buffer that has lost its window is freed.
LEMMA ReleaseUntied ==
  ASSUME IInv, Release, NEW p \in untied,
         with' = with \ {p}, unavailable' = unavailable \ {p}, untied' = untied \ {p},
         buffer' = Unref({p}), UNCHANGED <<available, timer>>
  PROVE  IInv'
<1>1. UNCHANGED <<mapped, force, window, stale, damage, listed, frame_callback, behind>>
  BY DEF Release
<1>2. TypeOK /\ Counted /\ Current /\ HandsOff /\ Tied \subseteq Pixmaps
  BY Lists DEF IInv, Faithful
<1>3. p \in Pixmaps /\ p \notin Tied /\ p \notin unavailable /\ buffer[p].refcnt = 1
  BY <1>2, Holders DEF TypeOK, Tied
<1>4. Tied' = Tied /\ IsClients' = IsClients /\ unavailable' = unavailable
  BY <1>1, <1>3 DEF Tied, IsClients
<1>5. /\ buffer' \in [Pixmaps -> Buffer] /\ buffer'[p] = NoBuffer
      /\ \A q \in Pixmaps \ {p} : buffer'[q] = buffer[q]
  BY <1>2, <1>3, UnrefFacts
<1>6. TypeOK'
  BY <1>1, <1>2, <1>5 DEF TypeOK
<1>7. Counted'
  <2>1. buffer'[p].refcnt = Ref(p \in Tied') + Ref(p \in with')
    BY <1>3, <1>4, <1>5 DEF NoBuffer, Ref
  <2>2. ASSUME NEW q \in Pixmaps \ {p} PROVE buffer'[q].refcnt = Ref(q \in Tied') + Ref(q \in with')
    <3>1. (q \in with' <=> q \in with) /\ (q \in Tied' <=> q \in Tied) /\ buffer'[q] = buffer[q]
      BY <1>4, <1>5
    <3> QED
      BY <1>2, <3>1 DEF Counted, Ref
  <2> QED
    BY <1>1, <1>2, <1>3, <1>4, <2>1, <2>2 DEF Counted
<1>8. Faithful'
  BY <1>1, <1>2, <1>3, <1>4, <1>5 DEF IInv, Faithful, Current, HandsOff
<1>9. Aging'
  <2>1. \A i \in DOMAIN available : buffer'[available[i]] = buffer[available[i]]
    <3>1. \A i \in DOMAIN available : available[i] \in Pixmaps /\ available[i] \in Range(available)
      BY <1>2, Lists
    <3>2. p \notin Range(available)
      BY <1>3 DEF Tied
    <3> QED
      BY <1>5, <3>1, <3>2
  <2>2. available # <<>> => 1 \in DOMAIN available
    BY <1>2, Lists
  <2> QED
    BY <2>1, <2>2 DEF IInv, Aging, Off
<1> QED
  BY <1>1, <1>6, <1>7, <1>8, <1>9 DEF IInv, HasPixmap

\* A buffer that the window still has is the last of the available ones, and the
\* youngest.
LEMMA ReleaseTied ==
  ASSUME IInv, Release, NEW p \in unavailable, NEW k \in 0 .. Len(available), Overdue(k),
         with' = with \ {p}, unavailable' = unavailable \ {p}, untied' = untied \ {p},
         available' = Append(Kept(k), p),
         buffer' = [Unref(Expired(k) \cup {p}) EXCEPT ![p].age = 0],
         timer' = Rearm(available', buffer')
  PROVE  IInv'
<1>1. UNCHANGED <<mapped, force, window, stale, damage, listed, frame_callback, behind>>
  BY DEF Release
<1>2. TypeOK /\ Counted /\ Current /\ HandsOff /\ Tied \subseteq Pixmaps /\ Range(available) \subseteq Pixmaps
  BY Lists DEF IInv, Faithful
<1>3. p \in Pixmaps /\ p \notin Range(available) /\ p \in Tied /\ p \notin untied /\ buffer[p].refcnt = 2
  BY <1>2, Holders DEF TypeOK, Tied
<1>4. /\ Kept(k) \in Seq(Pixmaps) /\ Expired(k) \subseteq Range(available)
      /\ Range(Kept(k)) = Range(available) \ Expired(k)
  BY KeptFacts
<1>5. /\ available' \in Seq(Pixmaps) /\ Len(available') = Len(Kept(k)) + 1
      /\ \A i \in 1 .. Len(Kept(k)) : available'[i] = Kept(k)[i]
      /\ available'[Len(Kept(k)) + 1] = p
      /\ Range(available') = (Range(available) \ Expired(k)) \cup {p}
  BY <1>3, <1>4, AppendProperties, AppendRange
<1>6. Tied' = Tied \ Expired(k) /\ IsClients' = IsClients
  BY <1>1, <1>2, <1>3, <1>4, <1>5, Holders DEF Tied, IsClients
<1>7. /\ buffer' \in [Pixmaps -> Buffer]
      /\ buffer'[p].age = 0 /\ buffer'[p].refcnt = 1
      /\ buffer'[p].stale = buffer[p].stale /\ buffer'[p].damage = buffer[p].damage
      /\ \A q \in Expired(k) : buffer'[q] = NoBuffer
      /\ \A q \in Pixmaps \ (Expired(k) \cup {p}) : buffer'[q] = buffer[q]
  <2> DEFINE left == Unref(Expired(k) \cup {p})
  <2>1. left \in [Pixmaps -> Buffer] /\ buffer[p] \in Buffer /\ left[p] = [buffer[p] EXCEPT !.refcnt = 1]
    BY <1>2, <1>3, UnrefFacts
  <2>2. \A q \in Expired(k) : q # p /\ q \in Pixmaps /\ buffer[q].refcnt = 1
    BY <1>2, <1>3, <1>4, Holders
  <2>3. \A q \in Expired(k) : left[q] = NoBuffer
    BY <1>2, <2>2, UnrefFacts
  <2>4. \A q \in Pixmaps \ (Expired(k) \cup {p}) : left[q] = buffer[q]
    BY <1>2, UnrefFacts
  <2>5. buffer' = [left EXCEPT ![p] = [left[p] EXCEPT !.age = 0]]
    OBVIOUS
  <2> HIDE DEF left
  <2>6. buffer'[p] = [left[p] EXCEPT !.age = 0] /\ \A q \in Pixmaps \ {p} : buffer'[q] = left[q]
    BY <1>3, <2>1, <2>5
  <2>7. /\ left[p] \in Buffer /\ left[p].refcnt = 1
        /\ left[p].stale = buffer[p].stale /\ left[p].damage = buffer[p].damage
    BY <1>3, <2>1 DEF Buffer
  <2>8. /\ buffer'[p] \in Buffer /\ buffer'[p].age = 0 /\ buffer'[p].refcnt = 1
        /\ buffer'[p].stale = buffer[p].stale /\ buffer'[p].damage = buffer[p].damage
    <3>1. [left[p] EXCEPT !.age = 0] \in Buffer
      BY <2>7 DEF Buffer
    <3>2. \A b \in Buffer : LET c == [b EXCEPT !.age = 0]
                           IN c.age = 0 /\ c.refcnt = b.refcnt /\ c.stale = b.stale /\ c.damage = b.damage
      BY DEF Buffer
    <3> QED
      BY <2>6, <2>7, <3>1, <3>2
  <2>9. buffer' \in [Pixmaps -> Buffer]
    BY <1>3, <2>1, <2>5, <2>6, <2>8
  <2> QED
    BY <2>2, <2>3, <2>4, <2>6, <2>8, <2>9
<1>8. Len(Kept(k)) \in Nat /\ DOMAIN Kept(k) = 1 .. Len(Kept(k)) /\ DOMAIN available' = 1 .. Len(Kept(k)) + 1
  BY <1>4, <1>5, LenProperties
<1>9. ASSUME NEW i \in 1 .. Len(Kept(k))
      PROVE  Kept(k)[i] \in Pixmaps /\ Kept(k)[i] # p /\ buffer'[Kept(k)[i]] = buffer[Kept(k)[i]]
  <2>1. Kept(k)[i] \in Range(Kept(k))
    BY <1>4, <1>8, InRange
  <2>2. Kept(k)[i] \in Range(available) /\ Kept(k)[i] \notin Expired(k)
    BY <1>4, <2>1
  <2> QED
    BY <1>2, <1>3, <1>7, <2>2
<1>11. timer' = Timeout - buffer'[available'[1]].age /\ timer' \in 1 .. Timeout
  <2>1. available' # <<>> /\ Head(available') = available'[1] /\ 1 \in 1 .. Len(Kept(k)) + 1
    BY <1>5, <1>8, EmptySeq, LenProperties
  <2>2. timer' = Timeout - buffer'[available'[1]].age
    BY <2>1 DEF Rearm
  <2>3. CASE Len(Kept(k)) = 0
    <3>1. available'[1] = p
      BY <1>5, <2>3
    <3> QED
      <4>1. buffer'[available'[1]].age = 0
        BY <1>7, <3>1
      <4>2. Timeout - 0 \in 1 .. Timeout
        BY BuffersAssumption
      <4> QED
        BY <2>2, <4>1, <4>2
  <2>4. CASE Len(Kept(k)) # 0
    <3>1. 1 \in 1 .. Len(Kept(k)) /\ Kept(k) # <<>>
      BY <1>4, <1>8, <2>4, EmptySeq
    <3>2. available'[1] = Kept(k)[1] /\ buffer'[available'[1]] = buffer[Kept(k)[1]]
      BY <1>5, <1>9, <3>1
    <3> QED
      BY <2>2, <3>1, <3>2, KeptInOrder
  <2> QED
    BY <2>2, <2>3, <2>4
<1>12. TypeOK'
  <2>1. timer' \in Off .. Timeout
    BY <1>11, BuffersAssumption DEF Off
  <2>2. /\ unavailable' \subseteq Pixmaps /\ untied' \subseteq Pixmaps
        /\ with' \subseteq Pixmaps \cup ClientPixmaps
    BY <1>2 DEF TypeOK
  <2>3. buffer' \in [Pixmaps -> Buffer] /\ available' \in Seq(Pixmaps)
    BY <1>5, <1>7
  <2> QED
    BY <1>1, <1>2, <2>1, <2>2, <2>3 DEF TypeOK
<1>13. Counted'
  <2>1. ASSUME NEW q \in Pixmaps PROVE buffer'[q].refcnt = Ref(q \in Tied') + Ref(q \in with')
    <3>1. CASE q = p
      <4>1. q \in Tied' /\ q \notin with' /\ buffer'[q].refcnt = 1
        BY <1>3, <1>4, <1>6, <1>7, <3>1
      <4> QED
        BY <4>1 DEF Ref
    <3>2. CASE q \in Expired(k)
      <4>1. q \notin Tied' /\ q \notin with'
        BY <1>2, <1>4, <1>6, <3>2 DEF HandsOff
      <4>2. buffer'[q] = NoBuffer /\ NoBuffer.refcnt = 0
        BY <1>7, <3>2 DEF NoBuffer
      <4>3. buffer'[q].refcnt = 0
        BY <4>2
      <4> QED
        BY <4>1, <4>3 DEF Ref
    <3>3. CASE q \notin Expired(k) \cup {p}
      <4>1. (q \in with' <=> q \in with) /\ (q \in Tied' <=> q \in Tied) /\ buffer'[q] = buffer[q]
        BY <1>6, <1>7, <3>3
      <4> QED
        BY <1>2, <4>1 DEF Counted, Ref
    <3> QED
      BY <3>1, <3>2, <3>3
  <2>2. \A i, j \in DOMAIN available' : available'[i] = available'[j] => i = j
    <3>1. \A i, j \in 1 .. Len(Kept(k)) : Kept(k)[i] = Kept(k)[j] => i = j
      BY <1>8, KeptInOrder
    <3>2. \A i \in 1 .. Len(Kept(k)) + 1 : i \in 1 .. Len(Kept(k)) \/ i = Len(Kept(k)) + 1
      BY <1>8
    <3> QED
      BY <1>5, <1>8, <1>9, <3>1, <3>2
  <2> QED
    BY <1>1, <1>2, <1>3, <1>6, <2>1, <2>2 DEF Counted
<1>14. Faithful'
  <2>1. Range(available') \cap with' = {}
    BY <1>2, <1>5 DEF HandsOff
  <2>2. \A q \in Tied' : buffer'[q].stale \subseteq buffer'[q].damage \cup damage
    <3>1. \A q \in Tied' : q \in Tied /\ buffer'[q].stale = buffer[q].stale /\ buffer'[q].damage = buffer[q].damage
      BY <1>2, <1>6, <1>7
    <3> QED
      BY <1>2, <3>1 DEF Current
  <2> QED
    BY <1>1, <1>2, <1>6, <2>1, <2>2 DEF IInv, Faithful, Current, HandsOff
<1>15. Aging'
  <2>1. \A i, j \in 1 .. Len(Kept(k)) + 1 : i <= j => buffer'[available'[i]].age >= buffer'[available'[j]].age
    <3>1. \A i, j \in 1 .. Len(Kept(k)) : i <= j => buffer[Kept(k)[i]].age >= buffer[Kept(k)[j]].age
      BY <1>8, KeptInOrder
    <3>2. \A i \in 1 .. Len(Kept(k)) : buffer[Kept(k)[i]].age \in Nat
      BY <1>2, <1>9 DEF TypeOK, Buffer
    <3>3. \A i \in 1 .. Len(Kept(k)) + 1 : i \in 1 .. Len(Kept(k)) \/ i = Len(Kept(k)) + 1
      BY <1>8
    <3>4. \A i \in 1 .. Len(Kept(k)) : ~ (Len(Kept(k)) + 1 <= i)
      BY <1>8
    <3>5. \A i \in 1 .. Len(Kept(k)) : buffer'[available'[i]] = buffer[Kept(k)[i]]
      BY <1>5, <1>9
    <3>6. buffer'[available'[Len(Kept(k)) + 1]].age = 0
      BY <1>5, <1>7
    <3>7. \A n \in Nat : n >= 0
      OBVIOUS
    <3> QED
      BY <3>1, <3>2, <3>3, <3>4, <3>5, <3>6, <3>7
  <2>2. timer' # Off
    BY <1>11, BuffersAssumption DEF Off
  <2> QED
    BY <1>8, <1>11, <2>1, <2>2 DEF Aging, Off
<1> QED
  BY <1>1, <1>12, <1>13, <1>14, <1>15 DEF IInv, HasPixmap

LEMMA ReleaseHolds == ASSUME IInv, Release PROVE IInv'
<1>1. PICK p \in with \cap (unavailable \cup untied) :
        /\ with' = with \ {p}
        /\ unavailable' = unavailable \ {p} /\ untied' = untied \ {p}
        /\ IF p \in Left({p})
           THEN /\ \E k \in 0 .. Len(available) :
                     /\ Overdue(k) /\ available' = Append(Kept(k), p)
                     /\ buffer' = [Unref(Expired(k) \cup {p}) EXCEPT ![p].age = 0]
                /\ timer' = Rearm(available', buffer')
           ELSE buffer' = Unref({p}) /\ UNCHANGED <<available, timer>>
  BY DEF Release
<1>2. CASE p \in unavailable
  <2>1. p \in Left({p})
    BY <1>2, Holders DEF Left
  <2> QED
    BY <1>1, <1>2, <2>1, ReleaseTied
<1>3. CASE p \in untied
  <2>1. p \notin Left({p})
    BY <1>3, Holders DEF Left
  <2> QED
    BY <1>1, <1>3, <2>1, ReleaseUntied
<1> QED
  BY <1>2, <1>3

-----------------------------------------------------------------------------
(***************************************************************************)
(* The buffers lose their window.                                          *)
(***************************************************************************)
LEMMA Disposed ==
  ASSUME IInv, NEW by_force \in BOOLEAN, Dispose(by_force)
  PROVE  /\ available' = <<>> /\ unavailable' = {} /\ Tied' = {} /\ timer' = Off
         /\ untied' = with' \cap Pixmaps /\ with' \subseteq with /\ untied' \subseteq Tied \cup untied
         /\ buffer' \in [Pixmaps -> Buffer]
         /\ \A p \in Pixmaps : buffer'[p].refcnt = Ref(p \in with')
<1>1. TypeOK /\ Counted /\ HandsOff /\ Tied \subseteq Pixmaps
  BY Lists DEF IInv, Faithful
<1>2. /\ Range(available) \cap unavailable = {} /\ unavailable \subseteq Pixmaps
      /\ Range(available) \cap with = {} /\ unavailable \cup untied = with \cap Pixmaps
      /\ Tied \cap untied = {} /\ Tied = Range(available) \cup unavailable
  BY <1>1, Holders DEF Counted, HandsOff, TypeOK, Tied
<1>3. Left(Tied) = unavailable
  <2>1. \A p \in Range(available) : buffer[p].refcnt = 1
    BY Holders
  <2>2. \A p \in unavailable : buffer[p].refcnt = 2
    BY Holders
  <2>3. \A p \in Tied : buffer[p].refcnt > 1 <=> p \in unavailable
    BY <1>2, <2>1, <2>2
  <2> QED
    BY <1>2, <2>3 DEF Left
<1>4. Tied' = {}
  BY Empties DEF Dispose, Tied
<1>5. /\ untied' = IF by_force THEN untied ELSE untied \cup unavailable
      /\ with' = IF by_force THEN with \ Tied ELSE with
  BY <1>3 DEF Dispose
<1>6. untied' = with' \cap Pixmaps
  BY <1>2, <1>5
<1>7. ASSUME NEW p \in Pixmaps PROVE buffer'[p] \in Buffer /\ buffer'[p].refcnt = Ref(p \in with')
  <2>1. NoBuffer \in Buffer /\ NoBuffer.refcnt = 0 /\ buffer[p] \in Buffer
    BY <1>1 DEF NoBuffer, Buffer, TypeOK
  <2>2. CASE p \notin Tied
    <3>1. buffer'[p] = buffer[p] /\ (p \in with' <=> p \in with)
      BY <1>5, <2>2 DEF Dispose
    <3>2. buffer[p].refcnt = Ref(p \in Tied) + Ref(p \in with)
      BY <1>1 DEF Counted
    <3> QED
      BY <2>1, <2>2, <3>1, <3>2 DEF Ref
  <2>3. CASE p \in Tied /\ by_force
    <3>1. buffer'[p] = NoBuffer /\ p \notin with'
      BY <1>5, <2>3 DEF Dispose
    <3>2. buffer'[p].refcnt = 0
      BY <2>1, <3>1
    <3> QED
      BY <2>1, <3>1, <3>2 DEF Ref
  <2>4. CASE p \in Range(available) /\ ~by_force
    <3>1. Unref(Tied)[p] = NoBuffer
      BY <1>1, <1>2, <2>4, UnrefFacts, Holders
    <3>2. buffer'[p] = [NoBuffer EXCEPT !.refcnt = 0] /\ p \notin with'
      BY <1>2, <1>5, <2>1, <2>4, <3>1 DEF Dispose
    <3>3. buffer'[p] \in Buffer /\ buffer'[p].refcnt = 0
      BY <3>2 DEF NoBuffer, Buffer
    <3> QED
      BY <3>2, <3>3 DEF Ref
  <2>5. CASE p \in unavailable /\ ~by_force
    <3>1. Unref(Tied)[p].refcnt = 1
      <4>1. Unref(Tied)[p] = [buffer[p] EXCEPT !.refcnt = 1]
        BY <1>1, <1>2, <2>5, UnrefFacts, Holders
      <4> QED
        BY <2>1, <4>1 DEF Buffer
    <3>2. buffer'[p] = [NoBuffer EXCEPT !.refcnt = 1] /\ p \in with'
      BY <1>2, <1>5, <2>5, <3>1 DEF Dispose
    <3>3. buffer'[p] \in Buffer /\ buffer'[p].refcnt = 1
      BY <3>2 DEF NoBuffer, Buffer
    <3> QED
      BY <3>2, <3>3 DEF Ref
  <2> QED
    BY <1>2, <2>2, <2>3, <2>4, <2>5
<1>8. buffer' = [p \in Pixmaps |-> buffer'[p]]
  BY DEF Dispose
<1> QED
  BY <1>2, <1>4, <1>5, <1>6, <1>7, <1>8 DEF Dispose

LEMMA NoneTied ==
  ASSUME IInv, NEW by_force \in BOOLEAN, Dispose(by_force), force' = force, mapped' \in BOOLEAN,
         window' \in Pixmaps \cup {NoPixmap}, window' \notin Tied \cup untied \cup with,
         mapped' => window' # NoPixmap, stale' = {},
         damage' \subseteq damage, behind' \subseteq damage',
         listed' \in BOOLEAN, frame_callback' \in BOOLEAN
  PROVE  IInv'
<1>1. TypeOK /\ Faithful
  BY DEF IInv
<1>2. /\ available' = <<>> /\ unavailable' = {} /\ Tied' = {} /\ timer' = Off
      /\ untied' = with' \cap Pixmaps /\ with' \subseteq with /\ untied' \subseteq Tied \cup untied
      /\ buffer' \in [Pixmaps -> Buffer]
      /\ \A p \in Pixmaps : buffer'[p].refcnt = Ref(p \in with')
  BY Disposed
<1>3. TypeOK'
  BY <1>1, <1>2, EmptySeq, BuffersAssumption DEF TypeOK, Off
<1>4. Counted'
  <2>1. \A p \in Pixmaps : buffer'[p].refcnt = Ref(p \in Tied') + Ref(p \in with')
    BY <1>2 DEF Ref
  <2> QED
    BY <1>2, <2>1 DEF Counted
<1>5. Faithful'
  <2>1. Range(available') = {} /\ ~IsClients' /\ window' \notin with'
    BY <1>2, Empties, BuffersAssumption DEF IsClients
  <2> QED
    BY <1>2, <2>1 DEF Faithful, Current, HandsOff
<1>6. Aging' /\ HasPixmap'
  BY <1>2 DEF Aging, HasPixmap
<1> QED
  BY <1>3, <1>4, <1>5, <1>6 DEF IInv

LEMMA UnmapHolds == ASSUME IInv, Unmap PROVE IInv'
<1>1. NoPixmap \notin Tied \cup untied \cup with
  BY Lists, BuffersAssumption DEF IInv, TypeOK
<1>2. force \in BOOLEAN
  BY DEF IInv, TypeOK
<1> QED
  BY <1>1, <1>2, NoneTied DEF Unmap

LEMMA FeedbackHolds == ASSUME IInv, FeedbackDone PROVE IInv'
<1>1. window' \in Pixmaps /\ window' \notin Tied \cup untied \cup with
  BY DEF FeedbackDone, Unused
<1>2. stale = {} /\ behind \subseteq damage /\ TypeOK
  BY DEF IInv, Faithful, Current
<1> QED
  BY <1>1, <1>2, NoneTied, BuffersAssumption DEF FeedbackDone, TypeOK

-----------------------------------------------------------------------------
(***************************************************************************)
(* The window changes its pixmap for that of a buffer.                     *)
(***************************************************************************)
LEMMA FrontList ==
  ASSUME IInv, available # <<>>
  PROVE  /\ Front(available) \in Seq(Pixmaps)
         /\ Last(available) \in Range(available)
         /\ Range(Front(available)) = Range(available) \ {Last(available)}
         /\ \A i \in DOMAIN Front(available) : i \in DOMAIN available /\ Front(available)[i] = available[i]
         /\ Front(available) # <<>> => 1 \in DOMAIN Front(available)
<1>1. available \in Seq(Pixmaps) /\ DOMAIN available = 1 .. Len(available)
  BY Lists DEF IInv, TypeOK
<1>2. /\ Len(available) \in Nat \ {0} /\ Last(available) = available[Len(available)]
      /\ Front(available) \in Seq(Pixmaps) /\ Len(Front(available)) = Len(available) - 1
      /\ \A i \in 1 .. Len(available) - 1 : Front(available)[i] = available[i]
  BY <1>1, FrontFacts
<1>3. DOMAIN Front(available) = 1 .. Len(available) - 1
  BY <1>2, LenProperties
<1>4. \A i \in 1 .. Len(available) - 1 : i \in 1 .. Len(available) /\ i # Len(available)
  BY <1>2
<1>5. \A i \in 1 .. Len(available) : i = Len(available) \/ i \in 1 .. Len(available) - 1
  BY <1>2
<1>6. Last(available) \in Range(available)
  <2>1. Len(available) \in 1 .. Len(available)
    BY <1>2
  <2> QED
    BY <1>1, <1>2, <2>1 DEF Range
<1>7. \A i, j \in 1 .. Len(available) : available[i] = available[j] => i = j
  BY <1>1 DEF IInv, Counted
<1>8. ASSUME NEW x \in Range(Front(available)) PROVE x \in Range(available) \ {Last(available)}
  <2>1. PICK i \in 1 .. Len(available) - 1 : x = available[i]
    BY <1>2, <1>3, <1>8 DEF Range
  <2>2. Len(available) \in 1 .. Len(available)
    BY <1>2
  <2> QED
    BY <1>1, <1>2, <1>4, <1>7, <2>1, <2>2 DEF Range
<1>9. ASSUME NEW x \in Range(available), x # Last(available) PROVE x \in Range(Front(available))
  <2>1. PICK i \in 1 .. Len(available) : x = available[i]
    BY <1>1, <1>9 DEF Range
  <2>2. i \in 1 .. Len(available) - 1
    BY <1>2, <1>5, <1>9, <2>1
  <2> QED
    BY <1>2, <1>3, <2>1, <2>2 DEF Range
<1>10. Front(available) # <<>> => 1 \in DOMAIN Front(available)
  BY <1>2, EmptySeq, LenProperties
<1> QED
  BY <1>1, <1>2, <1>3, <1>4, <1>6, <1>8, <1>9, <1>10

LEMMA Swaps ==
  ASSUME IInv, window # NoPixmap, NEW region \in SUBSET Tiles, damage \subseteq region, Swap(region), Keep
  PROVE  /\ window' \in Pixmaps /\ window' # window /\ window' \notin with /\ window' \notin untied
         /\ window' \notin unavailable /\ stale' = {}
         /\ available' \in Seq(Pixmaps) /\ Range(available') = Range(available) \ {window'}
         /\ \A i \in DOMAIN available' : i \in DOMAIN available /\ available'[i] = available[i]
         /\ available' # <<>> => available # <<>> /\ 1 \in DOMAIN available'
         /\ unavailable' = unavailable \cup ({window} \cap Pixmaps)
         /\ Tied' = (Tied \ {window'}) \cup ({window} \cap Pixmaps)
<1>1. TypeOK /\ Counted /\ Current /\ HandsOff /\ Tied \subseteq Pixmaps /\ Range(available) \subseteq Pixmaps
  BY Lists DEF IInv, Faithful
<1>2. unavailable' = unavailable \cup ({window} \cap Pixmaps)
  BY <1>1, BuffersAssumption DEF Keep, TypeOK
<1>3. CASE available = <<>>
  <2>1. window' \in Unused /\ stale' = {} /\ available' = <<>>
    BY <1>1, <1>3 DEF Swap, Current
  <2>2. /\ window' \in Pixmaps /\ window' # window /\ window' \notin with /\ window' \notin untied
        /\ window' \notin Tied
    BY <2>1 DEF Unused
  <2>3. Range(available) = {} /\ Range(available') = {} /\ DOMAIN available' = {}
    BY <1>3, <2>1, Empties
  <2> QED
    BY <1>2, <1>3, <2>1, <2>2, <2>3, EmptySeq DEF Tied
<1>4. CASE available # <<>>
  <2>1. window' = Last(available) /\ available' = Front(available)
    BY <1>4 DEF Swap
  <2>2. /\ available' \in Seq(Pixmaps) /\ window' \in Range(available)
        /\ Range(available') = Range(available) \ {window'}
        /\ \A i \in DOMAIN available' : i \in DOMAIN available /\ available'[i] = available[i]
        /\ available' # <<>> => 1 \in DOMAIN available'
    BY <1>4, <2>1, FrontList
  <2>3. /\ window' \in Pixmaps /\ window' # window /\ window' \notin with /\ window' \notin untied
        /\ window' \notin unavailable /\ window' \in Tied
    BY <1>1, <2>2, Holders DEF HandsOff, Counted, Tied
  <2>4. stale' = {}
    <3> DEFINE b == AddDamage(region)[window']
    <3>1. buffer[window'] \in Buffer /\ buffer[window'].stale \subseteq buffer[window'].damage \cup damage
      BY <1>1, <2>3 DEF TypeOK, Current
    <3>2. b = [buffer[window'] EXCEPT !.damage = @ \cup region]
      BY <2>3 DEF AddDamage
    <3>3. stale' = (b.stale \ b.damage) \cup (stale \cap b.damage)
      BY <1>4, <2>1 DEF Swap, Copied
    <3> HIDE DEF b
    <3>4. b.stale = buffer[window'].stale /\ b.damage = buffer[window'].damage \cup region
      BY <3>1, <3>2 DEF Buffer
    <3> QED
      BY <1>1, <3>1, <3>3, <3>4 DEF Current
  <2> QED
    BY <1>2, <1>4, <2>2, <2>3, <2>4 DEF Tied
<1> QED
  BY <1>3, <1>4

LEMMA SwappedFacts ==
  ASSUME IInv, window # NoPixmap, NEW region \in SUBSET Tiles, damage \subseteq region, Swap(region), Keep
  PROVE  /\ Swapped(region) \in [Pixmaps -> Buffer]
         /\ window \in Pixmaps => Swapped(region)[window].refcnt = 2 /\ Swapped(region)[window].stale = {}
         /\ Swapped(region)[window'].refcnt = 0
         /\ \A p \in Pixmaps \ {window, window'} :
              /\ Swapped(region)[p].refcnt = buffer[p].refcnt
              /\ Swapped(region)[p].age = buffer[p].age
         /\ \A p \in Tied \ {window'} :
              Swapped(region)[p].stale \subseteq Swapped(region)[p].damage
<1>1. TypeOK /\ Counted /\ Current /\ HandsOff /\ Tied \subseteq Pixmaps /\ Range(available) \subseteq Pixmaps
  BY Lists DEF IInv, Faithful
<1>2. window' \in Pixmaps /\ window' # window /\ window \notin Tied
  BY <1>1, Swaps DEF Counted
<1>3. \A p \in Pixmaps : buffer[p] \in Buffer
  BY <1>1 DEF TypeOK
<1>4. NoBuffer \in Buffer /\ NoBuffer.refcnt = 0
  BY DEF NoBuffer, Buffer
<1>5. (1 + IF available = <<>> THEN 1 ELSE buffer[Last(available)].refcnt) = 2
  <2>1. CASE available = <<>>
    BY <2>1
  <2>2. CASE available # <<>>
    <3>1. buffer[Last(available)].refcnt = 1
      BY <2>2, FrontList, Holders
    <3> QED
      BY <2>2, <3>1
  <2> QED
    BY <2>1, <2>2
<1>6. Mine(2) \in Buffer /\ Mine(2).refcnt = 2 /\ Mine(2).stale = {}
  BY <1>1 DEF Mine, Buffer, Current
<1>7. window \in Pixmaps => Swapped(region)[window] = Mine(2)
  BY <1>5 DEF Swapped
<1>8. Swapped(region)[window'] = NoBuffer
  BY <1>2 DEF Swapped
<1>9. ASSUME NEW p \in Pixmaps \ {window, window'}
       PROVE  /\ Swapped(region)[p] \in Buffer
              /\ Swapped(region)[p].refcnt = buffer[p].refcnt
              /\ Swapped(region)[p].age = buffer[p].age
              /\ p \in Tied => Swapped(region)[p].stale \subseteq Swapped(region)[p].damage
  <2> DEFINE b == Swapped(region)[p]
  <2>1. b = AddDamage(region)[p]
    BY <1>9 DEF Swapped
  <2>2. CASE p \in Tied
    <3>1. b = [buffer[p] EXCEPT !.damage = @ \cup region]
      BY <2>1, <2>2 DEF AddDamage
    <3> HIDE DEF b
    <3>2. buffer[p] \in Buffer /\ buffer[p].stale \subseteq buffer[p].damage \cup damage
      BY <1>1, <1>3, <2>2 DEF Current
    <3>3. /\ b \in Buffer /\ b.refcnt = buffer[p].refcnt /\ b.age = buffer[p].age
          /\ b.stale = buffer[p].stale /\ b.damage = buffer[p].damage \cup region
      BY <3>1, <3>2 DEF Buffer
    <3>4. b.stale \subseteq b.damage
      BY <3>2, <3>3
    <3> QED
      BY <3>3, <3>4 DEF b
  <2>3. CASE p \notin Tied
    BY <1>3, <2>1, <2>3 DEF AddDamage
  <2> QED
    BY <2>2, <2>3
<1>10. Swapped(region) \in [Pixmaps -> Buffer]
  <2>1. \A p \in Pixmaps : Swapped(region)[p] \in Buffer
    BY <1>4, <1>6, <1>7, <1>8, <1>9
  <2>2. Swapped(region) = [p \in Pixmaps |-> Swapped(region)[p]]
    BY DEF Swapped
  <2> QED
    BY <2>1, <2>2
<1> QED
  BY <1>1, <1>2, <1>4, <1>6, <1>7, <1>8, <1>9, <1>10

\* The order of the buffers that are left is as it was.
LEMMA SwapAges ==
  ASSUME IInv, window # NoPixmap, NEW region \in SUBSET Tiles, damage \subseteq region, Swap(region), Keep,
         \A p \in Pixmaps \ {window, window'} : buffer'[p].age = buffer[p].age,
         timer' = timer \/ available' = <<>>
  PROVE  /\ \A i, j \in DOMAIN available' : available'[i] = available'[j] => i = j
         /\ Aging'
<1>1. TypeOK /\ Counted /\ Range(available) \subseteq Pixmaps /\ Range(available') \subseteq Range(available)
  BY Lists, Swaps DEF IInv
<1>2. /\ \A i \in DOMAIN available' : i \in DOMAIN available /\ available'[i] = available[i]
      /\ available' # <<>> => available # <<>> /\ 1 \in DOMAIN available'
  BY Swaps
<1>3. \A i \in DOMAIN available' : available'[i] \in Range(available')
  BY DEF Range
<1>4. \A p \in Range(available') : p \in Pixmaps /\ p # window /\ p # window'
  BY <1>1, Swaps DEF Counted, Tied
<1>5. \A i \in DOMAIN available' : buffer'[available'[i]].age = buffer[available[i]].age
  BY <1>2, <1>3, <1>4
<1>6. \A i, j \in DOMAIN available' : available'[i] = available'[j] => i = j
  BY <1>1, <1>2 DEF Counted
<1>7. \A i, j \in DOMAIN available' : i <= j => buffer'[available'[i]].age >= buffer'[available'[j]].age
  BY <1>2, <1>5 DEF IInv, Aging
<1>8. available' # <<>> => timer' # Off /\ timer' = Timeout - buffer'[available'[1]].age
  BY <1>2, <1>5 DEF IInv, Aging
<1> QED
  BY <1>6, <1>7, <1>8 DEF Aging, Off

LEMMA PostHolds == ASSUME IInv, PostDamage PROVE IInv'
<1>1. TypeOK /\ Counted /\ Current /\ HandsOff /\ behind \subseteq damage /\ Tied \subseteq Pixmaps
  BY Lists DEF IInv, Faithful
<1>2. /\ window # NoPixmap /\ damage \in SUBSET Tiles /\ damage \subseteq damage
      /\ window \in Pixmaps \cup ClientPixmaps /\ window \notin Tied \cup untied
  BY <1>1 DEF PostDamage, IInv, HasPixmap, TypeOK, Counted
<1>3. /\ Swap(damage) /\ Keep /\ buffer' = Swapped(damage)
      /\ with' = with \cup {window} /\ behind' = behind \ damage /\ damage' = {}
      /\ listed' = FALSE /\ frame_callback' = TRUE /\ UNCHANGED <<mapped, force, untied>>
      /\ timer' = timer \/ timer' = Off
      /\ timer' = timer \/ available' = <<>>
  BY DEF PostDamage
<1>4. /\ window' \in Pixmaps /\ window' # window /\ window' \notin with /\ window' \notin untied
      /\ window' \notin unavailable /\ stale' = {}
      /\ available' \in Seq(Pixmaps) /\ Range(available') = Range(available) \ {window'}
      /\ unavailable' = unavailable \cup ({window} \cap Pixmaps)
      /\ Tied' = (Tied \ {window'}) \cup ({window} \cap Pixmaps)
  BY <1>2, <1>3, Swaps
<1>5. /\ buffer' \in [Pixmaps -> Buffer]
      /\ window \in Pixmaps => buffer'[window].refcnt = 2 /\ buffer'[window].stale = {}
      /\ buffer'[window'].refcnt = 0
      /\ \A p \in Pixmaps \ {window, window'} :
           buffer'[p].refcnt = buffer[p].refcnt /\ buffer'[p].age = buffer[p].age
      /\ \A p \in Tied \ {window'} : buffer'[p].stale \subseteq buffer'[p].damage
  BY <1>2, <1>3, SwappedFacts
<1>6. (\A i, j \in DOMAIN available' : available'[i] = available'[j] => i = j) /\ Aging'
  BY <1>2, <1>3, <1>5, SwapAges
<1>7. TypeOK'
  <2>1. timer' \in Off .. Timeout
    BY <1>1, <1>3, BuffersAssumption DEF TypeOK, Off
  <2>2. /\ window' \in Pixmaps \cup ClientPixmaps \cup {NoPixmap} /\ stale' \subseteq Tiles
        /\ unavailable' \subseteq Pixmaps /\ untied' \subseteq Pixmaps
        /\ with' \subseteq Pixmaps \cup ClientPixmaps /\ behind' \subseteq Tiles /\ damage' \subseteq Tiles
    BY <1>1, <1>2, <1>3, <1>4 DEF TypeOK
  <2> QED
    BY <1>1, <1>3, <1>4, <1>5, <2>1, <2>2 DEF TypeOK
<1>8. Counted'
  <2>1. ASSUME NEW p \in Pixmaps PROVE buffer'[p].refcnt = Ref(p \in Tied') + Ref(p \in with')
    <3>1. CASE p = window
      <4>1. p \in Tied' /\ p \in with' /\ buffer'[p].refcnt = 2
        BY <1>3, <1>4, <1>5, <3>1
      <4> QED
        BY <4>1 DEF Ref
    <3>2. CASE p = window'
      <4>1. p \notin Tied' /\ p \notin with' /\ buffer'[p].refcnt = 0
        BY <1>3, <1>4, <1>5, <3>2
      <4> QED
        BY <4>1 DEF Ref
    <3>3. CASE p \notin {window, window'}
      <4>1. (p \in Tied' <=> p \in Tied) /\ (p \in with' <=> p \in with) /\ buffer'[p].refcnt = buffer[p].refcnt
        BY <1>3, <1>4, <1>5, <3>3
      <4> QED
        BY <1>1, <4>1 DEF Counted, Ref
    <3> QED
      BY <3>1, <3>2, <3>3
  <2>2. unavailable' \cup untied' = with' \cap Pixmaps
    BY <1>1, <1>3, <1>4 DEF Counted
  <2>3. Tied' \cap untied' = {} /\ window' \notin Tied' \cup untied'
    BY <1>1, <1>2, <1>3, <1>4 DEF Counted
  <2> QED
    BY <1>6, <2>1, <2>2, <2>3 DEF Counted
<1>9. Faithful'
  <2>1. \A p \in Tied' : buffer'[p].stale \subseteq buffer'[p].damage \cup damage'
    BY <1>4, <1>5
  <2>2. window' \notin with' /\ ~IsClients' /\ Range(available') \cap with' = {}
    BY <1>1, <1>2, <1>3, <1>4, BuffersAssumption DEF IsClients, HandsOff, Tied
  <2>3. behind' \subseteq damage'
    BY <1>1, <1>3
  <2> QED
    BY <1>4, <2>1, <2>2, <2>3 DEF Faithful, Current, HandsOff
<1> QED
  BY <1>3, <1>4, <1>6, <1>7, <1>8, <1>9, BuffersAssumption DEF IInv, HasPixmap

-----------------------------------------------------------------------------
(***************************************************************************)
(* The window changes.                                                     *)
(***************************************************************************)
LEMMA Outdates ==
  ASSUME NEW b \in Buffer, NEW tiles \in SUBSET Tiles, NEW d, d = [b EXCEPT !.stale = @ \cup tiles] \/ d = b
  PROVE  /\ d \in Buffer /\ d.refcnt = b.refcnt /\ d.age = b.age
         /\ d.damage = b.damage /\ d.stale \subseteq b.stale \cup tiles
<1>1. CASE d = [b EXCEPT !.stale = @ \cup tiles]
  BY <1>1 DEF Buffer
<1>2. CASE d = b
  BY <1>2 DEF Buffer
<1> QED
  BY <1>1, <1>2

LEMMA DrawReported ==
  ASSUME IInv, NEW tiles \in SUBSET Tiles, Draw(tiles), damage = {}, IsClients
  PROVE  IInv'
<1>1. TypeOK /\ Counted /\ Current /\ HandsOff /\ behind \subseteq damage /\ Tied \subseteq Pixmaps
  BY Lists DEF IInv, Faithful
<1>2. /\ window # NoPixmap /\ window \in ClientPixmaps /\ window \notin Pixmaps /\ {window} \cap Pixmaps = {}
      /\ damage \subseteq tiles
  BY BuffersAssumption DEF IsClients
<1>3. /\ Swap(tiles) /\ Keep /\ damage' = tiles /\ behind' = behind \cup tiles
      /\ buffer' = [p \in Pixmaps |->
                     IF p \in Tied' THEN [Swapped(tiles)[p] EXCEPT !.stale = @ \cup tiles] ELSE Swapped(tiles)[p]]
      /\ UNCHANGED <<mapped, force, untied, frame_callback, with, timer>> /\ listed' \in BOOLEAN
  <2>1. damage' = tiles
    BY DEF Draw
  <2> QED
    BY <2>1 DEF Draw, Reports, Changes
<1>4. /\ window' \in Pixmaps /\ window' # window /\ window' \notin with /\ window' \notin untied
      /\ window' \notin unavailable /\ stale' = {}
      /\ available' \in Seq(Pixmaps) /\ Range(available') = Range(available) \ {window'}
      /\ unavailable' = unavailable /\ Tied' = Tied \ {window'}
  BY <1>2, <1>3, Swaps
<1>5. /\ Swapped(tiles) \in [Pixmaps -> Buffer]
      /\ Swapped(tiles)[window'].refcnt = 0
      /\ \A p \in Pixmaps \ {window'} :
           Swapped(tiles)[p].refcnt = buffer[p].refcnt /\ Swapped(tiles)[p].age = buffer[p].age
      /\ \A p \in Tied' : Swapped(tiles)[p].stale \subseteq Swapped(tiles)[p].damage
  BY <1>2, <1>3, <1>4, SwappedFacts
<1>6. /\ buffer' \in [Pixmaps -> Buffer] /\ buffer'[window'].refcnt = 0
      /\ \A p \in Pixmaps \ {window'} :
           buffer'[p].refcnt = buffer[p].refcnt /\ buffer'[p].age = buffer[p].age
      /\ \A p \in Tied' : buffer'[p].stale \subseteq buffer'[p].damage \cup tiles
  <2> DEFINE f == Swapped(tiles)
  <2>1. Tied' \subseteq Pixmaps
    BY <1>1, <1>4
  <2>2. f \in [Pixmaps -> Buffer]
    BY <1>5
  <2>3. buffer' = [p \in Pixmaps |-> IF p \in Tied' THEN [f[p] EXCEPT !.stale = @ \cup tiles] ELSE f[p]]
    BY <1>3
  <2> HIDE DEF f
  <2>4. /\ buffer' \in [Pixmaps -> Buffer]
        /\ \A p \in Pixmaps : /\ buffer'[p].refcnt = f[p].refcnt /\ buffer'[p].age = f[p].age
                              /\ buffer'[p].damage = f[p].damage /\ buffer'[p].stale \subseteq f[p].stale \cup tiles
    <3>1. ASSUME NEW p \in Pixmaps
          PROVE  /\ buffer'[p] \in Buffer
                 /\ buffer'[p].refcnt = f[p].refcnt /\ buffer'[p].age = f[p].age
                 /\ buffer'[p].damage = f[p].damage /\ buffer'[p].stale \subseteq f[p].stale \cup tiles
      <4> DEFINE d == buffer'[p]
      <4>1. f[p] \in Buffer /\ (d = [f[p] EXCEPT !.stale = @ \cup tiles] \/ d = f[p])
        BY <2>2, <2>3
      <4> HIDE DEF d
      <4>2. /\ d \in Buffer /\ d.refcnt = f[p].refcnt /\ d.age = f[p].age
            /\ d.damage = f[p].damage /\ d.stale \subseteq f[p].stale \cup tiles
        BY <4>1, Outdates
      <4> QED
        BY <4>2 DEF d
    <3>2. buffer' = [p \in Pixmaps |-> buffer'[p]]
      BY <2>3
    <3>3. buffer' \in [Pixmaps -> Buffer]
      BY <3>1, <3>2
    <3> QED
      BY <3>1, <3>3
  <2> QED
    BY <1>4, <1>5, <2>1, <2>4 DEF f
<1>7. (\A i, j \in DOMAIN available' : available'[i] = available'[j] => i = j) /\ Aging'
  BY <1>2, <1>3, <1>6, SwapAges
<1>8. TypeOK'
  BY <1>1, <1>3, <1>4, <1>6 DEF TypeOK
<1>9. Counted'
  <2>1. ASSUME NEW p \in Pixmaps PROVE buffer'[p].refcnt = Ref(p \in Tied') + Ref(p \in with')
    <3>1. CASE p = window'
      <4>1. p \notin Tied' /\ p \notin with' /\ buffer'[p].refcnt = 0
        BY <1>3, <1>4, <1>6, <3>1
      <4> QED
        BY <4>1 DEF Ref
    <3>2. CASE p # window'
      <4>1. (p \in Tied' <=> p \in Tied) /\ (p \in with' <=> p \in with) /\ buffer'[p].refcnt = buffer[p].refcnt
        BY <1>3, <1>4, <1>6, <3>2
      <4> QED
        BY <1>1, <4>1 DEF Counted, Ref
    <3> QED
      BY <3>1, <3>2
  <2> QED
    BY <1>1, <1>3, <1>4, <1>7, <2>1 DEF Counted
<1>10. Faithful'
  <2>1. window' \notin with' /\ ~IsClients' /\ Range(available') \cap with' = {}
    BY <1>1, <1>3, <1>4, BuffersAssumption DEF IsClients, HandsOff
  <2> QED
    BY <1>1, <1>3, <1>4, <1>6, <2>1 DEF Faithful, Current, HandsOff
<1> QED
  BY <1>3, <1>4, <1>7, <1>8, <1>9, <1>10, BuffersAssumption DEF IInv, HasPixmap

\* The buffers have missed what was drawn, be it in their own regions or in the
\* window's; nothing else about them changes.
LEMMA OnlyContents ==
  ASSUME IInv, UNCHANGED <<force, available, unavailable, untied, timer>>,
         mapped' \in BOOLEAN, listed' \in BOOLEAN, frame_callback' \in BOOLEAN,
         window' \in Pixmaps \cup ClientPixmaps, window' \notin Tied \cup untied,
         stale' = {}, damage' \subseteq Tiles, behind' \subseteq damage',
         window' \in with' => IsClients', IsClients' => damage' = {},
         with' \subseteq with \cup ClientPixmaps, with \subseteq with',
         buffer' \in [Pixmaps -> Buffer],
         \A p \in Pixmaps : buffer'[p].refcnt = buffer[p].refcnt /\ buffer'[p].age = buffer[p].age,
         \A p \in Tied : buffer'[p].stale \subseteq buffer'[p].damage \cup damage'
  PROVE  IInv'
<1>1. TypeOK /\ Counted /\ HandsOff /\ Range(available) \subseteq Pixmaps
  BY Lists DEF IInv, Faithful
<1>2. Tied' = Tied /\ \A p \in Pixmaps : p \in with' <=> p \in with
  BY BuffersAssumption DEF Tied
<1>3. TypeOK'
  BY <1>1 DEF TypeOK
<1>4. Counted'
  BY <1>1, <1>2 DEF Counted, Ref
<1>5. Faithful'
  <2>1. Range(available') \cap with' = {}
    BY <1>1, <1>2 DEF HandsOff
  <2> QED
    BY <1>2, <2>1 DEF Faithful, Current, HandsOff
<1>6. Aging'
  <2>1. \A i \in DOMAIN available : available[i] \in Pixmaps
    BY <1>1, Lists
  <2>2. available # <<>> => 1 \in DOMAIN available
    BY <1>1, Lists
  <2> QED
    BY <2>1, <2>2 DEF IInv, Aging, Off
<1>7. HasPixmap'
  BY BuffersAssumption DEF HasPixmap
<1> QED
  BY <1>3, <1>4, <1>5, <1>6, <1>7 DEF IInv

LEMMA DrawHolds == ASSUME IInv, NEW tiles \in SUBSET Tiles, Draw(tiles) PROVE IInv'
<1>1. TypeOK /\ Counted /\ Current /\ HandsOff /\ behind \subseteq damage /\ HasPixmap
  BY DEF IInv, Faithful
<1>2. CASE Reports /\ IsClients
  BY <1>2, DrawReported DEF Reports
<1>3. CASE ~(Reports /\ IsClients)
  <2>1. ~IsClients
    BY <1>1, <1>3 DEF HandsOff, Reports
  <2>2. UNCHANGED <<mapped, force, window, stale, available, unavailable, untied, frame_callback, with, timer>>
    BY <1>3 DEF Draw
  <2>3. Tied' = Tied /\ ~IsClients'
    BY <2>1, <2>2 DEF Tied, IsClients
  <2>4. /\ damage' = damage \cup tiles /\ behind' = behind \cup tiles /\ listed' \in BOOLEAN
        /\ buffer' = [p \in Pixmaps |-> IF p \in Tied' THEN [buffer[p] EXCEPT !.stale = @ \cup tiles] ELSE buffer[p]]
    BY <1>1, <1>3 DEF Draw, Changes, Reports, TypeOK
  <2>5. /\ buffer' \in [Pixmaps -> Buffer]
        /\ \A p \in Pixmaps : /\ buffer'[p].refcnt = buffer[p].refcnt /\ buffer'[p].age = buffer[p].age
                              /\ buffer'[p].damage = buffer[p].damage
                              /\ buffer'[p].stale \subseteq buffer[p].stale \cup tiles
    <3>1. ASSUME NEW p \in Pixmaps
          PROVE  /\ buffer'[p] \in Buffer
                 /\ buffer'[p].refcnt = buffer[p].refcnt /\ buffer'[p].age = buffer[p].age
                 /\ buffer'[p].damage = buffer[p].damage /\ buffer'[p].stale \subseteq buffer[p].stale \cup tiles
      <4> DEFINE d == buffer'[p]
      <4>1. buffer[p] \in Buffer /\ (d = [buffer[p] EXCEPT !.stale = @ \cup tiles] \/ d = buffer[p])
        BY <1>1, <2>4 DEF TypeOK
      <4> HIDE DEF d
      <4>2. /\ d \in Buffer /\ d.refcnt = buffer[p].refcnt /\ d.age = buffer[p].age
            /\ d.damage = buffer[p].damage /\ d.stale \subseteq buffer[p].stale \cup tiles
        BY <4>1, Outdates
      <4> QED
        BY <4>2 DEF d
    <3>2. buffer' = [p \in Pixmaps |-> buffer'[p]]
      BY <2>4
    <3>3. buffer' \in [Pixmaps -> Buffer]
      BY <3>1, <3>2
    <3> QED
      BY <3>1, <3>3
  <2>6. \A p \in Tied : buffer'[p].stale \subseteq buffer'[p].damage \cup damage'
    BY <1>1, <2>4, <2>5, Lists DEF Current
  <2>7. window' \in Pixmaps \cup ClientPixmaps /\ window' \notin Tied \cup untied /\ window' \notin with'
    BY <1>1, <2>1, <2>2, BuffersAssumption DEF Draw, TypeOK, HasPixmap, Counted, HandsOff
  <2>8. stale' = {} /\ damage' \subseteq Tiles /\ behind' \subseteq damage'
        /\ mapped' \in BOOLEAN /\ frame_callback' \in BOOLEAN
    BY <1>1, <2>2, <2>4 DEF TypeOK, Current
  <2> QED
    BY <2>2, <2>3, <2>4, <2>5, <2>6, <2>7, <2>8, OnlyContents
<1> QED
  BY <1>2, <1>3

LEMMA FlipHolds == ASSUME IInv, NEW c \in ClientPixmaps, NEW update \in SUBSET Tiles, Flip(c, update) PROVE IInv'
<1>1. TypeOK /\ Counted /\ Current /\ HandsOff /\ behind \subseteq damage /\ Tied \subseteq Pixmaps
  BY Lists DEF IInv, Faithful
<1>2. /\ UNCHANGED <<mapped, force, available, unavailable, untied, timer>>
      /\ window' = c /\ stale' = {} /\ damage' = {} /\ listed' = FALSE /\ frame_callback' = TRUE
      /\ with' = with \cup {c} /\ behind' = behind \ update /\ damage \subseteq update
  BY DEF Flip
<1>3. ASSUME NEW p \in Pixmaps
      PROVE  /\ buffer'[p] \in Buffer /\ buffer'[p].refcnt = buffer[p].refcnt /\ buffer'[p].age = buffer[p].age
             /\ p \in Tied => buffer'[p].stale \subseteq buffer'[p].damage
  <2>1. buffer[p] \in Buffer
    BY <1>1 DEF TypeOK
  <2>2. CASE p \in Tied
    <3> DEFINE b == AddDamage(damage \cup update)[p]
    <3>1. b = [buffer[p] EXCEPT !.damage = @ \cup (damage \cup update)]
      BY <2>2 DEF AddDamage
    <3>2. buffer'[p] = [b EXCEPT !.stale = @ \cup update]
      BY <2>2 DEF Flip
    <3> HIDE DEF b
    <3>3. /\ b \in Buffer /\ b.refcnt = buffer[p].refcnt /\ b.age = buffer[p].age
          /\ b.stale = buffer[p].stale /\ b.damage = buffer[p].damage \cup (damage \cup update)
      BY <1>1, <2>1, <3>1 DEF Buffer, TypeOK
    <3>4. /\ buffer'[p] \in Buffer /\ buffer'[p].refcnt = b.refcnt /\ buffer'[p].age = b.age
          /\ buffer'[p].stale = b.stale \cup update /\ buffer'[p].damage = b.damage
      BY <3>2, <3>3 DEF Buffer
    <3>5. buffer[p].stale \subseteq buffer[p].damage \cup damage
      BY <1>1, <2>2 DEF Current
    <3> QED
      BY <3>3, <3>4, <3>5
  <2>3. CASE p \notin Tied
    <3>1. buffer'[p] = buffer[p]
      BY <2>3 DEF Flip
    <3> QED
      BY <2>1, <2>3, <3>1
  <2> QED
    BY <2>2, <2>3
<1>4. buffer' \in [Pixmaps -> Buffer]
  BY <1>3 DEF Flip
<1>5. IsClients' /\ c \notin Pixmaps
  BY <1>2, BuffersAssumption DEF IsClients
<1>6. c \notin Tied \cup untied /\ behind' \subseteq {} /\ mapped' \in BOOLEAN
  BY <1>1, <1>2, <1>5 DEF TypeOK
<1>7. \A p \in Tied : buffer'[p].stale \subseteq buffer'[p].damage \cup damage'
  BY <1>1, <1>3
<1> QED
  BY <1>2, <1>3, <1>4, <1>5, <1>6, <1>7, OnlyContents

-----------------------------------------------------------------------------
\* Every step keeps the invariant, and it implies what the runs check.
LEMMA Inductive == ASSUME IInv, [Next]_vars PROVE IInv'
<1>1. ASSUME NEW tiles \in SUBSET Tiles \ {{}}, Draw(tiles) PROVE IInv'
  BY <1>1, DrawHolds
<1>2. ASSUME NEW c \in ClientPixmaps, NEW update \in SUBSET Tiles \ {{}}, Flip(c, update) PROVE IInv'
  BY <1>2, FlipHolds
<1>3. CASE UNCHANGED vars
  BY <1>3 DEF vars, lists, frame, IInv, TypeOK, Counted, Tied, Faithful, Current, HandsOff, IsClients, Aging, HasPixmap
<1> QED
  BY <1>1, <1>2, <1>3, MapHolds, UnmapHolds, FeedbackHolds, PostHolds, FrameHolds, ReleaseHolds,
     ReleaseFlipHolds, TimerHolds, TickHolds DEF Next

\* The oldest buffer is as old as the timer says, and the timer is not late.
LEMMA NotKept == ASSUME IInv PROVE Reclaimed
<1>1. TypeOK /\ Aging
  BY DEF IInv
<1>2. ASSUME NEW p \in Range(available) PROVE buffer[p].age <= Timeout + MaxLate
  <2>1. PICK i \in 1 .. Len(available) : p = available[i]
    BY <1>1, <1>2, Lists
  <2>2. available # <<>> /\ 1 \in DOMAIN available /\ i \in DOMAIN available /\ 1 <= i
    BY <1>1, <1>2, <2>1, Lists, Empties
  <2>3. buffer[available[1]].age >= buffer[p].age /\ timer # Off /\ timer = Timeout - buffer[available[1]].age
    BY <1>1, <2>1, <2>2 DEF Aging
  <2>4. buffer[available[1]].age \in Nat /\ buffer[p].age \in Nat
    BY <1>1, <2>1, <2>2, Lists DEF TypeOK, Buffer
  <2>5. timer >= - MaxLate
    BY <1>1, <2>3, BuffersAssumption DEF TypeOK, Off
  <2> QED
    BY <2>3, <2>4, <2>5, BuffersAssumption
<1> QED
  BY <1>2 DEF Reclaimed

LEMMA Holds == Spec => []IInv
<1>1. IInv /\ [Next]_vars => IInv'
  BY Inductive
<1> QED
  BY <1>1, InitHolds, PTL DEF Spec

\* The types hold: no list holds what is not a buffer, no count goes below zero
\* or above what it counts, whatever is released after its window is gone.
THEOREM TypesHold == Spec => []TypeOK
<1>1. IInv => TypeOK
  BY DEF IInv
<1> QED
  BY <1>1, Holds, PTL

\* References to buffers are counted right: whoever releases a buffer last frees
\* it, whether its window is still there or not.
THEOREM CountsHold == Spec => [](TypeOK /\ Counted)
<1>1. IInv => TypeOK /\ Counted
  BY DEF IInv
<1> QED
  BY <1>1, Holds, PTL

\* What is shown is what was drawn, and nothing is drawn into what is shown.
THEOREM ShowsWhatWasDrawn == Spec => []Faithful
<1>1. IInv => Faithful
  BY DEF IInv
<1> QED
  BY <1>1, Holds, PTL

\* No buffer stays available for longer than the timeout and the timer's delay.
THEOREM FreesUnused == Spec => []Reclaimed
<1>1. IInv => Reclaimed
  BY NotKept
<1> QED
  BY <1>1, Holds, PTL

=============================================================================
