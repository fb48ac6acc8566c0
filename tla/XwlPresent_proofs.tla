-------------------------- MODULE XwlPresent_proofs --------------------------
(***************************************************************************)
(* XwlPresent keeps its types, for every number of requests, every set of  *)
(* pixmaps and every setup: the calls in progress name requests where they *)
(* must, so no function is run on NULL, and the lists hold requests only.  *)
(***************************************************************************)
EXTENDS XwlPresent, TLAPS, SequenceTheorems

-----------------------------------------------------------------------------
(***************************************************************************)
(* Lists and calls.                                                        *)
(***************************************************************************)
LEMMA IdsNat == Ids \subseteq Nat \ {0} /\ NoId \notin Ids /\ NoId = 0
  BY PresentAssumption DEF Ids, NoId

\* Taking a request off a list leaves a list.
LEMMA WithoutTyped ==
  ASSUME NEW list \in Seq(Ids), NEW v
  PROVE  Without(list, v) \in Seq(Ids)
<1>1. CASE ~Has(list, v)
  BY <1>1, Zenon DEF Without
<1>2. CASE Has(list, v)
  <2> DEFINE p == Position(list, v)
             before == SubSeq(list, 1, p - 1)
             after  == SubSeq(list, p + 1, Len(list))
  <2>1. p \in 1 .. Len(list)
    BY <1>2, LenProperties DEF Has, Position
  <2>2. Len(list) \in Nat
    BY LenProperties
  <2> HIDE DEF p
  <2>3. before \in Seq(Ids) /\ after \in Seq(Ids)
    BY <2>1, <2>2, SubSeqProperties, ElementOfSeq, SMTT(30)
  <2>4. Without(list, v) = before \o after
    BY <1>2, Zenon DEF Without, p
  <2> HIDE DEF before, after
  <2> QED
    BY <2>3, <2>4, ConcatProperties, Zenon
<1> QED
  BY <1>1, <1>2

LEMMA FirstTyped ==
  ASSUME NEW list \in Seq(Ids), list # <<>>
  PROVE  First(list) \in Ids /\ First(list) = list[1] /\ Len(list) \in Nat \ {0} /\ list[Len(list)] \in Ids
<1>1. Len(list) \in Nat \ {0}
  BY EmptySeq
<1>2. list[1] \in Ids /\ list[Len(list)] \in Ids
  BY <1>1, ElementOfSeq
<1> QED
  BY <1>1, <1>2 DEF First

LEMMA AfterTyped ==
  ASSUME NEW list \in Seq(Ids), NEW v, Has(list, v)
  PROVE  After(list, v) \in Ids \cup {NoId}
<1>1. Position(list, v) \in 1 .. Len(list) /\ Len(list) \in Nat
  BY LenProperties DEF Has, Position
<1>2. CASE Position(list, v) < Len(list)
  <2>1. Position(list, v) + 1 \in 1 .. Len(list)
    BY <1>1, <1>2
  <2> QED
    BY <1>2, <2>1, ElementOfSeq DEF After
<1> QED
  BY <1>2 DEF After

LEMMA OneElement ==
  ASSUME NEW S, NEW e \in S
  PROVE  <<e>> \in Seq(S) /\ Len(<<e>>) = 1 /\ <<e>>[1] = e
<1>1. <<e>> = Append(<<>>, e)
  OBVIOUS
<1>2. <<>> \in Seq(S) /\ Len(<<>>) = 0
  BY EmptySeq
<1> QED
  BY <1>1, <1>2, AppendProperties

LEMMA CallTyped ==
  /\ \A fn \in WindowFns : Call(fn) \in Frame
  /\ \A lag \in Nat : CallOn("flush_blocked", NoId, lag) \in Frame
  /\ \A fn \in RequestFns, v \in Ids, lag \in Nat : CallOn(fn, v, lag) \in Frame
  BY DEF Call, CallOn, Frame, WindowFns

LEMMA IfTyped ==
  ASSUME NEW condition \in BOOLEAN, NEW frames, condition => frames \in Seq(Frame)
  PROVE  If(condition, frames) \in Seq(Frame)
  BY EmptySeq DEF If

\* The innermost call is of one of the two kinds.
LEMMA TopTyped ==
  ASSUME stack \in Seq(Frame), NEW fn, Running(fn)
  PROVE  /\ stack # <<>> /\ Tail(stack) \in Seq(Frame)
         /\ Top \in Frame /\ Top.fn = fn /\ Top.lag \in Nat
         /\ fn \in RequestFns => Top.v \in Ids
<1>1. stack # <<>> /\ Top.fn = fn
  BY DEF Running
<1>2. Top \in Frame /\ Tail(stack) \in Seq(Frame)
  BY <1>1, HeadTailProperties DEF Top
<1>3. Top.lag \in Nat
  BY <1>2 DEF Frame
<1>4. fn \in RequestFns => Top.v \in Ids
  BY <1>1, <1>2 DEF Frame, RequestFns, WindowFns
<1> QED
  BY <1>1, <1>2, <1>3, <1>4

LEMMA ContinueTyped ==
  ASSUME stack \in Seq(Frame), stack # <<>>, NEW frames \in Seq(Frame), Continue(frames)
  PROVE  stack' \in Seq(Frame)
<1>1. Tail(stack) \in Seq(Frame)
  BY HeadTailProperties
<1> QED
  BY <1>1, ConcatProperties DEF Continue

\* Two calls one after the other, each if its condition holds.
LEMMA TwoFrames ==
  ASSUME NEW f1, NEW f2, f1 \in Seq(Frame), f2 \in Frame
  PROVE  f1 \o <<f2>> \in Seq(Frame)
  BY OneElement, ConcatProperties

LEMMA LaterTyped ==
  ASSUME NEW s \in Seq(Frame)
  PROVE  Later(s) \in Seq(Frame)
<1>1. Len(s) \in Nat /\ DOMAIN s = 1 .. Len(s)
  BY LenProperties
<1>2. \A i \in 1 .. Len(s) : [s[i] EXCEPT !.lag = @ + 1] \in Frame
  <2> TAKE i \in 1 .. Len(s)
  <2>1. s[i] \in Frame
    BY ElementOfSeq
  <2> QED
    BY <2>1 DEF Frame
<1>3. Later(s) \in [1 .. Len(s) -> Frame]
  BY <1>1, <1>2 DEF Later
<1> QED
  BY <1>1, <1>3, SeqDef

-----------------------------------------------------------------------------
(***************************************************************************)
(* The record of a request.                                                *)
(***************************************************************************)
LEMMA DueTyped ==
  ASSUME NEW n \in Int, n <= MaxAhead
  PROVE  Due(n) \in -1 .. MaxAhead
  BY PresentAssumption DEF Due

LEMMA BlankTyped == Blank \in Vblank
  BY PresentAssumption DEF Blank, Vblank

LEMMA FreedTyped ==
  ASSUME NEW r \in Vblank
  PROVE  Freed(r) \in Vblank
<1>1. Blank \in Vblank
  BY BlankTyped
<1>2. r.handed \in BOOLEAN /\ r.done \in Nat /\ r.idled \in Nat
  BY DEF Vblank
<1> QED
  BY <1>1, <1>2 DEF Freed, Vblank

LEMMA RecordTyped ==
  ASSUME NEW r \in Vblank
  PROVE  /\ Idled(r) \in Vblank
         /\ Started(r) \in Vblank
         /\ Done(r) \in Vblank
         /\ [r EXCEPT !.abort_flip = TRUE] \in Vblank
         /\ [r EXCEPT !.flip = FALSE] \in Vblank
         /\ [r EXCEPT !.evpix = FALSE] \in Vblank
         /\ [r EXCEPT !.efd = "none"] \in Vblank
<1>1. Idled(r) \in Vblank
  BY DEF Vblank, Idled
<1>2. Started(r) \in Vblank
  BY DEF Vblank, Started
<1>3. Done(r) \in Vblank
  BY DEF Vblank, Done
<1>4. [r EXCEPT !.abort_flip = TRUE] \in Vblank /\ [r EXCEPT !.flip = FALSE] \in Vblank
  BY DEF Vblank
<1>5. [r EXCEPT !.evpix = FALSE] \in Vblank /\ [r EXCEPT !.efd = "none"] \in Vblank
  BY DEF Vblank
<1> QED
  BY <1>1, <1>2, <1>3, <1>4, <1>5

LEMMA SoonerTyped ==
  ASSUME NEW r \in Vblank
  PROVE  Sooner(r) \in Vblank
<1>1. r.due \in -1 .. MaxAhead /\ MaxAhead \in Nat
  BY PresentAssumption DEF Vblank
<1>2. Due(r.due - 1) \in -1 .. MaxAhead
  BY <1>1, DueTyped
<1> QED
  BY <1>2 DEF Sooner, Vblank

LEMMA WaitingTyped ==
  ASSUME NEW r \in Vblank, NEW v
  PROVE  Waiting(r, v) \in Vblank
<1>1. [r EXCEPT !.efd = "submitted"] \in Vblank /\ [r EXCEPT !.efd = "signaled"] \in Vblank
  BY DEF Vblank
<1>2. [r EXCEPT !.callback = TRUE] \in Vblank
  BY DEF Vblank
<1> QED
  BY <1>1, <1>2 DEF Waiting

\* The updates of two and more fields that the actions spell out.
LEMMA UpdateTyped ==
  ASSUME NEW r \in Vblank, NEW b \in BOOLEAN, NEW d \in -1 .. MaxAhead, NEW n \in Nat
  PROVE  /\ [r EXCEPT !.due = d, !.queued = TRUE] \in Vblank
         /\ [r EXCEPT !.evpix = TRUE, !.handed = b] \in Vblank
         /\ [r EXCEPT !.pixmap = FALSE, !.flip = FALSE] \in Vblank
         /\ [r EXCEPT !.idled = n, !.queued = b, !.copied = TRUE, !.due = d] \in Vblank
<1>1. [r EXCEPT !.due = d, !.queued = TRUE] \in Vblank
  BY DEF Vblank
<1>2. [r EXCEPT !.evpix = TRUE, !.handed = b] \in Vblank
  BY DEF Vblank
<1>3. [r EXCEPT !.pixmap = FALSE, !.flip = FALSE] \in Vblank
  BY DEF Vblank
<1>4. [r EXCEPT !.idled = n, !.queued = b, !.copied = TRUE, !.due = d] \in Vblank
  BY DEF Vblank
<1> QED
  BY <1>1, <1>2, <1>3, <1>4

\* A request due at most MaxAhead frames ahead is executed at most as far ahead.
LEMMA ExecDueTyped ==
  ASSUME NEW a, NEW ahead \in 0 .. MaxAhead
  PROVE  ExecDue(a, ahead) \in -1 .. MaxAhead
  BY PresentAssumption DEF ExecDue

LEMMA TargetAheadTyped ==
  ASSUME setup \in Setups, NEW a
  PROVE  TargetAhead(a) \subseteq 0 .. MaxAhead
<1>1. setup.ahead \in 1 .. MaxAhead /\ MaxAhead \in Nat \ {0}
  BY PresentAssumption DEF SetupType
<1> QED
  BY <1>1, PresentAssumption DEF TargetAhead

LEMMA PendingTyped ==
  ASSUME flip_queue \in Seq(Ids)
  PROVE  /\ PendingFlip \in Ids \cup {NoId}
         /\ PendingFlip # NoId => flip_queue # <<>>
  BY FirstTyped DEF PendingFlip, First

-----------------------------------------------------------------------------
(***************************************************************************)
(* What several functions share.                                           *)
(***************************************************************************)
\* A request that still has a pixmap to present names one.
PixmapsNamed == \A v \in Ids : vb[v].pixmap => pix[v] \in Pixmaps

LEMMA CbWithoutTyped ==
  ASSUME TypeOK, NEW S
  PROVE  CbWithout(S) \in [Pixmaps -> Ids \cup {NoId}]
  BY DEF TypeOK, CbWithout

LEMMA UnlinkTyped ==
  ASSUME TypeOK, NEW v, Unlink(v)
  PROVE  wait_list' \in Seq(Ids) /\ flip_queue' \in Seq(Ids) /\ idle_queue' \in Seq(Ids)
  BY WithoutTyped DEF TypeOK, Unlink

LEMMA QueueVblankTyped ==
  ASSUME TypeOK, NEW v \in Ids, NEW rec \in Vblank, QueueVblank(v, rec)
  PROVE  /\ vb' \in [Ids -> Vblank]
         /\ wait_list' \in Seq(Ids) /\ flip_queue' \in Seq(Ids) /\ idle_queue' \in Seq(Ids)
         /\ hooked' \in BOOLEAN
<1>1. vb' \in [Ids -> Vblank]
  BY DEF TypeOK, QueueVblank
<1>2. Without(wait_list, v) \in Seq(Ids)
  BY WithoutTyped DEF TypeOK
<1>3. wait_list' \in Seq(Ids)
  BY <1>2, AppendProperties DEF QueueVblank
<1>4. flip_queue' \in Seq(Ids) /\ idle_queue' \in Seq(Ids)
  BY WithoutTyped DEF TypeOK, QueueVblank
<1>5. hooked' \in BOOLEAN
  BY DEF TypeOK, QueueVblank, HooksUp
<1> QED
  BY <1>1, <1>3, <1>4, <1>5

LEMMA QueueResetsTyped == ASSUME TypeOK PROVE QueueResets \in Seq(Frame)
<1>1. (frame_callback \/ frame_timer = "none") \in BOOLEAN
  BY DEF TypeOK
<1>2. <<Call("reset_timer")>> \in Seq(Frame)
  BY CallTyped, OneElement DEF WindowFns
<1> QED
  BY <1>1, <1>2, IfTyped DEF QueueResets

\* A request that must wait: its record, its lists, the calls that remain.
LEMMA WaitTyped ==
  ASSUME TypeOK, stack # <<>>, NEW v \in Ids, NEW lag \in Nat, Wait(v, lag)
  PROVE  /\ vb' \in [Ids -> Vblank]
         /\ wait_list' \in Seq(Ids) /\ flip_queue' \in Seq(Ids) /\ idle_queue' \in Seq(Ids)
         /\ hooked' \in BOOLEAN /\ stack' \in Seq(Frame)
<1>1. vb[v] \in Vblank /\ stack \in Seq(Frame)
  BY DEF TypeOK
<1>2. CallOn("block", v, lag) \in Frame
  BY CallTyped DEF RequestFns
<1>3. CASE Requeues(v, lag)
  <2>1. QueueVblank(v, vb[v]) /\ Continue(QueueResets \o <<CallOn("block", v, lag)>>)
    BY <1>3 DEF Wait
  <2>2. stack' \in Seq(Frame)
    BY <2>1, <1>1, <1>2, QueueResetsTyped, TwoFrames, ContinueTyped
  <2> QED
    BY <2>1, <2>2, <1>1, QueueVblankTyped
<1>4. CASE ~Requeues(v, lag)
  <2>1. /\ vb' = [vb EXCEPT ![v] = Waiting(vb[v], v)]
        /\ Continue(<<CallOn("block", v, lag)>>)
        /\ UNCHANGED <<wait_list, flip_queue, idle_queue, hooked>>
    BY <1>4 DEF Wait, TypeOK
  <2>2. vb' \in [Ids -> Vblank]
    BY <2>1, <1>1, WaitingTyped DEF TypeOK
  <2>3. stack' \in Seq(Frame)
    BY <2>1, <1>1, <1>2, OneElement, ContinueTyped
  <2> QED
    BY <2>1, <2>2, <2>3 DEF TypeOK
<1> QED
  BY <1>3, <1>4

\* A call of a function that leaves the types it does not change alone.
LEMMA OneFrame ==
  /\ \A fn \in WindowFns : <<Call(fn)>> \in Seq(Frame)
  /\ \A lag \in Nat : <<CallOn("flush_blocked", NoId, lag)>> \in Seq(Frame)
  /\ \A fn \in RequestFns, v \in Ids, lag \in Nat : <<CallOn(fn, v, lag)>> \in Seq(Frame)
  BY CallTyped, OneElement

-----------------------------------------------------------------------------
(***************************************************************************)
(* The calls in progress.                                                  *)
(***************************************************************************)
LEMMA ResetTimerTyped == ASSUME TypeOK, ResetTimer PROVE TypeOK'
<1>1. stack # <<>> /\ stack \in Seq(Frame)
  BY DEF TypeOK, ResetTimer, Running
<1>2. <<>> \in Seq(Frame) /\ <<Call("msc_bump"), Call("reset_timer")>> \in Seq(Frame)
  <2>1. <<Call("msc_bump")>> \o <<Call("reset_timer")>> \in Seq(Frame)
    BY CallTyped, OneFrame, TwoFrames DEF WindowFns
  <2> QED
    BY <2>1, EmptySeq
<1>3. stack' \in Seq(Frame)
  BY <1>1, <1>2, ContinueTyped DEF ResetTimer
<1>4. hooked' \in BOOLEAN /\ frame_timer' \in {"none", "set", "fired"}
      /\ timer_armed' \in {"off", "fresh", "stale"}
  BY DEF TypeOK, ResetTimer, timer
<1> QED
  BY <1>3, <1>4 DEF TypeOK, ResetTimer, lists, world

LEMMA MscBumpTyped == ASSUME TypeOK, MscBump PROVE TypeOK'
<1>1. stack \in Seq(Frame) /\ Running("msc_bump") /\ Tail(stack) \in Seq(Frame)
  BY TopTyped DEF TypeOK, MscBump
<1>2. vb' \in [Ids -> Vblank]
  BY SoonerTyped DEF TypeOK, MscBump
<1>3. stack' \in Seq(Frame)
  <2> DEFINE notify == If(SyncFlipPending, <<CallOn("flip_notify", PendingFlip, 0)>>)
  <2>1. SyncFlipPending => PendingFlip \in Ids
    BY PendingTyped DEF TypeOK, SyncFlipPending
  <2>2. notify \in Seq(Frame)
    BY <2>1, OneFrame, EmptySeq DEF If, RequestFns
  <2>3. notify \o <<Call("bump_start")>> \in Seq(Frame)
    BY <2>2, CallTyped, TwoFrames DEF WindowFns
  <2>4. Later(Tail(stack)) \in Seq(Frame)
    BY <1>1, LaterTyped
  <2>5. stack' = (notify \o <<Call("bump_start")>>) \o Later(Tail(stack))
    BY DEF MscBump
  <2> HIDE DEF notify
  <2> QED
    BY <2>3, <2>4, <2>5, ConcatProperties
<1> QED
  BY <1>2, <1>3 DEF TypeOK, MscBump, Disarmed, lists, links, world

LEMMA BumpStartTyped == ASSUME TypeOK, BumpStart PROVE TypeOK'
<1>1. stack \in Seq(Frame) /\ stack # <<>> /\ Top.lag \in Nat
  BY TopTyped DEF TypeOK, BumpStart
<1>2. wait_list # <<>> => First(wait_list) \in Ids
  BY FirstTyped DEF TypeOK
<1>3. If(wait_list # <<>>, <<CallOn("bump_loop", First(wait_list), Top.lag)>>) \in Seq(Frame)
  BY <1>1, <1>2, OneFrame, EmptySeq DEF If, RequestFns
<1>4. stack' \in Seq(Frame)
  BY <1>1, <1>3, ContinueTyped DEF BumpStart
<1> QED
  BY <1>4 DEF TypeOK, BumpStart, lists, links, timer, world

LEMMA BumpLoopTyped == ASSUME TypeOK, BumpLoop PROVE TypeOK'
<1> DEFINE tmp == After(wait_list, Top.v)
           run == If(Reached(Top.v, Top.lag), <<CallOn("execute", Top.v, Top.lag)>>)
           on  == If(tmp # NoId, <<CallOn("bump_loop", tmp, Top.lag)>>)
<1>1. stack \in Seq(Frame) /\ stack # <<>> /\ Top.lag \in Nat /\ Top.v \in Ids
  BY TopTyped DEF TypeOK, BumpLoop, RequestFns
<1>2. tmp \in Ids \cup {NoId}
  BY AfterTyped DEF TypeOK, BumpLoop
<1>3. run \in Seq(Frame)
  BY <1>1, OneFrame, EmptySeq DEF If, RequestFns
<1>4. on \in Seq(Frame)
  BY <1>1, <1>2, OneFrame, EmptySeq DEF If, RequestFns
<1>5. Continue(run \o on)
  BY DEF BumpLoop
<1> HIDE DEF run, on
<1>6. stack' \in Seq(Frame)
  BY <1>1, <1>3, <1>4, <1>5, ConcatProperties, ContinueTyped
<1> QED
  BY <1>6 DEF TypeOK, BumpLoop, lists, links, timer, world

LEMMA FlipNotifyTyped == ASSUME TypeOK, FlipNotify PROVE TypeOK'
<1> DEFINE old  == flip_active
           free == old # NoId /\ Released(old, Top.v)
           stop == If(vb[Top.v].abort_flip, <<Call("flips_stop")>>)
<1>1. stack \in Seq(Frame) /\ stack # <<>> /\ Top.v \in Ids
  BY TopTyped DEF TypeOK, FlipNotify, RequestFns
<1>2. \A u \in Ids : vb[u] \in Vblank
  BY DEF TypeOK
<1>3. vb' \in [Ids -> Vblank]
  <2>1. vb' = [u \in Ids |-> IF u = Top.v THEN Done(vb[Top.v])
                             ELSE IF free /\ u = old THEN Freed(vb[u]) ELSE vb[u]]
    BY DEF FlipNotify
  <2> HIDE DEF free, old
  <2>2. Done(vb[Top.v]) \in Vblank /\ \A u \in Ids : Freed(vb[u]) \in Vblank
    BY <1>1, <1>2, RecordTyped, FreedTyped
  <2> QED
    BY <2>1, <2>2, <1>2
<1>4. release_cb' \in [Pixmaps -> Ids \cup {NoId}]
  BY CbWithoutTyped DEF TypeOK, FlipNotify
<1>5. flip_queue' \in Seq(Ids)
  BY WithoutTyped DEF TypeOK, FlipNotify
<1>6. idle_queue' \in Seq(Ids)
  <2>1. flip_active # NoId => Append(idle_queue, flip_active) \in Seq(Ids)
    BY AppendProperties DEF TypeOK
  <2> QED
    BY <2>1 DEF TypeOK, FlipNotify
<1>7. stack' \in Seq(Frame)
  <2>1. stop \in Seq(Frame) /\ Call("flip_try_ready") \in Frame
    BY OneFrame, CallTyped, EmptySeq DEF If, WindowFns
  <2>2. Continue(stop \o <<Call("flip_try_ready")>>)
    BY DEF FlipNotify
  <2> HIDE DEF stop
  <2> QED
    BY <2>1, <2>2, <1>1, TwoFrames, ContinueTyped
<1>8. flip_active' \in Ids \cup {NoId}
  BY <1>1 DEF FlipNotify
<1>9. UNCHANGED <<wait_list, blocked_queue, blocking_event, links, timer, world>>
  BY DEF FlipNotify
<1> QED
  BY <1>3, <1>4, <1>5, <1>6, <1>7, <1>8, <1>9 DEF TypeOK, links, timer, world

LEMMA FlipsStopTyped == ASSUME TypeOK, FlipsStop PROVE TypeOK'
<1>1. stack \in Seq(Frame) /\ stack # <<>>
  BY TopTyped DEF TypeOK, FlipsStop
<1>2. <<Call("reset_timer"), Call("flips_stop_free"), Call("flip_try_ready")>> \in Seq(Frame)
  <2>1. <<Call("reset_timer")>> \o <<Call("flips_stop_free")>> \in Seq(Frame)
    BY CallTyped, OneFrame, TwoFrames DEF WindowFns
  <2>2. <<Call("reset_timer"), Call("flips_stop_free")>> \o <<Call("flip_try_ready")>> \in Seq(Frame)
    BY <2>1, CallTyped, TwoFrames DEF WindowFns
  <2> QED
    BY <2>2
<1>3. stack' \in Seq(Frame)
  BY <1>1, <1>2, ContinueTyped DEF FlipsStop
<1> QED
  BY <1>3 DEF TypeOK, FlipsStop, lists, links, timer, world

LEMMA FlipsStopFreeTyped == ASSUME TypeOK, FlipsStopFree PROVE TypeOK'
<1> DEFINE idle == {v \in Ids : Has(idle_queue, v) \/ (v = flip_active /\ NotIdleYet(v))}
           all  == idle \cup ({flip_active} \ {NoId})
<1>1. stack \in Seq(Frame) /\ stack # <<>>
  BY TopTyped DEF TypeOK, FlipsStopFree
<1>2. vb' \in [Ids -> Vblank]
  <2>1. vb' = [v \in Ids |-> IF v \in idle THEN Freed(Idled(vb[v]))
                             ELSE IF v \in all THEN Freed(vb[v]) ELSE vb[v]]
    BY DEF FlipsStopFree
  <2>2. \A v \in Ids : vb[v] \in Vblank /\ Freed(vb[v]) \in Vblank /\ Freed(Idled(vb[v])) \in Vblank
    BY FreedTyped, RecordTyped DEF TypeOK
  <2> HIDE DEF idle, all
  <2> QED
    BY <2>1, <2>2
<1>3. release_cb' \in [Pixmaps -> Ids \cup {NoId}]
  <2>1. release_cb' = CbWithout(all)
    BY DEF FlipsStopFree
  <2> HIDE DEF all
  <2> QED
    BY <2>1, CbWithoutTyped
<1>4. idle_queue' \in Seq(Ids) /\ flip_active' = NoId /\ stack' \in Seq(Frame)
  <2>1. idle_queue' = <<>> /\ flip_active' = NoId /\ Continue(<<>>)
    BY DEF FlipsStopFree
  <2> QED
    BY <2>1, <1>1, EmptySeq, ContinueTyped
<1>5. UNCHANGED <<wait_list, flip_queue, blocked_queue, blocking_event, links, timer, world>>
  BY DEF FlipsStopFree
<1> QED
  BY <1>2, <1>3, <1>4, <1>5 DEF TypeOK, links, timer, world

LEMMA FlipTryReadyTyped == ASSUME TypeOK, FlipTryReady PROVE TypeOK'
<1>1. stack \in Seq(Frame) /\ stack # <<>>
  BY TopTyped DEF TypeOK, FlipTryReady
<1>2. stack' \in Seq(Frame)
  <2>1. CASE Continue(<<>>)
    BY <2>1, <1>1, EmptySeq, ContinueTyped
  <2>2. ASSUME NEW i \in DOMAIN flip_queue, Continue(<<CallOn("re_execute", flip_queue[i], 0)>>)
        PROVE  stack' \in Seq(Frame)
    <3>1. flip_queue[i] \in Ids
      BY LenProperties, ElementOfSeq DEF TypeOK
    <3> QED
      BY <3>1, <2>2, <1>1, OneFrame, ContinueTyped DEF RequestFns
  <2> QED
    BY <2>1, <2>2 DEF FlipTryReady
<1> QED
  BY <1>2 DEF TypeOK, FlipTryReady, lists, links, timer, world

\* What a request that was queued, or executed at once, leaves behind.
LEMMA ReExecuteTyped == ASSUME TypeOK, ReExecute PROVE TypeOK'
<1>1. stack \in Seq(Frame) /\ stack # <<>> /\ Top.v \in Ids
  BY TopTyped DEF TypeOK, ReExecute, RequestFns
<1>2. PICK ahead \in TargetAhead(req[Top.v]) :
        LET v   == Top.v
            rec == [vb[v] EXCEPT !.due = ExecDue(req[v], ahead), !.queued = TRUE]
        IN IF rec.due > 0
           THEN /\ QueueVblank(v, rec)
                /\ Continue(QueueResets)
           ELSE /\ vb' = [vb EXCEPT ![v] = rec]
                /\ Continue(<<CallOn("execute", v, 0)>>)
                /\ UNCHANGED <<wait_list, flip_queue, idle_queue, hooked>>
  BY DEF ReExecute
<1> DEFINE v   == Top.v
           rec == [vb[v] EXCEPT !.due = ExecDue(req[v], ahead), !.queued = TRUE]
<1>3. v \in Ids /\ rec \in Vblank
  <2>1. setup \in Setups /\ vb[v] \in Vblank
    BY <1>1 DEF TypeOK
  <2>2. ahead \in 0 .. MaxAhead
    BY <2>1, TargetAheadTyped
  <2>3. ExecDue(req[v], ahead) \in -1 .. MaxAhead
    BY <2>2, ExecDueTyped
  <2> QED
    BY <1>1, <2>1, <2>3, UpdateTyped
<1>4. \/ QueueVblank(v, rec) /\ Continue(QueueResets)
      \/ /\ vb' = [vb EXCEPT ![v] = rec] /\ Continue(<<CallOn("execute", v, 0)>>)
         /\ UNCHANGED <<wait_list, flip_queue, idle_queue, hooked>>
  BY <1>2
<1> HIDE DEF v, rec
<1>5. /\ vb' \in [Ids -> Vblank]
      /\ wait_list' \in Seq(Ids) /\ flip_queue' \in Seq(Ids) /\ idle_queue' \in Seq(Ids)
      /\ hooked' \in BOOLEAN /\ stack' \in Seq(Frame)
  <2>1. CASE QueueVblank(v, rec) /\ Continue(QueueResets)
    BY <2>1, <1>1, <1>3, QueueVblankTyped, QueueResetsTyped, ContinueTyped
  <2>2. CASE /\ vb' = [vb EXCEPT ![v] = rec] /\ Continue(<<CallOn("execute", v, 0)>>)
             /\ UNCHANGED <<wait_list, flip_queue, idle_queue, hooked>>
    <3>1. vb' \in [Ids -> Vblank]
      BY <2>2, <1>3 DEF TypeOK
    <3>2. stack' \in Seq(Frame)
      BY <2>2, <1>1, <1>3, OneFrame, ContinueTyped DEF RequestFns
    <3> QED
      BY <3>1, <3>2, <2>2 DEF TypeOK
  <2> QED
    BY <1>4, <2>1, <2>2
<1>6. UNCHANGED <<blocked_queue, flip_active, blocking_event, frame_callback, entered_for_each,
                  sync_callback, timer, release_cb, world>>
  BY DEF ReExecute
<1> QED
  BY <1>5, <1>6 DEF TypeOK, timer, world

LEMMA ExecuteTyped == ASSUME TypeOK, Execute PROVE TypeOK'
<1>1. stack \in Seq(Frame) /\ stack # <<>> /\ Top.v \in Ids /\ Top.lag \in Nat
  BY TopTyped DEF TypeOK, Execute, RequestFns
<1>2. wait_list' \in Seq(Ids) /\ flip_queue' \in Seq(Ids) /\ idle_queue' \in Seq(Ids)
  BY UnlinkTyped DEF Execute
<1>3. blocked_queue' \in Seq(Ids)
  BY <1>1, AppendProperties DEF TypeOK, Execute
<1>4. If(~Blocked(Top.v), <<CallOn("retry", Top.v, Top.lag)>>) \in Seq(Frame)
  BY <1>1, OneFrame, EmptySeq DEF If, RequestFns
<1>5. stack' \in Seq(Frame)
  BY <1>1, <1>4, ContinueTyped DEF Execute
<1>6. UNCHANGED <<vb, flip_active, blocking_event, links, timer, release_cb, world>>
  BY DEF Execute
<1> QED
  BY <1>2, <1>3, <1>5, <1>6 DEF TypeOK, links, timer, world

LEMMA RetryWaitTyped == ASSUME TypeOK, NEW v \in Ids, RetryWait(v) PROVE TypeOK'
<1>1. stack # <<>> /\ Top.lag \in Nat
  BY TopTyped DEF TypeOK, RetryWait, Retrying
<1>2. /\ vb' \in [Ids -> Vblank]
      /\ wait_list' \in Seq(Ids) /\ flip_queue' \in Seq(Ids) /\ idle_queue' \in Seq(Ids)
      /\ hooked' \in BOOLEAN /\ stack' \in Seq(Frame)
  BY <1>1, WaitTyped DEF RetryWait
<1>3. UNCHANGED <<blocked_queue, flip_active, blocking_event, frame_callback,
                  entered_for_each, sync_callback, timer, release_cb, world>>
  BY DEF RetryWait
<1> QED
  BY <1>2, <1>3 DEF TypeOK, timer, world

LEMMA BlockTyped == ASSUME TypeOK, Block PROVE TypeOK'
<1>1. stack \in Seq(Frame) /\ stack # <<>> /\ Top.v \in Ids
  BY TopTyped DEF TypeOK, Block, RequestFns
<1>2. stack' \in Seq(Frame)
  BY <1>1, EmptySeq, ContinueTyped DEF Block
<1>3. blocking_event' \in Ids \cup {NoId}
  BY <1>1 DEF TypeOK, Block
<1> QED
  BY <1>2, <1>3 DEF TypeOK, Block, lists, links, timer, world

LEMMA RetryQueueFlipTyped == ASSUME TypeOK, NEW v \in Ids, RetryQueueFlip(v) PROVE TypeOK'
<1> DEFINE last    == flip_queue[Len(flip_queue)]
           mailbox == last # PendingFlip /\ (vb[last].sync_flip \/ HasSyncobj(v))
           first   == If(mailbox, <<CallOn("re_execute", last, 0)>>)
<1>1. stack \in Seq(Frame) /\ stack # <<>> /\ Top.lag \in Nat
  BY TopTyped DEF TypeOK, RetryQueueFlip, Ready, Retrying
<1>2. last \in Ids
  BY PendingTyped, FirstTyped DEF TypeOK, RetryQueueFlip, Queues
<1>3. vb' \in [Ids -> Vblank]
  <2>1. vb' = IF mailbox
              THEN [vb EXCEPT ![last] = [Idled(@) EXCEPT !.pixmap = FALSE, !.flip = FALSE]] ELSE vb
    BY DEF RetryQueueFlip
  <2>2. Idled(vb[last]) \in Vblank
    BY <1>2, RecordTyped DEF TypeOK
  <2>3. -1 \in -1 .. MaxAhead /\ 0 \in Nat
    BY PresentAssumption
  <2>4. [Idled(vb[last]) EXCEPT !.pixmap = FALSE, !.flip = FALSE] \in Vblank
    BY <2>2, <2>3, UpdateTyped
  <2> HIDE DEF last, mailbox
  <2> QED
    BY <2>1, <2>4, <1>2 DEF TypeOK
<1>4. flip_queue' \in Seq(Ids)
  BY WithoutTyped DEF TypeOK, RetryQueueFlip
<1>5. stack' \in Seq(Frame)
  <2>1. Continue(first \o <<CallOn("append_flip", v, Top.lag)>>)
    BY DEF RetryQueueFlip
  <2>2. first \in Seq(Frame)
    BY <1>2, OneFrame, EmptySeq DEF If, RequestFns
  <2>3. CallOn("append_flip", v, Top.lag) \in Frame
    BY <1>1, CallTyped DEF RequestFns
  <2> HIDE DEF first
  <2> QED
    BY <2>1, <2>2, <2>3, <1>1, TwoFrames, ContinueTyped
<1>6. UNCHANGED <<wait_list, idle_queue, blocked_queue, flip_active, blocking_event, links,
                  timer, release_cb, world>>
  BY DEF RetryQueueFlip
<1> QED
  BY <1>3, <1>4, <1>5, <1>6 DEF TypeOK, links, timer, world

LEMMA AppendFlipTyped == ASSUME TypeOK, AppendFlip PROVE TypeOK'
<1>1. stack \in Seq(Frame) /\ stack # <<>> /\ Top.v \in Ids
  BY TopTyped DEF TypeOK, AppendFlip, RequestFns
<1>2. stack' \in Seq(Frame)
  BY <1>1, EmptySeq, ContinueTyped DEF AppendFlip
<1>3. flip_queue' \in Seq(Ids)
  BY <1>1, AppendProperties DEF TypeOK, AppendFlip
<1> QED
  BY <1>2, <1>3 DEF TypeOK, AppendFlip, links, timer, world

LEMMA RetryFlipTyped == ASSUME TypeOK, PixmapsNamed, NEW v \in Ids, RetryFlip(v) PROVE TypeOK'
<1> DEFINE explicit == setup.explicit_sync /\ HasSyncobj(v)
           resets   == CallbackResets
           first    == If(resets, <<Call("reset_timer"), Call("leave_for_each")>>)
<1>1. stack \in Seq(Frame) /\ stack # <<>> /\ Top.lag \in Nat
  BY TopTyped DEF TypeOK, RetryFlip, Ready, Retrying
<1>2. explicit \in BOOLEAN /\ resets \in BOOLEAN
  BY PresentAssumption DEF TypeOK, SetupType, HasSyncobj, CallbackResets
<1>3. vb' \in [Ids -> Vblank]
  <2>1. vb' = [vb EXCEPT ![v] = [Started(@) EXCEPT !.evpix = TRUE, !.handed = explicit]]
    BY DEF RetryFlip
  <2>2. Started(vb[v]) \in Vblank
    BY RecordTyped DEF TypeOK
  <2>3. -1 \in -1 .. MaxAhead /\ 0 \in Nat
    BY PresentAssumption
  <2> HIDE DEF explicit
  <2>4. [Started(vb[v]) EXCEPT !.evpix = TRUE, !.handed = explicit] \in Vblank
    BY <1>2, <2>2, <2>3, UpdateTyped
  <2> QED
    BY <2>1, <2>4 DEF TypeOK
<1>4. release_cb' \in [Pixmaps -> Ids \cup {NoId}]
  BY DEF TypeOK, RetryFlip
<1>5. held' \in SUBSET Pixmaps
  <2>1. pix[v] \in Pixmaps
    BY DEF PixmapsNamed, RetryFlip, Presents
  <2> QED
    BY <2>1 DEF TypeOK, RetryFlip
<1>6. entered_for_each' \in BOOLEAN /\ hooked' = TRUE /\ frame_callback' = TRUE
  BY <1>2 DEF TypeOK, RetryFlip
<1>7. stack' \in Seq(Frame)
  <2>1. Continue(first \o <<CallOn("flip_done", v, Top.lag)>>)
    BY DEF RetryFlip
  <2>2. <<Call("reset_timer")>> \o <<Call("leave_for_each")>> \in Seq(Frame)
    BY CallTyped, OneFrame, TwoFrames DEF WindowFns
  <2>3. first \in Seq(Frame) /\ CallOn("flip_done", v, Top.lag) \in Frame
    BY <2>2, <1>1, CallTyped, EmptySeq DEF If, RequestFns
  <2> HIDE DEF first
  <2> QED
    BY <2>1, <2>3, <1>1, TwoFrames, ContinueTyped
<1>8. UNCHANGED <<lists, flip_active, blocking_event, sync_callback, timer,
                  req, pix, acq, window, can_flip, setup>>
  BY DEF RetryFlip
<1> QED
  BY <1>3, <1>4, <1>5, <1>6, <1>7, <1>8 DEF TypeOK, lists, timer

LEMMA FlipDoneTyped == ASSUME TypeOK, FlipDone PROVE TypeOK'
<1>1. stack \in Seq(Frame) /\ stack # <<>> /\ Top.v \in Ids /\ Top.lag \in Nat
  BY TopTyped DEF TypeOK, FlipDone, RequestFns
<1>2. flip_queue' \in Seq(Ids)
  BY <1>1, OneElement, ConcatProperties DEF TypeOK, FlipDone, WithPending
<1>3. sync_callback' \in Ids \cup {NoId}
  BY <1>1 DEF TypeOK, FlipDone
<1>4. stack' \in Seq(Frame)
  <2>1. <<Call("reset_timer")>> \o <<CallOn("flush_blocked", NoId, Top.lag)>> \in Seq(Frame)
    BY <1>1, CallTyped, OneFrame, TwoFrames DEF WindowFns
  <2>2. Continue(<<Call("reset_timer"), CallOn("flush_blocked", NoId, Top.lag)>>)
    BY DEF FlipDone
  <2> QED
    BY <2>1, <2>2, <1>1, ContinueTyped
<1>5. UNCHANGED <<vb, wait_list, idle_queue, blocked_queue, flip_active, blocking_event,
                  hooked, frame_callback, entered_for_each, timer, release_cb, world>>
  BY DEF FlipDone
<1> QED
  BY <1>2, <1>3, <1>4, <1>5 DEF TypeOK, timer, world

LEMMA RetryFlipFailsTyped == ASSUME TypeOK, NEW v \in Ids, RetryFlipFails(v) PROVE TypeOK'
<1>1. stack \in Seq(Frame) /\ stack # <<>> /\ Top.lag \in Nat
  BY TopTyped DEF TypeOK, RetryFlipFails, Ready, Retrying
<1>2. vb' \in [Ids -> Vblank]
  <2>1. Started(vb[v]) \in Vblank
    BY RecordTyped DEF TypeOK
  <2>2. [Started(vb[v]) EXCEPT !.flip = FALSE] \in Vblank
    BY <2>1, RecordTyped
  <2> QED
    BY <2>2 DEF TypeOK, RetryFlipFails
<1>3. stack' \in Seq(Frame)
  <2>1. Continue(<<CallOn("retry", v, Top.lag)>>)
    BY DEF RetryFlipFails
  <2> QED
    BY <2>1, <1>1, OneFrame, ContinueTyped DEF RequestFns
<1>4. UNCHANGED <<lists, flip_active, blocking_event, links, timer, release_cb, world>>
  BY DEF RetryFlipFails
<1> QED
  BY <1>2, <1>3, <1>4 DEF TypeOK, lists, links, timer, world

LEMMA RetryCopyTyped == ASSUME TypeOK, NEW v \in Ids, RetryCopy(v) PROVE TypeOK'
<1> DEFINE stop == If(PendingFlip = NoId /\ flip_active # NoId, <<Call("flips_stop")>>)
<1>1. stack \in Seq(Frame) /\ stack # <<>> /\ Top.lag \in Nat
  BY TopTyped DEF TypeOK, RetryCopy, Ready, Retrying
<1>2. vb' \in [Ids -> Vblank]
  <2>1. vb' = [u \in Ids |-> IF u = v THEN Started(vb[u])
                             ELSE IF u = PendingFlip THEN [vb[u] EXCEPT !.abort_flip = TRUE]
                             ELSE vb[u]]
    BY DEF RetryCopy
  <2>2. \A u \in Ids : /\ vb[u] \in Vblank /\ Started(vb[u]) \in Vblank
                       /\ [vb[u] EXCEPT !.abort_flip = TRUE] \in Vblank
    BY RecordTyped DEF TypeOK
  <2> QED
    BY <2>1, <2>2
<1>3. stack' \in Seq(Frame)
  <2>1. Continue(stop \o <<CallOn("copy", v, Top.lag)>>)
    BY DEF RetryCopy
  <2>2. stop \in Seq(Frame) /\ CallOn("copy", v, Top.lag) \in Frame
    BY <1>1, OneFrame, CallTyped, EmptySeq DEF If, WindowFns, RequestFns
  <2> HIDE DEF stop
  <2> QED
    BY <2>1, <2>2, <1>1, TwoFrames, ContinueTyped
<1>4. UNCHANGED <<lists, flip_active, blocking_event, links, timer, release_cb, world>>
  BY DEF RetryCopy
<1> QED
  BY <1>2, <1>3, <1>4 DEF TypeOK, lists, links, timer, world

LEMMA CopyTyped == ASSUME TypeOK, Copy PROVE TypeOK'
<1> DEFINE v   == Top.v
           now == ~Requeues(v, Top.lag)
           rec == [vb[v] EXCEPT !.idled = IF now THEN @ + 1 ELSE @, !.queued = ~now,
                                !.copied = TRUE, !.due = Due(1 - Top.lag)]
<1>1. stack \in Seq(Frame) /\ stack # <<>> /\ Top.v \in Ids /\ Top.lag \in Nat
  BY TopTyped DEF TypeOK, Copy, RequestFns
<1>2. rec \in Vblank
  <2>1. (~now) \in BOOLEAN /\ vb[v] \in Vblank
    BY <1>1 DEF TypeOK, Requeues
  <2>2. 1 - Top.lag \in Int /\ 1 - Top.lag <= MaxAhead
    BY <1>1, PresentAssumption
  <2>3. Due(1 - Top.lag) \in -1 .. MaxAhead
    BY <2>2, DueTyped
  <2>4. vb[v].idled \in Nat /\ (IF now THEN vb[v].idled + 1 ELSE vb[v].idled) \in Nat
    BY <2>1 DEF Vblank
  <2> DEFINE n == IF now THEN vb[v].idled + 1 ELSE vb[v].idled
             b == ~now
             d == Due(1 - Top.lag)
  <2>5. rec = [vb[v] EXCEPT !.idled = n, !.queued = b, !.copied = TRUE, !.due = d]
    OBVIOUS
  <2>6. n \in Nat /\ b \in BOOLEAN /\ d \in -1 .. MaxAhead
    BY <2>1, <2>3, <2>4
  <2> HIDE DEF n, b, d, now, v, rec
  <2> QED
    BY <2>1, <2>5, <2>6, UpdateTyped
<1>3. QueueVblank(v, rec) /\ Continue(QueueResets \o <<CallOn("flush_blocked", NoId, Top.lag)>>)
  BY DEF Copy
<1> HIDE DEF v, rec
<1>4. stack' \in Seq(Frame)
  BY <1>1, <1>3, QueueResetsTyped, CallTyped, TwoFrames, ContinueTyped
<1>5. v \in Ids
  BY <1>1 DEF v
<1>6. /\ vb' \in [Ids -> Vblank]
      /\ wait_list' \in Seq(Ids) /\ flip_queue' \in Seq(Ids) /\ idle_queue' \in Seq(Ids)
      /\ hooked' \in BOOLEAN
  BY <1>2, <1>3, <1>5, QueueVblankTyped
<1>7. UNCHANGED <<blocked_queue, flip_active, blocking_event, frame_callback, entered_for_each,
                  sync_callback, timer, release_cb, world>>
  BY DEF Copy
<1> QED
  BY <1>4, <1>6, <1>7 DEF TypeOK, timer, world

LEMMA RetryPostTyped == ASSUME TypeOK, NEW v \in Ids, RetryPost(v) PROVE TypeOK'
<1>1. stack \in Seq(Frame) /\ stack # <<>>
  BY TopTyped DEF TypeOK, RetryPost, Ready, Retrying
<1>2. vb' \in [Ids -> Vblank]
  <2>1. Freed(Done(vb[v])) \in Vblank
    BY RecordTyped, FreedTyped DEF TypeOK
  <2> QED
    BY <2>1 DEF TypeOK, RetryPost
<1>3. stack' \in Seq(Frame)
  BY <1>1, EmptySeq, ContinueTyped DEF RetryPost
<1>4. UNCHANGED <<lists, flip_active, blocking_event, links, timer, release_cb, world>>
  BY DEF RetryPost
<1> QED
  BY <1>2, <1>3, <1>4 DEF TypeOK, lists, links, timer, world

LEMMA FlushBlockedTyped == ASSUME TypeOK, FlushBlocked PROVE TypeOK'
<1>1. stack \in Seq(Frame) /\ stack # <<>> /\ Top.lag \in Nat
  BY TopTyped DEF TypeOK, FlushBlocked
<1>2. blocked_queue # <<>> => First(blocked_queue) \in Ids
  BY FirstTyped DEF TypeOK
<1>3. If(blocking_event # NoId /\ blocked_queue # <<>>,
         <<CallOn("flush_loop", First(blocked_queue), Top.lag)>>) \in Seq(Frame)
  BY <1>1, <1>2, OneFrame, EmptySeq DEF If, RequestFns
<1>4. stack' \in Seq(Frame)
  BY <1>1, <1>3, ContinueTyped DEF FlushBlocked
<1> QED
  BY <1>4 DEF TypeOK, FlushBlocked, Unblocked, lists, links, timer, world

LEMMA FlushLoopTyped == ASSUME TypeOK, FlushLoop PROVE TypeOK'
<1> DEFINE v   == Top.v
           tmp == After(blocked_queue, v)
           on  == If(tmp # NoId, <<CallOn("flush_loop", tmp, Top.lag)>>)
<1>1. stack \in Seq(Frame) /\ stack # <<>> /\ Top.v \in Ids /\ Top.lag \in Nat
  BY TopTyped DEF TypeOK, FlushLoop, RequestFns
<1>2. blocked_queue' \in Seq(Ids)
  BY WithoutTyped DEF TypeOK, FlushLoop
<1>3. \/ Wait(v, Top.lag)
      \/ /\ Continue(<<CallOn("re_execute", v, 0)>> \o on)
         /\ UNCHANGED <<vb, wait_list, flip_queue, idle_queue, hooked>>
  BY DEF FlushLoop
<1>4. /\ vb' \in [Ids -> Vblank]
      /\ wait_list' \in Seq(Ids) /\ flip_queue' \in Seq(Ids) /\ idle_queue' \in Seq(Ids)
      /\ hooked' \in BOOLEAN /\ stack' \in Seq(Frame)
  <2>1. CASE Wait(v, Top.lag)
    BY <2>1, <1>1, WaitTyped
  <2>2. CASE /\ Continue(<<CallOn("re_execute", v, 0)>> \o on)
             /\ UNCHANGED <<vb, wait_list, flip_queue, idle_queue, hooked>>
    <3>1. tmp \in Ids \cup {NoId}
      BY AfterTyped DEF TypeOK, FlushLoop
    <3>2. on \in Seq(Frame)
      BY <3>1, <1>1, OneFrame, EmptySeq DEF If, RequestFns
    <3>3. <<CallOn("re_execute", v, 0)>> \in Seq(Frame)
      BY <1>1, OneFrame DEF RequestFns
    <3> HIDE DEF on, tmp
    <3>4. stack' \in Seq(Frame)
      BY <2>2, <3>2, <3>3, <1>1, ConcatProperties, ContinueTyped
    <3> QED
      BY <2>2, <3>4 DEF TypeOK
  <2> QED
    BY <1>3, <2>1, <2>2
<1>5. UNCHANGED <<flip_active, blocking_event, frame_callback, entered_for_each,
                  sync_callback, timer, release_cb, world>>
  BY DEF FlushLoop
<1> QED
  BY <1>2, <1>4, <1>5 DEF TypeOK, timer, world

LEMMA DropFlipsTyped == ASSUME TypeOK, DropFlips PROVE TypeOK'
<1>1. stack \in Seq(Frame) /\ stack # <<>>
  BY TopTyped DEF TypeOK, DropFlips
<1>2. vb' \in [Ids -> Vblank]
  BY RecordTyped DEF TypeOK, DropFlips
<1>3. stack' \in Seq(Frame)
  BY <1>1, EmptySeq, ContinueTyped DEF DropFlips
<1> QED
  BY <1>2, <1>3 DEF TypeOK, DropFlips, lists, links, timer, world

\* The timers that the end of a walk of the frame callbacks may reset.
LEMMA ResetsTyped ==
  /\ <<>> \in Seq(Frame)
  /\ <<Call("reset_timer"), Call("leave_for_each")>> \in Seq(Frame)
<1>1. <<Call("reset_timer")>> \o <<Call("leave_for_each")>> \in Seq(Frame)
  BY CallTyped, OneFrame, TwoFrames DEF WindowFns
<1> QED
  BY <1>1, EmptySeq

LEMMA WalkTyped ==
  ASSUME TypeOK, LeaveForEach \/ FrameDone
  PROVE  TypeOK'
<1>1. stack \in Seq(Frame) /\ stack # <<>>
  BY TopTyped DEF TypeOK, LeaveForEach, FrameDone
<1>2. CASE LeaveForEach
  <2>1. stack' \in Seq(Frame)
    BY <1>1, <1>2, EmptySeq, ContinueTyped DEF LeaveForEach
  <2>2. entered_for_each' \in BOOLEAN
    BY <1>2 DEF LeaveForEach
  <2>3. UNCHANGED <<vb, lists, flip_active, blocking_event, hooked, frame_callback, sync_callback,
                    timer, release_cb, world>>
    BY <1>2, Zenon DEF LeaveForEach
  <2> QED
    BY <2>1, <2>2, <2>3 DEF TypeOK, lists, timer, world
<1>3. CASE FrameDone
  <2>1. If(frame_callback /\ hooked, <<Call("reset_timer"), Call("leave_for_each")>>) \in Seq(Frame)
    BY ResetsTyped DEF If
  <2>2. stack' \in Seq(Frame)
    BY <1>1, <1>3, <2>1, ContinueTyped DEF FrameDone
  <2>3. entered_for_each' \in BOOLEAN
    BY <1>3 DEF FrameDone, TypeOK
  <2> QED
    BY <1>3, <2>2, <2>3 DEF TypeOK, FrameDone, lists, timer, world
<1> QED
  BY <1>2, <1>3

LEMMA TriggerTyped == ASSUME TypeOK, Trigger PROVE TypeOK'
<1> DEFINE again == If(vb[Top.v].callback, <<CallOn("re_execute", Top.v, 0), Top>>)
<1>1. stack \in Seq(Frame) /\ stack # <<>> /\ Top.v \in Ids /\ Top \in Frame
  BY TopTyped DEF TypeOK, Trigger, RequestFns
<1>2. <<CallOn("re_execute", Top.v, 0)>> \o <<Top>> \in Seq(Frame)
  BY <1>1, OneFrame, TwoFrames DEF RequestFns
<1>3. again \in Seq(Frame)
  BY <1>2, EmptySeq DEF If
<1>4. Continue(again)
  BY DEF Trigger
<1> HIDE DEF again
<1>5. stack' \in Seq(Frame)
  BY <1>1, <1>3, <1>4, ContinueTyped
<1> QED
  BY <1>5 DEF TypeOK, Trigger, lists, links, timer, world

-----------------------------------------------------------------------------
(***************************************************************************)
(* What the event loop dispatches.                                         *)
(***************************************************************************)
LEMMA PresentTyped ==
  ASSUME TypeOK, NEW v \in Ids, NEW a \in AttrType, NEW p \in Pixmaps,
         NEW ahead \in 0 .. MaxAhead, Present(v, a, p, ahead)
  PROVE  TypeOK'
<1> DEFINE flip == a.kind = "flip" /\ CheckFlip(can_flip)
           rec  == [Blank EXCEPT !.st = "live", !.due = ExecDue(a, ahead), !.queued = TRUE,
                                 !.flip = flip, !.sync_flip = flip /\ ahead > 0,
                                 !.pixmap = a.kind # "notify"]
<1>1. rec \in Vblank
  <2> DEFINE d == ExecDue(a, ahead)
             s == flip /\ ahead > 0
             x == a.kind # "notify"
  <2>1. d \in -1 .. MaxAhead
    BY ExecDueTyped
  <2>2. flip \in BOOLEAN /\ s \in BOOLEAN /\ x \in BOOLEAN
    BY DEF TypeOK, CheckFlip
  <2>3. rec = [Blank EXCEPT !.st = "live", !.due = d, !.queued = TRUE, !.flip = flip,
                            !.sync_flip = s, !.pixmap = x]
    OBVIOUS
  <2> HIDE DEF d, s, x, flip, rec
  <2>4. [Blank EXCEPT !.st = "live", !.due = d, !.queued = TRUE, !.flip = flip,
                      !.sync_flip = s, !.pixmap = x] \in Vblank
    BY <2>1, <2>2, BlankTyped DEF Vblank
  <2> QED
    BY <2>3, <2>4
<1>2. \/ QueueVblank(v, rec) /\ stack' = QueueResets
      \/ /\ vb' = [vb EXCEPT ![v] = rec] /\ stack' = <<CallOn("execute", v, 0)>>
         /\ UNCHANGED <<wait_list, flip_queue, idle_queue, hooked>>
  BY DEF Present
<1>3. req' \in [Ids -> AttrType] /\ pix' \in [Ids -> Pixmaps \cup {NoId}]
  BY DEF TypeOK, Present
<1>4. acq' \in [Ids -> {"unsub", "sub", "sig"}]
  <2>1. PICK s \in IF a.sync = "syncobj" THEN PointStates ELSE {"unsub"} : acq' = [acq EXCEPT ![v] = s]
    BY DEF Present
  <2>2. s \in {"unsub", "sub", "sig"}
    BY <2>1 DEF PointStates
  <2> QED
    BY <2>1, <2>2 DEF TypeOK
<1> HIDE DEF rec, flip
<1>5. /\ vb' \in [Ids -> Vblank]
      /\ wait_list' \in Seq(Ids) /\ flip_queue' \in Seq(Ids) /\ idle_queue' \in Seq(Ids)
      /\ hooked' \in BOOLEAN /\ stack' \in Seq(Frame)
  <2>1. CASE QueueVblank(v, rec) /\ stack' = QueueResets
    BY <2>1, <1>1, QueueVblankTyped, QueueResetsTyped
  <2>2. CASE /\ vb' = [vb EXCEPT ![v] = rec] /\ stack' = <<CallOn("execute", v, 0)>>
             /\ UNCHANGED <<wait_list, flip_queue, idle_queue, hooked>>
    <3>1. vb' \in [Ids -> Vblank]
      BY <2>2, <1>1 DEF TypeOK
    <3>2. stack' \in Seq(Frame)
      BY <2>2, OneFrame DEF RequestFns
    <3> QED
      BY <3>1, <3>2, <2>2 DEF TypeOK
  <2> QED
    BY <1>2, <2>1, <2>2
<1>6. UNCHANGED <<blocked_queue, flip_active, blocking_event, frame_callback, entered_for_each,
                  sync_callback, timer, release_cb, held, window, can_flip, setup>>
  BY DEF Present
<1> QED
  BY <1>3, <1>4, <1>5, <1>6 DEF TypeOK, timer

LEMMA FrameCallbackTyped == ASSUME TypeOK, FrameCallback PROVE TypeOK'
<1>1. <<Call("msc_bump"), Call("reset_timer"), Call("leave_for_each"), Call("frame_done")>> \in Seq(Frame)
  <2>1. <<Call("msc_bump")>> \o <<Call("reset_timer")>> \in Seq(Frame)
    BY CallTyped, OneFrame, TwoFrames DEF WindowFns
  <2>2. <<Call("msc_bump"), Call("reset_timer")>> \o <<Call("leave_for_each")>> \in Seq(Frame)
    BY <2>1, CallTyped, TwoFrames DEF WindowFns
  <2>3. <<Call("msc_bump"), Call("reset_timer"), Call("leave_for_each")>> \o <<Call("frame_done")>> \in Seq(Frame)
    BY <2>2, CallTyped, TwoFrames DEF WindowFns
  <2> QED
    BY <2>3
<1>2. stack' \in Seq(Frame)
  BY <1>1, EmptySeq DEF FrameCallback, If
<1>3. entered_for_each' \in BOOLEAN /\ frame_callback' \in BOOLEAN /\ hooked' \in BOOLEAN
  BY DEF FrameCallback, TypeOK
<1>4. UNCHANGED <<vb, lists, flip_active, blocking_event, sync_callback, timer, release_cb, world>>
  BY Zenon DEF FrameCallback
<1> QED
  BY <1>2, <1>3, <1>4 DEF TypeOK, lists, timer, world

LEMMA TimerCallbackTyped == ASSUME TypeOK, TimerCallback PROVE TypeOK'
<1>1. <<Call("msc_bump")>> \o <<Call("reset_timer")>> \in Seq(Frame)
  BY CallTyped, OneFrame, TwoFrames DEF WindowFns
<1>2. stack' \in Seq(Frame)
  BY <1>1 DEF TimerCallback
<1>3. frame_timer' \in {"none", "set", "fired"} /\ hooked' \in BOOLEAN
  BY DEF TimerCallback
<1>4. UNCHANGED <<vb, lists, flip_active, blocking_event, frame_callback, entered_for_each,
                  sync_callback, timer_armed, release_cb, world>>
  BY Zenon DEF TimerCallback
<1> QED
  BY <1>2, <1>3, <1>4 DEF TypeOK, lists, world

LEMMA SyncCallbackTyped == ASSUME TypeOK, SyncCallback PROVE TypeOK'
<1>1. stack' \in Seq(Frame)
  BY OneFrame DEF TypeOK, SyncCallback, RequestFns
<1> QED
  BY <1>1 DEF TypeOK, SyncCallback, lists, timer, world

LEMMA AcquireFenceAvailTyped == ASSUME TypeOK, NEW v \in Ids, AcquireFenceAvail(v) PROVE TypeOK'
<1>1. vb' \in [Ids -> Vblank]
  <2>1. [vb[v] EXCEPT !.efd = "none"] \in Vblank
    BY RecordTyped DEF TypeOK
  <2> QED
    BY <2>1 DEF TypeOK, AcquireFenceAvail
<1>2. stack' \in Seq(Frame)
  BY OneFrame DEF AcquireFenceAvail, RequestFns
<1> QED
  BY <1>1, <1>2 DEF TypeOK, AcquireFenceAvail, lists, links, timer, world

LEMMA TriggerFenceTyped == ASSUME TypeOK, NEW v \in Ids, TriggerFence(v) PROVE TypeOK'
<1>1. stack' \in Seq(Frame)
  BY OneFrame DEF TriggerFence, RequestFns
<1>2. acq' \in [Ids -> {"unsub", "sub", "sig"}]
  BY DEF TypeOK, TriggerFence
<1> QED
  BY <1>1, <1>2 DEF TypeOK, TriggerFence, lists, links, timer

LEMMA BufferReleaseTyped == ASSUME TypeOK, NEW p \in Pixmaps, BufferRelease(p) PROVE TypeOK'
<1> DEFINE v     == release_cb[p]
           inUse == v # NoId /\ v \in {flip_active, PendingFlip}
<1>1. UNCHANGED <<blocked_queue, flip_active, blocking_event, links, timer,
                  req, pix, acq, window, can_flip, setup, stack>>
  BY DEF BufferRelease
<1>2. held' \in SUBSET Pixmaps
  BY DEF TypeOK, BufferRelease
<1>3. CASE v = NoId
  <2>1. UNCHANGED <<vb, wait_list, flip_queue, idle_queue, release_cb>>
    BY <1>3 DEF BufferRelease
  <2> QED
    BY <2>1, <1>1, <1>2 DEF TypeOK, links, timer
<1>4. CASE v # NoId
  <2>1. v \in Ids
    BY <1>4 DEF TypeOK
  <2>2. /\ vb' = [vb EXCEPT ![v] = IF inUse THEN [Idled(@) EXCEPT !.evpix = FALSE] ELSE Freed(Idled(@))]
        /\ release_cb' = CbWithout({v})
        /\ IF inUse THEN UNCHANGED <<wait_list, flip_queue, idle_queue>> ELSE Unlink(v)
    BY <1>4 DEF BufferRelease
  <2>3. [Idled(vb[v]) EXCEPT !.evpix = FALSE] \in Vblank /\ Freed(Idled(vb[v])) \in Vblank
    BY <2>1, RecordTyped, FreedTyped DEF TypeOK
  <2> HIDE DEF v, inUse
  <2>4. vb' \in [Ids -> Vblank]
    BY <2>1, <2>2, <2>3 DEF TypeOK
  <2>5. release_cb' \in [Pixmaps -> Ids \cup {NoId}]
    BY <2>2, CbWithoutTyped
  <2>6. wait_list' \in Seq(Ids) /\ flip_queue' \in Seq(Ids) /\ idle_queue' \in Seq(Ids)
    BY <2>2, UnlinkTyped DEF TypeOK
  <2> QED
    BY <2>4, <2>5, <2>6, <1>1, <1>2 DEF TypeOK, links, timer
<1> QED
  BY <1>3, <1>4

LEMMA CheckFlipWindowTyped == ASSUME TypeOK, CheckFlipWindow PROVE TypeOK'
<1> DEFINE stop == If(PendingFlip = NoId /\ flip_active # NoId /\ ~CheckFlip(can_flip'), <<Call("flips_stop")>>)
<1>1. vb' \in [Ids -> Vblank]
  <2>1. PendingFlip # NoId => /\ PendingFlip \in Ids
                              /\ [vb[PendingFlip] EXCEPT !.abort_flip = TRUE] \in Vblank
    BY PendingTyped, RecordTyped DEF TypeOK
  <2> QED
    BY <2>1 DEF TypeOK, CheckFlipWindow
<1>2. stop \in Seq(Frame) /\ Call("drop_flips") \in Frame
  BY OneFrame, CallTyped, EmptySeq DEF If, WindowFns
<1>3. stack' = stop \o <<Call("drop_flips")>>
  BY DEF CheckFlipWindow
<1> HIDE DEF stop
<1>4. stack' \in Seq(Frame)
  BY <1>2, <1>3, TwoFrames
<1>5. can_flip' \in BOOLEAN
  BY DEF CheckFlipWindow
<1>6. UNCHANGED <<lists, flip_active, blocking_event, links, timer, release_cb,
                  req, pix, acq, held, window, setup>>
  BY DEF CheckFlipWindow
<1> QED
  BY <1>1, <1>4, <1>5, <1>6 DEF TypeOK, lists, links, timer

LEMMA WindowTyped ==
  ASSUME TypeOK, \/ CreateFrameCallback \/ Unrealize
                 \/ \E w \in {"ok", "held"} : WindowCommits(w)
  PROVE  TypeOK'
<1>1. CASE CreateFrameCallback
  <2>1. stack' \in Seq(Frame)
    BY <1>1, ResetsTyped DEF CreateFrameCallback, If
  <2> QED
    BY <1>1, <2>1 DEF TypeOK, CreateFrameCallback, lists, timer, world
<1>2. CASE Unrealize
  <2>1. stack' \in Seq(Frame)
    BY <1>2, ResetsTyped DEF Unrealize, If
  <2>2. timer_armed' \in {"off", "fresh", "stale"}
    BY <1>2 DEF TypeOK, Unrealize
  <2> QED
    BY <1>2, <2>1, <2>2 DEF TypeOK, Unrealize, lists
<1>3. CASE \E w \in {"ok", "held"} : WindowCommits(w)
  BY <1>3 DEF TypeOK, WindowCommits, lists, links, timer
<1> QED
  BY <1>1, <1>2, <1>3

LEMMA CleanupTyped == ASSUME TypeOK, Cleanup PROVE TypeOK'
<1>1. vb' \in [Ids -> Vblank]
  BY FreedTyped DEF TypeOK, Cleanup
<1>2. release_cb' \in [Pixmaps -> Ids \cup {NoId}]
  BY CbWithoutTyped DEF Cleanup
<1>3. <<>> \in Seq(Ids)
  BY EmptySeq
<1> QED
  BY <1>1, <1>2, <1>3 DEF TypeOK, Cleanup

LEMMA EnvironmentTyped == ASSUME TypeOK, Environment PROVE TypeOK'
<1>1. ASSUME NEW v \in Ids, AcquireProgress(v) PROVE TypeOK'
  <2>1. acq' \in [Ids -> {"unsub", "sub", "sig"}]
    BY <1>1 DEF TypeOK, AcquireProgress
  <2> QED
    BY <1>1, <2>1 DEF TypeOK, AcquireProgress, lists, links, timer
<1>2. CASE TimePasses
  BY <1>2 DEF TypeOK, TimePasses, lists, links, world
<1> QED
  BY <1>1, <1>2 DEF Environment

-----------------------------------------------------------------------------
(***************************************************************************)
(* A request that still has a pixmap to present names one.  Only Present   *)
(* gives a request a pixmap, and its name with it.                         *)
(***************************************************************************)
\* No call takes up a pixmap that a request had given up.
GivesUp == pix' = pix /\ \A v \in Ids : vb'[v].pixmap => vb[v].pixmap

LEMMA GivesUpNames == ASSUME PixmapsNamed, GivesUp PROVE PixmapsNamed'
  BY DEF PixmapsNamed, GivesUp

\* Of every update of a record.
LEMMA PixmapOf ==
  ASSUME NEW r \in Vblank, NEW b \in BOOLEAN, NEW d, NEW n
  PROVE  /\ ~Freed(r).pixmap
         /\ Idled(r).pixmap = r.pixmap /\ Done(r).pixmap = r.pixmap
         /\ Started(r).pixmap = r.pixmap /\ Sooner(r).pixmap = r.pixmap
         /\ \A v \in Ids : Waiting(r, v).pixmap = r.pixmap
         /\ [r EXCEPT !.abort_flip = TRUE].pixmap = r.pixmap
         /\ [r EXCEPT !.flip = FALSE].pixmap = r.pixmap
         /\ [r EXCEPT !.evpix = FALSE].pixmap = r.pixmap
         /\ [r EXCEPT !.efd = "none"].pixmap = r.pixmap
         /\ [r EXCEPT !.due = d, !.queued = TRUE].pixmap = r.pixmap
         /\ [r EXCEPT !.evpix = TRUE, !.handed = b].pixmap = r.pixmap
         /\ ~[r EXCEPT !.pixmap = FALSE, !.flip = FALSE].pixmap
         /\ [r EXCEPT !.idled = n, !.queued = b, !.copied = TRUE, !.due = d].pixmap = r.pixmap
<1>1. ~Freed(r).pixmap
  BY DEF Freed, Blank
<1>2. Idled(r).pixmap = r.pixmap /\ Done(r).pixmap = r.pixmap
  BY DEF Vblank, Idled, Done
<1>3. Started(r).pixmap = r.pixmap /\ Sooner(r).pixmap = r.pixmap
  BY DEF Vblank, Started, Sooner
<1>4. \A v \in Ids : Waiting(r, v).pixmap = r.pixmap
  BY DEF Vblank, Waiting
<1>5. [r EXCEPT !.abort_flip = TRUE].pixmap = r.pixmap /\ [r EXCEPT !.flip = FALSE].pixmap = r.pixmap
  BY DEF Vblank
<1>6. [r EXCEPT !.evpix = FALSE].pixmap = r.pixmap /\ [r EXCEPT !.efd = "none"].pixmap = r.pixmap
  BY DEF Vblank
<1>7. [r EXCEPT !.due = d, !.queued = TRUE].pixmap = r.pixmap
  BY DEF Vblank
<1>8. [r EXCEPT !.evpix = TRUE, !.handed = b].pixmap = r.pixmap
  BY DEF Vblank
<1>9. ~[r EXCEPT !.pixmap = FALSE, !.flip = FALSE].pixmap
  BY DEF Vblank
<1>10. [r EXCEPT !.idled = n, !.queued = b, !.copied = TRUE, !.due = d].pixmap = r.pixmap
  BY DEF Vblank
<1> QED
  BY <1>1, <1>2, <1>3, <1>4, <1>5, <1>6, <1>7, <1>8, <1>9, <1>10

\* Calls and dispatches that change no request's record.
LEMMA KeepRecords ==
  ASSUME \/ ResetTimer \/ BumpStart \/ BumpLoop \/ FlipsStop \/ FlipTryReady \/ Execute
         \/ Block \/ AppendFlip \/ FlipDone \/ FlushBlocked \/ LeaveForEach \/ FrameDone \/ Trigger
         \/ FrameCallback \/ TimerCallback \/ SyncCallback
         \/ (\E v \in Ids : TriggerFence(v)) \/ CreateFrameCallback \/ Unrealize
         \/ (\E w \in {"ok", "held"} : WindowCommits(w)) \/ Environment
  PROVE  GivesUp
<1>1. CASE \/ ResetTimer \/ BumpStart \/ BumpLoop \/ FlipsStop \/ FlipTryReady \/ Execute
           \/ Block \/ AppendFlip \/ FlipDone \/ FlushBlocked \/ LeaveForEach \/ FrameDone \/ Trigger
  BY <1>1, Zenon DEF GivesUp, world, ResetTimer, BumpStart, BumpLoop, FlipsStop, FlipTryReady, Execute,
    Block, AppendFlip, FlipDone, FlushBlocked, LeaveForEach, FrameDone, Trigger
<1>2. CASE FrameCallback \/ TimerCallback \/ SyncCallback \/ (\E v \in Ids : TriggerFence(v))
  BY <1>2, Zenon DEF GivesUp, world, FrameCallback, TimerCallback, SyncCallback, TriggerFence
<1>3. CASE \/ CreateFrameCallback \/ Unrealize \/ (\E w \in {"ok", "held"} : WindowCommits(w))
           \/ Environment
  BY <1>3, Zenon DEF GivesUp, world, CreateFrameCallback, Unrealize, WindowCommits, Environment,
    AcquireProgress, TimePasses
<1> QED
  BY <1>1, <1>2, <1>3

LEMMA QueueKeeps ==
  ASSUME TypeOK, NEW v \in Ids, NEW rec, rec.pixmap = vb[v].pixmap,
         vb' = [vb EXCEPT ![v] = rec]
  PROVE  \A u \in Ids : vb'[u].pixmap => vb[u].pixmap
  BY DEF TypeOK

LEMMA WaitGivesUp ==
  ASSUME TypeOK, NEW v \in Ids, NEW lag, Wait(v, lag)
  PROVE  \A u \in Ids : vb'[u].pixmap => vb[u].pixmap
<1>1. CASE Requeues(v, lag)
  BY <1>1, QueueKeeps DEF Wait, QueueVblank
<1>2. CASE ~Requeues(v, lag)
  <2>1. vb' = [vb EXCEPT ![v] = Waiting(vb[v], v)]
    BY <1>2 DEF Wait, TypeOK
  <2>2. Waiting(vb[v], v).pixmap = vb[v].pixmap
    BY PixmapOf DEF TypeOK
  <2> QED
    BY <2>1, <2>2, QueueKeeps
<1> QED
  BY <1>1, <1>2

\* However a record is chosen from three.
LEMMA OneOfKeeps ==
  ASSUME NEW s, NEW a, NEW b, NEW r, s = a \/ s = b \/ s = r,
         a.pixmap => r.pixmap, b.pixmap => r.pixmap
  PROVE  s.pixmap => r.pixmap
<1>1. CASE s = a
  BY <1>1, Zenon
<1>2. CASE s = b
  BY <1>2, Zenon
<1>3. CASE s = r
  BY <1>3, Zenon
<1> QED
  BY <1>1, <1>2, <1>3

\* Calls that change records.
LEMMA ReturnsGiveUp == ASSUME TypeOK, Returns PROVE GivesUp
<1> USE PixmapOf
<1>0. \A v \in Ids : vb[v] \in Vblank
  BY DEF TypeOK
<1>a. \A v \in Ids : /\ ~Freed(vb[v]).pixmap /\ Done(vb[v]).pixmap = vb[v].pixmap
                     /\ Started(vb[v]).pixmap = vb[v].pixmap
                     /\ [vb[v] EXCEPT !.abort_flip = TRUE].pixmap = vb[v].pixmap
  BY <1>0
<1>1. CASE MscBump
  <2>1. \A v \in Ids : vb'[v].pixmap = vb[v].pixmap
    BY <1>0, <1>1 DEF MscBump
  <2> QED
    BY <2>1, <1>1 DEF GivesUp, MscBump, world
<1>2. CASE FlipNotify
  <2>1. \A v \in Ids : vb'[v] = Done(vb[v]) \/ vb'[v] = Freed(vb[v]) \/ vb'[v] = vb[v]
    BY <1>2 DEF FlipNotify
  <2>2. \A v \in Ids : vb'[v].pixmap => vb[v].pixmap
    BY <1>a, <2>1, OneOfKeeps
  <2> QED
    BY <2>2, <1>2 DEF GivesUp, FlipNotify, world
<1>3. CASE FlipsStopFree
  <2>1. \A v \in Ids : vb'[v] = Freed(Idled(vb[v])) \/ vb'[v] = Freed(vb[v]) \/ vb'[v] = vb[v]
    BY <1>3 DEF FlipsStopFree
  <2>2. \A v \in Ids : ~Freed(Idled(vb[v])).pixmap
    BY <1>0, RecordTyped
  <2>3. \A v \in Ids : vb'[v].pixmap => vb[v].pixmap
    BY <1>a, <2>1, <2>2, OneOfKeeps
  <2> QED
    BY <2>3, <1>3 DEF GivesUp, FlipsStopFree, world
<1>4. CASE ReExecute
  <2>1. Top.v \in Ids
    BY <1>4, TopTyped DEF TypeOK, ReExecute, RequestFns
  <2>2. PICK d : vb' = [vb EXCEPT ![Top.v] = [vb[Top.v] EXCEPT !.due = d, !.queued = TRUE]]
    BY <1>4 DEF ReExecute, QueueVblank
  <2>3. [vb[Top.v] EXCEPT !.due = d, !.queued = TRUE].pixmap = vb[Top.v].pixmap
    BY <1>0, <2>1
  <2> QED
    BY <2>1, <2>2, <2>3, <1>4, QueueKeeps DEF GivesUp, ReExecute, world
<1>5. ASSUME NEW v \in Ids, RetryWait(v) PROVE GivesUp
  BY <1>5, WaitGivesUp DEF GivesUp, RetryWait, world
<1>6. ASSUME NEW v \in Ids, RetryQueueFlip(v) PROVE GivesUp
  <2> DEFINE last == flip_queue[Len(flip_queue)]
  <2>1. last \in Ids
    BY <1>6, PendingTyped, FirstTyped DEF TypeOK, RetryQueueFlip, Queues
  <2>2. Idled(vb[last]) \in Vblank
    BY <2>1, <1>0, RecordTyped
  <2>3. ~[Idled(vb[last]) EXCEPT !.pixmap = FALSE, !.flip = FALSE].pixmap
    BY <2>2
  <2> DEFINE rec == [Idled(vb[last]) EXCEPT !.pixmap = FALSE, !.flip = FALSE]
  <2>4. vb' = vb \/ vb' = [vb EXCEPT ![last] = rec]
    BY <1>6 DEF RetryQueueFlip
  <2> HIDE DEF last, rec
  <2>5. ASSUME vb' = [vb EXCEPT ![last] = rec] PROVE \A u \in Ids : vb'[u].pixmap => vb[u].pixmap
    <3>1. \A u \in Ids : vb'[u] = IF u = last THEN rec ELSE vb[u]
      BY <2>5, <2>1 DEF TypeOK
    <3> QED
      BY <3>1, <2>3, Zenon DEF rec
  <2>6. \A u \in Ids : vb'[u].pixmap => vb[u].pixmap
    BY <2>4, <2>5, Zenon
  <2> QED
    BY <2>6, <1>6 DEF GivesUp, RetryQueueFlip, world
<1>7. ASSUME NEW v \in Ids, RetryFlip(v) PROVE GivesUp
  <2>1. PICK b \in BOOLEAN :
          vb' = [vb EXCEPT ![v] = [Started(@) EXCEPT !.evpix = TRUE, !.handed = b]]
    <3> DEFINE explicit == setup.explicit_sync /\ HasSyncobj(v)
    <3>1. explicit \in BOOLEAN
      BY PresentAssumption DEF TypeOK, SetupType, HasSyncobj
    <3>2. vb' = [vb EXCEPT ![v] = [Started(@) EXCEPT !.evpix = TRUE, !.handed = explicit]]
      BY <1>7 DEF RetryFlip
    <3> HIDE DEF explicit
    <3> QED
      BY <3>1, <3>2
  <2>2. Started(vb[v]) \in Vblank
    BY <1>0, RecordTyped
  <2>3. [Started(vb[v]) EXCEPT !.evpix = TRUE, !.handed = b].pixmap = vb[v].pixmap
    BY <1>0, <2>2
  <2>4. vb' = [vb EXCEPT ![v] = [Started(vb[v]) EXCEPT !.evpix = TRUE, !.handed = b]]
    BY <2>1 DEF TypeOK
  <2>5. \A u \in Ids : vb'[u].pixmap => vb[u].pixmap
    BY <2>3, <2>4, QueueKeeps
  <2> QED
    BY <2>5, <1>7 DEF GivesUp, RetryFlip
<1>8. ASSUME NEW v \in Ids, RetryFlipFails(v) PROVE GivesUp
  <2>1. Started(vb[v]) \in Vblank
    BY <1>0, RecordTyped
  <2>2. [Started(vb[v]) EXCEPT !.flip = FALSE].pixmap = vb[v].pixmap
    BY <1>0, <2>1
  <2>3. vb' = [vb EXCEPT ![v] = [Started(vb[v]) EXCEPT !.flip = FALSE]]
    BY <1>8 DEF RetryFlipFails, TypeOK
  <2> QED
    BY <2>2, <2>3, <1>8, QueueKeeps DEF GivesUp, RetryFlipFails, world
<1>9. ASSUME NEW v \in Ids, RetryCopy(v) PROVE GivesUp
  <2>1. \A u \in Ids : \/ vb'[u] = Started(vb[u]) \/ vb'[u] = [vb[u] EXCEPT !.abort_flip = TRUE]
                      \/ vb'[u] = vb[u]
    BY <1>9 DEF RetryCopy
  <2>2. \A u \in Ids : vb'[u].pixmap => vb[u].pixmap
    BY <1>a, <2>1, OneOfKeeps
  <2> QED
    BY <2>2, <1>9 DEF GivesUp, RetryCopy, world
<1>10. CASE Copy
  <2>1. Top.v \in Ids
    BY <1>10, TopTyped DEF TypeOK, Copy, RequestFns
  <2> DEFINE n == IF ~Requeues(Top.v, Top.lag) THEN vb[Top.v].idled + 1 ELSE vb[Top.v].idled
             b == ~(~Requeues(Top.v, Top.lag))
             d == Due(1 - Top.lag)
             rec == [vb[Top.v] EXCEPT !.idled = n, !.queued = b, !.copied = TRUE, !.due = d]
  <2>2. vb' = [vb EXCEPT ![Top.v] = rec]
    BY <1>10 DEF Copy, QueueVblank
  <2>3. rec.pixmap = vb[Top.v].pixmap
    <3>1. b \in BOOLEAN
      OBVIOUS
    <3> HIDE DEF n, b, d
    <3> QED
      BY <3>1, <1>0, <2>1
  <2> HIDE DEF rec
  <2> QED
    BY <2>1, <2>2, <2>3, <1>10, QueueKeeps DEF GivesUp, Copy, world
<1>11. ASSUME NEW v \in Ids, RetryPost(v) PROVE GivesUp
  <2>1. Done(vb[v]) \in Vblank
    BY <1>0, RecordTyped
  <2>2. ~Freed(Done(vb[v])).pixmap
    BY <2>1
  <2>3. vb' = [vb EXCEPT ![v] = Freed(Done(vb[v]))]
    BY <1>11 DEF RetryPost
  <2>4. \A u \in Ids : vb'[u] = IF u = v THEN Freed(Done(vb[v])) ELSE vb[u]
    BY <2>3 DEF TypeOK
  <2>5. \A u \in Ids : vb'[u].pixmap => vb[u].pixmap
    BY <2>2, <2>4, Zenon
  <2> QED
    BY <2>5, <1>11 DEF GivesUp, RetryPost, world
<1>12. CASE FlushLoop
  <2>1. Top.v \in Ids
    BY <1>12, TopTyped DEF TypeOK, FlushLoop, RequestFns
  <2>2. Wait(Top.v, Top.lag) \/ vb' = vb
    BY <1>12 DEF FlushLoop
  <2>3. \A u \in Ids : vb'[u].pixmap => vb[u].pixmap
    BY <2>1, <2>2, WaitGivesUp
  <2> QED
    BY <2>3, <1>12 DEF GivesUp, FlushLoop, world
<1>13. CASE DropFlips
  <2>1. \A u \in Ids : vb'[u] = [vb[u] EXCEPT !.flip = FALSE] \/ vb'[u] = vb[u]
    BY <1>13 DEF DropFlips
  <2>2. \A u \in Ids : [vb[u] EXCEPT !.flip = FALSE].pixmap = vb[u].pixmap
    BY <1>0
  <2>3. \A u \in Ids : vb'[u].pixmap => vb[u].pixmap
    BY <2>1, <2>2, OneOfKeeps
  <2> QED
    BY <2>3, <1>13 DEF GivesUp, DropFlips, world
<1> QED
  BY <1>1, <1>2, <1>3, <1>4, <1>5, <1>6, <1>7, <1>8, <1>9, <1>10, <1>11, <1>12, <1>13,
     KeepRecords DEF Returns

\* Dispatches that change records, other than a new request.
LEMMA DispatchGivesUp ==
  ASSUME TypeOK,
         \/ \E v \in Ids : AcquireFenceAvail(v)
         \/ \E p \in Pixmaps : BufferRelease(p)
         \/ CheckFlipWindow \/ Cleanup
  PROVE  GivesUp
<1>0. \A v \in Ids : vb[v] \in Vblank
  BY DEF TypeOK
<1>1. ASSUME NEW v \in Ids, AcquireFenceAvail(v) PROVE GivesUp
  <2>1. [vb[v] EXCEPT !.efd = "none"].pixmap = vb[v].pixmap
    BY <1>0, PixmapOf
  <2>2. vb' = [vb EXCEPT ![v] = [vb[v] EXCEPT !.efd = "none"]]
    BY <1>1 DEF AcquireFenceAvail
  <2> QED
    BY <2>1, <2>2, <1>1, QueueKeeps DEF GivesUp, AcquireFenceAvail, world
<1>2. ASSUME NEW p \in Pixmaps, BufferRelease(p) PROVE GivesUp
  <2> DEFINE v    == release_cb[p]
             kept == [Idled(vb[v]) EXCEPT !.evpix = FALSE]
             gone == Freed(Idled(vb[v]))
  <2>1. v = NoId \/ v \in Ids
    BY DEF TypeOK
  <2>2. CASE v = NoId
    BY <2>2, <1>2 DEF GivesUp, BufferRelease
  <2>3. CASE v \in Ids
    <3>1. Idled(vb[v]) \in Vblank
      BY <2>3, <1>0, RecordTyped
    <3>2. (gone.pixmap => vb[v].pixmap) /\ kept.pixmap = vb[v].pixmap
      BY <2>3, <3>1, <1>0, PixmapOf
    <3>3. v # NoId
      BY <2>3, IdsNat
    <3>4. vb' = [vb EXCEPT ![v] = kept] \/ vb' = [vb EXCEPT ![v] = gone]
      BY <3>3, <1>2 DEF BufferRelease
    <3> HIDE DEF v, kept, gone
    <3>5. \A u \in Ids : (vb'[u] = kept /\ u = v) \/ (vb'[u] = gone /\ u = v) \/ vb'[u] = vb[u]
      BY <2>3, <3>4 DEF TypeOK
    <3>6. \A u \in Ids : vb'[u].pixmap => vb[u].pixmap
      BY <3>2, <3>5, Zenon
    <3> QED
      BY <3>6, <1>2 DEF GivesUp, BufferRelease
  <2> QED
    BY <2>1, <2>2, <2>3
<1>3. CASE CheckFlipWindow
  <2> DEFINE rec == [vb[PendingFlip] EXCEPT !.abort_flip = TRUE]
  <2>0. pix' = pix
    BY <1>3 DEF CheckFlipWindow
  <2>1. CASE vb' = vb
    <3>1. \A u \in Ids : vb'[u] = vb[u]
      BY <2>1
    <3>2. \A u \in Ids : vb'[u].pixmap => vb[u].pixmap
      BY <3>1, Zenon
    <3> QED
      BY <2>0, <3>2, Zenon DEF GivesUp
  <2>2. CASE PendingFlip # NoId /\ vb' = [vb EXCEPT ![PendingFlip] = rec]
    <3>1. PendingFlip \in Ids
      BY <2>2, PendingTyped DEF TypeOK
    <3>2. rec.pixmap = vb[PendingFlip].pixmap
      BY <3>1, <1>0, PixmapOf
    <3> HIDE DEF rec
    <3> QED
      BY <2>2, <3>1, <3>2, <1>3, QueueKeeps DEF GivesUp, CheckFlipWindow
  <2> QED
    BY <2>1, <2>2, <1>3 DEF CheckFlipWindow
<1>4. CASE Cleanup
  <2>1. \A v \in Ids : vb'[v] = Freed(vb[v]) \/ vb'[v] = vb[v]
    BY <1>4 DEF Cleanup
  <2>2. \A v \in Ids : ~Freed(vb[v]).pixmap
    BY <1>0, PixmapOf
  <2>3. \A v \in Ids : vb'[v].pixmap => vb[v].pixmap
    BY <2>1, <2>2, OneOfKeeps
  <2> QED
    BY <2>3, <1>4 DEF GivesUp, Cleanup
<1> QED
  BY <1>1, <1>2, <1>3, <1>4

\* A new request names the pixmap that it presents.
LEMMA PresentNames ==
  ASSUME TypeOK, PixmapsNamed, NEW v \in Ids, NEW a \in AttrType, NEW p \in Pixmaps,
         NEW ahead \in 0 .. MaxAhead, Present(v, a, p, ahead)
  PROVE  PixmapsNamed'
<1> DEFINE flip == a.kind = "flip" /\ CheckFlip(can_flip)
           rec  == [Blank EXCEPT !.st = "live", !.due = ExecDue(a, ahead), !.queued = TRUE,
                                 !.flip = flip, !.sync_flip = flip /\ ahead > 0,
                                 !.pixmap = a.kind # "notify"]
<1>1. vb' = [vb EXCEPT ![v] = rec]
  BY DEF Present, QueueVblank
<1>2. pix' = [pix EXCEPT ![v] = IF a.kind = "notify" THEN NoId ELSE p]
  BY DEF Present
<1>3. rec.pixmap => a.kind # "notify"
  BY DEF Blank
<1> HIDE DEF rec
<1>4. \A u \in Ids : u # v => vb'[u] = vb[u] /\ pix'[u] = pix[u]
  BY <1>1, <1>2 DEF TypeOK
<1>5. vb'[v] = rec
  BY <1>1 DEF TypeOK
<1>6. a.kind # "notify" => pix'[v] = p
  BY <1>2 DEF TypeOK
<1>7. ASSUME NEW u \in Ids, vb'[u].pixmap PROVE pix'[u] \in Pixmaps
  <2>1. CASE u = v
    BY <1>3, <1>5, <1>6, <1>7, <2>1, Zenon
  <2>2. CASE u # v
    <3>1. vb[u].pixmap
      BY <1>4, <1>7, <2>2, Zenon
    <3> QED
      BY <1>4, <2>2, <3>1 DEF PixmapsNamed
  <2> QED
    BY <2>1, <2>2
<1> QED
  BY <1>7 DEF PixmapsNamed

-----------------------------------------------------------------------------
(***************************************************************************)
(* The theorems.                                                           *)
(***************************************************************************)
\* TypeOK alone is not inductive: a flip hands its buffer to the compositor, and
\* that the buffer is a pixmap's depends on the request still having its own.
IInv == TypeOK /\ PixmapsNamed

LEMMA InitTyped == ASSUME Init PROVE IInv
<1>1. vb \in [Ids -> Vblank]
  BY BlankTyped DEF Init
<1>2. req \in [Ids -> AttrType]
  <2>1. \E a : a \in AttrType
    <3> DEFINE a == [opt |-> "sync", kind |-> "flip", sync |-> "none", periodic |-> FALSE]
    <3>1. a \in AttrType
      BY DEF AttrType
    <3> QED
      BY <3>1
  <2> QED
    BY <2>1 DEF Init
<1>3. /\ wait_list \in Seq(Ids) /\ flip_queue \in Seq(Ids)
      /\ idle_queue \in Seq(Ids) /\ blocked_queue \in Seq(Ids) /\ stack \in Seq(Frame)
  BY EmptySeq DEF Init
<1>4. TypeOK
  BY <1>1, <1>2, <1>3 DEF Init, TypeOK
<1>5. PixmapsNamed
  BY DEF Init, PixmapsNamed, Blank
<1> QED
  BY <1>4, <1>5 DEF IInv

LEMMA ReturnsTyped == ASSUME IInv, Returns PROVE IInv'
<1> USE DEF IInv
<1>1. PixmapsNamed'
  BY ReturnsGiveUp, GivesUpNames
<1>2. TypeOK'
  BY ResetTimerTyped, MscBumpTyped, BumpStartTyped, BumpLoopTyped, FlipNotifyTyped,
     FlipsStopTyped, FlipsStopFreeTyped, FlipTryReadyTyped, ReExecuteTyped, ExecuteTyped,
     RetryWaitTyped, BlockTyped, RetryQueueFlipTyped, AppendFlipTyped, RetryFlipTyped,
     FlipDoneTyped, RetryFlipFailsTyped, RetryCopyTyped, CopyTyped, RetryPostTyped,
     FlushBlockedTyped, FlushLoopTyped, DropFlipsTyped, WalkTyped, TriggerTyped, Zenon
     DEF Returns
<1> QED
  BY <1>1, <1>2

LEMMA DispatchTyped == ASSUME IInv, Dispatch PROVE IInv'
<1> USE DEF IInv
<1>1. ASSUME NEW v \in 1 .. setup.requests, NEW a \in setup.attrs, NEW p \in Pixmaps,
             NEW ahead \in 0 .. setup.ahead, Present(v, a, p, ahead)
      PROVE  IInv'
  <2>1. setup \in SetupType
    BY PresentAssumption DEF TypeOK
  <2>2. v \in Ids /\ a \in AttrType /\ ahead \in 0 .. MaxAhead
    BY <2>1, PresentAssumption DEF SetupType, Ids
  <2> QED
    BY <1>1, <2>2, PresentTyped, PresentNames
<1>2. CASE FrameCallback \/ TimerCallback \/ SyncCallback
  BY <1>2, FrameCallbackTyped, TimerCallbackTyped, SyncCallbackTyped, KeepRecords, GivesUpNames
<1>3. ASSUME NEW v \in Ids, AcquireFenceAvail(v) PROVE IInv'
  BY <1>3, AcquireFenceAvailTyped, DispatchGivesUp, GivesUpNames
<1>4. ASSUME NEW v \in Ids, TriggerFence(v) PROVE IInv'
  BY <1>4, TriggerFenceTyped, KeepRecords, GivesUpNames
<1>5. ASSUME NEW p \in Pixmaps, BufferRelease(p) PROVE IInv'
  BY <1>5, BufferReleaseTyped, DispatchGivesUp, GivesUpNames
<1>6. CASE CheckFlipWindow \/ Cleanup
  BY <1>6, CheckFlipWindowTyped, CleanupTyped, DispatchGivesUp, GivesUpNames
<1>7. CASE CreateFrameCallback \/ Unrealize \/ \E w \in {"ok", "held"} : WindowCommits(w)
  BY <1>7, WindowTyped, KeepRecords, GivesUpNames
<1> QED
  BY <1>1, <1>2, <1>3, <1>4, <1>5, <1>6, <1>7 DEF Dispatch

LEMMA EnvironmentKeeps == ASSUME IInv, Environment PROVE IInv'
  BY EnvironmentTyped, KeepRecords, GivesUpNames DEF IInv

LEMMA StutterTyped == ASSUME IInv, UNCHANGED vars PROVE IInv'
<1>1. TypeOK'
  BY DEF IInv, TypeOK, vars, lists, links, timer, world
<1>2. PixmapsNamed'
  BY DEF IInv, PixmapsNamed, vars, world
<1> QED
  BY <1>1, <1>2 DEF IInv

\* Every list, link, record and call in progress stays within its type, whatever
\* is presented and in whatever order the event loop dispatches: an exec_msc is
\* never further ahead than MaxAhead, a list holds only requests of the window,
\* and the compositor only holds buffers of pixmaps.
THEOREM TypesHold == Spec => []TypeOK
<1>1. Init => IInv
  BY InitTyped
<1>2. IInv /\ [Next]_vars => IInv'
  BY ReturnsTyped, DispatchTyped, EnvironmentKeeps, StutterTyped DEF Next
<1>3. IInv => TypeOK
  BY DEF IInv
<1> QED
  BY <1>1, <1>2, <1>3, PTL DEF Spec

\* The actions that neither listen to frame callbacks nor touch the xwl_window, or
\* that listen no longer.
LEMMA ListensNoMore ==
  ASSUME HookedHasWindow, window' = window, hooked' => hooked, frame_callback' => frame_callback
  PROVE  HookedHasWindow'
  BY Zenon DEF HookedHasWindow

\* Queueing a vblank listens, if there is an xwl_window to listen to.
LEMMA QueueListens ==
  ASSUME HookedHasWindow, window' = window, frame_callback' = frame_callback, hooked' = HooksUp
  PROVE  HookedHasWindow'
  BY Zenon DEF HookedHasWindow, HooksUp

LEMMA ReturnsListen == ASSUME HookedHasWindow, Returns PROVE HookedHasWindow'
<1>1. CASE ResetTimer
  BY <1>1, ListensNoMore DEF ResetTimer, world
<1>2. CASE \/ MscBump \/ BumpStart \/ BumpLoop \/ FlipNotify \/ FlipsStop \/ FlipsStopFree
           \/ FlipTryReady \/ Execute \/ Block \/ AppendFlip \/ FlipDone \/ FlushBlocked
           \/ DropFlips \/ LeaveForEach \/ FrameDone \/ Trigger
  <2>1. UNCHANGED <<hooked, frame_callback, window>>
    BY <1>2 DEF MscBump, BumpStart, BumpLoop, FlipNotify, FlipsStop, FlipsStopFree, FlipTryReady,
      Execute, Block, AppendFlip, FlipDone, FlushBlocked, DropFlips, LeaveForEach, FrameDone,
      Trigger, world, links
  <2> QED
    BY <2>1, ListensNoMore
<1>3. ASSUME NEW v \in Ids,
             RetryQueueFlip(v) \/ RetryFlipFails(v) \/ RetryCopy(v) \/ RetryPost(v)
      PROVE  HookedHasWindow'
  <2>1. UNCHANGED <<hooked, frame_callback, window>>
    BY <1>3 DEF RetryQueueFlip, RetryFlipFails, RetryCopy, RetryPost, world, links
  <2> QED
    BY <2>1, ListensNoMore
<1>4. ASSUME NEW v \in Ids, RetryFlip(v) PROVE HookedHasWindow'
  BY <1>4 DEF RetryFlip, HookedHasWindow
<1>5. CASE ReExecute \/ Copy
  <2>1. UNCHANGED <<frame_callback, window>> /\ hooked' \in {hooked, HooksUp}
    BY <1>5 DEF ReExecute, Copy, QueueVblank, world
  <2> QED
    BY <2>1, ListensNoMore, QueueListens
<1>6. CASE FlushLoop \/ \E v \in Ids : RetryWait(v)
  <2>1. UNCHANGED <<frame_callback, window>> /\ hooked' \in {hooked, HooksUp}
    BY <1>6 DEF FlushLoop, RetryWait, Wait, QueueVblank, world
  <2> QED
    BY <2>1, ListensNoMore, QueueListens
<1> QED
  BY <1>1, <1>2, <1>3, <1>4, <1>5, <1>6 DEF Returns

LEMMA DispatchListens == ASSUME HookedHasWindow, Dispatch PROVE HookedHasWindow'
<1>1. ASSUME NEW v, NEW a, NEW p, NEW ahead, Present(v, a, p, ahead) PROVE HookedHasWindow'
  <2>1. UNCHANGED <<frame_callback, window>> /\ hooked' \in {hooked, HooksUp}
    BY <1>1 DEF Present, QueueVblank
  <2> QED
    BY <2>1, ListensNoMore, QueueListens
<1>2. CASE FrameCallback \/ TimerCallback \/ SyncCallback
  BY <1>2, ListensNoMore DEF FrameCallback, TimerCallback, SyncCallback, world
<1>3. CASE \/ \E v \in Ids : AcquireFenceAvail(v) \/ TriggerFence(v)
           \/ \E p \in Pixmaps : BufferRelease(p)
           \/ CheckFlipWindow
  <2>1. UNCHANGED <<window, links>>
    BY <1>3, Zenon DEF AcquireFenceAvail, TriggerFence, BufferRelease, CheckFlipWindow, world
  <2> QED
    BY <2>1, ListensNoMore DEF links
<1>4. CASE CreateFrameCallback
  BY <1>4 DEF CreateFrameCallback, HookedHasWindow, world
<1>5. CASE Unrealize \/ Cleanup
  BY <1>5 DEF Unrealize, Cleanup, HookedHasWindow
<1>6. ASSUME NEW w \in {"ok", "held"}, WindowCommits(w) PROVE HookedHasWindow'
  BY <1>6 DEF WindowCommits, HookedHasWindow, links
<1> QED
  BY <1>1, <1>2, <1>3, <1>4, <1>5, <1>6 DEF Dispatch

\* The window is only linked to an xwl_window's frame callbacks, and a callback is
\* only outstanding, while that xwl_window exists: disposing of it unlinks both,
\* and no call puts them back before there is a new one.
THEOREM ListensToWindow == Spec => []HookedHasWindow
<1>1. Init => HookedHasWindow
  BY DEF Init, HookedHasWindow
<1>2. HookedHasWindow /\ [Next]_vars => HookedHasWindow'
  <2> SUFFICES ASSUME HookedHasWindow, [Next]_vars PROVE HookedHasWindow'
    OBVIOUS
  <2>1. CASE Environment
    BY <2>1, ListensNoMore DEF Environment, AcquireProgress, TimePasses, world, links
  <2>2. CASE UNCHANGED vars
    BY <2>2, ListensNoMore DEF vars, world, links
  <2> QED
    BY <2>1, <2>2, ReturnsListen, DispatchListens DEF Next
<1> QED
  BY <1>1, <1>2, PTL DEF Spec

=============================================================================
