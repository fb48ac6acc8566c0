-------------------------- MODULE XwlRequests_proofs --------------------------
(***************************************************************************)
(* Where the requests of an Xwayland window are.  At every moment a        *)
(* request is in one place: on one list, on the screen, waiting for its    *)
(* fence, in the hands of one call in progress, or nowhere because it has  *)
(* been answered.  The invariant names that place, and says what it means  *)
(* for the request's record, its buffer, and the calls in progress.        *)
(*                                                                         *)
(* This holds of behaviours whose setup has neither an overdue timer nor   *)
(* wait fences (InTime).  With them the code reaches states in which it    *)
(* does not: the README has the two scenarios.                             *)
(***************************************************************************)
EXTENDS XwlPresent_proofs, FunctionTheorems, FiniteSetTheorems

InTime == ~setup.overdue /\ \A a \in setup.attrs : a.sync # "fence"

-----------------------------------------------------------------------------
(***************************************************************************)
(* The invariant, for the place "at" of each request.                      *)
(***************************************************************************)
\* wait, queue, idle, blocked: on that list.  pending: the head of flip_queue, with
\* the compositor.  active: flip_active.  fence: waiting for its acquire point.
\* held: off the lists, xwl_present_execute goes on with it.  flipping: committed,
\* and about to join flip_queue.  none: answered, or handed from call to call.
Places == {"none", "wait", "queue", "pending", "idle", "blocked", "active", "fence",
           "held", "flipping"}
Shown  == {"idle", "active", "pending", "flipping"}

Pending(at) == \E v \in Ids : at[v] \in {"pending", "flipping"}
\* A pending flip leaves flip_active alone until it completes.
Settles(at) == Pending(at) \/ \A v \in Ids : at[v] # "active"

Once(list) == \A i, j \in DOMAIN list : list[i] = list[j] => i = j
Is(list, at, where) == Once(list) /\ \A v \in Ids : Has(list, v) <=> at[v] \in where
OnePending(at) ==
  \A u, v \in Ids : at[u] \in {"pending", "flipping"} /\ at[v] \in {"pending", "flipping"} => u = v
OnLists(at) ==
  /\ Is(wait_list, at, {"wait"}) /\ Is(flip_queue, at, {"queue", "pending"})
  /\ Is(idle_queue, at, {"idle"}) /\ Is(blocked_queue, at, {"blocked"})
  /\ \A v \in Ids : v = flip_active <=> at[v] = "active"
  /\ \A v \in Ids : at[v] = "pending" => First(flip_queue) = v
  /\ OnePending(at)

\* A request that has not been shown, and one that has.
Owed(r)  == /\ r.done = 0 /\ ~r.evpix /\ ~r.handed
            /\ r.pixmap /\ ~r.copied => r.idled = 0
            /\ r.flip => r.queued /\ ~r.copied
InUse(r, p) == /\ r.pixmap /\ ~r.copied /\ ~r.queued
               /\ r.idled = IF r.evpix THEN 0 ELSE 1
               /\ r.done = IF p \in {"idle", "active"} THEN 1 ELSE 0
Stage(r, p) ==
  /\ r.done <= 1 /\ r.idled <= 1
  /\ p # "none" => r.st = "live"
  /\ r.st = "live" /\ p \notin Shown => Owed(r)
  /\ r.evpix => p \in Shown
  /\ p \in Shown => InUse(r, p)
  /\ p \in {"idle", "flipping"} => r.evpix
  /\ p = "queue" => r.queued
  /\ p \in {"queue", "blocked"} => r.pixmap /\ ~r.copied
  /\ p = "blocked" => r.due <= 0
  /\ r.efd # "none" <=> p = "fence"
Records(at) == \A v \in Ids : Stage(vb[v], at[v])

\* A pixmap is not presented again before it is idle or the compositor signals it:
\* of the requests of one pixmap only the last is not settled.  A release callback
\* names the request whose buffer the compositor holds.
Uses(v)    == Live(v) /\ vb[v].pixmap
Settled(v) == vb[v].idled > 0 \/ vb[v].handed
Explicit(v) == setup.explicit_sync /\ HasSyncobj(v)
Rank(p) == CASE p = "idle" -> 0 [] p = "active" -> 1 [] p \in {"pending", "flipping"} -> 2
           [] OTHER -> 3
InOrder(at) ==
  \A u, v \in Ids :
    pix[u] = pix[v] /\ Rank(at[u]) < Rank(at[v]) /\ Rank(at[v]) < 3 => u < v
Reused == \A u, v \in Ids : u < v /\ pix[u] = pix[v] /\ Uses(u) /\ Uses(v) => Settled(u)
Names  == \A p \in Pixmaps : \A v \in Ids :
            release_cb[p] = v => pix[v] = p /\ vb[v].evpix /\ ~vb[v].handed
Shows  == \A v \in Ids : vb[v].evpix =>
            /\ pix[v] \in Pixmaps
            /\ vb[v].handed <=> Explicit(v)
            /\ ~vb[v].handed => release_cb[pix[v]] = v /\ pix[v] \in held
Buffers(at) == InOrder(at) /\ Reused /\ Names /\ Shows

\* The calls in progress.  Bottoms are called from the event loop only; Tops return
\* before they call; Sealed have called for their timers only; Owners hold a request.
Tops   == {"msc_bump", "re_execute", "execute", "retry", "flip_notify", "flips_stop"}
Timing == {"reset_timer", "leave_for_each"}
Sealed == {"flip_done", "flush_blocked", "block", "flips_stop_free"}
Owners == {"retry", "append_flip", "copy"}
Stops  == {"flips_stop", "flips_stop_free"}
Bumps  == {"msc_bump", "bump_start", "bump_loop"}
Bases  == {"reset_timer", "leave_for_each", "frame_done"}
\* What f may say of a call g that it returns to.
Stacked(f, g) ==
  /\ g.fn \notin Tops
  /\ g.fn \in Sealed => f.fn \in Timing
  /\ f.fn \in Bumps => g.fn \in Bases
  /\ f.fn = "flip_notify" => g.fn \in Bases \cup {"bump_start"}
  /\ f.fn \notin {"frame_done", "drop_flips"}
  /\ f.fn = "leave_for_each" => g.fn # "leave_for_each"
  /\ f.fn \in Owners /\ g.fn \in Owners => f.v # g.v
  /\ f.fn = "execute" /\ g.fn = "bump_loop" => f.v # g.v
  /\ g.fn = "flush_loop" => f.fn \notin Stops \cup {"flush_loop"}
Buried(f, g) == f.fn \in {"copy", "block"} => g.fn # "flush_loop"
OnTop(f, t)  == \A g \in Elements(t) : Stacked(f, g)
Nested(t)    == \A i, j \in DOMAIN t : i < j => Stacked(t[i], t[j]) /\ Buried(t[i], t[j])
Sound(s)     == s # <<>> => Nested(Tail(s)) /\ OnTop(Head(s), Tail(s))

\* What a call knows of the request it was called for, in place p with record r.
Knows(f, p, r) ==
  /\ f.fn # "trigger"
  /\ f.fn \in RequestFns => f.lag = 0 /\ r.st = "live"
  /\ f.fn \in {"bump_start", "flush_blocked"} => f.lag = 0
  /\ f.fn = "re_execute" => p \in {"queue", "none"}
  /\ f.fn = "execute" => p \in {"wait", "queue", "none"}
  /\ f.fn \in Owners => p = "held"
  /\ f.fn \in {"execute", "retry", "copy"} => r.due <= 0
  /\ f.fn = "append_flip" => r.queued /\ r.pixmap /\ ~r.copied
  /\ f.fn = "copy" => r.pixmap /\ ~r.copied /\ ~r.flip /\ ~r.queued
  /\ f.fn = "flip_done" => p = "flipping"
  /\ f.fn = "block" => p = "fence" /\ ~r.copied
  /\ f.fn = "flip_notify" => p = "pending"
  /\ f.fn = "bump_loop" => p = "wait"
  /\ f.fn = "flush_loop" => p = "blocked"
Calls(at) == Sound(stack) /\ \A f \in Elements(stack) : Knows(f, at[f.v], vb[f.v])

Fns(s) == {f.fn : f \in Elements(s)}
\* What the calls in progress rely on.
StopsAlone(at) == Fns(stack) \cap Stops # {} => ~Pending(at)
FlushesSettled(at) ==
  /\ Fns(stack) \cap {"flush_blocked", "flush_loop"} # {} => Settles(at)
  /\ "copy" \in Fns(stack) => Settles(at) \/ Fns(stack) \cap Stops # {}
Flushing(at) ==
  "flush_loop" \in Fns(stack) =>
    /\ blocking_event # NoId => at[blocking_event] = "fence"
    /\ "flip_done" \in Fns(stack) \/ "flush_blocked" \in Fns(stack) \/ Running("copy") =>
         blocking_event = NoId
MayPresent == Running("retry") /\ Presents(Top.v) => blocking_event \in {NoId, Top.v}
Entered == "leave_for_each" \in Fns(stack) => entered_for_each
Acquired == \A f \in Elements(stack) : f.fn = "copy" /\ HasSyncobj(f.v) => acq[f.v] = "sig"
Relies(at) == /\ StopsAlone(at) /\ FlushesSettled(at) /\ Flushing(at)
              /\ MayPresent /\ Entered /\ Acquired

\* A request in nobody's list is in somebody's hands.
Attends(f, v, p) ==
  /\ f.v = v
  /\ \/ p = "none" /\ f.fn \in {"re_execute", "execute"}
     \/ p = "held" /\ f.fn \in Owners
     \/ p = "flipping" /\ f.fn = "flip_done"
Attended(at) ==
  \A v \in Ids : Live(v) /\ at[v] \in {"none", "held", "flipping"} =>
    \E f \in Elements(stack) : Attends(f, v, at[v])

\* Whoever blocks has not been presented, or its presentation flushes the blocked;
\* and without a blocker a walk of blocked_queue is at its head.
Blocks(v, at) == Live(v) /\ ~vb[v].copied
                 /\ at[v] \in {"fence", "queue", "wait", "none", "held", "flipping"}
Blocker(at) ==
  /\ blocking_event # NoId =>
       vb[blocking_event].pixmap /\ ("flush_blocked" \in Fns(stack) \/ Blocks(blocking_event, at))
  /\ blocking_event = NoId /\ blocked_queue # <<>> =>
       \E f \in Elements(stack) : \/ f.fn = "flush_loop" /\ f.v = First(blocked_queue)
                                  \/ f.fn = "block" /\ vb[f.v].pixmap

Timely ==
  /\ SyncFlipPending \/ wait_list # <<>> => frame_timer = "set" \/ "reset_timer" \in Fns(stack)
  /\ frame_timer = "fired" => "reset_timer" \in Fns(stack)
  /\ timer_armed # "stale"

\* The sync callback is the pending asynchronous flip's, until it notifies it.
Callbacks(at) ==
  /\ sync_callback # NoId =>
       at[sync_callback] = "pending" /\ ~vb[sync_callback].sync_flip /\ ~Running("flip_notify")
  /\ \A v \in Ids : at[v] = "pending" /\ ~vb[v].sync_flip /\ ~Running("flip_notify") =>
       sync_callback = v

Arguments == \A v \in Ids : /\ vb[v].st # "new" => req[v].sync # "fence"
                            /\ vb[v].copied /\ HasSyncobj(v) => acq[v] = "sig"

Fits(at) == /\ OnLists(at) /\ Records(at) /\ Buffers(at) /\ Calls(at) /\ Relies(at)
            /\ Attended(at) /\ Blocker(at) /\ Timely /\ Callbacks(at) /\ Arguments
Good(at) == TypeOK /\ PixmapsNamed /\ InTime /\ at \in [Ids -> Places] /\ Fits(at)
Placed   == TypeOK /\ PixmapsNamed /\ InTime /\ \E at \in [Ids -> Places] : Fits(at)
-----------------------------------------------------------------------------
(***************************************************************************)
(* Lists.                                                                  *)
(***************************************************************************)
\* at2 differs from at in the place of v only.
Moves(at, at2, v) == \A u \in Ids : u # v => at2[u] = at[u]

LEMMA HasIn ==
  ASSUME NEW list \in Seq(Ids), NEW v, Has(list, v)
  PROVE  v \in Ids /\ list # <<>>
<1>1. PICK i \in DOMAIN list : list[i] = v
  BY DEF Has
<1>2. i \in 1 .. Len(list) /\ Len(<<>>) = 0
  BY LenProperties, EmptySeq
<1> QED
  BY <1>1, <1>2, ElementOfSeq

LEMMA HasFirst ==
  ASSUME NEW list \in Seq(Ids), list # <<>>
  PROVE  Has(list, First(list)) /\ First(list) = list[1] /\ First(list) \in Ids
<1>1. 1 \in DOMAIN list
  BY FirstTyped, LenProperties
<1> QED
  BY <1>1, FirstTyped DEF Has

\* The nodes that xorg_list_del leaves, and their order.
LEMMA WithoutNodes ==
  ASSUME NEW list \in Seq(Ids), NEW v, Has(list, v)
  PROVE  /\ Position(list, v) \in 1 .. Len(list) /\ list[Position(list, v)] = v
         /\ Len(list) \in Nat /\ Without(list, v) \in Seq(Ids)
         /\ Len(Without(list, v)) = Len(list) - 1
         /\ \A i \in 1 .. Len(list) - 1 :
              Without(list, v)[i] = IF i < Position(list, v) THEN list[i] ELSE list[i + 1]
<1> DEFINE p == Position(list, v)
           before == SubSeq(list, 1, p - 1)
           after  == SubSeq(list, p + 1, Len(list))
<1>1. Len(list) \in Nat /\ DOMAIN list = 1 .. Len(list)
  BY LenProperties
<1>2. p \in 1 .. Len(list) /\ list[p] = v
  BY <1>1 DEF Has, Position
<1>3. Without(list, v) = before \o after
  BY DEF Without
<1> HIDE DEF p
<1>4. before \in Seq(Ids) /\ Len(before) = p - 1 /\ \A i \in 1 .. p - 1 : before[i] = list[i]
  <2>1. 1 \in Int /\ p - 1 \in Int /\ \A i \in 1 .. p - 1 : list[i] \in Ids
    BY <1>1, <1>2, ElementOfSeq
  <2>2. /\ before \in Seq(Ids) /\ Len(before) = IF 1 <= p - 1 THEN (p - 1) - 1 + 1 ELSE 0
        /\ \A i \in 1 .. (p - 1) - 1 + 1 : before[i] = list[1 + i - 1]
    BY <2>1, SubSeqProperties
  <2> HIDE DEF before
  <2> QED
    BY <2>2, <1>2
<1>5. /\ after \in Seq(Ids) /\ Len(after) = Len(list) - p
      /\ \A i \in 1 .. Len(list) - p : after[i] = list[p + i]
  <2>1. p + 1 \in Int /\ Len(list) \in Int /\ \A i \in p + 1 .. Len(list) : list[i] \in Ids
    BY <1>1, <1>2, ElementOfSeq
  <2>2. /\ after \in Seq(Ids)
        /\ Len(after) = IF p + 1 <= Len(list) THEN Len(list) - (p + 1) + 1 ELSE 0
        /\ \A i \in 1 .. Len(list) - (p + 1) + 1 : after[i] = list[(p + 1) + i - 1]
    BY <2>1, SubSeqProperties
  <2> HIDE DEF after
  <2>3. Len(after) = Len(list) - p
    <3>1. Len(after) = IF p + 1 <= Len(list) THEN Len(list) - (p + 1) + 1 ELSE 0
      BY <2>2
    <3>2. p \in Nat /\ p <= Len(list) /\ Len(list) \in Nat
      BY <1>1, <1>2
    <3> QED
      BY <3>1, <3>2
  <2>4. \A i \in 1 .. Len(list) - p : after[i] = list[p + i]
    <3> TAKE i \in 1 .. Len(list) - p
    <3>1. i \in 1 .. Len(list) - (p + 1) + 1 /\ (p + 1) + i - 1 = p + i
      BY <1>1, <1>2
    <3> QED
      BY <3>1, <2>2
  <2> QED
    BY <2>2, <2>3, <2>4
<1> HIDE DEF before, after
<1>6. /\ before \o after \in Seq(Ids) /\ Len(before \o after) = Len(before) + Len(after)
      /\ \A i \in 1 .. Len(before) + Len(after) :
           (before \o after)[i] = IF i <= Len(before) THEN before[i] ELSE after[i - Len(before)]
  BY <1>4, <1>5, ConcatProperties
<1>7. \A i \in 1 .. Len(list) - 1 :
        (before \o after)[i] = IF i < p THEN list[i] ELSE list[i + 1]
  <2> SUFFICES ASSUME NEW i \in 1 .. Len(list) - 1
               PROVE  (before \o after)[i] = IF i < p THEN list[i] ELSE list[i + 1]
    OBVIOUS
  <2>1. (before \o after)[i] = IF i <= p - 1 THEN before[i] ELSE after[i - (p - 1)]
    BY <1>1, <1>2, <1>4, <1>5, <1>6
  <2>2. CASE i < p
    BY <2>1, <2>2, <1>1, <1>2, <1>4
  <2>3. CASE ~(i < p)
    <3>1. i - (p - 1) \in 1 .. Len(list) - p /\ p + (i - (p - 1)) = i + 1
      BY <2>3, <1>1, <1>2
    <3>2. after[i - (p - 1)] = list[p + (i - (p - 1))]
      BY <3>1, <1>5
    <3> QED
      BY <2>1, <2>3, <3>1, <3>2, <1>1, <1>2
  <2> QED
    BY <2>2, <2>3
<1> QED
  BY <1>1, <1>2, <1>3, <1>4, <1>5, <1>6, <1>7 DEF p

LEMMA WithoutHas ==
  ASSUME NEW list \in Seq(Ids), NEW v, Once(list)
  PROVE  Once(Without(list, v)) /\ \A u : Has(Without(list, v), u) <=> Has(list, u) /\ u # v
<1>1. CASE ~Has(list, v)
  BY <1>1 DEF Without
<1>2. CASE Has(list, v)
  <2> DEFINE p == Position(list, v)
             n == Len(list)
             w == Without(list, v)
  <2>1. /\ p \in 1 .. n /\ list[p] = v /\ n \in Nat
        /\ \A i \in 1 .. n - 1 : w[i] = IF i < p THEN list[i] ELSE list[i + 1]
    BY <1>2, WithoutNodes
  <2>2. DOMAIN list = 1 .. n /\ DOMAIN w = 1 .. n - 1
    BY <1>2, WithoutNodes, LenProperties
  <2>3. \A i, j \in 1 .. n : list[i] = list[j] => i = j
    BY <2>2 DEF Once
  <2> HIDE DEF p, n, w
  <2>4. Once(w)
    <3> SUFFICES ASSUME NEW i \in 1 .. n - 1, NEW j \in 1 .. n - 1, w[i] = w[j] PROVE i = j
      BY <2>2 DEF Once
    <3>1. w[i] = (IF i < p THEN list[i] ELSE list[i + 1]) /\ w[j] = (IF j < p THEN list[j] ELSE list[j + 1])
      BY <2>1
    <3>2. i \in 1 .. n /\ j \in 1 .. n /\ i + 1 \in 1 .. n /\ j + 1 \in 1 .. n
      BY <2>1
    <3>3. i < p /\ j < p => i = j
      BY <3>1, <3>2, <2>3
    <3>4. ~(i < p) /\ ~(j < p) => i = j
      <4>1. i + 1 = j + 1 => i = j
        BY <2>1
      <4> QED
        BY <4>1, <3>1, <3>2, <2>3
    <3>5. ~(i < p /\ ~(j < p)) /\ ~(~(i < p) /\ j < p)
      <4>1. i < p /\ ~(j < p) => i # j + 1
        BY <2>1
      <4>2. ~(i < p) /\ j < p => i + 1 # j
        BY <2>1
      <4> QED
        BY <4>1, <4>2, <3>1, <3>2, <2>3
    <3> QED
      BY <3>3, <3>4, <3>5
  <2>5. ASSUME NEW u, Has(w, u) PROVE Has(list, u) /\ u # v
    <3>1. PICK i \in 1 .. n - 1 : w[i] = u
      BY <2>5, <2>2 DEF Has
    <3>2. i \in 1 .. n /\ i + 1 \in 1 .. n /\ w[i] = IF i < p THEN list[i] ELSE list[i + 1]
      BY <2>1
    <3>3. PICK j \in 1 .. n : j # p /\ list[j] = u
      BY <3>1, <3>2, <2>1
    <3>4. u # v
      BY <3>3, <2>1, <2>3
    <3> QED
      BY <3>3, <3>4, <2>2 DEF Has
  <2>6. ASSUME NEW u, Has(list, u), u # v PROVE Has(w, u)
    <3>1. PICK j \in 1 .. n : list[j] = u
      BY <2>6, <2>2 DEF Has
    <3>2. j # p
      BY <3>1, <2>6, <2>1
    <3>3. CASE j < p
      <4>1. j \in 1 .. n - 1
        BY <3>3, <2>1
      <4>2. w[j] = u
        BY <4>1, <3>1, <3>3, <2>1
      <4> QED
        BY <4>1, <4>2, <2>2 DEF Has
    <3>4. CASE ~(j < p)
      <4>1. j - 1 \in 1 .. n - 1 /\ ~(j - 1 < p) /\ (j - 1) + 1 = j
        BY <3>2, <3>4, <2>1
      <4>2. w[j - 1] = u
        BY <4>1, <3>1, <2>1
      <4> QED
        BY <4>1, <4>2, <2>2 DEF Has
    <3> QED
      BY <3>3, <3>4
  <2> QED
    BY <2>4, <2>5, <2>6 DEF w
<1> QED
  BY <1>1, <1>2

LEMMA AppendHas ==
  ASSUME NEW list \in Seq(Ids), NEW v \in Ids
  PROVE  /\ \A u : Has(Append(list, v), u) <=> Has(list, u) \/ u = v
         /\ Once(list) /\ ~Has(list, v) => Once(Append(list, v))
         /\ First(Append(list, v)) = IF list = <<>> THEN v ELSE First(list)
<1> DEFINE n == Len(list)
           a == Append(list, v)
<1>1. /\ n \in Nat /\ DOMAIN list = 1 .. n /\ DOMAIN a = 1 .. n + 1 /\ a # <<>>
      /\ \A i \in 1 .. n : a[i] = list[i]
      /\ a[n + 1] = v
  BY LenProperties, AppendProperties
<1>2. list = <<>> <=> n = 0
  BY EmptySeq
<1> HIDE DEF n, a
<1>3. ASSUME NEW u, Has(a, u) PROVE Has(list, u) \/ u = v
  <2>1. PICK i \in 1 .. n + 1 : a[i] = u
    BY <1>3, <1>1 DEF Has
  <2>2. CASE i = n + 1
    BY <2>1, <2>2, <1>1
  <2>3. CASE i # n + 1
    <3>1. i \in 1 .. n
      BY <2>3, <1>1
    <3> QED
      BY <3>1, <2>1, <1>1 DEF Has
  <2> QED
    BY <2>2, <2>3
<1>4. ASSUME NEW u, Has(list, u) PROVE Has(a, u)
  <2>1. PICK i \in 1 .. n : list[i] = u
    BY <1>4, <1>1 DEF Has
  <2>2. i \in 1 .. n + 1 /\ a[i] = u
    BY <2>1, <1>1
  <2> QED
    BY <2>2, <1>1 DEF Has
<1>5. Has(a, v)
  <2>1. n + 1 \in 1 .. n + 1
    BY <1>1
  <2> QED
    BY <2>1, <1>1 DEF Has
<1>6. ASSUME Once(list), ~Has(list, v) PROVE Once(a)
  <2>1. (\A i, j \in 1 .. n : list[i] = list[j] => i = j) /\ (\A i \in 1 .. n : list[i] # v)
    BY <1>6, <1>1 DEF Once, Has
  <2> SUFFICES ASSUME NEW i \in 1 .. n + 1, NEW j \in 1 .. n + 1, a[i] = a[j] PROVE i = j
    BY <1>1 DEF Once
  <2>2. i \in 1 .. n \/ i = n + 1
    BY <1>1
  <2>3. j \in 1 .. n \/ j = n + 1
    BY <1>1
  <2> QED
    BY <2>1, <2>2, <2>3, <1>1
<1>7. First(a) = IF list = <<>> THEN v ELSE First(list)
  <2>1. CASE n = 0
    BY <2>1, <1>1, <1>2 DEF First
  <2>2. CASE n # 0
    <3>1. 1 \in 1 .. n
      BY <2>2, <1>1
    <3> QED
      BY <3>1, <2>2, <1>1, <1>2 DEF First
  <2> QED
    BY <2>1, <2>2
<1> QED
  BY <1>3, <1>4, <1>5, <1>6, <1>7 DEF a

LEMMA PrependHas ==
  ASSUME NEW list \in Seq(Ids), NEW v \in Ids
  PROVE  /\ <<v>> \o list \in Seq(Ids)
         /\ \A u : Has(<<v>> \o list, u) <=> Has(list, u) \/ u = v
         /\ Once(list) /\ ~Has(list, v) => Once(<<v>> \o list)
         /\ First(<<v>> \o list) = v
<1> DEFINE n == Len(list)
           a == <<v>> \o list
<1>1. n \in Nat /\ DOMAIN list = 1 .. n
  BY LenProperties
<1>2. <<v>> \in Seq(Ids) /\ Len(<<v>>) = 1 /\ <<v>>[1] = v
  BY OneElement
<1>3. /\ a \in Seq(Ids) /\ Len(a) = 1 + n
      /\ \A i \in 1 .. 1 + n : a[i] = IF i <= 1 THEN <<v>>[i] ELSE list[i - 1]
  BY <1>2, ConcatProperties
<1>4. DOMAIN a = 1 .. n + 1 /\ a # <<>>
  <2>1. DOMAIN a = 1 .. Len(a)
    BY <1>3, LenProperties
  <2>2. Len(<<>>) = 0
    BY EmptySeq
  <2> HIDE DEF a
  <2> QED
    BY <2>1, <2>2, <1>1, <1>3
<1> HIDE DEF n, a
<1>5. a[1] = v
  <2>1. 1 \in 1 .. 1 + n
    BY <1>1
  <2> QED
    BY <2>1, <1>2, <1>3
<1>6. \A i \in 1 .. n : a[i + 1] = list[i]
  <2> TAKE i \in 1 .. n
  <2>1. i + 1 \in 1 .. 1 + n /\ ~(i + 1 <= 1) /\ (i + 1) - 1 = i
    BY <1>1
  <2> QED
    BY <2>1, <1>3
<1>7. \A j \in 1 .. n + 1 : j = 1 \/ \E i \in 1 .. n : j = i + 1
  <2> TAKE j \in 1 .. n + 1
  <2>1. j = 1 \/ (j - 1 \in 1 .. n /\ j = (j - 1) + 1)
    BY <1>1
  <2> QED
    BY <2>1
<1>8. ASSUME NEW u, Has(a, u) PROVE Has(list, u) \/ u = v
  <2>1. PICK j \in 1 .. n + 1 : a[j] = u
    BY <1>8, <1>4 DEF Has
  <2>2. CASE j = 1
    BY <2>1, <2>2, <1>5
  <2>3. ASSUME NEW i \in 1 .. n, j = i + 1 PROVE Has(list, u)
    BY <2>1, <2>3, <1>1, <1>6 DEF Has
  <2> QED
    BY <2>2, <2>3, <1>7
<1>9. ASSUME NEW u, Has(list, u) PROVE Has(a, u)
  <2>1. PICK i \in 1 .. n : list[i] = u
    BY <1>9, <1>1 DEF Has
  <2>2. i + 1 \in 1 .. n + 1 /\ a[i + 1] = u
    BY <2>1, <1>1, <1>6
  <2> QED
    BY <2>2, <1>4 DEF Has
<1>10. Has(a, v)
  <2>1. 1 \in 1 .. n + 1
    BY <1>1
  <2> QED
    BY <2>1, <1>4, <1>5 DEF Has
<1>11. ASSUME Once(list), ~Has(list, v) PROVE Once(a)
  <2>1. (\A i, j \in 1 .. n : list[i] = list[j] => i = j) /\ (\A i \in 1 .. n : list[i] # v)
    BY <1>11, <1>1 DEF Once, Has
  <2> SUFFICES ASSUME NEW i \in 1 .. n + 1, NEW j \in 1 .. n + 1, a[i] = a[j] PROVE i = j
    BY <1>4 DEF Once
  <2>2. i = 1 \/ \E k \in 1 .. n : i = k + 1
    BY <1>7
  <2>3. j = 1 \/ \E k \in 1 .. n : j = k + 1
    BY <1>7
  <2> QED
    BY <2>1, <2>2, <2>3, <1>5, <1>6
<1>12. First(a) = v
  BY <1>4, <1>5 DEF First
<1> QED
  BY <1>3, <1>8, <1>9, <1>10, <1>11, <1>12 DEF a

\* What the moves of one request make of the list of those in certain places.
LEMMA IsKept ==
  ASSUME NEW list \in Seq(Ids), NEW where, NEW at, NEW at2, NEW v \in Ids,
         Is(list, at, where), Moves(at, at2, v), at[v] \in where <=> at2[v] \in where
  PROVE  Is(list, at2, where)
  BY DEF Is, Moves

LEMMA IsWithout ==
  ASSUME NEW list \in Seq(Ids), NEW where, NEW at, NEW at2, NEW v \in Ids,
         Is(list, at, where), Moves(at, at2, v), at2[v] \notin where
  PROVE  Is(Without(list, v), at2, where) /\ Without(list, v) \in Seq(Ids)
<1>1. Once(Without(list, v)) /\ \A u : Has(Without(list, v), u) <=> Has(list, u) /\ u # v
  BY WithoutHas DEF Is
<1>2. Without(list, v) \in Seq(Ids)
  BY WithoutTyped
<1> QED
  BY <1>1, <1>2 DEF Is, Moves

LEMMA IsAppended ==
  ASSUME NEW list \in Seq(Ids), NEW where, NEW at, NEW at2, NEW v \in Ids,
         Is(list, at, where), Moves(at, at2, v), at[v] \notin where, at2[v] \in where
  PROVE  Is(Append(list, v), at2, where)
<1>1. \A u : Has(Append(list, v), u) <=> Has(list, u) \/ u = v
  BY AppendHas
<1>2. Once(Append(list, v))
  BY AppendHas DEF Is
<1> QED
  BY <1>1, <1>2 DEF Is, Moves

LEMMA IsPrepended ==
  ASSUME NEW list \in Seq(Ids), NEW where, NEW at, NEW at2, NEW v \in Ids,
         Is(list, at, where), Moves(at, at2, v), at[v] \notin where, at2[v] \in where
  PROVE  Is(<<v>> \o list, at2, where)
<1>1. \A u : Has(<<v>> \o list, u) <=> Has(list, u) \/ u = v
  BY PrependHas
<1>2. Once(<<v>> \o list)
  BY PrependHas DEF Is
<1> QED
  BY <1>1, <1>2 DEF Is, Moves

LEMMA IsRequeued ==
  ASSUME NEW list \in Seq(Ids), NEW where, NEW at, NEW at2, NEW v \in Ids,
         Is(list, at, where), Moves(at, at2, v), at2[v] \in where, "none" \notin where
  PROVE  Is(Append(Without(list, v), v), at2, where)
<1> DEFINE w == Without(list, v)
<1>1. Once(w) /\ (\A u : Has(w, u) <=> Has(list, u) /\ u # v) /\ w \in Seq(Ids)
  BY WithoutHas, WithoutTyped DEF Is
<1> HIDE DEF w
<1>2. (\A u : Has(Append(w, v), u) <=> Has(w, u) \/ u = v) /\ Once(Append(w, v))
  BY <1>1, AppendHas
<1> QED
  BY <1>1, <1>2 DEF Is, Moves, w

\* The empty list holds nobody.
LEMMA HasNone ==
  /\ \A v : ~Has(<<>>, v)
  /\ Once(<<>>)
<1>1. DOMAIN <<>> = {}
  OBVIOUS
<1> QED
  BY <1>1 DEF Has, Once

\* Taking another node off a list leaves its head.
LEMMA FirstWithout ==
  ASSUME NEW list \in Seq(Ids), NEW v, Once(list), First(list) # v
  PROVE  First(Without(list, v)) = First(list)
<1>1. CASE ~Has(list, v)
  BY <1>1 DEF Without
<1>2. CASE Has(list, v)
  <2> DEFINE p == Position(list, v)
             n == Len(list)
             w == Without(list, v)
  <2>1. /\ p \in 1 .. n /\ list[p] = v /\ n \in Nat /\ w \in Seq(Ids) /\ Len(w) = n - 1
        /\ \A i \in 1 .. n - 1 : w[i] = IF i < p THEN list[i] ELSE list[i + 1]
    BY <1>2, WithoutNodes
  <2>2. list # <<>> /\ Len(<<>>) = 0
    BY <1>2, HasIn, EmptySeq
  <2>3. First(list) = list[1]
    BY <2>2, HasFirst
  <2> HIDE DEF p, n, w
  <2>4. p # 1
    BY <2>1, <2>3
  <2>5. 1 \in 1 .. n - 1 /\ 1 < p
    BY <2>1, <2>4
  <2>6. w[1] = list[1] /\ w # <<>>
    <3>1. w[1] = list[1]
      BY <2>5, <2>1
    <3>2. Len(w) # 0
      BY <2>1, <2>5
    <3> QED
      BY <3>1, <3>2, <2>2
  <2> QED
    BY <2>3, <2>6 DEF First, w
<1> QED
  BY <1>1, <1>2

\* The head's removal leaves the node after it at the head.
LEMMA FirstAfter ==
  ASSUME NEW list \in Seq(Ids), list # <<>>, Once(list)
  PROVE  /\ First(Without(list, First(list))) = After(list, First(list))
         /\ After(list, First(list)) = NoId => Without(list, First(list)) = <<>>
<1> DEFINE v == First(list)
           p == Position(list, v)
           n == Len(list)
           w == Without(list, v)
<1>1. Has(list, v) /\ v = list[1]
  BY HasFirst
<1>2. /\ p \in 1 .. n /\ list[p] = v /\ n \in Nat /\ w \in Seq(Ids) /\ Len(w) = n - 1
      /\ \A i \in 1 .. n - 1 : w[i] = IF i < p THEN list[i] ELSE list[i + 1]
  BY <1>1, WithoutNodes
<1>3. p = 1
  <2>1. 1 \in DOMAIN list /\ p \in DOMAIN list
    BY <1>2, LenProperties
  <2> QED
    BY <2>1, <1>1, <1>2 DEF Once
<1>4. Len(<<>>) = 0 /\ \A s \in Seq(Ids) : s # <<>> => Len(s) # 0
  BY EmptySeq
<1>5. After(list, v) = IF p < n THEN list[p + 1] ELSE NoId
  BY DEF After
<1>6. \A i \in 1 .. n : list[i] \in Ids
  BY ElementOfSeq
<1> HIDE DEF v, p, n, w
<1>7. CASE n = 1
  <2>1. w = <<>>
    BY <1>7, <1>2, <1>4
  <2> QED
    BY <2>1, <1>3, <1>5, <1>7 DEF First, w, v
<1>8. CASE n # 1
  <2>1. 1 \in 1 .. n - 1 /\ p < n /\ ~(1 < p) /\ p + 1 = 1 + 1 /\ 1 + 1 \in 1 .. n
    BY <1>2, <1>3, <1>8
  <2>2. w[1] = list[1 + 1] /\ Len(w) # 0
    <3>1. w[1] = list[1 + 1]
      BY <2>1, <1>2
    <3> QED
      BY <3>1, <2>1, <1>2
  <2>3. After(list, v) = list[1 + 1] /\ list[1 + 1] \in Ids
    BY <2>1, <1>5, <1>6
  <2>4. w # <<>> /\ First(w) = w[1]
    BY <2>2, <1>4 DEF First
  <2> QED
    BY <2>2, <2>3, <2>4, IdsNat DEF w, v
<1> QED
  BY <1>7, <1>8

\* The node after one on a list is another one on the list.
LEMMA AfterHas ==
  ASSUME NEW list \in Seq(Ids), NEW v, Has(list, v), Once(list), After(list, v) # NoId
  PROVE  After(list, v) \in Ids /\ Has(list, After(list, v)) /\ After(list, v) # v
<1> DEFINE p == Position(list, v)
           n == Len(list)
<1>1. p \in 1 .. n /\ list[p] = v /\ n \in Nat /\ DOMAIN list = 1 .. n
  BY WithoutNodes, LenProperties
<1>2. After(list, v) = IF p < n THEN list[p + 1] ELSE NoId
  BY DEF After
<1> HIDE DEF p, n
<1>3. p + 1 \in 1 .. n /\ After(list, v) = list[p + 1] /\ p + 1 # p
  BY <1>1, <1>2
<1>4. list[p + 1] # v
  BY <1>1, <1>3 DEF Once
<1>5. After(list, v) \in Ids
  BY AfterTyped
<1> QED
  BY <1>1, <1>3, <1>4, <1>5 DEF Has

-----------------------------------------------------------------------------
(***************************************************************************)
(* Calls in progress.                                                      *)
(***************************************************************************)
LEMMA ElementsOf ==
  ASSUME NEW s \in Seq(Frame)
  PROVE  /\ Elements(s) = {s[i] : i \in 1 .. Len(s)}
         /\ Elements(s) \subseteq Frame
<1>1. DOMAIN s = 1 .. Len(s)
  BY LenProperties
<1>2. \A i \in 1 .. Len(s) : s[i] \in Frame
  BY ElementOfSeq
<1> QED
  BY <1>1, <1>2 DEF Elements

\* The innermost call and those it returns to.
LEMMA Innermost ==
  ASSUME NEW s \in Seq(Frame), s # <<>>
  PROVE  /\ Tail(s) \in Seq(Frame) /\ Head(s) \in Frame
         /\ Elements(s) = {Head(s)} \cup Elements(Tail(s))
         /\ Head(s) = s[1] /\ Len(s) \in Nat \ {0} /\ Len(Tail(s)) = Len(s) - 1
         /\ \A i \in 1 .. Len(Tail(s)) : Tail(s)[i] = s[i + 1]
<1> DEFINE t == Tail(s)
           n == Len(s)
<1>1. t \in Seq(Frame) /\ Len(t) = n - 1 /\ (\A i \in 1 .. Len(t) : t[i] = s[i + 1]) /\ Head(s) \in Frame
  BY HeadTailProperties
<1>2. n \in Nat \ {0}
  BY EmptySeq
<1>3. Head(s) = s[1]
  OBVIOUS
<1>4. Elements(s) = {s[i] : i \in 1 .. n} /\ Elements(t) = {t[i] : i \in 1 .. Len(t)}
  BY <1>1, ElementsOf
<1> HIDE DEF t, n
<1>5. \A i \in 1 .. n : i = 1 \/ \E j \in 1 .. n - 1 : i = j + 1
  <2> TAKE i \in 1 .. n
  <2>1. i = 1 \/ (i - 1 \in 1 .. n - 1 /\ i = (i - 1) + 1)
    BY <1>2
  <2> QED
    BY <2>1
<1>6. Elements(s) \subseteq {s[1]} \cup Elements(t)
  <2> SUFFICES ASSUME NEW i \in 1 .. n, i # 1 PROVE s[i] \in Elements(t)
    BY <1>4
  <2>1. PICK j \in 1 .. n - 1 : i = j + 1
    BY <1>5
  <2>2. j \in 1 .. Len(t) /\ t[j] = s[i]
    BY <2>1, <1>1
  <2> QED
    BY <2>2, <1>4
<1>7. Elements(t) \subseteq Elements(s)
  <2> SUFFICES ASSUME NEW j \in 1 .. Len(t) PROVE t[j] \in Elements(s)
    BY <1>4
  <2>1. j + 1 \in 1 .. n /\ t[j] = s[j + 1]
    BY <1>1, <1>2
  <2> QED
    BY <2>1, <1>4
<1>8. s[1] \in Elements(s)
  <2>1. 1 \in 1 .. n
    BY <1>2
  <2> QED
    BY <2>1, <1>4
<1> QED
  BY <1>1, <1>2, <1>3, <1>6, <1>7, <1>8 DEF t, n

LEMMA Pushed ==
  ASSUME NEW f \in Frame, NEW t \in Seq(Frame)
  PROVE  /\ <<f>> \o t \in Seq(Frame) /\ <<f>> \o t # <<>>
         /\ Head(<<f>> \o t) = f /\ Tail(<<f>> \o t) = t
         /\ Elements(<<f>> \o t) = {f} \cup Elements(t)
         /\ Len(<<f>> \o t) = Len(t) + 1 /\ Len(t) \in Nat
         /\ (<<f>> \o t)[1] = f
         /\ \A i \in 1 .. Len(t) : (<<f>> \o t)[i + 1] = t[i]
<1> DEFINE s == <<f>> \o t
           n == Len(t)
<1>1. <<f>> \in Seq(Frame) /\ Len(<<f>>) = 1 /\ <<f>>[1] = f /\ n \in Nat
  BY OneElement, LenProperties
<1>2. /\ s \in Seq(Frame) /\ Len(s) = 1 + n
      /\ \A i \in 1 .. 1 + n : s[i] = IF i <= 1 THEN <<f>>[i] ELSE t[i - 1]
  BY <1>1, ConcatProperties
<1>3. Len(<<>>) = 0
  BY EmptySeq
<1> HIDE DEF s, n
<1>4. s # <<>>
  BY <1>1, <1>2, <1>3
<1>5. s[1] = f
  <2>1. 1 \in 1 .. 1 + n
    BY <1>1
  <2> QED
    BY <2>1, <1>1, <1>2
<1>6. \A i \in 1 .. n : s[i + 1] = t[i]
  <2> TAKE i \in 1 .. n
  <2>1. i + 1 \in 1 .. 1 + n /\ ~(i + 1 <= 1) /\ (i + 1) - 1 = i
    BY <1>1
  <2> QED
    BY <2>1, <1>2
<1>7. /\ Tail(s) \in Seq(Frame) /\ Elements(s) = {Head(s)} \cup Elements(Tail(s))
      /\ Head(s) = s[1] /\ Len(Tail(s)) = Len(s) - 1
      /\ \A i \in 1 .. Len(Tail(s)) : Tail(s)[i] = s[i + 1]
  BY <1>2, <1>4, Innermost
<1>8. Len(Tail(s)) = n
  BY <1>1, <1>2, <1>7
<1>9. Tail(s) = t
  <2>1. \A i \in 1 .. Len(Tail(s)) : Tail(s)[i] = t[i]
    BY <1>6, <1>7, <1>8
  <2> QED
    BY <2>1, <1>7, <1>8, SeqEqual DEF n
<1>10. Elements(s) = {f} \cup Elements(t) /\ Head(s) = f
  BY <1>5, <1>7, <1>9
<1>11. Len(s) = n + 1
  BY <1>1, <1>2
<1> QED
  BY <1>1, <1>2, <1>4, <1>5, <1>6, <1>9, <1>10, <1>11 DEF s, n

\* A pushed call is sound on nested calls, and nested if it may be returned to.
LEMMA PushSound ==
  ASSUME NEW f \in Frame, NEW t \in Seq(Frame), Nested(t), OnTop(f, t)
  PROVE  Sound(<<f>> \o t)
<1>1. Head(<<f>> \o t) = f /\ Tail(<<f>> \o t) = t
  BY Pushed
<1> QED
  BY <1>1, Zenon DEF Sound

LEMMA PushNested ==
  ASSUME NEW f \in Frame, NEW t \in Seq(Frame), Nested(t), OnTop(f, t),
         \A g \in Elements(t) : Buried(f, g)
  PROVE  Nested(<<f>> \o t)
<1> DEFINE s == <<f>> \o t
           n == Len(t)
<1>1. /\ s \in Seq(Frame) /\ Len(s) = n + 1 /\ n \in Nat /\ s[1] = f
      /\ \A i \in 1 .. n : s[i + 1] = t[i]
  BY Pushed
<1>2. DOMAIN s = 1 .. n + 1 /\ DOMAIN t = 1 .. n
  BY <1>1, LenProperties
<1>3. \A i \in 1 .. n : t[i] \in Elements(t)
  BY <1>2 DEF Elements
<1> HIDE DEF s, n
<1> SUFFICES ASSUME NEW i \in 1 .. n + 1, NEW j \in 1 .. n + 1, i < j
             PROVE  Stacked(s[i], s[j]) /\ Buried(s[i], s[j])
  BY <1>2 DEF Nested, s
<1>4. j - 1 \in 1 .. n /\ (j - 1) + 1 = j
  BY <1>1
<1>5. s[j] = t[j - 1] /\ t[j - 1] \in Elements(t)
  BY <1>1, <1>3, <1>4
<1>6. CASE i = 1
  BY <1>1, <1>5, <1>6, Zenon DEF OnTop
<1>7. CASE i # 1
  <2>1. i - 1 \in 1 .. n /\ (i - 1) + 1 = i /\ i - 1 < j - 1
    BY <1>1, <1>7
  <2>2. s[i] = t[i - 1]
    BY <2>1, <1>1
  <2>3. Stacked(t[i - 1], t[j - 1]) /\ Buried(t[i - 1], t[j - 1])
    BY <2>1, <1>2, <1>4 DEF Nested
  <2> QED
    BY <2>2, <2>3, <1>5
<1> QED
  BY <1>6, <1>7

\* When the innermost call returns, the next one is sound.
LEMMA NestedSound ==
  ASSUME NEW t \in Seq(Frame), Nested(t)
  PROVE  Sound(t)
<1> SUFFICES ASSUME t # <<>> PROVE Nested(Tail(t)) /\ OnTop(Head(t), Tail(t))
  BY DEF Sound
<1> DEFINE r == Tail(t)
           n == Len(t)
<1>1. /\ r \in Seq(Frame) /\ Head(t) = t[1] /\ n \in Nat \ {0} /\ Len(r) = n - 1
      /\ \A i \in 1 .. Len(r) : r[i] = t[i + 1]
  BY Innermost
<1>2. DOMAIN t = 1 .. n /\ DOMAIN r = 1 .. n - 1 /\ Elements(r) = {r[i] : i \in 1 .. Len(r)}
  BY <1>1, LenProperties, ElementsOf
<1> HIDE DEF r, n
<1>3. \A i, j \in 1 .. n : i < j => Stacked(t[i], t[j]) /\ Buried(t[i], t[j])
  BY <1>2 DEF Nested
<1>4. Nested(r)
  <2> SUFFICES ASSUME NEW i \in 1 .. n - 1, NEW j \in 1 .. n - 1, i < j
               PROVE  Stacked(r[i], r[j]) /\ Buried(r[i], r[j])
    BY <1>2 DEF Nested
  <2>1. i + 1 \in 1 .. n /\ j + 1 \in 1 .. n /\ i + 1 < j + 1
    BY <1>1
  <2>2. r[i] = t[i + 1] /\ r[j] = t[j + 1]
    BY <1>1
  <2> QED
    BY <2>1, <2>2, <1>3
<1>5. OnTop(t[1], r)
  <2> SUFFICES ASSUME NEW j \in 1 .. n - 1 PROVE Stacked(t[1], r[j])
    BY <1>1, <1>2 DEF OnTop
  <2>1. 1 \in 1 .. n /\ j + 1 \in 1 .. n /\ 1 < j + 1
    BY <1>1
  <2>2. r[j] = t[j + 1]
    BY <1>1
  <2> QED
    BY <2>1, <2>2, <1>3
<1> QED
  BY <1>1, <1>4, <1>5 DEF r

\* The forms of what a call leaves behind.
LEMMA Frames ==
  ASSUME NEW t \in Seq(Frame), NEW a \in Frame, NEW b \in Frame
  PROVE  /\ <<>> \o t = t /\ <<>> \o <<b>> = <<b>>
         /\ <<a, b>> = <<a>> \o <<b>> /\ <<a>> \o <<b>> \in Seq(Frame)
         /\ <<a, b>> \o t = <<a>> \o (<<b>> \o t)
         /\ (<<a>> \o <<b>>) \o t = <<a>> \o (<<b>> \o t)
<1>1. <<a>> \in Seq(Frame) /\ <<b>> \in Seq(Frame)
  BY OneElement
<1>2. <<>> \o t = t /\ <<>> \o <<b>> = <<b>>
  BY <1>1, ConcatEmptySeq
<1>3. (<<a>> \o <<b>>) \o t = <<a>> \o (<<b>> \o t)
  BY <1>1, ConcatAssociative
<1>4. <<a, b>> = <<a>> \o <<b>>
  <2>1. <<a, b>> = Append(<<a>>, b)
    OBVIOUS
  <2>2. Append(<<a>>, b) = <<a>> \o <<b>>
    BY <1>1, AppendIsConcat
  <2> QED
    BY <2>1, <2>2
<1>5. <<a>> \o <<b>> \in Seq(Frame)
  BY <1>1, ConcatProperties
<1> QED
  BY <1>2, <1>3, <1>4, <1>5

LEMMA ThreeFrames ==
  ASSUME NEW t \in Seq(Frame), NEW a \in Frame, NEW b \in Frame, NEW c \in Frame
  PROVE  <<a, b, c>> \o t = <<a>> \o (<<b>> \o (<<c>> \o t))
<1>1. <<a>> \in Seq(Frame) /\ <<b>> \in Seq(Frame) /\ <<c>> \in Seq(Frame)
  BY OneElement
<1>2. <<a, b>> = <<a>> \o <<b>> /\ <<a>> \o <<b>> \in Seq(Frame)
  <2>1. <<a, b>> = Append(<<a>>, b)
    OBVIOUS
  <2>2. Append(<<a>>, b) = <<a>> \o <<b>> /\ <<a>> \o <<b>> \in Seq(Frame)
    BY <1>1, AppendIsConcat, ConcatProperties
  <2> QED
    BY <2>1, <2>2
<1>3. <<a, b, c>> = <<a, b>> \o <<c>>
  OBVIOUS
<1>4. <<c>> \o t \in Seq(Frame)
  BY <1>1, ConcatProperties
<1>5. ((<<a>> \o <<b>>) \o <<c>>) \o t = (<<a>> \o <<b>>) \o (<<c>> \o t)
  BY <1>1, <1>2, ConcatAssociative
<1>6. (<<a>> \o <<b>>) \o (<<c>> \o t) = <<a>> \o (<<b>> \o (<<c>> \o t))
  BY <1>1, <1>4, ConcatAssociative
<1> QED
  BY <1>2, <1>3, <1>5, <1>6

LEMMA TwoAndOne ==
  ASSUME NEW t \in Seq(Frame), NEW a \in Frame, NEW b \in Frame, NEW c \in Frame
  PROVE  (<<a, b>> \o <<c>>) \o t = <<a>> \o (<<b>> \o (<<c>> \o t))
<1>1. <<a>> \in Seq(Frame) /\ <<b>> \in Seq(Frame) /\ <<c>> \in Seq(Frame)
  BY OneElement
<1>2. <<a, b>> = <<a>> \o <<b>> /\ <<a>> \o <<b>> \in Seq(Frame)
  <2>1. <<a, b>> = Append(<<a>>, b)
    OBVIOUS
  <2>2. Append(<<a>>, b) = <<a>> \o <<b>> /\ <<a>> \o <<b>> \in Seq(Frame)
    BY <1>1, AppendIsConcat, ConcatProperties
  <2> QED
    BY <2>1, <2>2
<1>3. <<c>> \o t \in Seq(Frame)
  BY <1>1, ConcatProperties
<1>4. ((<<a>> \o <<b>>) \o <<c>>) \o t = (<<a>> \o <<b>>) \o (<<c>> \o t)
  BY <1>1, <1>2, ConcatAssociative
<1>5. (<<a>> \o <<b>>) \o (<<c>> \o t) = <<a>> \o (<<b>> \o (<<c>> \o t))
  BY <1>1, <1>3, ConcatAssociative
<1> QED
  BY <1>2, <1>4, <1>5

LEMMA FnsPushed ==
  ASSUME NEW f \in Frame, NEW t \in Seq(Frame)
  PROVE  Fns(<<f>> \o t) = {f.fn} \cup Fns(t)
<1>1. Elements(<<f>> \o t) = {f} \cup Elements(t)
  BY Pushed
<1> QED
  BY <1>1 DEF Fns

LEMMA NoCalls == Elements(<<>>) = {} /\ Fns(<<>>) = {} /\ Nested(<<>>) /\ Sound(<<>>) /\ <<>> \in Seq(Frame)
<1>1. DOMAIN <<>> = {}
  OBVIOUS
<1> QED
  BY <1>1 DEF Elements, Fns, Nested, Sound

\* A call on no other is nested.
LEMMA OneCall ==
  ASSUME NEW f \in Frame
  PROVE  /\ <<f>> \in Seq(Frame) /\ <<f>> # <<>> /\ Head(<<f>>) = f /\ Tail(<<f>>) = <<>>
         /\ Elements(<<f>>) = {f} /\ Fns(<<f>>) = {f.fn} /\ Nested(<<f>>) /\ Sound(<<f>>)
<1>1. <<f>> = <<f>> \o <<>>
  <2>1. <<f>> \in Seq(Frame)
    BY OneElement
  <2> QED
    BY <2>1, ConcatEmptySeq
<1>2. OnTop(f, <<>>) /\ \A g \in Elements(<<>>) : Buried(f, g)
  BY NoCalls DEF OnTop
<1>3. Nested(<<f>> \o <<>>) /\ Sound(<<f>> \o <<>>)
  BY <1>2, NoCalls, PushNested, PushSound
<1>4. Fns(<<f>> \o <<>>) = {f.fn} \cup Fns(<<>>)
  BY NoCalls, FnsPushed
<1>5. /\ <<f>> \o <<>> \in Seq(Frame) /\ <<f>> \o <<>> # <<>>
      /\ Head(<<f>> \o <<>>) = f /\ Tail(<<f>> \o <<>>) = <<>>
      /\ Elements(<<f>> \o <<>>) = {f} \cup Elements(<<>>)
  BY NoCalls, Pushed
<1>6. Elements(<<>>) = {} /\ Fns(<<>>) = {}
  BY NoCalls
<1>7. Elements(<<f>> \o <<>>) = {f} /\ Fns(<<f>> \o <<>>) = {f.fn}
  BY <1>4, <1>5, <1>6
<1> QED
  BY <1>1, <1>3, <1>5, <1>7, Zenon

\* What is known while a function runs.
Rest == Tail(stack)
LEMMA Runs ==
  ASSUME NEW at, Good(at), stack # <<>>
  PROVE  /\ stack \in Seq(Frame) /\ Rest \in Seq(Frame) /\ Top \in Frame
         /\ Elements(stack) = {Top} \cup Elements(Rest) /\ Fns(stack) = {Top.fn} \cup Fns(Rest)
         /\ Nested(Rest) /\ OnTop(Top, Rest) /\ Elements(Rest) \subseteq Frame
         /\ Knows(Top, at[Top.v], vb[Top.v])
         /\ \A f \in Elements(Rest) : Knows(f, at[f.v], vb[f.v])
         /\ Top.fn \in RequestFns => Top.v \in Ids
<1>1. stack \in Seq(Frame)
  BY DEF Good, TypeOK
<1>2. /\ Rest \in Seq(Frame) /\ Top \in Frame
      /\ Elements(stack) = {Top} \cup Elements(Rest)
  BY <1>1, Innermost DEF Rest, Top
<1>3. Fns(stack) = {Top.fn} \cup Fns(Rest)
  BY <1>2 DEF Fns
<1>4. Sound(stack) /\ \A f \in Elements(stack) : Knows(f, at[f.v], vb[f.v])
  BY DEF Good, Fits, Calls
<1>5. Nested(Rest) /\ OnTop(Top, Rest)
  BY <1>4, Zenon DEF Sound, Rest, Top
<1>6. Elements(Rest) \subseteq Frame
  BY <1>2, ElementsOf
<1>7. Top.fn \in RequestFns => Top.v \in Ids
  BY <1>2 DEF Frame, RequestFns, WindowFns
<1>8. Knows(Top, at[Top.v], vb[Top.v]) /\ \A f \in Elements(Rest) : Knows(f, at[f.v], vb[f.v])
  BY <1>2, <1>4, Zenon
<1> QED
  BY <1>1, <1>2, <1>3, <1>5, <1>6, <1>7, <1>8

\* The requests named by the calls that the innermost one returns to.
LEMMA RestPlaces ==
  ASSUME NEW at, Good(at), stack # <<>>, Top.fn \notin Timing,
         NEW f \in Elements(Rest), f.fn \in RequestFns
  PROVE  /\ f.v \in Ids /\ at[f.v] \in {"wait", "held", "blocked"}
         /\ f.fn \in {"bump_loop", "append_flip", "copy", "flush_loop"}
         /\ f.fn = "bump_loop" => at[f.v] = "wait"
         /\ f.fn \in {"append_flip", "copy"} => at[f.v] = "held"
         /\ f.fn = "flush_loop" => at[f.v] = "blocked"
<1>1. f \in Frame /\ Knows(f, at[f.v], vb[f.v]) /\ Stacked(Top, f)
  BY Runs, Zenon DEF OnTop
<1>2. f.fn \in {"bump_loop", "append_flip", "copy", "flush_loop"}
  BY <1>1 DEF Stacked, Tops, Sealed, Timing, RequestFns, Knows
<1>3. f.v \in Ids
  BY <1>1 DEF Frame, RequestFns, WindowFns
<1> QED
  BY <1>1, <1>2, <1>3 DEF Knows, Owners

LEMMA RestOthers ==
  ASSUME NEW at, Good(at), stack # <<>>,
         Top.fn \in {"re_execute", "execute", "retry", "append_flip", "copy", "flush_loop",
                     "flip_done", "flip_notify"},
         NEW f \in Elements(Rest), f.fn \in RequestFns
  PROVE  f.v # Top.v
<1>1. f \in Frame /\ Stacked(Top, f)
  BY Runs, Zenon DEF OnTop
<1>2. /\ f.fn \in {"bump_loop", "append_flip", "copy", "flush_loop"}
      /\ f.fn = "bump_loop" => at[f.v] = "wait"
      /\ f.fn \in {"append_flip", "copy"} => at[f.v] = "held"
      /\ f.fn = "flush_loop" => at[f.v] = "blocked"
  BY RestPlaces DEF Timing
<1>3. Knows(Top, at[Top.v], vb[Top.v])
  BY Runs
<1>4. CASE Top.fn = "execute"
  BY <1>1, <1>2, <1>3, <1>4 DEF Stacked, Knows
<1>5. CASE Top.fn \in Owners
  BY <1>1, <1>2, <1>3, <1>5 DEF Stacked, Knows, Owners
<1>6. CASE Top.fn = "flush_loop"
  BY <1>1, <1>2, <1>3, <1>6 DEF Stacked, Knows
<1>7. CASE Top.fn \in {"re_execute", "flip_done", "flip_notify"}
  BY <1>2, <1>3, <1>7 DEF Knows
<1> QED
  BY <1>4, <1>5, <1>6, <1>7 DEF Owners

\* A call that the innermost one makes in its place.
Plain == {"reset_timer", "flip_try_ready", "flush_blocked", "re_execute", "block", "flip_done"}
LEMMA PlainCall ==
  ASSUME NEW at, Good(at), stack # <<>>, Top.fn \notin Timing, NEW f \in Frame, f.fn \in Plain
  PROVE  OnTop(f, Rest)
<1> SUFFICES ASSUME NEW g \in Elements(Rest) PROVE Stacked(f, g)
  BY DEF OnTop
<1>1. Stacked(Top, g)
  BY Runs, Zenon DEF OnTop
<1> QED
  BY <1>1 DEF Stacked, Plain, Timing, Tops, Sealed, Bumps, Bases, Owners, Stops

LEMMA SameCall ==
  ASSUME NEW at, Good(at), stack # <<>>,
         Top.fn \in {"re_execute", "execute", "retry", "append_flip", "copy", "flush_loop",
                     "flip_done", "flip_notify"},
         NEW f \in Frame, f.v = Top.v, f.fn \in {"execute", "retry", "append_flip", "copy"}
  PROVE  OnTop(f, Rest)
<1> SUFFICES ASSUME NEW g \in Elements(Rest) PROVE Stacked(f, g)
  BY DEF OnTop
<1>1. Stacked(Top, g)
  BY Runs, Zenon DEF OnTop
<1>2. g.fn \in RequestFns => g.v # f.v
  BY RestOthers
<1> QED
  BY <1>1, <1>2 DEF Stacked, RequestFns, Timing, Tops, Sealed, Bumps, Bases, Owners, Stops

\* One, two and three calls made.  Made lists what follows of the new calls s.
Made(s, a, others, t) ==
  /\ s \in Seq(Frame) /\ s # <<>> /\ Sound(s) /\ Head(s) = a
  /\ Elements(s) = {a} \cup others \cup Elements(t)
LEMMA MadeFns ==
  ASSUME NEW s, NEW a, NEW others, NEW t, Made(s, a, others, t)
  PROVE  Fns(s) = {a.fn} \cup {f.fn : f \in others} \cup Fns(t)
  BY DEF Made, Fns

LEMMA MadeOne ==
  ASSUME NEW t \in Seq(Frame), Nested(t), NEW a \in Frame, OnTop(a, t)
  PROVE  Made(<<a>> \o t, a, {}, t)
<1>1. Sound(<<a>> \o t)
  BY PushSound
<1>2. /\ <<a>> \o t \in Seq(Frame) /\ <<a>> \o t # <<>> /\ Head(<<a>> \o t) = a
      /\ Elements(<<a>> \o t) = {a} \cup Elements(t)
  BY Pushed
<1> QED
  BY <1>1, <1>2 DEF Made

LEMMA MadeTwo ==
  ASSUME NEW t \in Seq(Frame), Nested(t), NEW a \in Frame, NEW b \in Frame,
         OnTop(a, t), OnTop(b, t), Stacked(a, b), \A g \in Elements(t) : Buried(b, g)
  PROVE  Made(<<a>> \o (<<b>> \o t), a, {b}, t)
<1> DEFINE u == <<b>> \o t
<1>1. Nested(u)
  BY PushNested
<1>2. u \in Seq(Frame) /\ Elements(u) = {b} \cup Elements(t)
  BY Pushed
<1> HIDE DEF u
<1>3. OnTop(a, u)
  BY <1>2, Zenon DEF OnTop
<1>4. Made(<<a>> \o u, a, {}, u)
  BY <1>1, <1>2, <1>3, MadeOne
<1>5. Made(<<a>> \o u, a, {b}, t)
  BY <1>2, <1>4 DEF Made
<1> QED
  BY <1>5 DEF u

LEMMA MadeThree ==
  ASSUME NEW t \in Seq(Frame), Nested(t), NEW a \in Frame, NEW b \in Frame, NEW c \in Frame,
         OnTop(a, t), OnTop(b, t), OnTop(c, t), Stacked(a, b), Stacked(a, c), Stacked(b, c),
         Buried(b, c), \A g \in Elements(t) : Buried(b, g) /\ Buried(c, g)
  PROVE  Made(<<a>> \o (<<b>> \o (<<c>> \o t)), a, {b, c}, t)
<1> DEFINE u == <<c>> \o t
<1>1. Nested(u)
  BY PushNested
<1>2. u \in Seq(Frame) /\ Elements(u) = {c} \cup Elements(t)
  BY Pushed
<1> HIDE DEF u
<1>3. OnTop(a, u) /\ OnTop(b, u) /\ \A g \in Elements(u) : Buried(b, g)
  BY <1>2, Zenon DEF OnTop
<1>4. Made(<<a>> \o (<<b>> \o u), a, {b}, u)
  BY <1>1, <1>2, <1>3, MadeTwo
<1>5. Made(<<a>> \o (<<b>> \o u), a, {b, c}, t)
  BY <1>2, <1>4 DEF Made
<1> QED
  BY <1>5 DEF u

\* When the innermost call returns, the next one is none of the Tops.
LEMMA Popped ==
  ASSUME NEW at, Good(at), stack # <<>>, stack' = Rest
  PROVE  /\ stack' \in Seq(Frame) /\ Sound(stack')
         /\ Elements(stack') = Elements(Rest) /\ Fns(stack') = Fns(Rest)
         /\ \A fn \in Tops : ~(stack' # <<>> /\ Head(stack').fn = fn)
         /\ stack' # <<>> /\ Head(stack').fn \in {"copy", "block"} => "flush_loop" \notin Fns(stack')
<1>1. Rest \in Seq(Frame) /\ Nested(Rest) /\ OnTop(Top, Rest)
  BY Runs
<1>2. Sound(Rest)
  BY <1>1, NestedSound
<1>3. ASSUME Rest # <<>>
      PROVE  /\ Head(Rest).fn \notin Tops
             /\ Head(Rest).fn \in {"copy", "block"} => "flush_loop" \notin Fns(Rest)
  <2>1. /\ Head(Rest) = Rest[1]
        /\ Tail(Rest) \in Seq(Frame) /\ Elements(Rest) = {Head(Rest)} \cup Elements(Tail(Rest))
        /\ Len(Rest) \in Nat \ {0} /\ Len(Tail(Rest)) = Len(Rest) - 1
        /\ \A i \in 1 .. Len(Tail(Rest)) : Tail(Rest)[i] = Rest[i + 1]
    BY <1>1, <1>3, Innermost
  <2>2. Stacked(Top, Head(Rest))
    BY <2>1, <1>1, Zenon DEF OnTop
  <2>3. Head(Rest).fn \notin Tops
    BY <2>2 DEF Stacked
  <2>4. ASSUME Head(Rest).fn \in {"copy", "block"} PROVE "flush_loop" \notin Fns(Rest)
    <3> SUFFICES ASSUME NEW g \in Elements(Tail(Rest)) PROVE g.fn # "flush_loop"
      BY <2>1, <2>4 DEF Fns
    <3>1. PICK i \in 1 .. Len(Tail(Rest)) : g = Tail(Rest)[i]
      <4>1. Elements(Tail(Rest)) = {Tail(Rest)[i] : i \in 1 .. Len(Tail(Rest))}
        BY <2>1, ElementsOf
      <4> QED
        BY <4>1
    <3>2. g = Rest[i + 1]
      BY <3>1, <2>1
    <3>3. 1 \in 1 .. Len(Rest) /\ i + 1 \in 1 .. Len(Rest) /\ 1 < i + 1
      BY <2>1
    <3>4. DOMAIN Rest = 1 .. Len(Rest)
      BY <1>1, LenProperties
    <3>5. Buried(Rest[1], Rest[i + 1])
      BY <3>3, <3>4, <1>1 DEF Nested
    <3> QED
      BY <3>2, <3>5, <2>1, <2>4 DEF Buried
  <2> QED
    BY <2>3, <2>4
<1> QED
  BY <1>1, <1>2, <1>3

-----------------------------------------------------------------------------
(***************************************************************************)
(* What is left alone by a step that moves or changes one request v.       *)
(***************************************************************************)
Only(v) == \A u \in Ids : u # v => vb'[u] = vb[u]

LEMMA SettlesMove ==
  ASSUME NEW at, NEW at2, NEW v \in Ids, Moves(at, at2, v),
         at[v] \notin {"pending", "flipping", "active"},
         at2[v] \notin {"pending", "flipping", "active"}
  PROVE  /\ Pending(at2) <=> Pending(at)
         /\ Settles(at2) <=> Settles(at)
         /\ OnePending(at) => OnePending(at2)
<1>1. \A u \in Ids : /\ at2[u] \in {"pending", "flipping"} <=> at[u] \in {"pending", "flipping"}
                     /\ at2[u] = "active" <=> at[u] = "active"
  BY DEF Moves
<1>2. Pending(at2) <=> Pending(at)
  BY <1>1 DEF Pending
<1> QED
  BY <1>1, <1>2 DEF Settles, OnePending

LEMMA RecordsMove ==
  ASSUME NEW at, Records(at), NEW at2, NEW v \in Ids, Moves(at, at2, v), Only(v),
         Stage(vb'[v], at2[v])
  PROVE  Records(at2)'
  BY Zenon DEF Records, Moves, Only

\* The buffer of v stays what it was.
Gentle(v) == /\ vb'[v].evpix = vb[v].evpix /\ vb'[v].handed = vb[v].handed
             /\ vb'[v].st = "live" /\ vb'[v].pixmap => vb[v].st = "live" /\ vb[v].pixmap
             /\ vb[v].idled > 0 => vb'[v].idled > 0
LEMMA BuffersMove ==
  ASSUME NEW at, Buffers(at), NEW at2, NEW v \in Ids, Moves(at, at2, v), Only(v), Gentle(v),
         Rank(at2[v]) = Rank(at[v]), UNCHANGED <<req, pix, release_cb, held, setup>>
  PROVE  Buffers(at2)'
<1>1. \A u \in Ids : Gentle(u) /\ Rank(at2[u]) = Rank(at[u])
  BY DEF Gentle, Only, Moves
<1>2. \A u \in Ids : Explicit(u)' = Explicit(u)
  BY DEF Explicit, HasSyncobj
<1>3. InOrder(at2)'
  BY <1>1 DEF Buffers, InOrder
<1>4. Reused'
  BY <1>1 DEF Buffers, Reused, Uses, Live, Settled, Gentle
<1>5. Names'
  BY <1>1 DEF Buffers, Names, Gentle
<1>6. Shows'
  BY <1>1, <1>2 DEF Buffers, Shows, Gentle
<1> QED
  BY <1>3, <1>4, <1>5, <1>6 DEF Buffers

\* The calls that go on later know the same of their requests.
LEMMA WindowKnows ==
  ASSUME NEW f \in Frame, f.fn \notin RequestFns, NEW p, NEW r, Knows(f, p, r), NEW p2, NEW r2
  PROVE  Knows(f, p2, r2)
  BY DEF Knows, RequestFns, Owners

LEMMA RestKnows ==
  ASSUME NEW at, Good(at), stack # <<>>, Top.fn \notin Timing, NEW at2, NEW S,
         \A u \in Ids : at[u] \in {"wait", "held", "blocked"} /\ u \notin S =>
           at2[u] = at[u] /\ vb'[u] = vb[u],
         \A f \in Elements(Rest) : f.fn \in RequestFns => f.v \notin S
  PROVE  \A f \in Elements(Rest) : Knows(f, at2[f.v], vb'[f.v])
<1> SUFFICES ASSUME NEW f \in Elements(Rest) PROVE Knows(f, at2[f.v], vb'[f.v])
  OBVIOUS
<1>1. f \in Frame /\ Knows(f, at[f.v], vb[f.v])
  BY Runs
<1>2. CASE f.fn \in RequestFns
  <2>1. f.v \in Ids /\ at[f.v] \in {"wait", "held", "blocked"} /\ f.v \notin S
    BY <1>2, RestPlaces
  <2>2. at2[f.v] = at[f.v] /\ vb'[f.v] = vb[f.v]
    BY <2>1
  <2> QED
    BY <1>1, <2>2
<1>3. CASE f.fn \notin RequestFns
  BY <1>1, <1>3, WindowKnows
<1> QED
  BY <1>2, <1>3

LEMMA RestKnowsMove ==
  ASSUME NEW at, Good(at), stack # <<>>,
         Top.fn \in {"re_execute", "execute", "retry", "append_flip", "copy", "flush_loop",
                     "flip_done", "flip_notify"},
         NEW at2, NEW v \in Ids, Moves(at, at2, v), Only(v), v = Top.v
  PROVE  \A f \in Elements(Rest) : Knows(f, at2[f.v], vb'[f.v])
<1>1. \A f \in Elements(Rest) : f.fn \in RequestFns => f.v \notin {v}
  BY RestOthers
<1>2. Top.fn \notin Timing
  BY DEF Timing
<1>3. \A u \in Ids : at[u] \in {"wait", "held", "blocked"} /\ u \notin {v} =>
        at2[u] = at[u] /\ vb'[u] = vb[u]
  BY DEF Moves, Only
<1> QED
  BY <1>1, <1>2, <1>3, RestKnows

\* Requests in the hands of other calls are still in their hands.
LEMMA RestAttends ==
  ASSUME NEW at, Good(at), stack # <<>>, NEW u \in Ids, u # Top.v, Live(u),
         at[u] \in {"none", "held", "flipping"}
  PROVE  \E f \in Elements(Rest) : Attends(f, u, at[u])
<1>1. PICK f \in Elements(stack) : Attends(f, u, at[u])
  BY DEF Good, Fits, Attended
<1>2. f # Top
  BY <1>1 DEF Attends
<1> QED
  BY <1>1, <1>2, Runs

LEMMA AttendedMove ==
  ASSUME NEW at, Good(at), stack # <<>>, NEW at2, NEW v \in Ids, Moves(at, at2, v), Only(v),
         Top.v \in {v, NoId}, Elements(Rest) \subseteq Elements(stack'),
         vb'[v].st = "live" /\ at2[v] \in {"none", "held", "flipping"} =>
           \E f \in Elements(stack') : Attends(f, v, at2[v])
  PROVE  Attended(at2)'
<1> SUFFICES ASSUME NEW u \in Ids, vb'[u].st = "live", at2[u] \in {"none", "held", "flipping"}
             PROVE  \E f \in Elements(stack') : Attends(f, u, at2[u])
  BY DEF Attended, Live
<1>1. CASE u = v
  BY <1>1
<1>2. CASE u # v
  <2>1. at2[u] = at[u] /\ Live(u) /\ u # Top.v
    BY <1>2, IdsNat DEF Moves, Only, Live
  <2>2. \E f \in Elements(Rest) : Attends(f, u, at[u])
    BY <2>1, RestAttends
  <2> QED
    BY <2>1, <2>2
<1> QED
  BY <1>1, <1>2

\* The blocker still blocks, or it has been presented and the blocked are flushed.
LEMMA BlockerMove ==
  ASSUME NEW at, Good(at), stack # <<>>, Top.fn \notin Timing,
         Top.fn \notin {"flush_blocked", "flush_loop", "block"},
         NEW at2, NEW v \in Ids, Moves(at, at2, v), Only(v),
         blocking_event' = blocking_event,
         blocking_event = NoId => blocked_queue' = blocked_queue,
         Elements(Rest) \subseteq Elements(stack'),
         blocking_event = v =>
           vb'[v].pixmap /\ ("flush_blocked" \in Fns(stack') \/ Blocks(v, at2)')
  PROVE  Blocker(at2)'
<1>1. Blocker(at) /\ blocking_event \in Ids \cup {NoId}
  BY DEF Good, Fits, TypeOK
<1>2. ASSUME blocking_event # NoId
      PROVE  vb'[blocking_event].pixmap
             /\ ("flush_blocked" \in Fns(stack') \/ Blocks(blocking_event, at2)')
  <2>1. CASE blocking_event = v
    BY <2>1
  <2>2. CASE blocking_event # v
    <3>1. blocking_event \in Ids /\ vb'[blocking_event] = vb[blocking_event]
          /\ at2[blocking_event] = at[blocking_event]
      BY <1>1, <1>2, <2>2 DEF Only, Moves
    <3>2. vb[blocking_event].pixmap /\ ("flush_blocked" \in Fns(stack) \/ Blocks(blocking_event, at))
      BY <1>1, <1>2 DEF Blocker
    <3>3. "flush_blocked" \in Fns(stack) => "flush_blocked" \in Fns(stack')
      <4>1. Fns(stack) = {Top.fn} \cup Fns(Rest) /\ Fns(Rest) \subseteq Fns(stack')
        BY Runs DEF Fns
      <4> QED
        BY <4>1
    <3>4. Blocks(blocking_event, at) => Blocks(blocking_event, at2)'
      BY <3>1 DEF Blocks, Live
    <3> QED
      BY <3>1, <3>2, <3>3, <3>4
  <2> QED
    BY <2>1, <2>2
<1>3. ASSUME blocking_event = NoId, blocked_queue' # <<>>
      PROVE  \E f \in Elements(stack') : \/ f.fn = "flush_loop" /\ f.v = First(blocked_queue')
                                         \/ f.fn = "block" /\ vb'[f.v].pixmap
  <2>1. blocked_queue' = blocked_queue
    BY <1>3
  <2>2. PICK f \in Elements(stack) : \/ f.fn = "flush_loop" /\ f.v = First(blocked_queue)
                                     \/ f.fn = "block" /\ vb[f.v].pixmap
    BY <1>1, <1>3, <2>1 DEF Blocker
  <2>3. f \in Elements(Rest)
    BY <2>2, Runs
  <2>4. f.fn # "block"
    BY <2>3, RestPlaces DEF RequestFns
  <2> QED
    BY <2>1, <2>2, <2>3, <2>4
<1> QED
  BY <1>2, <1>3 DEF Blocker

\* The pending flip is the head of flip_queue, if that is not queued.
LEMMA HeadPending ==
  ASSUME NEW q \in Seq(Ids), NEW at, NEW r, Is(q, at, {"queue", "pending"}),
         \A v \in Ids : Stage(r[v], at[v]),
         \A v \in Ids : at[v] = "pending" => First(q) = v
  PROVE  /\ q # <<>> /\ ~r[q[1]].queued => q[1] \in Ids /\ at[q[1]] = "pending"
         /\ \A v \in Ids : at[v] = "pending" => q # <<>> /\ ~r[q[1]].queued /\ q[1] = v
<1>1. ASSUME q # <<>>, ~r[q[1]].queued PROVE q[1] \in Ids /\ at[q[1]] = "pending"
  <2>1. Has(q, q[1]) /\ q[1] \in Ids
    BY <1>1, HasFirst
  <2>2. at[q[1]] \in {"queue", "pending"} /\ Stage(r[q[1]], at[q[1]])
    BY <2>1 DEF Is
  <2> QED
    BY <2>1, <2>2, <1>1 DEF Stage
<1>2. ASSUME NEW v \in Ids, at[v] = "pending" PROVE q # <<>> /\ ~r[q[1]].queued /\ q[1] = v
  <2>1. First(q) = v /\ v # NoId
    BY <1>2, IdsNat
  <2>2. q # <<>> /\ q[1] = v
    BY <2>1 DEF First
  <2>3. ~r[v].queued
    BY <1>2 DEF Stage, InUse, Shown
  <2> QED
    BY <2>2, <2>3
<1> QED
  BY <1>1, <1>2

LEMMA PendingIs ==
  ASSUME NEW at, TypeOK, OnLists(at), Records(at)
  PROVE  /\ \A v \in Ids : at[v] = "pending" <=> PendingFlip = v
         /\ SyncFlipPending <=> \E v \in Ids : at[v] = "pending" /\ vb[v].sync_flip
         /\ PendingFlip \in Ids \cup {NoId}
<1>1. flip_queue \in Seq(Ids) /\ Is(flip_queue, at, {"queue", "pending"})
  BY DEF TypeOK, OnLists
<1>2. (\A v \in Ids : Stage(vb[v], at[v])) /\ \A v \in Ids : at[v] = "pending" => First(flip_queue) = v
  BY DEF Records, OnLists
<1>3. /\ flip_queue # <<>> /\ ~vb[flip_queue[1]].queued =>
           flip_queue[1] \in Ids /\ at[flip_queue[1]] = "pending"
      /\ \A v \in Ids : at[v] = "pending" =>
           flip_queue # <<>> /\ ~vb[flip_queue[1]].queued /\ flip_queue[1] = v
  BY <1>1, <1>2, HeadPending
<1>4. (\A v \in Ids : at[v] = "pending" <=> PendingFlip = v) /\ PendingFlip \in Ids \cup {NoId}
  BY <1>3, IdsNat DEF PendingFlip
<1> QED
  BY <1>4, IdsNat DEF SyncFlipPending

LEMMA PendingIsNext ==
  ASSUME NEW at2, TypeOK', OnLists(at2)', Records(at2)'
  PROVE  /\ \A v \in Ids : at2[v] = "pending" <=> PendingFlip' = v
         /\ SyncFlipPending' <=> \E v \in Ids : at2[v] = "pending" /\ vb'[v].sync_flip
         /\ PendingFlip' \in Ids \cup {NoId}
<1>1. flip_queue' \in Seq(Ids) /\ Is(flip_queue', at2, {"queue", "pending"})
  BY DEF TypeOK, OnLists
<1>2. (\A v \in Ids : Stage(vb'[v], at2[v])) /\ \A v \in Ids : at2[v] = "pending" => First(flip_queue') = v
  BY DEF Records, OnLists
<1>3. /\ flip_queue' # <<>> /\ ~vb'[flip_queue'[1]].queued =>
           flip_queue'[1] \in Ids /\ at2[flip_queue'[1]] = "pending"
      /\ \A v \in Ids : at2[v] = "pending" =>
           flip_queue' # <<>> /\ ~vb'[flip_queue'[1]].queued /\ flip_queue'[1] = v
  BY <1>1, <1>2, HeadPending
<1>4. (\A v \in Ids : at2[v] = "pending" <=> PendingFlip' = v) /\ PendingFlip' \in Ids \cup {NoId}
  BY <1>3, IdsNat DEF PendingFlip
<1> QED
  BY <1>4, IdsNat DEF SyncFlipPending

LEMMA CallbacksMove ==
  ASSUME NEW at, Callbacks(at), NEW at2, NEW v \in Ids, Moves(at, at2, v), Only(v),
         sync_callback \in Ids \cup {NoId}, sync_callback' = sync_callback,
         at[v] # "pending", at2[v] # "pending", ~Running("flip_notify"), ~Running("flip_notify")'
  PROVE  Callbacks(at2)'
<1>1. \A u \in Ids : at2[u] = "pending" <=> at[u] = "pending"
  BY DEF Moves
<1>2. \A u \in Ids : at[u] = "pending" => vb'[u] = vb[u]
  BY DEF Only
<1> QED
  BY <1>1, <1>2 DEF Callbacks

LEMMA ArgumentsMove ==
  ASSUME Arguments, NEW v \in Ids, Only(v), req' = req, acq' = acq,
         vb'[v].st # "new" => vb[v].st # "new", vb'[v].copied => vb[v].copied
  PROVE  Arguments'
  BY DEF Arguments, Only, HasSyncobj

\* The lists: of a request that is on none, that is taken off, that is queued.
Loose == {"none", "held", "fence", "flipping"}
LEMMA ListsStay ==
  ASSUME NEW at, OnLists(at), NEW at2, NEW v \in Ids, Moves(at, at2, v), TypeOK,
         at[v] \in Loose, at2[v] \in Loose, UNCHANGED <<lists, flip_active>>,
         at2[v] = "flipping" => ~Pending(at)
  PROVE  OnLists(at2)'
<1>1. /\ wait_list \in Seq(Ids) /\ flip_queue \in Seq(Ids)
      /\ idle_queue \in Seq(Ids) /\ blocked_queue \in Seq(Ids)
  BY DEF TypeOK
<1>2. /\ wait_list' = wait_list /\ flip_queue' = flip_queue /\ idle_queue' = idle_queue
      /\ blocked_queue' = blocked_queue /\ flip_active' = flip_active
  BY DEF lists
<1>3. Is(wait_list, at2, {"wait"})
  BY <1>1, IsKept DEF OnLists, Loose
<1>4. Is(flip_queue, at2, {"queue", "pending"})
  BY <1>1, IsKept DEF OnLists, Loose
<1>5. Is(idle_queue, at2, {"idle"})
  BY <1>1, IsKept DEF OnLists, Loose
<1>6. Is(blocked_queue, at2, {"blocked"})
  BY <1>1, IsKept DEF OnLists, Loose
<1>7. \A u \in Ids : u = flip_active <=> at2[u] = "active"
  BY DEF OnLists, Moves, Loose
<1>8. \A u \in Ids : at2[u] = "pending" => First(flip_queue) = u
  BY DEF OnLists, Moves, Loose
<1>9. OnePending(at2)
  BY DEF OnLists, OnePending, Moves, Loose, Pending
<1> QED
  BY <1>2, <1>3, <1>4, <1>5, <1>6, <1>7, <1>8, <1>9 DEF OnLists

LEMMA ListsUnlink ==
  ASSUME NEW at, OnLists(at), NEW at2, NEW v \in Ids, Moves(at, at2, v), TypeOK,
         at[v] \in {"none", "wait", "queue"}, at2[v] \in {"held", "blocked"},
         Unlink(v), flip_active' = flip_active,
         blocked_queue' = IF at2[v] = "blocked" THEN Append(blocked_queue, v) ELSE blocked_queue
  PROVE  OnLists(at2)'
<1>1. /\ wait_list \in Seq(Ids) /\ flip_queue \in Seq(Ids)
      /\ idle_queue \in Seq(Ids) /\ blocked_queue \in Seq(Ids)
  BY DEF TypeOK
<1>2. Is(wait_list', at2, {"wait"})
  BY <1>1, IsWithout DEF OnLists, Unlink
<1>3. Is(flip_queue', at2, {"queue", "pending"})
  BY <1>1, IsWithout DEF OnLists, Unlink
<1>4. Is(idle_queue', at2, {"idle"})
  BY <1>1, IsWithout DEF OnLists, Unlink
<1>5. Is(blocked_queue', at2, {"blocked"})
  <2>1. CASE at2[v] = "blocked"
    BY <2>1, <1>1, IsAppended DEF OnLists
  <2>2. CASE at2[v] # "blocked"
    BY <2>2, <1>1, IsKept DEF OnLists
  <2> QED
    BY <2>1, <2>2
<1>6. \A u \in Ids : u = flip_active' <=> at2[u] = "active"
  BY DEF OnLists, Moves
<1>7. \A u \in Ids : at2[u] = "pending" => First(flip_queue') = u
  <2> SUFFICES ASSUME NEW u \in Ids, at2[u] = "pending" PROVE First(flip_queue') = u
    OBVIOUS
  <2>1. u # v /\ First(flip_queue) = u /\ Once(flip_queue)
    BY DEF OnLists, Moves, Is
  <2> QED
    BY <2>1, <1>1, FirstWithout DEF Unlink
<1>8. OnePending(at2)
  BY DEF OnLists, OnePending, Moves
<1> QED
  BY <1>2, <1>3, <1>4, <1>5, <1>6, <1>7, <1>8 DEF OnLists

LEMMA ListsQueue ==
  ASSUME NEW at, OnLists(at), NEW at2, NEW v \in Ids, Moves(at, at2, v), TypeOK,
         at[v] \in {"none", "queue", "held", "blocked"}, at2[v] = "wait",
         NEW rec, QueueVblank(v, rec), flip_active' = flip_active,
         blocked_queue' = IF at[v] = "blocked" THEN Without(blocked_queue, v) ELSE blocked_queue
  PROVE  OnLists(at2)'
<1>1. /\ wait_list \in Seq(Ids) /\ flip_queue \in Seq(Ids)
      /\ idle_queue \in Seq(Ids) /\ blocked_queue \in Seq(Ids)
  BY DEF TypeOK
<1>2. Is(wait_list', at2, {"wait"})
  BY <1>1, IsRequeued DEF OnLists, QueueVblank
<1>3. Is(flip_queue', at2, {"queue", "pending"})
  BY <1>1, IsWithout DEF OnLists, QueueVblank
<1>4. Is(idle_queue', at2, {"idle"})
  BY <1>1, IsWithout DEF OnLists, QueueVblank
<1>5. Is(blocked_queue', at2, {"blocked"})
  <2>1. CASE at[v] = "blocked"
    BY <2>1, <1>1, IsWithout DEF OnLists
  <2>2. CASE at[v] # "blocked"
    BY <2>2, <1>1, IsKept DEF OnLists
  <2> QED
    BY <2>1, <2>2
<1>6. \A u \in Ids : u = flip_active' <=> at2[u] = "active"
  BY DEF OnLists, Moves
<1>7. \A u \in Ids : at2[u] = "pending" => First(flip_queue') = u
  <2> SUFFICES ASSUME NEW u \in Ids, at2[u] = "pending" PROVE First(flip_queue') = u
    OBVIOUS
  <2>1. u # v /\ First(flip_queue) = u /\ Once(flip_queue)
    BY DEF OnLists, Moves, Is
  <2> QED
    BY <2>1, <1>1, FirstWithout DEF QueueVblank
<1>8. OnePending(at2)
  BY DEF OnLists, OnePending, Moves
<1> QED
  BY <1>2, <1>3, <1>4, <1>5, <1>6, <1>7, <1>8 DEF OnLists

-----------------------------------------------------------------------------
(***************************************************************************)
(* Steps that only change the calls, the timer or the links.               *)
(***************************************************************************)
\* What such a step leaves alone.
Still == UNCHANGED <<vb, lists, flip_active, release_cb, req, pix, acq, held, setup>>
LEMMA StillFits ==
  ASSUME NEW at, Good(at), Still
  PROVE  OnLists(at)' /\ Records(at)' /\ Buffers(at)' /\ Arguments'
<1>1. OnLists(at) /\ Records(at) /\ Buffers(at) /\ Arguments
  BY DEF Good, Fits
<1>2. OnLists(at)'
  BY <1>1 DEF OnLists, Still, lists
<1>3. Records(at)'
  BY <1>1 DEF Records, Still
<1>4. Buffers(at)'
  BY <1>1 DEF Buffers, Still, InOrder, Reused, Names, Shows, Uses, Live, Settled, Explicit, HasSyncobj
<1>5. Arguments'
  BY <1>1 DEF Arguments, Still, HasSyncobj
<1> QED
  BY <1>2, <1>3, <1>4, <1>5

\* A call that only returns.
Returning == {"reset_timer", "leave_for_each", "frame_done", "flip_try_ready", "bump_start",
              "bump_loop"}
LEMMA ReturnStill ==
  ASSUME NEW at, Good(at), Still, stack # <<>>, stack' = Rest, Top.fn \in Returning,
         UNCHANGED <<blocking_event, sync_callback>>,
         "leave_for_each" \in Fns(Rest) => entered_for_each'
  PROVE  Calls(at)' /\ Relies(at)' /\ Attended(at)' /\ Blocker(at)' /\ Callbacks(at)'
<1>1. /\ stack' \in Seq(Frame) /\ Sound(stack')
      /\ Elements(stack') = Elements(Rest) /\ Fns(stack') = Fns(Rest)
      /\ ~Running("retry")' /\ ~Running("flip_notify")'
      /\ Running("copy")' => "flush_loop" \notin Fns(stack')
  <2>1. /\ stack' \in Seq(Frame) /\ Sound(stack')
        /\ Elements(stack') = Elements(Rest) /\ Fns(stack') = Fns(Rest)
        /\ \A fn \in Tops : ~(stack' # <<>> /\ Head(stack').fn = fn)
        /\ stack' # <<>> /\ Head(stack').fn \in {"copy", "block"} => "flush_loop" \notin Fns(stack')
    BY Popped
  <2>2. "retry" \in Tops /\ "flip_notify" \in Tops
    BY DEF Tops
  <2> QED
    BY <2>1, <2>2 DEF Running, Top
<1>2. Elements(stack) = {Top} \cup Elements(Rest) /\ Fns(stack) = {Top.fn} \cup Fns(Rest)
  BY Runs
<1>3. Calls(at)'
  <2>1. \A f \in Elements(Rest) : Knows(f, at[f.v], vb[f.v])
    BY Runs
  <2> QED
    BY <2>1, <1>1 DEF Calls, Still
<1>4. Relies(at)'
  <2>1. Relies(at) /\ Top.fn \notin Stops
    BY DEF Good, Fits, Returning, Stops
  <2>2. StopsAlone(at)' /\ FlushesSettled(at)'
    BY <2>1, <1>1, <1>2 DEF Relies, StopsAlone, FlushesSettled
  <2>3. Flushing(at)'
    BY <2>1, <1>1, <1>2 DEF Relies, Flushing
  <2>4. MayPresent' /\ Entered'
    BY <1>1 DEF MayPresent, Entered
  <2>5. Acquired'
    BY <2>1, <1>1, <1>2 DEF Relies, Acquired, HasSyncobj, Still
  <2> QED
    BY <2>2, <2>3, <2>4, <2>5 DEF Relies
<1>5. Attended(at)'
  <2> SUFFICES ASSUME NEW u \in Ids, Live(u), at[u] \in {"none", "held", "flipping"}
               PROVE  \E f \in Elements(Rest) : Attends(f, u, at[u])
    BY <1>1 DEF Attended, Live, Still
  <2>1. PICK f \in Elements(stack) : Attends(f, u, at[u])
    BY DEF Good, Fits, Attended
  <2>2. f # Top
    BY <2>1 DEF Attends, Returning, Owners
  <2> QED
    BY <2>1, <2>2, <1>2
<1>6. Blocker(at)'
  <2>1. Blocker(at)
    BY DEF Good, Fits
  <2>2. \A f \in Elements(stack) : f.fn \in {"flush_loop", "block"} => f \in Elements(Rest)
    BY <1>2 DEF Returning
  <2>3. "flush_blocked" \in Fns(stack) => "flush_blocked" \in Fns(Rest)
    BY <1>2 DEF Returning
  <2>4. blocked_queue' = blocked_queue /\ vb' = vb
    BY DEF Still, lists
  <2> QED
    BY <2>1, <2>2, <2>3, <2>4, <1>1 DEF Blocker, Blocks, Live
<1>7. Callbacks(at)'
  <2>1. Callbacks(at) /\ ~Running("flip_notify")
    BY DEF Good, Fits, Running, Returning
  <2> QED
    BY <2>1, <1>1 DEF Callbacks, Still
<1> QED
  BY <1>3, <1>4, <1>5, <1>6, <1>7

\* A pending event and a list are what they were, so the timer still covers them.
LEMMA StillPending ==
  ASSUME Still
  PROVE  SyncFlipPending' = SyncFlipPending /\ wait_list' = wait_list /\ PendingFlip' = PendingFlip
  BY DEF Still, SyncFlipPending, PendingFlip, lists

LEMMA ResetTimerFits ==
  ASSUME NEW at, Good(at), ResetTimer
  PROVE  Fits(at)'
<1>1. stack # <<>> /\ Top.fn = "reset_timer" /\ timer_armed # "stale"
  BY DEF ResetTimer, Running, Good, Fits, Timely
<1>2. Continue(<<>>) /\ UNCHANGED <<blocking_event, sync_callback, entered_for_each>> /\ Still
  BY <1>1 DEF ResetTimer, Still, world
<1>3. stack' = Rest
  <2>1. Rest \in Seq(Frame)
    BY <1>1, Runs
  <2> QED
    BY <1>2, <2>1, ConcatEmptySeq DEF Continue, Rest
<1>4. "leave_for_each" \in Fns(Rest) => entered_for_each'
  BY <1>1, <1>2, Runs DEF Good, Fits, Relies, Entered
<1>5. Calls(at)' /\ Relies(at)' /\ Attended(at)' /\ Blocker(at)' /\ Callbacks(at)'
  BY <1>1, <1>2, <1>3, <1>4, ReturnStill DEF Returning
<1>6. Timely'
  <2>1. SyncFlipPending' = SyncFlipPending /\ wait_list' = wait_list
    BY <1>2, StillPending
  <2>2. ~HasPendingEvents => frame_timer' = "none" /\ timer_armed' = "off"
    BY DEF ResetTimer
  <2>3. HasPendingEvents => frame_timer' = "set" /\ timer_armed' = "fresh"
    BY <1>1 DEF ResetTimer
  <2> QED
    BY <2>1, <2>2, <2>3 DEF Timely, HasPendingEvents
<1>7. OnLists(at)' /\ Records(at)' /\ Buffers(at)' /\ Arguments'
  BY <1>2, StillFits
<1> QED
  BY <1>5, <1>6, <1>7 DEF Fits

LEMMA LeaveForEachFits ==
  ASSUME NEW at, Good(at), LeaveForEach
  PROVE  Fits(at)'
<1>1. stack # <<>> /\ Top.fn = "leave_for_each"
  BY DEF LeaveForEach, Running
<1>2. Continue(<<>>) /\ UNCHANGED <<blocking_event, sync_callback, frame_timer, timer_armed>> /\ Still
  BY DEF LeaveForEach, Still, world, timer
<1>3. stack' = Rest /\ Rest \in Seq(Frame)
  <2>1. Rest \in Seq(Frame)
    BY <1>1, Runs
  <2> QED
    BY <1>2, <2>1, ConcatEmptySeq DEF Continue, Rest
<1>4. "leave_for_each" \notin Fns(Rest)
  <2> SUFFICES ASSUME NEW g \in Elements(Rest) PROVE g.fn # "leave_for_each"
    BY DEF Fns
  <2>1. Stacked(Top, g)
    BY <1>1, Runs, Zenon DEF OnTop
  <2> QED
    BY <1>1, <2>1 DEF Stacked
<1>5. Calls(at)' /\ Relies(at)' /\ Attended(at)' /\ Blocker(at)' /\ Callbacks(at)'
  BY <1>1, <1>2, <1>3, <1>4, ReturnStill DEF Returning
<1>6. Timely'
  <2>1. SyncFlipPending' = SyncFlipPending /\ wait_list' = wait_list
    BY <1>2, StillPending
  <2>2. "reset_timer" \in Fns(stack) => "reset_timer" \in Fns(stack')
    BY <1>1, <1>3, Runs
  <2> QED
    BY <2>1, <2>2, <1>2 DEF Timely, Good, Fits
<1>7. OnLists(at)' /\ Records(at)' /\ Buffers(at)' /\ Arguments'
  BY <1>2, StillFits
<1> QED
  BY <1>5, <1>6, <1>7 DEF Fits

\* A call that makes others of the plain kind.
Passing == Returning \cup {"flips_stop", "drop_flips"}
LEMMA CallStill ==
  ASSUME NEW at, Good(at), Still, stack # <<>>, Top.fn \in Passing,
         NEW a, NEW others, Made(stack', a, others, Rest),
         \A f \in {a} \cup others :
           /\ f.fn \notin {"flush_blocked", "flush_loop", "copy", "flip_done", "retry", "block",
                           "flip_notify"}
           /\ Knows(f, at[f.v], vb[f.v]),
         Fns(stack') \cap Stops = {} <=> Fns(stack) \cap Stops = {},
         UNCHANGED <<blocking_event, sync_callback>>,
         "leave_for_each" \in Fns(stack') => entered_for_each'
  PROVE  Calls(at)' /\ Relies(at)' /\ Attended(at)' /\ Blocker(at)' /\ Callbacks(at)'
<1>1. /\ stack' \in Seq(Frame) /\ stack' # <<>> /\ Sound(stack') /\ Head(stack') = a
      /\ Elements(stack') = {a} \cup others \cup Elements(Rest)
      /\ Fns(stack') = {a.fn} \cup {f.fn : f \in others} \cup Fns(Rest)
  BY MadeFns DEF Made
<1>2. Elements(stack) = {Top} \cup Elements(Rest) /\ Fns(stack) = {Top.fn} \cup Fns(Rest)
  BY Runs
<1>3. \A fn \in {"flush_blocked", "flush_loop", "copy", "flip_done"} :
        fn \in Fns(stack') <=> fn \in Fns(stack)
  BY <1>1, <1>2 DEF Passing, Returning
<1>4. ~Running("retry")' /\ ~Running("flip_notify")' /\ ~Running("copy")'
  BY <1>1 DEF Running, Top
<1>5. Calls(at)'
  <2>1. \A f \in Elements(Rest) : Knows(f, at[f.v], vb[f.v])
    BY Runs
  <2> QED
    BY <2>1, <1>1 DEF Calls, Still
<1>6. Relies(at)'
  <2>1. Relies(at)
    BY DEF Good, Fits
  <2>2. StopsAlone(at)' /\ FlushesSettled(at)'
    BY <2>1, <1>3 DEF Relies, StopsAlone, FlushesSettled
  <2>3. Flushing(at)'
    BY <2>1, <1>3, <1>4 DEF Relies, Flushing
  <2>4. MayPresent' /\ Entered'
    BY <1>4 DEF MayPresent, Entered
  <2>5. Acquired'
    <3>1. \A f \in Elements(stack') : f.fn = "copy" => f \in Elements(stack)
      BY <1>1, <1>2
    <3> QED
      BY <2>1, <3>1 DEF Relies, Acquired, HasSyncobj, Still
  <2> QED
    BY <2>2, <2>3, <2>4, <2>5 DEF Relies
<1>7. Attended(at)'
  <2> SUFFICES ASSUME NEW u \in Ids, Live(u), at[u] \in {"none", "held", "flipping"}
               PROVE  \E f \in Elements(Rest) : Attends(f, u, at[u])
    BY <1>1 DEF Attended, Live, Still
  <2>1. PICK f \in Elements(stack) : Attends(f, u, at[u])
    BY DEF Good, Fits, Attended
  <2>2. f # Top
    BY <2>1 DEF Attends, Passing, Returning, Owners
  <2> QED
    BY <2>1, <2>2, <1>2
<1>8. Blocker(at)'
  <2>1. Blocker(at)
    BY DEF Good, Fits
  <2>2. \A f \in Elements(stack) : f.fn \in {"flush_loop", "block"} => f \in Elements(stack')
    BY <1>1, <1>2 DEF Passing, Returning
  <2>3. blocked_queue' = blocked_queue /\ vb' = vb
    BY DEF Still, lists
  <2> QED
    BY <2>1, <2>2, <2>3, <1>3 DEF Blocker, Blocks, Live
<1>9. Callbacks(at)'
  <2>1. Callbacks(at) /\ ~Running("flip_notify")
    BY DEF Good, Fits, Running, Passing, Returning
  <2> QED
    BY <2>1, <1>4 DEF Callbacks, Still
<1> QED
  BY <1>5, <1>6, <1>7, <1>8, <1>9

LEMMA CallFields ==
  /\ \A fn : Call(fn).fn = fn /\ Call(fn).v = NoId /\ Call(fn).lag = 0
  /\ \A fn, v, lag : CallOn(fn, v, lag).fn = fn /\ CallOn(fn, v, lag).v = v /\ CallOn(fn, v, lag).lag = lag
  BY DEF Call, CallOn

LEMMA NoFrames ==
  ASSUME NEW at, Good(at), stack # <<>>, Continue(<<>>)
  PROVE  stack' = Rest
<1>1. Rest \in Seq(Frame)
  BY Runs
<1> QED
  BY <1>1, ConcatEmptySeq DEF Continue, Rest

LEMMA TimelyStill ==
  ASSUME Timely, Still, UNCHANGED <<frame_timer, timer_armed>>,
         "reset_timer" \in Fns(stack) => "reset_timer" \in Fns(stack')
  PROVE  Timely'
<1>1. SyncFlipPending' = SyncFlipPending /\ wait_list' = wait_list
  BY StillPending
<1> QED
  BY <1>1 DEF Timely

LEMMA BumpStartFits ==
  ASSUME NEW at, Good(at), BumpStart
  PROVE  Fits(at)'
<1>1. stack # <<>> /\ Top.fn = "bump_start" /\ Top.lag = 0
  <2>1. stack # <<>> /\ Top.fn = "bump_start"
    BY DEF BumpStart, Running
  <2> QED
    BY <2>1, Runs DEF Knows
<1>2. UNCHANGED <<blocking_event, sync_callback, entered_for_each, frame_timer, timer_armed>> /\ Still
  BY DEF BumpStart, Still, world, links, timer
<1>3. "leave_for_each" \in Fns(Rest) => entered_for_each'
  BY <1>1, <1>2, Runs DEF Good, Fits, Relies, Entered
<1>4. CASE wait_list = <<>>
  <2>1. Continue(<<>>)
    BY <1>4 DEF BumpStart, If
  <2>2. stack' = Rest
    BY <1>1, <2>1, NoFrames
  <2>3. Calls(at)' /\ Relies(at)' /\ Attended(at)' /\ Blocker(at)' /\ Callbacks(at)'
    BY <1>1, <1>2, <1>3, <2>2, ReturnStill DEF Returning
  <2>4. "reset_timer" \in Fns(stack) => "reset_timer" \in Fns(stack')
    BY <1>1, <2>2, Runs
  <2>5. Timely'
    BY <1>2, <2>4, TimelyStill DEF Good, Fits
  <2> QED
    BY <2>3, <2>5, <1>2, StillFits DEF Fits
<1>5. CASE wait_list # <<>>
  <2> DEFINE f == CallOn("bump_loop", First(wait_list), 0)
  <2>1. stack' = <<f>> \o Rest
    BY <1>1, <1>5 DEF BumpStart, If, Continue, Rest
  <2>2. First(wait_list) \in Ids /\ at[First(wait_list)] = "wait"
    BY <1>5, HasFirst DEF Good, TypeOK, Fits, OnLists, Is
  <2>3. f \in Frame /\ f.fn = "bump_loop" /\ f.v = First(wait_list) /\ f.lag = 0
    BY <2>2, OneFrame, CallFields, CallTyped DEF RequestFns
  <2> HIDE DEF f
  <2>4. OnTop(f, Rest)
    <3> SUFFICES ASSUME NEW g \in Elements(Rest) PROVE Stacked(f, g)
      BY DEF OnTop
    <3>1. Stacked(Top, g)
      BY <1>1, Runs, Zenon DEF OnTop
    <3>2. Top.fn \in Bumps
      BY <1>1 DEF Bumps
    <3> QED
      BY <3>1, <3>2, <2>3 DEF Stacked, Bases, Timing, Tops, Sealed, Owners, Stops
  <2>5. Made(stack', f, {}, Rest)
    BY <1>1, <2>1, <2>3, <2>4, Runs, MadeOne
  <2>6. Fns(stack') = {"bump_loop"} \cup Fns(Rest) /\ Fns(stack) = {"bump_start"} \cup Fns(Rest)
    BY <1>1, <2>3, <2>5, MadeFns, Runs
  <2>7. Knows(f, at[f.v], vb[f.v])
    <3>1. vb[f.v].st = "live"
      BY <2>2, <2>3 DEF Good, Fits, Records, Stage
    <3> QED
      BY <3>1, <2>2, <2>3 DEF Knows, Owners
  <2>8. Fns(stack') \cap Stops = {} <=> Fns(stack) \cap Stops = {}
    BY <2>6 DEF Stops
  <2>9. Calls(at)' /\ Relies(at)' /\ Attended(at)' /\ Blocker(at)' /\ Callbacks(at)'
    BY <1>1, <1>2, <1>3, <2>3, <2>5, <2>6, <2>7, <2>8, CallStill DEF Passing, Returning
  <2>10. Timely'
    BY <1>2, <2>6, TimelyStill DEF Good, Fits
  <2> QED
    BY <2>9, <2>10, <1>2, StillFits DEF Fits
<1> QED
  BY <1>4, <1>5

\* A step that leaves the timer alone too, and returns or makes plain calls.
Idle == Still /\ UNCHANGED <<blocking_event, sync_callback, frame_timer, timer_armed>>
LEMMA StillReturns ==
  ASSUME NEW at, Good(at), Idle, stack # <<>>, stack' = Rest, Top.fn \in Returning \ {"reset_timer"},
         "leave_for_each" \in Fns(Rest) => entered_for_each'
  PROVE  Fits(at)'
<1>1. Calls(at)' /\ Relies(at)' /\ Attended(at)' /\ Blocker(at)' /\ Callbacks(at)'
  BY ReturnStill DEF Idle
<1>2. "reset_timer" \in Fns(stack) => "reset_timer" \in Fns(stack')
  BY Runs
<1>3. Timely'
  BY <1>2, TimelyStill DEF Idle, Good, Fits
<1> QED
  BY <1>1, <1>3, StillFits DEF Fits, Idle

LEMMA StillCalls ==
  ASSUME NEW at, Good(at), Idle, stack # <<>>, Top.fn \in Passing \ {"reset_timer"},
         NEW a, NEW others, Made(stack', a, others, Rest),
         \A f \in {a} \cup others :
           /\ f.fn \notin {"flush_blocked", "flush_loop", "copy", "flip_done", "retry", "block",
                           "flip_notify"}
           /\ Knows(f, at[f.v], vb[f.v]),
         Fns(stack') \cap Stops = {} <=> Fns(stack) \cap Stops = {},
         "leave_for_each" \in Fns(stack') => entered_for_each'
  PROVE  Fits(at)'
<1>1. Calls(at)' /\ Relies(at)' /\ Attended(at)' /\ Blocker(at)' /\ Callbacks(at)'
  BY CallStill DEF Idle
<1>2. Fns(stack) = {Top.fn} \cup Fns(Rest) /\ Fns(Rest) \subseteq Fns(stack')
  BY Runs, MadeFns
<1>3. Timely'
  BY <1>2, TimelyStill DEF Idle, Good, Fits
<1> QED
  BY <1>1, <1>3, StillFits DEF Fits, Idle

\* What the bump of the msc may call.
LEMMA BumpCall ==
  ASSUME NEW at, Good(at), stack # <<>>, Top.fn \in Bumps, NEW f \in Frame,
         f.fn \in {"execute", "bump_loop", "bump_start", "flip_notify"}
  PROVE  OnTop(f, Rest) /\ \A g \in Elements(Rest) : Buried(f, g)
<1>1. OnTop(f, Rest)
  <2> SUFFICES ASSUME NEW g \in Elements(Rest) PROVE Stacked(f, g)
    BY DEF OnTop
  <2>1. Stacked(Top, g)
    BY Runs, Zenon DEF OnTop
  <2>2. g.fn \in Bases
    BY <2>1 DEF Stacked
  <2> QED
    BY <2>2 DEF Stacked, Bases, Timing, Tops, Sealed, Owners, Stops
<1>2. \A g \in Elements(Rest) : Buried(f, g)
  BY DEF Buried
<1> QED
  BY <1>1, <1>2

LEMMA BumpLoopFits ==
  ASSUME NEW at, Good(at), BumpLoop
  PROVE  Fits(at)'
<1> DEFINE v   == Top.v
           tmp == After(wait_list, Top.v)
           e   == CallOn("execute", v, 0)
           b   == CallOn("bump_loop", tmp, 0)
<1>1. stack # <<>> /\ Top.fn = "bump_loop" /\ Top.lag = 0 /\ at[v] = "wait" /\ v \in Ids
      /\ vb[v].st = "live"
  <2>1. stack # <<>> /\ Top.fn = "bump_loop"
    BY DEF BumpLoop, Running
  <2> QED
    BY <2>1, Runs DEF Knows, RequestFns
<1>2. Idle /\ entered_for_each' = entered_for_each
  BY DEF BumpLoop, Idle, Still, world, links, timer
<1>3. "leave_for_each" \in Fns(Rest) => entered_for_each'
  BY <1>1, <1>2, Runs DEF Good, Fits, Relies, Entered
<1>4. stack' = (If(Reached(v, 0), <<e>>) \o If(tmp # NoId, <<b>>)) \o Rest
  BY <1>1 DEF BumpLoop, Continue, Rest
<1>5. Reached(v, 0) => vb[v].due <= 0
  <2>1. vb[v].due \in Int
    BY <1>1 DEF Good, TypeOK, Vblank
  <2> QED
    BY <2>1 DEF Reached, Ahead
<1>6. e \in Frame /\ e.fn = "execute" /\ e.v = v /\ e.lag = 0
  BY <1>1, CallTyped, CallFields DEF RequestFns
<1>7. ASSUME tmp # NoId
      PROVE  tmp \in Ids /\ at[tmp] = "wait" /\ tmp # v /\ vb[tmp].st = "live"
  <2>1. wait_list \in Seq(Ids) /\ Once(wait_list) /\ Has(wait_list, v)
    BY <1>1 DEF Good, TypeOK, Fits, OnLists, Is
  <2>2. tmp \in Ids /\ Has(wait_list, tmp) /\ tmp # v
    BY <2>1, <1>7, AfterHas
  <2>3. at[tmp] = "wait"
    BY <2>2 DEF Good, Fits, OnLists, Is
  <2> QED
    BY <2>2, <2>3 DEF Good, Fits, Records, Stage
<1>8. tmp # NoId => b \in Frame /\ b.fn = "bump_loop" /\ b.v = tmp /\ b.lag = 0
  BY <1>7, CallTyped, CallFields DEF RequestFns
<1>9. Reached(v, 0) => Knows(e, at[e.v], vb[e.v])
  BY <1>1, <1>5, <1>6 DEF Knows, Owners
<1>10. tmp # NoId => Knows(b, at[b.v], vb[b.v])
  BY <1>7, <1>8 DEF Knows, Owners
<1>11. OnTop(e, Rest)
  BY <1>1, <1>6, BumpCall DEF Bumps
<1>12. tmp # NoId => OnTop(b, Rest) /\ \A g \in Elements(Rest) : Buried(b, g)
  BY <1>1, <1>8, BumpCall DEF Bumps
<1>13. tmp # NoId => Stacked(e, b)
  BY <1>6, <1>7, <1>8 DEF Stacked, Tops, Sealed, Timing, Bumps, Bases, Owners, Stops
<1>14. Rest \in Seq(Frame) /\ Nested(Rest) /\ Fns(stack) = {"bump_loop"} \cup Fns(Rest)
  BY <1>1, Runs
<1>15. <<>> \o Rest = Rest /\ <<e>> \o <<>> = <<e>> /\ <<>> \o <<>> = <<>>
       /\ (tmp # NoId => <<>> \o <<b>> = <<b>> /\ (<<e>> \o <<b>>) \o Rest = <<e>> \o (<<b>> \o Rest))
  <2>1. <<e>> \in Seq(Frame) /\ <<>> \in Seq(Frame) /\ (tmp # NoId => <<b>> \in Seq(Frame))
    BY <1>6, <1>8, OneElement, NoCalls
  <2> QED
    BY <2>1, <1>14, ConcatEmptySeq, ConcatAssociative
<1>16. \A a, others :
         /\ Made(stack', a, others, Rest)
         /\ \A f \in {a} \cup others : /\ f.fn \in {"execute", "bump_loop"}
                                       /\ Knows(f, at[f.v], vb[f.v])
         => Fits(at)'
  <2> SUFFICES ASSUME NEW a, NEW others, Made(stack', a, others, Rest),
                      \A f \in {a} \cup others : /\ f.fn \in {"execute", "bump_loop"}
                                                 /\ Knows(f, at[f.v], vb[f.v])
               PROVE  Fits(at)'
    OBVIOUS
  <2>1. Fns(stack') = {a.fn} \cup {f.fn : f \in others} \cup Fns(Rest)
    BY MadeFns
  <2>2. Fns(stack') \cap Stops = {} <=> Fns(stack) \cap Stops = {}
    BY <2>1, <1>14 DEF Stops
  <2>3. "leave_for_each" \in Fns(stack') => entered_for_each'
    BY <2>1, <1>3
  <2> QED
    BY <1>1, <1>2, <2>2, <2>3, StillCalls DEF Passing, Returning
<1> HIDE DEF e, b
<1>17. CASE Reached(v, 0) /\ tmp # NoId
  <2>1. stack' = <<e>> \o (<<b>> \o Rest)
    BY <1>17, <1>4, <1>15 DEF If
  <2>2. Made(stack', e, {b}, Rest)
    BY <2>1, <1>6, <1>8, <1>11, <1>12, <1>13, <1>14, <1>17, MadeTwo
  <2> QED
    BY <2>2, <1>6, <1>8, <1>9, <1>10, <1>16, <1>17
<1>18. CASE Reached(v, 0) /\ ~(tmp # NoId)
  <2>1. stack' = <<e>> \o Rest
    BY <1>18, <1>4, <1>15 DEF If
  <2>2. Made(stack', e, {}, Rest)
    BY <2>1, <1>6, <1>11, <1>14, MadeOne
  <2> QED
    BY <2>2, <1>6, <1>9, <1>16, <1>18
<1>19. CASE ~Reached(v, 0) /\ tmp # NoId
  <2>1. stack' = <<b>> \o Rest
    BY <1>19, <1>4, <1>15 DEF If
  <2>2. Made(stack', b, {}, Rest)
    BY <2>1, <1>8, <1>12, <1>14, <1>19, MadeOne
  <2> QED
    BY <2>2, <1>8, <1>10, <1>16, <1>19
<1>20. CASE ~Reached(v, 0) /\ ~(tmp # NoId)
  <2>1. stack' = Rest
    BY <1>20, <1>4, <1>15 DEF If
  <2> QED
    BY <2>1, <1>1, <1>2, <1>3, StillReturns DEF Returning
<1> QED
  BY <1>17, <1>18, <1>19, <1>20

LEMMA TriggerFits ==
  ASSUME NEW at, Good(at), Trigger
  PROVE  FALSE
<1>1. stack # <<>> /\ Top.fn = "trigger"
  BY DEF Trigger, Running
<1> QED
  BY <1>1, Runs DEF Knows

LEMMA FlipsStopFits ==
  ASSUME NEW at, Good(at), FlipsStop
  PROVE  Fits(at)'
<1> DEFINE a == Call("reset_timer")
           b == Call("flips_stop_free")
           c == Call("flip_try_ready")
<1>1. stack # <<>> /\ Top.fn = "flips_stop"
  BY DEF FlipsStop, Running
<1>2. Idle /\ entered_for_each' = entered_for_each
  BY DEF FlipsStop, Idle, Still, world, links, timer
<1>3. Rest \in Seq(Frame) /\ Nested(Rest) /\ Fns(stack) = {"flips_stop"} \cup Fns(Rest)
  BY <1>1, Runs
<1>4. /\ a \in Frame /\ b \in Frame /\ c \in Frame
      /\ a.fn = "reset_timer" /\ b.fn = "flips_stop_free" /\ c.fn = "flip_try_ready"
      /\ a.lag = 0 /\ b.lag = 0 /\ c.lag = 0
  BY CallTyped, CallFields DEF WindowFns
<1>5. stack' = <<a, b, c>> \o Rest
  BY DEF FlipsStop, Continue, Rest
<1> HIDE DEF a, b, c
<1>6. stack' = <<a>> \o (<<b>> \o (<<c>> \o Rest))
  <2>1. <<a, b, c>> \o Rest = <<a>> \o (<<b>> \o (<<c>> \o Rest))
    BY <1>3, <1>4, ThreeFrames
  <2> QED
    BY <2>1, <1>5
<1>7. OnTop(a, Rest) /\ OnTop(c, Rest)
  BY <1>1, <1>4, PlainCall DEF Plain, Timing
<1>8. OnTop(b, Rest)
  <2> SUFFICES ASSUME NEW g \in Elements(Rest) PROVE Stacked(b, g)
    BY DEF OnTop
  <2>1. Stacked(Top, g)
    BY <1>1, Runs, Zenon DEF OnTop
  <2> QED
    BY <2>1, <1>1, <1>4 DEF Stacked, Timing, Tops, Sealed, Bumps, Bases, Owners, Stops
<1>9. Stacked(a, b) /\ Stacked(a, c) /\ Stacked(b, c)
  BY <1>4 DEF Stacked, Timing, Tops, Sealed, Bumps, Bases, Owners, Stops
<1>10. Buried(b, c) /\ \A g \in Elements(Rest) : Buried(b, g) /\ Buried(c, g)
  BY <1>4 DEF Buried
<1>11. Made(stack', a, {b, c}, Rest)
  BY <1>3, <1>4, <1>6, <1>7, <1>8, <1>9, <1>10, MadeThree
<1>12. Fns(stack') = {a.fn} \cup {f.fn : f \in {b, c}} \cup Fns(Rest)
  BY <1>11, MadeFns
<1>13. Fns(stack') \cap Stops # {} /\ Fns(stack) \cap Stops # {}
  BY <1>3, <1>4, <1>12 DEF Stops
<1>14. "leave_for_each" \in Fns(stack') => entered_for_each'
  BY <1>2, <1>3, <1>4, <1>12 DEF Good, Fits, Relies, Entered
<1>15. \A f \in {a} \cup {b, c} :
         /\ f.fn \notin {"flush_blocked", "flush_loop", "copy", "flip_done", "retry", "block",
                         "flip_notify"}
         /\ Knows(f, at[f.v], vb[f.v])
  BY <1>4 DEF Knows, RequestFns, Owners
<1> QED
  BY <1>1, <1>2, <1>11, <1>13, <1>14, <1>15, StillCalls DEF Passing

LEMMA FlipTryReadyFits ==
  ASSUME NEW at, Good(at), FlipTryReady
  PROVE  Fits(at)'
<1>1. stack # <<>> /\ Top.fn = "flip_try_ready"
  BY DEF FlipTryReady, Running
<1>2. Idle /\ entered_for_each' = entered_for_each
  BY DEF FlipTryReady, Idle, Still, world, links, timer
<1>3. Rest \in Seq(Frame) /\ Nested(Rest) /\ Fns(stack) = {"flip_try_ready"} \cup Fns(Rest)
  BY <1>1, Runs
<1>4. "leave_for_each" \in Fns(Rest) => entered_for_each'
  BY <1>2, <1>3 DEF Good, Fits, Relies, Entered
<1>5. CASE Continue(<<>>)
  <2>1. stack' = Rest
    BY <1>1, <1>5, NoFrames
  <2> QED
    BY <2>1, <1>1, <1>2, <1>4, StillReturns DEF Returning
<1>6. ASSUME NEW i \in DOMAIN flip_queue, FirstQueued(i),
             Continue(<<CallOn("re_execute", flip_queue[i], 0)>>)
      PROVE  Fits(at)'
  <2> DEFINE v == flip_queue[i]
             f == CallOn("re_execute", v, 0)
  <2>1. v \in Ids /\ at[v] = "queue"
    <3>1. flip_queue \in Seq(Ids) /\ Is(flip_queue, at, {"queue", "pending"})
      BY DEF Good, TypeOK, Fits, OnLists
    <3>2. Has(flip_queue, v)
      BY DEF Has
    <3>3. v \in Ids
      BY <3>1, <3>2, HasIn
    <3>4. at[v] # "pending"
      BY <1>6, <3>3 DEF FirstQueued, Good, Fits, Records, Stage, InUse, Shown
    <3> QED
      BY <3>1, <3>2, <3>3, <3>4 DEF Is
  <2>2. f \in Frame /\ f.fn = "re_execute" /\ f.v = v /\ f.lag = 0
    BY <2>1, CallTyped, CallFields DEF RequestFns
  <2>3. stack' = <<f>> \o Rest
    BY <1>6 DEF Continue, Rest
  <2>4. Knows(f, at[f.v], vb[f.v])
    BY <2>1, <2>2 DEF Knows, Owners, Good, Fits, Records, Stage
  <2> HIDE DEF f
  <2>5. OnTop(f, Rest)
    BY <1>1, <2>2, PlainCall DEF Plain, Timing
  <2>6. Made(stack', f, {}, Rest)
    BY <1>3, <2>2, <2>3, <2>5, MadeOne
  <2>7. Fns(stack') = {f.fn} \cup {g.fn : g \in {}} \cup Fns(Rest)
    BY <2>6, MadeFns
  <2>8. Fns(stack') \cap Stops = {} <=> Fns(stack) \cap Stops = {}
    BY <1>3, <2>2, <2>7 DEF Stops
  <2>9. "leave_for_each" \in Fns(stack') => entered_for_each'
    BY <1>4, <2>2, <2>7
  <2>10. \A g \in {f} \cup {} :
         /\ g.fn \notin {"flush_blocked", "flush_loop", "copy", "flip_done", "retry", "block",
                         "flip_notify"}
         /\ Knows(g, at[g.v], vb[g.v])
    BY <2>2, <2>4
  <2> QED
    BY <1>1, <1>2, <2>6, <2>8, <2>9, <2>10, StillCalls DEF Passing, Returning
<1> QED
  BY <1>5, <1>6 DEF FlipTryReady

LEMMA FrameDoneFits ==
  ASSUME NEW at, Good(at), FrameDone
  PROVE  Fits(at)'
<1> DEFINE a == Call("reset_timer")
           b == Call("leave_for_each")
<1>1. stack # <<>> /\ Top.fn = "frame_done"
  BY DEF FrameDone, Running
<1>2. Idle
  BY DEF FrameDone, Idle, Still, world, timer
<1>3. Rest \in Seq(Frame) /\ Nested(Rest) /\ Fns(stack) = {"frame_done"} \cup Fns(Rest)
  BY <1>1, Runs
<1>4. Elements(Rest) = {}
  <2> SUFFICES ASSUME NEW g \in Elements(Rest) PROVE FALSE
    OBVIOUS
  <2>1. Stacked(Top, g)
    BY <1>1, Runs, Zenon DEF OnTop
  <2> QED
    BY <2>1, <1>1 DEF Stacked
<1>5. Fns(Rest) = {}
  BY <1>4 DEF Fns
<1>6. CASE ~(frame_callback /\ hooked)
  <2>1. Continue(<<>>)
    BY <1>6 DEF FrameDone, If
  <2>2. stack' = Rest
    BY <1>1, <2>1, NoFrames
  <2> QED
    BY <2>2, <1>1, <1>2, <1>5, StillReturns DEF Returning
<1>7. CASE frame_callback /\ hooked
  <2>1. stack' = <<a, b>> \o Rest /\ entered_for_each'
    BY <1>7 DEF FrameDone, If, Continue, Rest
  <2>2. /\ a \in Frame /\ b \in Frame /\ a.fn = "reset_timer" /\ b.fn = "leave_for_each"
    BY CallTyped, CallFields DEF WindowFns
  <2> HIDE DEF a, b
  <2>3. stack' = <<a>> \o (<<b>> \o Rest)
    BY <2>1, <2>2, <1>3, Frames
  <2>4. OnTop(a, Rest) /\ OnTop(b, Rest) /\ \A g \in Elements(Rest) : Buried(b, g)
    BY <1>4 DEF OnTop
  <2>5. Stacked(a, b)
    BY <2>2 DEF Stacked, Timing, Tops, Sealed, Bumps, Bases, Owners, Stops
  <2>6. Made(stack', a, {b}, Rest)
    BY <1>3, <2>2, <2>3, <2>4, <2>5, MadeTwo
  <2>7. Fns(stack') = {a.fn} \cup {f.fn : f \in {b}} \cup Fns(Rest)
    BY <2>6, MadeFns
  <2>8. Fns(stack') \cap Stops = {} /\ Fns(stack) \cap Stops = {}
    BY <1>3, <1>5, <2>2, <2>7 DEF Stops
  <2>9. \A f \in {a} \cup {b} :
         /\ f.fn \notin {"flush_blocked", "flush_loop", "copy", "flip_done", "retry", "block",
                         "flip_notify"}
         /\ Knows(f, at[f.v], vb[f.v])
    BY <2>2 DEF Knows, RequestFns, Owners
  <2> QED
    BY <1>1, <1>2, <2>1, <2>6, <2>8, <2>9, StillCalls DEF Passing, Returning
<1> QED
  BY <1>6, <1>7

\* What v waits for and the flips it may still make change, the rest does not.
Similar(r, s) ==
  /\ s.st = r.st /\ s.queued = r.queued /\ s.sync_flip = r.sync_flip /\ s.copied = r.copied
  /\ s.pixmap = r.pixmap /\ s.evpix = r.evpix /\ s.efd = r.efd /\ s.handed = r.handed
  /\ s.done = r.done /\ s.idled = r.idled
  /\ (s.flip => r.flip) /\ (r.due <= 0 => s.due <= 0)
Same == \A v \in Ids : Similar(vb[v], vb'[v])

\* Such a step leaves everyone's place and buffer alone.
LEMMA SameFits ==
  ASSUME NEW at, Good(at), Same, UNCHANGED <<lists, flip_active, release_cb, req, pix, acq, held, setup>>
  PROVE  /\ OnLists(at)' /\ Records(at)' /\ Buffers(at)' /\ Arguments'
         /\ PendingFlip' = PendingFlip /\ SyncFlipPending' = SyncFlipPending
<1>1. OnLists(at) /\ Records(at) /\ Buffers(at) /\ Arguments
  BY DEF Good, Fits
<1>2. OnLists(at)'
  BY <1>1 DEF OnLists, lists
<1>3. Records(at)'
  <2> SUFFICES ASSUME NEW v \in Ids PROVE Stage(vb'[v], at[v])
    BY DEF Records
  <2>1. Stage(vb[v], at[v]) /\ Similar(vb[v], vb'[v])
    BY <1>1 DEF Records, Same
  <2> QED
    BY <2>1 DEF Stage, Similar, Owed, InUse
<1>4. Buffers(at)'
  <2>1. InOrder(at)'
    BY <1>1 DEF Buffers, InOrder
  <2>2. Reused'
    BY <1>1 DEF Buffers, Reused, Uses, Live, Settled, Same, Similar
  <2>3. Names'
    BY <1>1 DEF Buffers, Names, Same, Similar
  <2>4. Shows'
    BY <1>1 DEF Buffers, Shows, Explicit, HasSyncobj, Same, Similar
  <2> QED
    BY <2>1, <2>2, <2>3, <2>4 DEF Buffers
<1>5. Arguments'
  BY <1>1 DEF Arguments, HasSyncobj, Same, Similar
<1>6. PendingFlip' = PendingFlip /\ SyncFlipPending' = SyncFlipPending
  <2>1. flip_queue # <<>> => flip_queue[1] \in Ids
    BY HasFirst DEF Good, TypeOK
  <2>2. flip_queue' = flip_queue
    BY DEF lists
  <2>3. PendingFlip' = PendingFlip /\ (PendingFlip # NoId => PendingFlip \in Ids)
    BY <2>1, <2>2 DEF PendingFlip, Same, Similar
  <2> QED
    BY <2>3 DEF SyncFlipPending, Same, Similar
<1> QED
  BY <1>2, <1>3, <1>4, <1>5, <1>6

LEMMA DropFlipsFits ==
  ASSUME NEW at, Good(at), DropFlips
  PROVE  Fits(at)'
<1>1. stack # <<>> /\ Top.fn = "drop_flips" /\ Continue(<<>>)
  BY DEF DropFlips, Running
<1>2. /\ UNCHANGED <<lists, flip_active, release_cb, req, pix, acq, held, setup>>
      /\ UNCHANGED <<blocking_event, sync_callback, entered_for_each, frame_timer, timer_armed>>
  BY DEF DropFlips, world, links, timer
<1>3. Same
  BY DEF DropFlips, Same, Similar, Good, TypeOK, Vblank
<1>4. stack' = Rest /\ Elements(stack) = {Top} \cup Elements(Rest) /\ Fns(stack) = {Top.fn} \cup Fns(Rest)
  BY <1>1, NoFrames, Runs
<1>5. Elements(Rest) = {}
  <2> SUFFICES ASSUME NEW g \in Elements(Rest) PROVE FALSE
    OBVIOUS
  <2>1. Stacked(Top, g)
    BY <1>1, Runs, Zenon DEF OnTop
  <2> QED
    BY <2>1, <1>1 DEF Stacked
<1>6. Elements(stack') = {} /\ Fns(stack') = {} /\ Fns(stack) = {"drop_flips"} /\ Elements(stack) = {Top}
  BY <1>1, <1>4, <1>5 DEF Fns
<1>7. \A fn \in Tops \cup {"copy"} : ~(stack' # <<>> /\ Head(stack').fn = fn)
  <2>1. stack' # <<>> => Head(stack') \in Elements(stack')
    BY <1>1, <1>4, Runs, Innermost
  <2> QED
    BY <2>1, <1>6
<1>8. ~Running("retry")' /\ ~Running("flip_notify")' /\ ~Running("copy")'
  BY <1>7 DEF Running, Top, Tops
<1>9. Calls(at)'
  <2>1. Sound(stack')
    BY <1>1, <1>4, Popped
  <2> QED
    BY <2>1, <1>6 DEF Calls
<1>10. Relies(at)'
  <2>1. StopsAlone(at)' /\ FlushesSettled(at)' /\ Flushing(at)' /\ Entered' /\ Acquired'
    BY <1>6 DEF StopsAlone, FlushesSettled, Flushing, Entered, Acquired
  <2>2. MayPresent'
    BY <1>8 DEF MayPresent
  <2> QED
    BY <2>1, <2>2 DEF Relies
<1>11. Attended(at)'
  <2>1. \A v \in Ids : Live(v) => at[v] \notin {"none", "held", "flipping"}
    BY <1>1, <1>6 DEF Good, Fits, Attended, Attends, Owners
  <2> QED
    BY <2>1, <1>3 DEF Attended, Live, Same, Similar
<1>12. Blocker(at)'
  <2>1. /\ blocking_event # NoId => vb[blocking_event].pixmap /\ Blocks(blocking_event, at)
        /\ blocking_event = NoId => blocked_queue = <<>>
    BY <1>1, <1>6 DEF Good, Fits, Blocker
  <2>2. blocking_event \in Ids \cup {NoId} /\ blocked_queue' = blocked_queue
    BY <1>2 DEF Good, TypeOK, lists
  <2> QED
    BY <2>1, <2>2, <1>2, <1>3 DEF Blocker, Blocks, Live, Same, Similar
<1>13. Timely'
  <2>1. SyncFlipPending' = SyncFlipPending /\ wait_list' = wait_list
    BY <1>2, <1>3, SameFits DEF lists
  <2>2. "reset_timer" \notin Fns(stack) /\ Timely
    BY <1>6 DEF Good, Fits
  <2> QED
    BY <2>1, <2>2, <1>2 DEF Timely
<1>14. Callbacks(at)'
  <2>1. Callbacks(at) /\ sync_callback \in Ids \cup {NoId} /\ ~Running("flip_notify")
    BY <1>1 DEF Good, Fits, TypeOK, Running
  <2> QED
    BY <2>1, <1>2, <1>3, <1>8 DEF Callbacks, Same, Similar
<1> QED
  BY <1>2, <1>3, <1>9, <1>10, <1>11, <1>12, <1>13, <1>14, SameFits DEF Fits

LEMMA BlockFits ==
  ASSUME NEW at, Good(at), Block
  PROVE  Fits(at)'
<1>1. stack # <<>> /\ Top.fn = "block" /\ Continue(<<>>)
  BY DEF Block, Running
<1>2. /\ UNCHANGED <<blocked_queue, vb, sync_callback, entered_for_each, frame_timer, timer_armed>>
      /\ Still
  BY DEF Block, Still, world, links, timer, lists
<1>3. Top.v \in Ids /\ at[Top.v] = "fence" /\ ~vb[Top.v].copied /\ Live(Top.v)
  BY <1>1, Runs DEF Knows, RequestFns, Live
<1>4. /\ stack' \in Seq(Frame) /\ Sound(stack')
      /\ Elements(stack') = Elements(Rest) /\ Fns(stack') = Fns(Rest)
      /\ \A fn \in Tops : ~(stack' # <<>> /\ Head(stack').fn = fn)
      /\ stack' # <<>> /\ Head(stack').fn \in {"copy", "block"} => "flush_loop" \notin Fns(stack')
  <2>1. stack' = Rest
    BY <1>1, NoFrames
  <2> QED
    BY <2>1, <1>1, Popped
<1>5. ~Running("retry")' /\ ~Running("flip_notify")' /\ (Running("copy")' => "flush_loop" \notin Fns(stack'))
  BY <1>4 DEF Running, Top, Tops
<1>6. Elements(stack) = {Top} \cup Elements(Rest) /\ Fns(stack) = {"block"} \cup Fns(Rest)
  BY <1>1, Runs
<1>7. "flip_done" \notin Fns(Rest) /\ "flush_blocked" \notin Fns(Rest) /\ \A f \in Elements(Rest) : f.fn # "block"
  <2>1. \A f \in Elements(Rest) : f.fn \notin {"flip_done", "flush_blocked", "block"}
    <3> SUFFICES ASSUME NEW g \in Elements(Rest) PROVE g.fn \notin {"flip_done", "flush_blocked", "block"}
      OBVIOUS
    <3>1. Stacked(Top, g)
      BY <1>1, Runs, Zenon DEF OnTop
    <3> QED
      BY <3>1, <1>1 DEF Stacked, Sealed, Timing
  <2> QED
    BY <2>1 DEF Fns
<1>8. blocking_event' = IF vb[Top.v].pixmap THEN Top.v ELSE blocking_event
  BY DEF Block
<1>9. Calls(at)'
  <2>1. \A f \in Elements(Rest) : Knows(f, at[f.v], vb[f.v])
    BY <1>1, Runs
  <2> QED
    BY <2>1, <1>2, <1>4 DEF Calls
<1>10. Relies(at)'
  <2>1. Relies(at)
    BY DEF Good, Fits
  <2>2. StopsAlone(at)' /\ FlushesSettled(at)' /\ Acquired' /\ Entered'
    BY <2>1, <1>2, <1>4, <1>6 DEF Relies, StopsAlone, FlushesSettled, Stops, Acquired, Entered, HasSyncobj, Still
  <2>3. Flushing(at)'
    BY <2>1, <1>3, <1>4, <1>5, <1>6, <1>7, <1>8 DEF Relies, Flushing
  <2>4. MayPresent'
    BY <1>5 DEF MayPresent
  <2> QED
    BY <2>2, <2>3, <2>4 DEF Relies
<1>11. Attended(at)'
  <2> SUFFICES ASSUME NEW u \in Ids, Live(u), at[u] \in {"none", "held", "flipping"}
               PROVE  \E f \in Elements(Rest) : Attends(f, u, at[u])
    BY <1>2, <1>4 DEF Attended, Live
  <2>1. PICK f \in Elements(stack) : Attends(f, u, at[u])
    BY DEF Good, Fits, Attended
  <2>2. f # Top
    BY <1>1, <2>1 DEF Attends, Owners
  <2> QED
    BY <2>1, <2>2, <1>6
<1>12. Blocker(at)'
  <2>1. Blocker(at)
    BY DEF Good, Fits
  <2>2. CASE vb[Top.v].pixmap
    <3>1. /\ blocking_event' # NoId /\ at[blocking_event'] = "fence"
          /\ vb'[blocking_event'].st = "live" /\ ~vb'[blocking_event'].copied
          /\ vb'[blocking_event'].pixmap
      BY <2>2, <1>2, <1>3, <1>8, IdsNat DEF Live
    <3> QED
      BY <3>1 DEF Blocker, Blocks, Live
  <2>3. CASE ~vb[Top.v].pixmap
    <3>1. blocking_event' = blocking_event
      BY <1>8, <2>3
    <3>2. "flush_blocked" \notin Fns(stack)
      BY <1>6, <1>7
    <3>3. blocking_event = NoId /\ blocked_queue # <<>> =>
            \E f \in Elements(Rest) : f.fn = "flush_loop" /\ f.v = First(blocked_queue)
      BY <2>1, <2>3, <1>1, <1>6, <1>7 DEF Blocker
    <3> QED
      BY <2>1, <3>1, <3>2, <3>3, <1>2, <1>4 DEF Blocker, Blocks, Live
  <2> QED
    BY <2>2, <2>3
<1>13. Timely'
  <2>1. "reset_timer" \in Fns(stack) => "reset_timer" \in Fns(stack')
    BY <1>4, <1>6
  <2> QED
    BY <2>1, <1>2, TimelyStill DEF Good, Fits
<1>14. Callbacks(at)'
  <2>1. Callbacks(at) /\ ~Running("flip_notify")
    BY <1>1 DEF Good, Fits, Running
  <2> QED
    BY <2>1, <1>2, <1>5 DEF Callbacks
<1> QED
  BY <1>2, <1>9, <1>10, <1>11, <1>12, <1>13, <1>14, StillFits DEF Fits

\* The calls in progress are those of new, besides those the innermost returned to.
Goes(new) == /\ stack' \in Seq(Frame) /\ Sound(stack')
             /\ Elements(stack') = new \cup Elements(Rest)
LEMMA GoesMade ==
  ASSUME NEW a, NEW others, Made(stack', a, others, Rest)
  PROVE  /\ Goes({a} \cup others)
         /\ \A fn : Running(fn)' <=> a.fn = fn
  BY DEF Made, Goes, Running, Top

LEMMA GoesPopped ==
  ASSUME NEW at, Good(at), stack # <<>>, Continue(<<>>)
  PROVE  /\ stack' = Rest /\ Goes({})
         /\ \A fn \in Tops : ~Running(fn)'
         /\ Running("copy")' => "flush_loop" \notin Fns(stack')
<1>1. stack' = Rest
  BY NoFrames
<1>2. /\ stack' \in Seq(Frame) /\ Sound(stack') /\ Elements(stack') = Elements(Rest)
      /\ \A fn \in Tops : ~(stack' # <<>> /\ Head(stack').fn = fn)
      /\ stack' # <<>> /\ Head(stack').fn \in {"copy", "block"} => "flush_loop" \notin Fns(stack')
  BY <1>1, Popped
<1> QED
  BY <1>1, <1>2 DEF Goes, Running, Top

LEMMA GoesFns ==
  ASSUME NEW new, Goes(new)
  PROVE  /\ Fns(stack') = {f.fn : f \in new} \cup Fns(Rest)
         /\ Elements(Rest) \subseteq Elements(stack') /\ new \subseteq Elements(stack')
  BY DEF Goes, Fns

LEMMA FlushBlockedFits ==
  ASSUME NEW at, Good(at), FlushBlocked
  PROVE  Fits(at)'
<1> DEFINE f == CallOn("flush_loop", First(blocked_queue), 0)
<1>1. stack # <<>> /\ Top.fn = "flush_blocked" /\ Top.lag = 0
  <2>1. stack # <<>> /\ Top.fn = "flush_blocked"
    BY DEF FlushBlocked, Running
  <2> QED
    BY <2>1, Runs DEF Knows
<1>2. /\ UNCHANGED <<blocked_queue, vb, sync_callback, entered_for_each, frame_timer, timer_armed>>
      /\ Still /\ blocking_event' = NoId
  BY DEF FlushBlocked, Still, world, links, timer, lists, Unblocked
<1>3. /\ Rest \in Seq(Frame) /\ Nested(Rest)
      /\ Elements(stack) = {Top} \cup Elements(Rest) /\ Fns(stack) = {"flush_blocked"} \cup Fns(Rest)
  BY <1>1, Runs
<1>4. \A g \in Elements(Rest) : g.fn \notin {"flip_done", "flush_blocked", "block"}
  <2> SUFFICES ASSUME NEW g \in Elements(Rest) PROVE g.fn \notin {"flip_done", "flush_blocked", "block"}
    OBVIOUS
  <2>1. Stacked(Top, g)
    BY <1>1, Runs, Zenon DEF OnTop
  <2> QED
    BY <2>1, <1>1 DEF Stacked, Sealed, Timing
<1>5. Relies(at) /\ Blocker(at) /\ Callbacks(at) /\ Settles(at) /\ ~Running("flip_notify")
  <2>1. Relies(at) /\ Blocker(at) /\ Callbacks(at) /\ ~Running("flip_notify")
    BY <1>1 DEF Good, Fits, Running
  <2>2. Settles(at)
    BY <2>1, <1>3 DEF Relies, FlushesSettled
  <2> QED
    BY <2>1, <2>2
<1>6. \A g \in Elements(Rest) : Knows(g, at[g.v], vb[g.v])
  BY <1>1, Runs
\* With the calls goes, that are those of Rest and perhaps the walk of blocked_queue.
<1>7. ASSUME NEW new, Goes(new), \A g \in new : g.fn = "flush_loop" /\ Knows(g, at[g.v], vb[g.v]),
             ~Running("retry")', ~Running("flip_notify")',
             blocked_queue # <<>> =>
               \E g \in Elements(stack') : g.fn = "flush_loop" /\ g.v = First(blocked_queue)
      PROVE  Fits(at)'
  <2>1. Fns(stack') \subseteq {"flush_loop"} \cup Fns(Rest) /\ Fns(Rest) \subseteq Fns(stack')
    BY <1>7 DEF Fns, Goes
  <2>2. Calls(at)'
    BY <1>2, <1>6, <1>7 DEF Calls, Goes
  <2>3. Relies(at)'
    <3>1. StopsAlone(at)' /\ Entered'
      BY <1>2, <1>3, <1>5, <2>1 DEF Relies, StopsAlone, Stops, Entered
    <3>2. FlushesSettled(at)'
      BY <1>5, Zenon DEF FlushesSettled, Settles, Pending
    <3>3. Acquired'
      <4>1. \A g \in Elements(stack') : g.fn = "copy" => g \in Elements(stack)
        BY <1>3, <1>7 DEF Goes
      <4> QED
        BY <4>1, <1>2, <1>5 DEF Relies, Acquired, HasSyncobj, Still
    <3>4. Flushing(at)' /\ MayPresent'
      BY <1>2, <1>7 DEF Flushing, MayPresent
    <3> QED
      BY <3>1, <3>2, <3>3, <3>4 DEF Relies
  <2>4. Attended(at)'
    <3> SUFFICES ASSUME NEW u \in Ids, Live(u), at[u] \in {"none", "held", "flipping"}
                 PROVE  \E g \in Elements(Rest) : Attends(g, u, at[u])
      BY <1>2, <1>7 DEF Attended, Live, Goes
    <3>1. PICK g \in Elements(stack) : Attends(g, u, at[u])
      BY DEF Good, Fits, Attended
    <3>2. g # Top
      BY <1>1, <3>1 DEF Attends, Owners
    <3> QED
      BY <3>1, <3>2, <1>3
  <2>5. Blocker(at)'
    BY <1>2, <1>7 DEF Blocker
  <2>6. Timely'
    <3>1. "reset_timer" \in Fns(stack) => "reset_timer" \in Fns(stack')
      BY <1>3, <2>1
    <3> QED
      BY <3>1, <1>2, TimelyStill DEF Good, Fits
  <2>7. Callbacks(at)'
    BY <1>2, <1>5, <1>7 DEF Callbacks
  <2> QED
    BY <1>2, <2>2, <2>3, <2>4, <2>5, <2>6, <2>7, StillFits DEF Fits
<1>8. CASE ~(blocking_event # NoId /\ blocked_queue # <<>>)
  <2>1. Continue(<<>>)
    BY <1>8 DEF FlushBlocked, If
  <2>2. Goes({}) /\ (\A fn \in Tops : ~Running(fn)') /\ Elements(stack') = Elements(Rest)
    BY <1>1, <2>1, GoesPopped
  <2>3. ~Running("retry")' /\ ~Running("flip_notify")'
    BY <2>2 DEF Tops
  <2>4. blocked_queue # <<>> =>
          \E g \in Elements(stack') : g.fn = "flush_loop" /\ g.v = First(blocked_queue)
    <3>1. blocked_queue # <<>> =>
            \E g \in Elements(stack) : \/ g.fn = "flush_loop" /\ g.v = First(blocked_queue)
                                       \/ g.fn = "block" /\ vb[g.v].pixmap
      BY <1>5, <1>8 DEF Blocker
    <3> QED
      BY <3>1, <2>2, <1>1, <1>3, <1>4
  <2>5. \A g \in {} : g.fn = "flush_loop" /\ Knows(g, at[g.v], vb[g.v])
    OBVIOUS
  <2> QED
    BY <2>2, <2>3, <2>4, <2>5, <1>7
<1>9. CASE blocking_event # NoId /\ blocked_queue # <<>>
  <2>1. stack' = <<f>> \o Rest
    BY <1>1, <1>9 DEF FlushBlocked, If, Continue, Rest
  <2>2. First(blocked_queue) \in Ids /\ at[First(blocked_queue)] = "blocked"
    BY <1>9, HasFirst DEF Good, TypeOK, Fits, OnLists, Is
  <2>3. f \in Frame /\ f.fn = "flush_loop" /\ f.v = First(blocked_queue) /\ f.lag = 0
    BY <2>2, CallTyped, CallFields DEF RequestFns
  <2> HIDE DEF f
  <2>4. "flush_loop" \notin Fns(stack)
    BY <1>3, <1>5, <1>9 DEF Relies, Flushing
  <2>5. OnTop(f, Rest)
    <3> SUFFICES ASSUME NEW g \in Elements(Rest) PROVE Stacked(f, g)
      BY DEF OnTop
    <3>1. Stacked(Top, g)
      BY <1>1, Runs, Zenon DEF OnTop
    <3>2. g.fn # "flush_loop"
      BY <2>4, <1>3 DEF Fns
    <3> QED
      BY <3>1, <3>2, <2>3, <1>1 DEF Stacked, Bases, Timing, Tops, Sealed, Owners, Stops, Bumps
  <2>6. Made(stack', f, {}, Rest)
    BY <1>3, <2>1, <2>3, <2>5, MadeOne
  <2>7. Knows(f, at[f.v], vb[f.v])
    BY <2>2, <2>3 DEF Knows, Owners, Good, Fits, Records, Stage
  <2>8. Goes({f}) /\ ~Running("retry")' /\ ~Running("flip_notify")' /\ f \in Elements(stack')
    BY <2>3, <2>6 DEF Made, Goes, Running, Top
  <2>9. blocked_queue # <<>> =>
          \E g \in Elements(stack') : g.fn = "flush_loop" /\ g.v = First(blocked_queue)
    BY <2>3, <2>8
  <2>10. \A g \in {f} : g.fn = "flush_loop" /\ Knows(g, at[g.v], vb[g.v])
    BY <2>3, <2>7
  <2> QED
    BY <2>8, <2>9, <2>10, <1>7
<1> QED
  BY <1>8, <1>9

LEMMA SimilarSooner ==
  ASSUME TypeOK, vb' = [v \in Ids |-> Sooner(vb[v])]
  PROVE  Same
<1> SUFFICES ASSUME NEW v \in Ids PROVE Similar(vb[v], Sooner(vb[v]))
  BY DEF Same
<1>1. vb[v] \in Vblank /\ vb[v].due \in -1 .. MaxAhead
  BY DEF TypeOK, Vblank
<1>2. vb[v].due <= 0 => Due(vb[v].due - 1) <= 0
  BY <1>1, PresentAssumption DEF Due
<1> QED
  BY <1>1, <1>2 DEF Similar, Sooner, Vblank

\* The calls that the bump returns to are those it is called from, a frame later.
LEMMA LaterSame ==
  ASSUME NEW t \in Seq(Frame), Nested(t), \A g \in Elements(t) : g.fn \in Bases
  PROVE  /\ Later(t) \in Seq(Frame) /\ Nested(Later(t)) /\ Fns(Later(t)) = Fns(t)
         /\ \A g \in Elements(Later(t)) : g.fn \in Bases
<1> DEFINE n == Len(t)
<1>1. DOMAIN t = 1 .. n /\ n \in Nat /\ \A i \in 1 .. n : t[i] \in Frame
  BY LenProperties, ElementOfSeq
<1>2. Later(t) = [i \in 1 .. n |-> [t[i] EXCEPT !.lag = @ + 1]]
  BY <1>1 DEF Later
<1>3. Later(t) \in Seq(Frame)
  BY LaterTyped
<1>4. DOMAIN Later(t) = 1 .. n /\ \A i \in 1 .. n : Later(t)[i].fn = t[i].fn /\ Later(t)[i].v = t[i].v
  <2> HIDE DEF n
  <2>1. DOMAIN Later(t) = 1 .. n
    BY <1>2
  <2>2. \A i \in 1 .. n : Later(t)[i] = [t[i] EXCEPT !.lag = @ + 1]
    BY <1>2
  <2>3. \A i \in 1 .. n : Later(t)[i].fn = t[i].fn /\ Later(t)[i].v = t[i].v
    BY <1>1, <2>2 DEF Frame
  <2> QED
    BY <2>1, <2>3
<1> HIDE DEF n
<1>5. Nested(Later(t))
  <2> SUFFICES ASSUME NEW i \in 1 .. n, NEW j \in 1 .. n, i < j
               PROVE  Stacked(Later(t)[i], Later(t)[j]) /\ Buried(Later(t)[i], Later(t)[j])
    BY <1>4 DEF Nested
  <2>1. Stacked(t[i], t[j]) /\ Buried(t[i], t[j])
    BY <1>1 DEF Nested
  <2>2. /\ Later(t)[i].fn = t[i].fn /\ Later(t)[i].v = t[i].v
        /\ Later(t)[j].fn = t[j].fn /\ Later(t)[j].v = t[j].v
    BY <1>4
  <2> QED
    BY <2>1, <2>2 DEF Stacked, Buried
<1>6. Fns(Later(t)) = Fns(t)
  <2>1. Fns(Later(t)) = {Later(t)[i].fn : i \in 1 .. n} /\ Fns(t) = {t[i].fn : i \in 1 .. n}
    BY <1>1, <1>4 DEF Fns, Elements
  <2> QED
    BY <2>1, <1>4
<1>7. \A g \in Elements(Later(t)) : g.fn \in Bases
  BY <1>1, <1>4 DEF Elements
<1> QED
  BY <1>3, <1>5, <1>6, <1>7

LEMMA MscBumpFits ==
  ASSUME NEW at, Good(at), MscBump
  PROVE  Fits(at)'
<1> DEFINE f == CallOn("flip_notify", PendingFlip, 0)
           b == Call("bump_start")
           t == Later(Rest)
<1>1. stack # <<>> /\ Top.fn = "msc_bump"
  BY DEF MscBump, Running
<1>2. /\ UNCHANGED <<lists, flip_active, release_cb, req, pix, acq, held, setup>>
      /\ UNCHANGED <<blocking_event, sync_callback, entered_for_each, frame_timer>>
      /\ timer_armed' = "off" /\ blocked_queue' = blocked_queue
  BY DEF MscBump, world, links, Disarmed, lists
<1>3. Same /\ TypeOK /\ OnLists(at) /\ Records(at)
  BY SimilarSooner DEF MscBump, Good, Fits
<1>4. /\ Rest \in Seq(Frame) /\ Nested(Rest) /\ Elements(Rest) \subseteq Frame
      /\ Elements(stack) = {Top} \cup Elements(Rest) /\ Fns(stack) = {"msc_bump"} \cup Fns(Rest)
  BY <1>1, Runs
<1>5. \A g \in Elements(Rest) : g.fn \in Bases
  <2> SUFFICES ASSUME NEW g \in Elements(Rest) PROVE g.fn \in Bases
    OBVIOUS
  <2>1. Stacked(Top, g)
    BY <1>1, Runs, Zenon DEF OnTop
  <2> QED
    BY <2>1, <1>1 DEF Stacked, Bumps
<1>6. /\ t \in Seq(Frame) /\ Nested(t) /\ Fns(t) = Fns(Rest)
      /\ \A g \in Elements(t) : g.fn \in Bases
  BY <1>4, <1>5, LaterSame
<1>7. stack' = If(SyncFlipPending, <<f>>) \o <<b>> \o t
  BY DEF MscBump, Rest
<1>8. b \in Frame /\ b.fn = "bump_start" /\ b.lag = 0 /\ b.v = NoId
  BY CallTyped, CallFields DEF WindowFns
<1>9. ASSUME SyncFlipPending
      PROVE  /\ PendingFlip \in Ids /\ at[PendingFlip] = "pending" /\ vb[PendingFlip].sync_flip
             /\ vb'[PendingFlip].st = "live"
             /\ f \in Frame /\ f.fn = "flip_notify" /\ f.v = PendingFlip /\ f.lag = 0
  <2>1. PendingFlip \in Ids /\ at[PendingFlip] = "pending" /\ vb[PendingFlip].sync_flip
    BY <1>3, <1>9, PendingIs DEF SyncFlipPending
  <2>2. f \in Frame /\ f.fn = "flip_notify" /\ f.v = PendingFlip /\ f.lag = 0
    BY <2>1, CallTyped, CallFields DEF RequestFns
  <2>3. vb'[PendingFlip].st = "live"
    BY <2>1, <1>3 DEF Records, Stage, Same, Similar
  <2> QED
    BY <2>1, <2>2, <2>3
<1> HIDE DEF f, b, t
<1>10. OnTop(b, t) /\ (SyncFlipPending => OnTop(f, t)) /\ (\A g \in Elements(t) : Buried(b, g))
  <2>1. \A g \in Elements(t) : Stacked(b, g) /\ Buried(b, g)
    BY <1>6, <1>8 DEF Stacked, Buried, Bases, Timing, Tops, Sealed, Owners, Stops
  <2>2. SyncFlipPending => \A g \in Elements(t) : Stacked(f, g)
    BY <1>6, <1>9 DEF Stacked, Bases, Timing, Tops, Sealed, Owners, Stops, Bumps
  <2> QED
    BY <2>1, <2>2 DEF OnTop
<1>11. PICK a, others : /\ Made(stack', a, others, t)
                        /\ {a} \cup others = IF SyncFlipPending THEN {f, b} ELSE {b}
                        /\ a.fn = "flip_notify" <=> SyncFlipPending
                        /\ a.fn \in {"flip_notify", "bump_start"}
  <2>1. CASE SyncFlipPending
    <3>1. stack' = (<<f>> \o <<b>>) \o t
      BY <2>1, <1>7 DEF If
    <3>2. (<<f>> \o <<b>>) \o t = <<f>> \o (<<b>> \o t)
      BY <2>1, <1>6, <1>8, <1>9, Frames
    <3>3. Stacked(f, b)
      BY <2>1, <1>8, <1>9 DEF Stacked, Bases, Timing, Tops, Sealed, Owners, Stops, Bumps
    <3>4. Made(stack', f, {b}, t)
      BY <2>1, <3>1, <3>2, <3>3, <1>6, <1>8, <1>9, <1>10, MadeTwo
    <3> QED
      BY <2>1, <3>4, <1>9
  <2>2. CASE ~SyncFlipPending
    <3>1. stack' = (<<>> \o <<b>>) \o t
      BY <2>2, <1>7 DEF If
    <3>2. <<>> \o <<b>> = <<b>>
      BY <1>6, <1>8, Frames
    <3>3. Made(stack', b, {}, t)
      BY <3>1, <3>2, <1>6, <1>8, <1>10, MadeOne
    <3> QED
      BY <2>2, <3>3, <1>8
  <2> QED
    BY <2>1, <2>2
<1>12. /\ stack' \in Seq(Frame) /\ Sound(stack')
       /\ Elements(stack') = {a} \cup others \cup Elements(t)
       /\ Fns(stack') = {g.fn : g \in {a} \cup others} \cup Fns(Rest)
       /\ \A fn : Running(fn)' <=> a.fn = fn
  <2>1. Fns(stack') = {a.fn} \cup {g.fn : g \in others} \cup Fns(t)
    BY <1>11, MadeFns
  <2> QED
    BY <2>1, <1>6, <1>11 DEF Made, Running, Top
<1>13. \A g \in Elements(stack') : g.fn \in Bases \cup {"flip_notify", "bump_start"}
  BY <1>6, <1>8, <1>9, <1>11, <1>12
<1>14. Fns(stack') \subseteq Bases \cup {"flip_notify", "bump_start"} /\ Fns(Rest) \subseteq Fns(stack')
  BY <1>12, <1>13 DEF Fns
<1>15. Calls(at)'
  <2>1. Knows(b, at[b.v], vb'[b.v])
    BY <1>8 DEF Knows, RequestFns, Owners
  <2>2. SyncFlipPending => Knows(f, at[f.v], vb'[f.v])
    BY <1>9 DEF Knows, RequestFns, Owners
  <2>3. \A g \in Elements(t) : Knows(g, at[g.v], vb'[g.v])
    BY <1>6 DEF Knows, RequestFns, Owners, Bases
  <2> QED
    BY <2>1, <2>2, <2>3, <1>11, <1>12 DEF Calls
<1>16. Relies(at)'
  <2>1. StopsAlone(at)' /\ FlushesSettled(at)' /\ Flushing(at)'
    BY <1>14 DEF StopsAlone, FlushesSettled, Flushing, Stops, Bases
  <2>2. MayPresent'
    BY <1>11, <1>12 DEF MayPresent
  <2>3. Entered'
    BY <1>2, <1>4, <1>8, <1>9, <1>11, <1>12 DEF Entered, Good, Fits, Relies
  <2>4. Acquired'
    BY <1>13 DEF Acquired, Bases
  <2> QED
    BY <2>1, <2>2, <2>3, <2>4 DEF Relies
<1>17. Attended(at)'
  <2>1. \A v \in Ids : Live(v) => at[v] \notin {"none", "held", "flipping"}
    BY <1>1, <1>4, <1>5 DEF Good, Fits, Attended, Attends, Owners, Bases
  <2> QED
    BY <2>1, <1>3 DEF Attended, Live, Same, Similar
<1>18. Blocker(at)'
  <2>1. /\ blocking_event # NoId => vb[blocking_event].pixmap /\ Blocks(blocking_event, at)
        /\ blocking_event = NoId => blocked_queue = <<>>
    BY <1>1, <1>4, <1>5 DEF Good, Fits, Blocker, Fns, Bases
  <2>2. blocking_event \in Ids \cup {NoId}
    BY DEF Good, TypeOK
  <2> QED
    BY <2>1, <2>2, <1>2, <1>3 DEF Blocker, Blocks, Live, Same, Similar
<1>19. PendingFlip' = PendingFlip /\ SyncFlipPending' = SyncFlipPending /\ wait_list' = wait_list
  BY <1>2, <1>3, SameFits DEF lists
<1>20. Timely'
  <2>1. "reset_timer" \in Fns(stack) => "reset_timer" \in Fns(stack')
    BY <1>4, <1>14
  <2> QED
    BY <2>1, <1>2, <1>19 DEF Timely, Good, Fits
<1>21. Callbacks(at)'
  <2>1. Callbacks(at) /\ ~Running("flip_notify") /\ sync_callback \in Ids \cup {NoId}
    BY <1>1 DEF Good, Fits, TypeOK, Running
  <2>2. Running("flip_notify")' <=> SyncFlipPending
    BY <1>11, <1>12
  <2>3. SyncFlipPending => sync_callback = NoId
    <3>1. SyncFlipPending => \E v \in Ids : at[v] = "pending" /\ vb[v].sync_flip
      BY <1>3, PendingIs
    <3> QED
      BY <3>1, <2>1, <1>3 DEF Callbacks, OnLists, OnePending
  <2> QED
    BY <2>1, <2>2, <2>3, <1>2, <1>3 DEF Callbacks, Same, Similar
<1> QED
  BY <1>2, <1>3, <1>15, <1>16, <1>17, <1>18, <1>20, <1>21, SameFits DEF Fits

-----------------------------------------------------------------------------
(***************************************************************************)
(* Steps that move one request which the compositor does not have.         *)
(***************************************************************************)
Calm == UNCHANGED <<req, pix, acq, release_cb, held, setup, sync_callback, entered_for_each,
                    blocking_event, frame_timer, timer_armed>>
LEMMA RankThree ==
  \A p : Rank(p) = 3 => p \notin {"pending", "flipping", "active", "idle"}
  BY DEF Rank

\* The functions that stop flipping are on top of a call of theirs only.
LEMMA NoStops ==
  ASSUME NEW at, Good(at), stack # <<>>, Top.fn \notin Timing
  PROVE  /\ Fns(Rest) \cap Stops = {}
         /\ Fns(Rest) \cap {"flip_done", "flush_blocked", "block"} = {}
<1> SUFFICES ASSUME NEW g \in Elements(Rest)
             PROVE  g.fn \notin Stops \cup {"flip_done", "flush_blocked", "block"}
  BY DEF Fns
<1>1. Stacked(Top, g)
  BY Runs, Zenon DEF OnTop
<1> QED
  BY <1>1 DEF Stacked, Sealed, Timing, Tops, Stops

LEMMA TimelyMove ==
  ASSUME TypeOK, TypeOK', NEW at, OnLists(at), Records(at), NEW at2, OnLists(at2)', Records(at2)', Timely,
         \A u \in Ids : at2[u] = "pending" => at[u] = "pending" /\ vb'[u].sync_flip = vb[u].sync_flip,
         UNCHANGED <<frame_timer, timer_armed>>,
         "reset_timer" \in Fns(stack) => "reset_timer" \in Fns(stack'),
         wait_list' # <<>> =>
           wait_list # <<>> \/ frame_timer = "set" \/ "reset_timer" \in Fns(stack')
  PROVE  Timely'
<1>1. SyncFlipPending' => SyncFlipPending
  <2>1. SyncFlipPending <=> \E v \in Ids : at[v] = "pending" /\ vb[v].sync_flip
    BY PendingIs
  <2>2. SyncFlipPending' <=> \E v \in Ids : at2[v] = "pending" /\ vb'[v].sync_flip
    BY PendingIsNext
  <2> QED
    BY <2>1, <2>2
<1> QED
  BY <1>1 DEF Timely

LEMMA ReliesMove ==
  ASSUME NEW at, Good(at), stack # <<>>,
         Top.fn \in {"re_execute", "execute", "retry", "append_flip", "copy"},
         NEW at2, NEW v \in Ids, Moves(at, at2, v), Rank(at[v]) = 3, Rank(at2[v]) = 3, at[v] # "fence",
         NEW new, Goes(new),
         \A f \in new : f.fn \in {"retry", "append_flip", "re_execute", "execute", "block",
                                  "reset_timer", "flush_blocked"},
         Calm, MayPresent', Running("copy")' => "flush_loop" \notin Fns(stack'),
         "flush_blocked" \in Fns(stack') =>
           Settles(at) /\ ("flush_loop" \in Fns(stack) => blocking_event = NoId)
  PROVE  Relies(at2)'
<1>1. Relies(at) /\ blocking_event \in Ids \cup {NoId}
  BY DEF Good, Fits, TypeOK
<1>2. /\ Elements(stack) = {Top} \cup Elements(Rest) /\ Fns(stack) = {Top.fn} \cup Fns(Rest)
      /\ Elements(stack') = new \cup Elements(Rest)
      /\ Fns(stack') = {f.fn : f \in new} \cup Fns(Rest)
  BY Runs, GoesFns DEF Goes
<1>3. /\ Fns(Rest) \cap Stops = {} /\ Fns(Rest) \cap {"flip_done", "flush_blocked", "block"} = {}
  BY NoStops DEF Timing
<1>4. Fns(stack) \cap Stops = {} /\ Fns(stack') \cap Stops = {}
  BY <1>2, <1>3 DEF Stops
<1>5. Settles(at2) <=> Settles(at)
  BY SettlesMove, RankThree
<1>6. \A fn \in {"flush_loop", "copy", "leave_for_each", "flip_done"} : fn \in Fns(stack') => fn \in Fns(Rest)
  BY <1>2
<1>7. StopsAlone(at2)'
  BY <1>4 DEF StopsAlone
<1>8. FlushesSettled(at2)'
  <2>1. Settles(at2)' <=> Settles(at2)
    BY DEF Settles, Pending
  <2>2. Fns(stack') \cap {"flush_blocked", "flush_loop"} # {} => Settles(at)
    BY <1>1, <1>2, <1>6 DEF Relies, FlushesSettled
  <2>3. "copy" \in Fns(stack') => Settles(at)
    BY <1>1, <1>2, <1>4, <1>6 DEF Relies, FlushesSettled
  <2> QED
    BY <1>5, <2>1, <2>2, <2>3 DEF FlushesSettled
<1>9. Flushing(at2)'
  <2> SUFFICES ASSUME "flush_loop" \in Fns(stack')
               PROVE  /\ blocking_event # NoId => at2[blocking_event] = "fence"
                      /\ "flip_done" \in Fns(stack') \/ "flush_blocked" \in Fns(stack') \/ Running("copy")' =>
                           blocking_event = NoId
    BY DEF Flushing, Calm
  <2>1. "flush_loop" \in Fns(stack)
    BY <1>2, <1>6
  <2>2. blocking_event # NoId => at[blocking_event] = "fence"
    BY <1>1, <2>1 DEF Relies, Flushing
  <2>3. blocking_event # NoId => at2[blocking_event] = "fence"
    BY <1>1, <2>2 DEF Moves
  <2>4. "flip_done" \notin Fns(stack') /\ ~Running("copy")'
    BY <1>3, <1>6
  <2> QED
    BY <2>1, <2>3, <2>4
<1>10. Entered'
  BY <1>1, <1>2, <1>6 DEF Relies, Entered, Calm
<1>11. Acquired'
  <2>1. \A f \in Elements(stack') : f.fn = "copy" => f \in Elements(stack)
    BY <1>2
  <2> QED
    BY <1>1, <2>1 DEF Relies, Acquired, HasSyncobj, Calm
<1> QED
  BY <1>7, <1>8, <1>9, <1>10, <1>11 DEF Relies

LEMMA MoveFits ==
  ASSUME NEW at, Good(at), TypeOK', stack # <<>>,
         Top.fn \in {"re_execute", "execute", "retry", "append_flip", "copy"},
         NEW at2, NEW v \in Ids, Moves(at, at2, v), Only(v),
         Rank(at[v]) = 3, Rank(at2[v]) = 3, at[v] # "fence",
         OnLists(at2)', Stage(vb'[v], at2[v]), Gentle(v),
         vb[v].st # "new", vb'[v].copied /\ HasSyncobj(v) => acq[v] = "sig",
         NEW new, Goes(new),
         \A f \in new : /\ f.fn \in {"retry", "append_flip", "re_execute", "execute", "block",
                                     "reset_timer", "flush_blocked"}
                        /\ Knows(f, at2[f.v], vb'[f.v]),
         \A f \in Elements(Rest) : Knows(f, at2[f.v], vb'[f.v]),
         Attended(at2)', Calm, MayPresent', ~Running("flip_notify")',
         Running("copy")' => "flush_loop" \notin Fns(stack'),
         "flush_blocked" \in Fns(stack') =>
           Settles(at) /\ ("flush_loop" \in Fns(stack) => blocking_event = NoId),
         blocking_event = NoId => blocked_queue' = blocked_queue,
         blocking_event = v =>
           vb'[v].pixmap /\ ("flush_blocked" \in Fns(stack') \/ Blocks(v, at2)'),
         wait_list' # <<>> =>
           wait_list # <<>> \/ frame_timer = "set" \/ "reset_timer" \in Fns(stack')
  PROVE  Fits(at2)'
<1>1. /\ TypeOK /\ OnLists(at) /\ Records(at) /\ Buffers(at) /\ Timely /\ Callbacks(at) /\ Arguments
      /\ sync_callback \in Ids \cup {NoId} /\ ~Running("flip_notify")
  BY DEF Good, Fits, TypeOK, Running
<1>2. Records(at2)'
  BY <1>1, RecordsMove
<1>3. Buffers(at2)'
  BY <1>1, BuffersMove DEF Calm
<1>4. Calls(at2)'
  BY DEF Calls, Goes
<1>5. Relies(at2)'
  BY ReliesMove
<1>6. /\ Elements(Rest) \subseteq Elements(stack') /\ Fns(Rest) \subseteq Fns(stack')
      /\ Fns(stack) = {Top.fn} \cup Fns(Rest)
  BY Runs, GoesFns
<1>7. Blocker(at2)'
  BY <1>6, BlockerMove DEF Calm, Timing
<1>8. Timely'
  <2>1. \A u \in Ids : at2[u] = "pending" => at[u] = "pending" /\ vb'[u].sync_flip = vb[u].sync_flip
    BY RankThree DEF Moves, Only
  <2>2. "reset_timer" \in Fns(stack) => "reset_timer" \in Fns(stack')
    BY <1>6
  <2> QED
    BY <1>1, <1>2, <2>1, <2>2, TimelyMove DEF Calm
<1>9. Callbacks(at2)'
  <2>1. at[v] # "pending" /\ at2[v] # "pending"
    BY RankThree
  <2> QED
    BY <1>1, <2>1, CallbacksMove DEF Calm
<1>10. Arguments'
  BY <1>1 DEF Arguments, Only, HasSyncobj, Calm
<1> QED
  BY <1>2, <1>3, <1>4, <1>5, <1>7, <1>8, <1>9, <1>10 DEF Fits

\* The one that blocks has not been presented, and is not about to flush the others.
LEMMA BlockerIs ==
  ASSUME NEW at, Good(at), stack # <<>>, Top.fn \notin Timing, Top.fn # "flush_blocked",
         blocking_event # NoId
  PROVE  /\ blocking_event \in Ids /\ vb[blocking_event].pixmap /\ Blocks(blocking_event, at)
         /\ ~vb[blocking_event].copied
<1>1. "flush_blocked" \notin Fns(stack)
  BY NoStops, Runs
<1> QED
  BY <1>1 DEF Good, Fits, Blocker, TypeOK, Blocks

\* A flip that is committed joins flip_queue before anything else happens.
LEMMA NoneFlipping ==
  ASSUME NEW at, Good(at), stack # <<>>, Top.fn \notin Timing \cup {"flip_done"}
  PROVE  \A u \in Ids : at[u] # "flipping"
<1> SUFFICES ASSUME NEW u \in Ids, at[u] = "flipping" PROVE FALSE
  OBVIOUS
<1>1. Live(u)
  BY DEF Good, Fits, Records, Stage, Live
<1>2. PICK f \in Elements(stack) : Attends(f, u, at[u])
  BY <1>1 DEF Good, Fits, Attended
<1>3. f.fn = "flip_done"
  BY <1>2 DEF Attends
<1>4. "flip_done" \in Fns(Rest)
  BY <1>2, <1>3, Runs DEF Fns
<1> QED
  BY <1>4, NoStops

\* What is known of a request that the code goes on with at its retry label.
LEMMA RetryKnows ==
  ASSUME NEW at, Good(at), NEW v \in Ids, Retrying(v)
  PROVE  /\ stack # <<>> /\ Top.fn = "retry" /\ Top.v = v /\ Top.lag = 0
         /\ at[v] = "held" /\ vb[v].st = "live" /\ vb[v].due <= 0
         /\ vb[v] \in Vblank /\ Owed(vb[v]) /\ vb[v].idled <= 1 /\ vb[v].efd = "none"
         /\ MustWait(v, Top.lag) <=> Unready(v)
         /\ req[v].sync # "fence" /\ (vb[v].copied /\ HasSyncobj(v) => acq[v] = "sig")
         /\ Presents(v) => blocking_event \in {NoId, v}
         /\ blocking_event = v => Presents(v)
<1>1. stack # <<>> /\ Top.fn = "retry" /\ Top.v = v
  BY DEF Retrying, Running
<1>2. /\ Top.lag = 0 /\ at[v] = "held" /\ vb[v].st = "live" /\ vb[v].due <= 0
  BY <1>1, Runs DEF Knows, RequestFns, Owners
<1>3. vb[v] \in Vblank /\ vb[v].due \in Int
  BY DEF Good, TypeOK, Vblank
<1>4. Stage(vb[v], at[v])
  BY DEF Good, Fits, Records
<1>5. Owed(vb[v]) /\ vb[v].idled <= 1 /\ vb[v].efd = "none"
  BY <1>2, <1>3, <1>4 DEF Stage, Shown, Vblank
<1>6. MustWait(v, Top.lag) <=> Unready(v)
  <2>1. ~Requeues(v, Top.lag)
    BY <1>2, <1>3 DEF Requeues, Ahead
  <2> QED
    BY <2>1 DEF MustWait
<1>7. req[v].sync # "fence" /\ (vb[v].copied /\ HasSyncobj(v) => acq[v] = "sig")
  BY <1>2 DEF Good, Fits, Arguments
<1>8. Presents(v) => blocking_event \in {NoId, v}
  BY <1>1 DEF Good, Fits, Relies, MayPresent, Running
<1>9. blocking_event = v => Presents(v)
  BY <1>1, BlockerIs, IdsNat DEF Timing, Presents
<1> QED
  BY <1>1, <1>2, <1>3, <1>5, <1>6, <1>7, <1>8, <1>9

\* One or two calls in place of the innermost.
LEMMA OneMade ==
  ASSUME NEW at, Good(at), stack # <<>>, NEW f \in Frame, OnTop(f, Rest), stack' = <<f>> \o Rest
  PROVE  /\ Goes({f}) /\ (\A fn : Running(fn)' <=> f.fn = fn) /\ Head(stack') = f
         /\ Fns(stack') = {f.fn} \cup Fns(Rest) /\ f \in Elements(stack')
<1>1. Made(stack', f, {}, Rest)
  BY Runs, MadeOne
<1>2. Goes({f} \cup {}) /\ \A fn : Running(fn)' <=> f.fn = fn
  BY <1>1, GoesMade
<1>3. {f} \cup {} = {f}
  OBVIOUS
<1>4. Goes({f})
  BY <1>2, <1>3
<1>5. Head(stack') = f /\ f \in Elements(stack')
  BY <1>1 DEF Made
<1>6. Fns(stack') = {f.fn} \cup Fns(Rest)
  BY Runs, FnsPushed
<1> QED
  BY <1>2, <1>4, <1>5, <1>6

LEMMA TwoMade ==
  ASSUME NEW at, Good(at), stack # <<>>, NEW a \in Frame, NEW b \in Frame,
         OnTop(a, Rest), OnTop(b, Rest), Stacked(a, b), \A g \in Elements(Rest) : Buried(b, g),
         stack' = <<a>> \o (<<b>> \o Rest)
  PROVE  /\ Goes({a, b}) /\ (\A fn : Running(fn)' <=> a.fn = fn) /\ Head(stack') = a
         /\ Fns(stack') = {a.fn, b.fn} \cup Fns(Rest) /\ a \in Elements(stack') /\ b \in Elements(stack')
<1>1. Made(stack', a, {b}, Rest)
  BY Runs, MadeTwo
<1>2. Goes({a} \cup {b}) /\ \A fn : Running(fn)' <=> a.fn = fn
  BY <1>1, GoesMade
<1>3. {a} \cup {b} = {a, b}
  OBVIOUS
<1>4. Goes({a, b})
  BY <1>2, <1>3
<1>5. Head(stack') = a /\ a \in Elements(stack') /\ b \in Elements(stack')
  BY <1>1 DEF Made
<1>6. Fns(stack') = {a.fn, b.fn} \cup Fns(Rest)
  <2>1. <<b>> \o Rest \in Seq(Frame) /\ Fns(<<b>> \o Rest) = {b.fn} \cup Fns(Rest)
    BY Runs, Pushed, FnsPushed
  <2>2. Fns(<<a>> \o (<<b>> \o Rest)) = {a.fn} \cup Fns(<<b>> \o Rest)
    BY <2>1, FnsPushed
  <2> QED
    BY <2>1, <2>2
<1> QED
  BY <1>2, <1>4, <1>5, <1>6

\* A step of the function that was called for the request it moves.
Moderate == {"retry", "append_flip", "re_execute", "execute", "block", "reset_timer", "flush_blocked"}
OwnMove(at, at2, v, new) ==
  /\ stack # <<>> /\ v = Top.v /\ Top.fn \in {"re_execute", "execute", "retry", "append_flip", "copy"}
  /\ Moves(at, at2, v) /\ Only(v) /\ Gentle(v)
  /\ Rank(at[v]) = 3 /\ Rank(at2[v]) = 3 /\ at[v] # "fence" /\ vb[v].st # "new"
  /\ OnLists(at2)' /\ Stage(vb'[v], at2[v])
  /\ vb'[v].copied /\ HasSyncobj(v) => acq[v] = "sig"
  /\ Goes(new) /\ (\A f \in new : f.fn \in Moderate) /\ (\A f \in new : Knows(f, at2[f.v], vb'[f.v]))
  /\ vb'[v].st = "live" /\ at2[v] \in {"none", "held", "flipping"} => \E f \in new : Attends(f, v, at2[v])
  /\ Calm /\ MayPresent' /\ ~Running("flip_notify")'
  /\ Running("copy")' => "flush_loop" \notin Fns(stack')
  /\ "flush_blocked" \in Fns(stack') =>
       Settles(at) /\ ("flush_loop" \in Fns(stack) => blocking_event = NoId)
  /\ blocking_event = NoId => blocked_queue' = blocked_queue
  /\ blocking_event = v =>
       vb'[v].pixmap /\ ("flush_blocked" \in Fns(stack') \/ Blocks(v, at2)')
  /\ wait_list' # <<>> =>
       wait_list # <<>> \/ frame_timer = "set" \/ "reset_timer" \in Fns(stack')
LEMMA OwnMoveFits ==
  ASSUME NEW at, Good(at), TypeOK', NEW at2, NEW v \in Ids, NEW new, OwnMove(at, at2, v, new)
  PROVE  Fits(at2)'
<1>1. \A f \in Elements(Rest) : Knows(f, at2[f.v], vb'[f.v])
  BY RestKnowsMove DEF OwnMove
<1>2. Attended(at2)'
  <2>1. Elements(Rest) \subseteq Elements(stack') /\ new \subseteq Elements(stack')
    BY GoesFns DEF OwnMove
  <2>2. vb'[v].st = "live" /\ at2[v] \in {"none", "held", "flipping"} =>
          \E f \in Elements(stack') : Attends(f, v, at2[v])
    BY <2>1 DEF OwnMove
  <2> QED
    BY <2>1, <2>2, AttendedMove DEF OwnMove
<1>3. \A f \in new : /\ f.fn \in {"retry", "append_flip", "re_execute", "execute", "block",
                                    "reset_timer", "flush_blocked"}
                     /\ Knows(f, at2[f.v], vb'[f.v])
  BY DEF Moderate, OwnMove
<1> QED
  BY <1>1, <1>2, <1>3, MoveFits DEF OwnMove

LEMMA RetryFlipFailsFits ==
  ASSUME NEW at, Good(at), TypeOK', NEW v \in Ids, RetryFlipFails(v)
  PROVE  Fits(at)'
<1> DEFINE f == CallOn("retry", v, 0)
<1>1. /\ stack # <<>> /\ Top.fn = "retry" /\ Top.v = v /\ Top.lag = 0
      /\ at[v] = "held" /\ vb[v].st = "live" /\ vb[v].due <= 0
      /\ vb[v] \in Vblank /\ Owed(vb[v]) /\ vb[v].idled <= 1 /\ vb[v].efd = "none"
      /\ (vb[v].copied /\ HasSyncobj(v) => acq[v] = "sig")
      /\ Presents(v) => blocking_event \in {NoId, v}
      /\ blocking_event = v => Presents(v)
  <2>1. Retrying(v)
    BY DEF RetryFlipFails, Ready
  <2> QED
    BY <2>1, RetryKnows
<1>2. Calm /\ UNCHANGED <<lists, flip_active>> /\ wait_list' = wait_list /\ blocked_queue' = blocked_queue
  BY DEF RetryFlipFails, Calm, world, links, timer, lists
<1>3. /\ Only(v) /\ vb'[v] = [vb[v] EXCEPT !.queued = FALSE, !.flip = FALSE]
  <2>1. vb' = [vb EXCEPT ![v] = [Started(@) EXCEPT !.flip = FALSE]] /\ vb \in [Ids -> Vblank]
    BY DEF RetryFlipFails, Good, TypeOK
  <2> QED
    BY <2>1, <1>1 DEF Only, Started, Vblank
<1>4. /\ vb'[v].st = "live" /\ vb'[v].pixmap = vb[v].pixmap /\ vb'[v].copied = vb[v].copied
      /\ vb'[v].evpix = vb[v].evpix /\ vb'[v].handed = vb[v].handed /\ vb'[v].done = vb[v].done
      /\ vb'[v].idled = vb[v].idled /\ vb'[v].efd = vb[v].efd /\ vb'[v].due = vb[v].due /\ ~vb'[v].flip
  BY <1>1, <1>3 DEF Vblank
<1>5. Stage(vb'[v], at[v]) /\ Gentle(v)
  BY <1>1, <1>4 DEF Stage, Shown, Owed, Gentle
<1>6. f \in Frame /\ f.fn = "retry" /\ f.v = v /\ f.lag = 0
  BY <1>1, CallTyped, CallFields DEF RequestFns
<1>7. stack' = <<f>> \o Rest
  BY <1>1 DEF RetryFlipFails, Continue, Rest
<1> HIDE DEF f
<1>8. OnTop(f, Rest)
  BY <1>1, <1>6, SameCall
<1>9. /\ Goes({f}) /\ (\A fn : Running(fn)' <=> f.fn = fn) /\ Head(stack') = f
      /\ Fns(stack') = {f.fn} \cup Fns(Rest)
  BY <1>1, <1>6, <1>7, <1>8, OneMade
<1>10. Moves(at, at, v) /\ Rank(at[v]) = 3 /\ at[v] # "fence"
  BY <1>1 DEF Moves, Rank
<1>11. OnLists(at)'
  BY <1>1, <1>2, <1>10, ListsStay DEF Loose, Good, Fits
<1>12. (\A g \in {f} : g.fn \in Moderate) /\ (\A g \in {f} : Knows(g, at[g.v], vb'[g.v]))
  BY <1>1, <1>4, <1>6 DEF Knows, Owners, Moderate
<1>13. \E g \in {f} : Attends(g, v, at[v])
  BY <1>1, <1>6 DEF Attends, Owners
<1>14. MayPresent'
  <2>1. Presents(v) => blocking_event' \in {NoId, v}
    BY <1>1, <1>2 DEF Calm
  <2> QED
    BY <2>1, <1>4, <1>6, <1>9 DEF MayPresent, Top, Presents
<1>15. blocking_event = v => vb'[v].pixmap /\ ("flush_blocked" \in Fns(stack') \/ Blocks(v, at)')
  BY <1>1, <1>4 DEF Blocks, Live, Presents
<1>16. "flush_blocked" \notin Fns(stack') /\ ~Running("flip_notify")' /\ ~Running("copy")'
  BY <1>1, <1>6, <1>9, NoStops DEF Timing
<1>17. OwnMove(at, at, v, {f})
  BY <1>1, <1>2, <1>3, <1>4, <1>5, <1>9, <1>10, <1>11, <1>12, <1>13, <1>14, <1>15, <1>16 DEF OwnMove
<1> QED
  BY <1>17, OwnMoveFits

\* The record of v is rec, the others are left alone.
LEMMA OneRecord ==
  ASSUME TypeOK, NEW v \in Ids, NEW rec, vb' = [vb EXCEPT ![v] = rec]
  PROVE  Only(v) /\ vb'[v] = rec
BY DEF Only, TypeOK

\* The only call is the one that returns, and it leaves none in its place.
LEMMA PoppedGoes ==
  ASSUME NEW at, Good(at), stack # <<>>, Continue(<<>>)
  PROVE  /\ Goes({}) /\ stack' = Rest /\ Fns(stack') = Fns(Rest)
         /\ MayPresent' /\ ~Running("flip_notify")'
         /\ Running("copy")' => "flush_loop" \notin Fns(stack')
<1>1. /\ stack' = Rest /\ Goes({}) /\ \A fn \in Tops : ~Running(fn)'
      /\ Running("copy")' => "flush_loop" \notin Fns(stack')
  BY GoesPopped
<1>2. ~Running("retry")' /\ ~Running("flip_notify")'
  BY <1>1 DEF Tops
<1> QED
  BY <1>1, <1>2 DEF MayPresent

\* A request in another place, the others where they are.
LEMMA Moving ==
  ASSUME NEW at, Good(at), NEW v \in Ids, NEW p \in Places
  PROVE  \E at2 \in [Ids -> Places] : Moves(at, at2, v) /\ at2[v] = p
<1> DEFINE at2 == [at EXCEPT ![v] = p]
<1>1. at2 \in [Ids -> Places] /\ Moves(at, at2, v) /\ at2[v] = p
  BY DEF Good, Moves
<1> QED
  BY <1>1

LEMMA AppendFlipFits ==
  ASSUME NEW at, Good(at), TypeOK', AppendFlip
  PROVE  \E at2 \in [Ids -> Places] : Fits(at2)'
<1> SUFFICES ASSUME NEW v \in Ids, v = Top.v PROVE \E at2 \in [Ids -> Places] : Fits(at2)'
  BY Runs DEF AppendFlip, Running, RequestFns
<1>1. /\ stack # <<>> /\ Top.fn = "append_flip" /\ Continue(<<>>)
      /\ at[v] = "held" /\ vb[v].st = "live" /\ vb[v].queued /\ vb[v].pixmap /\ ~vb[v].copied
  <2>1. stack # <<>> /\ Top.fn = "append_flip" /\ Continue(<<>>)
    BY DEF AppendFlip, Running
  <2> QED
    BY <2>1, Runs DEF Knows, RequestFns, Owners
<1>2. /\ Calm /\ vb' = vb /\ UNCHANGED <<wait_list, idle_queue, blocked_queue, flip_active>>
      /\ flip_queue' = Append(flip_queue, v)
  BY DEF AppendFlip, Calm, world, links, timer
<1>3. PICK at2 \in [Ids -> Places] : Moves(at, at2, v) /\ at2[v] = "queue"
  BY Moving DEF Places
<1>4. Only(v) /\ vb'[v] = vb[v]
  BY <1>2 DEF Only
<1>5. Stage(vb[v], at[v]) /\ vb[v] \in Vblank
  BY <1>1 DEF Good, Fits, Records, TypeOK
<1>6. Stage(vb'[v], at2[v]) /\ Gentle(v)
  BY <1>1, <1>3, <1>4, <1>5 DEF Stage, Shown, Gentle
<1>7. OnLists(at2)'
  <2>1. OnLists(at) /\ TypeOK
    BY DEF Good, Fits
  <2>2. Is(wait_list', at2, {"wait"}) /\ Is(idle_queue', at2, {"idle"}) /\ Is(blocked_queue', at2, {"blocked"})
    BY <2>1, <1>1, <1>2, <1>3, IsKept DEF OnLists, TypeOK
  <2>3. Is(flip_queue', at2, {"queue", "pending"})
    BY <2>1, <1>1, <1>2, <1>3, IsAppended DEF OnLists, TypeOK
  <2>4. \A u \in Ids : u = flip_active' <=> at2[u] = "active"
    BY <2>1, <1>1, <1>2, <1>3 DEF OnLists, Moves
  <2>5. \A u \in Ids : at2[u] = "pending" => First(flip_queue') = u
    <3> SUFFICES ASSUME NEW u \in Ids, at2[u] = "pending" PROVE First(flip_queue') = u
      OBVIOUS
    <3>1. at[u] = "pending" /\ First(flip_queue) = u
      BY <2>1, <1>3 DEF OnLists, Moves
    <3>2. First(flip_queue') = IF flip_queue = <<>> THEN v ELSE First(flip_queue)
      BY <2>1, <1>1, <1>2, AppendHas DEF TypeOK
    <3>3. flip_queue # <<>>
      BY <3>1, IdsNat DEF First
    <3> QED
      BY <3>1, <3>2, <3>3
  <2>6. OnePending(at2)
    BY <2>1, <1>1, <1>3, SettlesMove DEF OnLists
  <2> QED
    BY <2>2, <2>3, <2>4, <2>5, <2>6 DEF OnLists
<1>8. /\ Goes({}) /\ Fns(stack') = Fns(Rest) /\ MayPresent' /\ ~Running("flip_notify")'
      /\ Running("copy")' => "flush_loop" \notin Fns(stack')
  BY <1>1, PoppedGoes
<1>9. "flush_blocked" \notin Fns(stack')
  BY <1>1, <1>8, NoStops DEF Timing
<1>10. Blocks(v, at2)' /\ vb'[v].pixmap
  BY <1>1, <1>3, <1>4 DEF Blocks, Live
<1>11. vb'[v].copied /\ HasSyncobj(v) => acq[v] = "sig"
  BY <1>1, <1>4
<1>12. Rank(at[v]) = 3 /\ Rank(at2[v]) = 3
  BY <1>1, <1>3 DEF Rank
<1>13. OwnMove(at, at2, v, {})
  BY <1>1, <1>2, <1>3, <1>4, <1>6, <1>7, <1>8, <1>9, <1>10, <1>11, <1>12 DEF OwnMove
<1>14. Fits(at2)'
  BY <1>1, <1>13, OwnMoveFits
<1> QED
  BY <1>3, <1>14

LEMMA RetryPostFits ==
  ASSUME NEW at, Good(at), TypeOK', NEW v \in Ids, RetryPost(v)
  PROVE  \E at2 \in [Ids -> Places] : Fits(at2)'
<1>1. /\ stack # <<>> /\ Top.fn = "retry" /\ Top.v = v
      /\ at[v] = "held" /\ vb[v].st = "live" /\ ~Presents(v)
      /\ vb[v] \in Vblank /\ Owed(vb[v]) /\ vb[v].idled <= 1
      /\ blocking_event = v => Presents(v)
  <2>1. Retrying(v) /\ ~Presents(v)
    BY DEF RetryPost, Ready
  <2> QED
    BY <2>1, RetryKnows
<1>2. /\ Calm /\ UNCHANGED <<lists, flip_active>> /\ wait_list' = wait_list /\ blocked_queue' = blocked_queue
      /\ Continue(<<>>)
  BY DEF RetryPost, Calm, world, links, timer, lists
<1>3. /\ Only(v) /\ vb'[v] = Freed(Done(vb[v]))
  <2>1. vb' = [vb EXCEPT ![v] = Freed(Done(@))]
    BY DEF RetryPost
  <2> QED
    BY <2>1 DEF Only, Good, TypeOK
<1>4. /\ vb'[v].st = "freed" /\ vb'[v].done = 1 /\ vb'[v].idled = vb[v].idled
      /\ ~vb'[v].evpix /\ vb'[v].evpix = vb[v].evpix /\ vb'[v].handed = vb[v].handed
      /\ ~vb'[v].pixmap /\ ~vb'[v].copied /\ vb'[v].efd = "none"
  <2>1. /\ vb[v].evpix = FALSE /\ vb[v].handed = FALSE /\ vb[v].done = 0
        /\ Done(vb[v]).handed = vb[v].handed /\ Done(vb[v]).done = vb[v].done + 1
        /\ Done(vb[v]).idled = vb[v].idled
    BY <1>1 DEF Vblank, Owed, Done
  <2> DEFINE r == Done(vb[v])
  <2> HIDE DEF r
  <2>2. /\ Freed(r).st = "freed" /\ Freed(r).done = r.done /\ Freed(r).idled = r.idled
        /\ Freed(r).handed = r.handed /\ Freed(r).evpix = FALSE /\ Freed(r).pixmap = FALSE
        /\ Freed(r).copied = FALSE /\ Freed(r).efd = "none"
    BY DEF Freed, Blank
  <2>3. vb'[v] = Freed(r)
    BY <1>3 DEF r
  <2>4. r.done = 1 /\ r.handed = vb[v].handed /\ r.idled = vb[v].idled
    BY <2>1 DEF r
  <2> QED
    BY <2>1, <2>2, <2>3, <2>4
<1>5. PICK at2 \in [Ids -> Places] : Moves(at, at2, v) /\ at2[v] = "none"
  BY Moving DEF Places
<1>6. Stage(vb'[v], at2[v]) /\ Gentle(v)
  BY <1>1, <1>4, <1>5 DEF Stage, Shown, Gentle, Owed
<1>7. OnLists(at2)'
  BY <1>1, <1>2, <1>5, ListsStay DEF Loose, Good, Fits
<1>8. /\ Goes({}) /\ Fns(stack') = Fns(Rest) /\ MayPresent' /\ ~Running("flip_notify")'
      /\ Running("copy")' => "flush_loop" \notin Fns(stack')
  BY <1>1, <1>2, PoppedGoes
<1>9. "flush_blocked" \notin Fns(stack')
  BY <1>1, <1>8, NoStops DEF Timing
<1>10. Rank(at[v]) = 3 /\ Rank(at2[v]) = 3
  BY <1>1, <1>5 DEF Rank
<1>11. OwnMove(at, at2, v, {})
  BY <1>1, <1>2, <1>3, <1>4, <1>5, <1>6, <1>7, <1>8, <1>9, <1>10 DEF OwnMove
<1>12. Fits(at2)'
  BY <1>11, OwnMoveFits
<1> QED
  BY <1>5, <1>12

LEMMA ExecuteFits ==
  ASSUME NEW at, Good(at), TypeOK', Execute
  PROVE  \E at2 \in [Ids -> Places] : Fits(at2)'
<1> SUFFICES ASSUME NEW v \in Ids, v = Top.v PROVE \E at2 \in [Ids -> Places] : Fits(at2)'
  BY Runs DEF Execute, Running, RequestFns
<1> DEFINE f == CallOn("retry", v, 0)
           new == IF Blocked(v) THEN {} ELSE {f}
<1>1. /\ stack # <<>> /\ Top.fn = "execute"
      /\ at[v] \in {"wait", "queue", "none"} /\ vb[v].st = "live" /\ vb[v].due <= 0 /\ Top.lag = 0
  <2>1. stack # <<>> /\ Top.fn = "execute"
    BY DEF Execute, Running
  <2> QED
    BY <2>1, Runs DEF Knows, RequestFns
<1>2. /\ Calm /\ vb' = vb /\ flip_active' = flip_active /\ Unlink(v)
      /\ blocked_queue' = IF Blocked(v) THEN Append(blocked_queue, v) ELSE blocked_queue
  BY DEF Execute, Calm, world, links, timer
<1>3. Blocked(v) => Continue(<<>>)
  BY DEF Execute, If
<1>4. ~Blocked(v) => stack' = <<f>> \o Rest
  BY <1>1 DEF Execute, If, Continue, Rest
<1>5. f \in Frame /\ f.fn = "retry" /\ f.v = v /\ f.lag = 0
  BY <1>1, CallTyped, CallFields DEF RequestFns
<1> HIDE DEF f
<1>6. PICK at2 \in [Ids -> Places] : Moves(at, at2, v) /\ at2[v] = IF Blocked(v) THEN "blocked" ELSE "held"
  <2>0. "blocked" \in Places /\ "held" \in Places
    BY DEF Places
  <2> HIDE DEF new
  <2>1. \E at2 \in [Ids -> Places] : Moves(at, at2, v) /\ at2[v] = "blocked"
    BY <2>0, Moving
  <2>2. \E at2 \in [Ids -> Places] : Moves(at, at2, v) /\ at2[v] = "held"
    BY <2>0, Moving
  <2> QED
    BY <2>1, <2>2
<1>7. ~Blocked(v) => new = {f}
  OBVIOUS
<1>8. Blocked(v) => new = {}
  OBVIOUS
<1> HIDE DEF new
<1>9. Only(v) /\ vb'[v] = vb[v]
  BY <1>2 DEF Only
<1>10. Stage(vb[v], at[v]) /\ vb[v] \in Vblank
  BY <1>1 DEF Good, Fits, Records, TypeOK
<1>11. Blocked(v) => vb[v].pixmap /\ ~vb[v].copied /\ blocking_event # NoId /\ blocking_event # v
  BY DEF Blocked, Presents
<1>12. Stage(vb'[v], at2[v]) /\ Gentle(v)
  BY <1>1, <1>6, <1>9, <1>10, <1>11 DEF Stage, Shown, Gentle
<1>13. OnLists(at2)'
  <2>1. OnLists(at) /\ TypeOK
    BY DEF Good, Fits
  <2>2. at2[v] \in {"held", "blocked"} /\ (at2[v] = "blocked" <=> Blocked(v))
    BY <1>6
  <2>3. blocked_queue' = IF at2[v] = "blocked" THEN Append(blocked_queue, v) ELSE blocked_queue
    BY <2>2, <1>2
  <2> QED
    BY <1>1, <1>2, <1>6, <2>1, <2>2, <2>3, ListsUnlink
<1>14. /\ Goes(new) /\ Fns(stack') \subseteq {"retry"} \cup Fns(Rest)
       /\ ~Running("flip_notify")' /\ (Running("copy")' => "flush_loop" \notin Fns(stack'))
       /\ (~Blocked(v) => Head(stack') = f) /\ (Blocked(v) => ~Running("retry")')
  <2>1. CASE Blocked(v)
    <3>1. /\ stack' = Rest /\ Goes({}) /\ (\A fn \in Tops : ~Running(fn)')
          /\ Running("copy")' => "flush_loop" \notin Fns(stack')
      BY <2>1, <1>1, <1>3, GoesPopped
    <3> QED
      BY <3>1, <2>1, <1>8 DEF Tops
  <2>2. CASE ~Blocked(v)
    <3>1. OnTop(f, Rest)
      BY <1>1, <1>5, SameCall
    <3>2. /\ Goes({f}) /\ (\A fn : Running(fn)' <=> f.fn = fn) /\ Head(stack') = f
          /\ Fns(stack') = {f.fn} \cup Fns(Rest)
      BY <1>1, <1>4, <1>5, <2>2, <3>1, OneMade
    <3> QED
      BY <3>2, <2>2, <1>5, <1>7
  <2> QED
    BY <2>1, <2>2
<1>15. (\A g \in new : g.fn \in Moderate) /\ (\A g \in new : Knows(g, at2[g.v], vb'[g.v]))
  <2>1. CASE Blocked(v)
    BY <2>1, <1>8
  <2>2. CASE ~Blocked(v)
    BY <2>2, <1>1, <1>5, <1>6, <1>7, <1>9 DEF Knows, Owners, Moderate
  <2> QED
    BY <2>1, <2>2
<1>16. at2[v] \in {"none", "held", "flipping"} => \E g \in new : Attends(g, v, at2[v])
  BY <1>5, <1>6, <1>7 DEF Attends, Owners
<1>17. MayPresent'
  <2> SUFFICES ASSUME Running("retry")', Presents(Top.v)' PROVE blocking_event' \in {NoId, Top.v'}
    BY DEF MayPresent
  <2>1. ~Blocked(v) /\ Top.v' = v
    BY <1>5, <1>14 DEF Top
  <2>2. Presents(v)
    BY <2>1, <1>2 DEF Presents
  <2> QED
    BY <2>1, <2>2, <1>2 DEF Blocked, Calm
<1>18. "flush_blocked" \notin Fns(stack')
  BY <1>1, <1>14, NoStops DEF Timing
<1>19. blocking_event = v => vb'[v].pixmap /\ Blocks(v, at2)'
  <2> SUFFICES ASSUME blocking_event = v PROVE vb'[v].pixmap /\ Blocks(v, at2)'
    OBVIOUS
  <2>1. vb[v].pixmap /\ ~vb[v].copied
    BY <1>1, BlockerIs, IdsNat DEF Timing
  <2>2. at2[v] = "held"
    BY <1>6, <1>11
  <2> QED
    BY <2>1, <2>2, <1>1, <1>9 DEF Blocks, Live
<1>20. vb'[v].copied /\ HasSyncobj(v) => acq[v] = "sig"
  BY <1>1, <1>9 DEF Good, Fits, Arguments
<1>21. Rank(at[v]) = 3 /\ Rank(at2[v]) = 3 /\ at[v] # "fence"
  BY <1>1, <1>6 DEF Rank
<1>22. wait_list' # <<>> => wait_list # <<>>
  <2>1. wait_list = <<>> => wait_list' = <<>>
    BY <1>2, HasNone DEF Unlink, Without
  <2> QED
    BY <2>1
<1>23. blocking_event = NoId => blocked_queue' = blocked_queue
  BY <1>2, <1>11
<1>24. OwnMove(at, at2, v, new)
  BY <1>1, <1>2, <1>6, <1>9, <1>12, <1>13, <1>14, <1>15, <1>16, <1>17, <1>18, <1>19, <1>20, <1>21,
     <1>22, <1>23 DEF OwnMove
<1>25. Fits(at2)'
  BY <1>1, <1>24, OwnMoveFits
<1> QED
  BY <1>6, <1>25

LEMMA RetryWaitFits ==
  ASSUME NEW at, Good(at), TypeOK', NEW v \in Ids, RetryWait(v)
  PROVE  \E at2 \in [Ids -> Places] : Fits(at2)'
<1> DEFINE f == CallOn("block", v, 0)
<1>1. /\ stack # <<>> /\ Top.fn = "retry" /\ Top.v = v /\ Top.lag = 0
      /\ at[v] = "held" /\ vb[v].st = "live" /\ Unready(v) /\ ~Requeues(v, Top.lag)
      /\ vb[v] \in Vblank /\ Owed(vb[v]) /\ vb[v].idled <= 1 /\ vb[v].efd = "none"
      /\ req[v].sync # "fence" /\ (vb[v].copied /\ HasSyncobj(v) => acq[v] = "sig")
      /\ blocking_event = v => Presents(v)
  <2>1. Retrying(v) /\ MustWait(v, Top.lag)
    BY DEF RetryWait
  <2>2. Top.lag = 0 /\ vb[v].due <= 0 /\ vb[v] \in Vblank
    BY <2>1, RetryKnows
  <2>3. ~Requeues(v, Top.lag)
    BY <2>2 DEF Requeues, Ahead, Vblank
  <2> QED
    BY <2>1, <2>3, RetryKnows
<1>2. HasSyncobj(v) /\ ~vb[v].copied
  <2>1. HasSyncobj(v) /\ (vb[v].flip \/ acq[v] # "sig")
    BY <1>1 DEF Unready, HasSyncobj
  <2> QED
    BY <1>1, <2>1 DEF Owed
<1>3. /\ Calm /\ UNCHANGED <<lists, flip_active>> /\ wait_list' = wait_list /\ blocked_queue' = blocked_queue
      /\ Continue(<<CallOn("block", v, Top.lag)>>) /\ vb' = [vb EXCEPT ![v] = Waiting(@, v)]
  BY <1>1 DEF RetryWait, Calm, world, links, timer, lists, Wait
<1>4. Only(v) /\ vb'[v] = Waiting(vb[v], v)
  BY <1>3 DEF Only, Good, TypeOK
<1>5. /\ vb'[v].st = "live" /\ vb'[v].pixmap = vb[v].pixmap /\ vb'[v].copied = vb[v].copied
      /\ vb'[v].evpix = vb[v].evpix /\ vb'[v].handed = vb[v].handed /\ vb'[v].done = vb[v].done
      /\ vb'[v].idled = vb[v].idled /\ vb'[v].efd # "none" /\ vb'[v].flip = vb[v].flip
      /\ vb'[v].queued = vb[v].queued
  BY <1>1, <1>2, <1>4 DEF Vblank, Waiting
<1>6. PICK at2 \in [Ids -> Places] : Moves(at, at2, v) /\ at2[v] = "fence"
  <2>1. "fence" \in Places
    BY DEF Places
  <2> QED
    BY <2>1, Moving
<1>7. Stage(vb'[v], at2[v]) /\ Gentle(v)
  BY <1>1, <1>5, <1>6 DEF Stage, Shown, Owed, Gentle
<1>8. f \in Frame /\ f.fn = "block" /\ f.v = v /\ f.lag = 0
  BY <1>1, CallTyped, CallFields DEF RequestFns
<1>9. stack' = <<f>> \o Rest
  BY <1>1, <1>3 DEF Continue, Rest
<1> HIDE DEF f
<1>10. OnTop(f, Rest)
  BY <1>1, <1>8, PlainCall DEF Plain, Timing
<1>11. /\ Goes({f}) /\ (\A fn : Running(fn)' <=> f.fn = fn)
       /\ Fns(stack') = {f.fn} \cup Fns(Rest)
  BY <1>1, <1>8, <1>9, <1>10, OneMade
<1>12. Rank(at[v]) = 3 /\ Rank(at2[v]) = 3 /\ at[v] # "fence"
  BY <1>1, <1>6 DEF Rank
<1>13. OnLists(at2)'
  BY <1>1, <1>3, <1>6, ListsStay DEF Loose, Good, Fits
<1>14. (\A g \in {f} : g.fn \in Moderate) /\ (\A g \in {f} : Knows(g, at2[g.v], vb'[g.v]))
  BY <1>1, <1>2, <1>5, <1>6, <1>8 DEF Knows, Owners, Moderate
<1>15. "flush_blocked" \notin Fns(stack') /\ ~Running("flip_notify")' /\ ~Running("copy")' /\ MayPresent'
  BY <1>1, <1>8, <1>11, NoStops DEF Timing, MayPresent
<1>16. blocking_event = v => vb'[v].pixmap /\ Blocks(v, at2)'
  BY <1>1, <1>5, <1>6 DEF Blocks, Live, Presents
<1>17. OwnMove(at, at2, v, {f})
  BY <1>1, <1>2, <1>3, <1>4, <1>5, <1>6, <1>7, <1>11, <1>12, <1>13, <1>14, <1>15, <1>16 DEF OwnMove
<1>18. Fits(at2)'
  BY <1>17, OwnMoveFits
<1> QED
  BY <1>6, <1>18

\* xwl_present_queue_vblank resets the timer, unless that is set or will be reset.
LEMMA QueueTimer ==
  ASSUME NEW at, Good(at), stack # <<>>, Top.fn # "reset_timer", ~(frame_callback \/ frame_timer = "none")
  PROVE  frame_timer = "set" \/ "reset_timer" \in Fns(Rest)
<1>1. frame_timer \in {"none", "set", "fired"} /\ Timely
  BY DEF Good, Fits, TypeOK
<1>2. Fns(stack) = {Top.fn} \cup Fns(Rest)
  BY Runs
<1> QED
  BY <1>1, <1>2 DEF Timely

\* Its calls, alone and before another.
LEMMA ResetAlone ==
  ASSUME NEW at, Good(at), stack # <<>>, Top.fn \notin Timing, Continue(QueueResets)
  PROVE  \E new : /\ Goes(new) /\ new \subseteq {Call("reset_timer")}
                  /\ ~Running("flip_notify")' /\ MayPresent'
                  /\ Running("copy")' => "flush_loop" \notin Fns(stack')
                  /\ frame_timer = "set" \/ "reset_timer" \in Fns(stack')
<1> DEFINE r == Call("reset_timer")
<1>1. r \in Frame /\ r.fn = "reset_timer"
  BY CallTyped, CallFields DEF WindowFns
<1>2. CASE frame_callback \/ frame_timer = "none"
  <2>1. stack' = <<r>> \o Rest
    BY <1>2 DEF QueueResets, If, Continue, Rest
  <2> HIDE DEF r
  <2>2. OnTop(r, Rest)
    BY <1>1, PlainCall DEF Plain
  <2>3. /\ Goes({r}) /\ (\A fn : Running(fn)' <=> r.fn = fn)
        /\ Fns(stack') = {r.fn} \cup Fns(Rest)
    BY <1>1, <2>1, <2>2, OneMade
  <2>4. ~Running("flip_notify")' /\ ~Running("copy")' /\ MayPresent' /\ "reset_timer" \in Fns(stack')
    BY <1>1, <2>3 DEF MayPresent
  <2> QED
    BY <2>3, <2>4 DEF r
<1>3. CASE ~(frame_callback \/ frame_timer = "none")
  <2>1. Continue(<<>>)
    BY <1>3 DEF QueueResets, If
  <2>2. /\ Goes({}) /\ stack' = Rest /\ Fns(stack') = Fns(Rest)
        /\ MayPresent' /\ ~Running("flip_notify")'
        /\ Running("copy")' => "flush_loop" \notin Fns(stack')
    BY <2>1, PoppedGoes
  <2>3. frame_timer = "set" \/ "reset_timer" \in Fns(Rest)
    BY <1>3, QueueTimer DEF Timing
  <2> QED
    BY <2>2, <2>3
<1> QED
  BY <1>2, <1>3

LEMMA ResetBefore ==
  ASSUME NEW at, Good(at), stack # <<>>, Top.fn \notin Timing,
         NEW b \in Frame, b.fn \in {"block", "flush_blocked"}, OnTop(b, Rest),
         \A g \in Elements(Rest) : Buried(b, g), Continue(QueueResets \o <<b>>)
  PROVE  \E new : /\ Goes(new) /\ b \in new /\ new \subseteq {b, Call("reset_timer")}
                  /\ ~Running("flip_notify")' /\ MayPresent' /\ ~Running("copy")'
                  /\ frame_timer = "set" \/ "reset_timer" \in Fns(stack')
                  /\ Fns(stack') \subseteq {b.fn, "reset_timer"} \cup Fns(Rest) /\ b.fn \in Fns(stack')
<1> DEFINE r == Call("reset_timer")
<1>1. r \in Frame /\ r.fn = "reset_timer" /\ r.v = NoId
  BY CallTyped, CallFields DEF WindowFns
<1>2. CASE frame_callback \/ frame_timer = "none"
  <2>1. stack' = (<<r>> \o <<b>>) \o Rest
    BY <1>2 DEF QueueResets, If, Continue, Rest
  <2> HIDE DEF r
  <2>2. stack' = <<r>> \o (<<b>> \o Rest)
    BY <1>1, <2>1, Runs, Frames
  <2>3. OnTop(r, Rest)
    BY <1>1, PlainCall DEF Plain
  <2>4. Stacked(r, b)
    BY <1>1 DEF Stacked, Tops, Sealed, Timing, Bumps, Owners, Stops
  <2>5. /\ Goes({r, b}) /\ (\A fn : Running(fn)' <=> r.fn = fn)
        /\ Fns(stack') = {r.fn, b.fn} \cup Fns(Rest)
    BY <1>1, <2>2, <2>3, <2>4, TwoMade
  <2>6. ~Running("flip_notify")' /\ ~Running("copy")' /\ MayPresent' /\ "reset_timer" \in Fns(stack')
    BY <1>1, <2>5 DEF MayPresent
  <2>7. b \in {r, b} /\ {r, b} \subseteq {b, r}
    OBVIOUS
  <2>8. Fns(stack') \subseteq {b.fn, "reset_timer"} \cup Fns(Rest) /\ b.fn \in Fns(stack')
    BY <1>1, <2>5
  <2> QED
    BY <2>5, <2>6, <2>7, <2>8 DEF r
<1>3. CASE ~(frame_callback \/ frame_timer = "none")
  <2>1. stack' = <<b>> \o Rest
    <3>1. stack' = (<<>> \o <<b>>) \o Rest
      BY <1>3 DEF QueueResets, If, Continue, Rest
    <3> QED
      BY <3>1, Runs, Frames
  <2>2. /\ Goes({b}) /\ (\A fn : Running(fn)' <=> b.fn = fn)
        /\ Fns(stack') = {b.fn} \cup Fns(Rest)
    BY <2>1, OneMade
  <2>3. frame_timer = "set" \/ "reset_timer" \in Fns(Rest)
    BY <1>3, QueueTimer DEF Timing
  <2>4. ~Running("flip_notify")' /\ ~Running("copy")' /\ MayPresent'
    BY <2>2 DEF MayPresent
  <2>5. b \in {b} /\ {b} \subseteq {b, r}
    OBVIOUS
  <2>6. Fns(stack') \subseteq {b.fn, "reset_timer"} \cup Fns(Rest) /\ b.fn \in Fns(stack')
    BY <2>2
  <2> QED
    BY <2>2, <2>3, <2>4, <2>5, <2>6
<1> QED
  BY <1>2, <1>3

LEMMA CopyFits ==
  ASSUME NEW at, Good(at), TypeOK', Copy
  PROVE  \E at2 \in [Ids -> Places] : Fits(at2)'
<1> SUFFICES ASSUME NEW v \in Ids, v = Top.v PROVE \E at2 \in [Ids -> Places] : Fits(at2)'
  BY Runs DEF Copy, Running, RequestFns
<1> DEFINE b == CallOn("flush_blocked", NoId, 0)
           rec == [vb[v] EXCEPT !.idled = vb[v].idled + 1, !.queued = FALSE, !.copied = TRUE, !.due = Due(1)]
<1>1. /\ stack # <<>> /\ Top.fn = "copy" /\ Top.lag = 0
      /\ at[v] = "held" /\ vb[v].st = "live" /\ vb[v].due <= 0 /\ vb[v].pixmap /\ ~vb[v].copied
      /\ ~vb[v].flip /\ ~vb[v].queued
  <2>1. stack # <<>> /\ Top.fn = "copy"
    BY DEF Copy, Running
  <2> QED
    BY <2>1, Runs DEF Knows, RequestFns, Owners
<1>2. vb[v] \in Vblank /\ Owed(vb[v]) /\ vb[v].efd = "none"
  <2>1. Stage(vb[v], at[v]) /\ vb[v] \in Vblank
    BY DEF Good, Fits, Records, TypeOK
  <2> QED
    BY <2>1, <1>1 DEF Stage, Shown, Vblank
<1>3. /\ Calm /\ blocked_queue' = blocked_queue /\ flip_active' = flip_active
      /\ QueueVblank(v, rec) /\ Continue(QueueResets \o <<b>>)
  <2>1. ~Requeues(v, Top.lag) /\ 1 - Top.lag = 1
    BY <1>1, <1>2 DEF Requeues, Ahead, Vblank
  <2> QED
    BY <2>1, <1>1 DEF Copy, Calm, world, links, timer
<1>4. Only(v) /\ vb'[v] = rec
  BY <1>3 DEF Only, QueueVblank, Good, TypeOK
<1>5. /\ vb'[v].st = "live" /\ vb'[v].pixmap = vb[v].pixmap /\ vb'[v].copied /\ ~vb'[v].queued
      /\ vb'[v].evpix = vb[v].evpix /\ vb'[v].handed = vb[v].handed /\ vb'[v].done = vb[v].done
      /\ vb'[v].idled = 1 /\ vb'[v].efd = "none" /\ ~vb'[v].flip
  <2>1. vb[v].idled = 0 /\ vb[v] \in Vblank
    BY <1>1, <1>2 DEF Owed
  <2>2. /\ rec.st = vb[v].st /\ rec.pixmap = vb[v].pixmap /\ rec.copied = TRUE /\ rec.queued = FALSE
        /\ rec.evpix = vb[v].evpix /\ rec.handed = vb[v].handed /\ rec.done = vb[v].done
        /\ rec.idled = vb[v].idled + 1 /\ rec.efd = vb[v].efd /\ rec.flip = vb[v].flip
    BY <2>1 DEF Vblank
  <2> HIDE DEF rec
  <2>3. rec.idled = 1
    BY <2>1, <2>2
  <2>4. vb'[v] = rec
    BY <1>4
  <2>5. /\ rec.st = "live" /\ rec.copied /\ ~rec.queued /\ rec.efd = "none" /\ ~rec.flip
    BY <2>2, <1>1, <1>2
  <2> QED
    BY <2>2, <2>3, <2>4, <2>5
<1> HIDE DEF rec
<1>6. PICK at2 \in [Ids -> Places] : Moves(at, at2, v) /\ at2[v] = "wait"
  <2>1. "wait" \in Places
    BY DEF Places
  <2> QED
    BY <2>1, Moving
<1>7. Stage(vb'[v], at2[v]) /\ Gentle(v)
  BY <1>1, <1>2, <1>5, <1>6 DEF Stage, Shown, Owed, Gentle
<1>8. b \in Frame /\ b.fn = "flush_blocked" /\ b.v = NoId /\ b.lag = 0
  BY CallTyped, CallFields DEF WindowFns
<1> HIDE DEF b
<1>9. OnTop(b, Rest) /\ \A g \in Elements(Rest) : Buried(b, g)
  BY <1>1, <1>8, PlainCall DEF Plain, Timing, Buried
<1>10. PICK new : /\ Goes(new) /\ b \in new /\ new \subseteq {b, Call("reset_timer")}
                  /\ ~Running("flip_notify")' /\ MayPresent' /\ ~Running("copy")'
                  /\ frame_timer = "set" \/ "reset_timer" \in Fns(stack')
                  /\ Fns(stack') \subseteq {b.fn, "reset_timer"} \cup Fns(Rest) /\ b.fn \in Fns(stack')
  BY <1>1, <1>3, <1>8, <1>9, ResetBefore DEF Timing
<1>11. Rank(at[v]) = 3 /\ Rank(at2[v]) = 3 /\ at[v] # "fence"
  BY <1>1, <1>6 DEF Rank
<1>12. OnLists(at2)'
  <2>1. at[v] # "blocked" /\ blocked_queue' = IF at[v] = "blocked" THEN Without(blocked_queue, v) ELSE blocked_queue
    BY <1>1, <1>3
  <2> QED
    BY <1>1, <1>3, <1>6, <2>1, ListsQueue DEF Good, Fits
<1>13. (\A g \in new : g.fn \in Moderate) /\ (\A g \in new : Knows(g, at2[g.v], vb'[g.v]))
  <2> SUFFICES ASSUME NEW g \in new PROVE g.fn \in Moderate /\ Knows(g, at2[g.v], vb'[g.v])
    OBVIOUS
  <2>1. g.fn \in {"flush_blocked", "reset_timer"} /\ (g.fn = "flush_blocked" => g.lag = 0)
    BY <1>8, <1>10, CallFields
  <2> QED
    BY <2>1 DEF Knows, Owners, Moderate, RequestFns
<1>14. Settles(at) /\ ("flush_loop" \in Fns(stack) => blocking_event = NoId)
  <2>1. "copy" \in Fns(stack) /\ Fns(stack) \cap Stops = {}
    BY <1>1, NoStops, Runs DEF Timing, Stops
  <2> QED
    BY <2>1, <1>1 DEF Good, Fits, Relies, FlushesSettled, Flushing, Running
<1>15. HasSyncobj(v) => acq[v] = "sig"
  BY <1>1, Runs DEF Good, Fits, Relies, Acquired
<1>16. OwnMove(at, at2, v, new)
  BY <1>1, <1>3, <1>4, <1>5, <1>6, <1>7, <1>8, <1>10, <1>11, <1>12, <1>13, <1>14, <1>15 DEF OwnMove
<1>17. Fits(at2)'
  BY <1>16, OwnMoveFits
<1> QED
  BY <1>6, <1>17

LEMMA SameLists ==
  ASSUME NEW at, OnLists(at), UNCHANGED <<lists, flip_active>>
  PROVE  OnLists(at)'
BY DEF OnLists, lists

LEMMA ReExecuteFits ==
  ASSUME NEW at, Good(at), TypeOK', ReExecute
  PROVE  \E at2 \in [Ids -> Places] : Fits(at2)'
<1> SUFFICES ASSUME NEW v \in Ids, v = Top.v PROVE \E at2 \in [Ids -> Places] : Fits(at2)'
  BY Runs DEF ReExecute, Running, RequestFns
<1>1. /\ stack # <<>> /\ Top.fn = "re_execute"
      /\ at[v] \in {"queue", "none"} /\ vb[v].st = "live"
  <2>1. stack # <<>> /\ Top.fn = "re_execute"
    BY DEF ReExecute, Running
  <2> QED
    BY <2>1, Runs DEF Knows, RequestFns
<1>2. Calm /\ blocked_queue' = blocked_queue /\ flip_active' = flip_active /\ idle_queue' \in Seq(Ids)
  BY DEF ReExecute, Calm, world, links, timer, TypeOK
<1>3. PICK ahead \in TargetAhead(req[v]) :
        LET rec == [vb[v] EXCEPT !.due = ExecDue(req[v], ahead), !.queued = TRUE]
        IN IF rec.due > 0
           THEN QueueVblank(v, rec) /\ Continue(QueueResets)
           ELSE /\ vb' = [vb EXCEPT ![v] = rec]
                /\ Continue(<<CallOn("execute", v, 0)>>)
                /\ UNCHANGED <<wait_list, flip_queue, idle_queue, hooked>>
  BY DEF ReExecute
<1> DEFINE rec == [vb[v] EXCEPT !.due = ExecDue(req[v], ahead), !.queued = TRUE]
<1>4. vb[v] \in Vblank /\ Stage(vb[v], at[v])
  BY DEF Good, Fits, Records, TypeOK
<1>5. /\ rec.st = vb[v].st /\ rec.pixmap = vb[v].pixmap /\ rec.copied = vb[v].copied /\ rec.queued = TRUE
      /\ rec.evpix = vb[v].evpix /\ rec.handed = vb[v].handed /\ rec.done = vb[v].done
      /\ rec.idled = vb[v].idled /\ rec.efd = vb[v].efd /\ rec.flip = vb[v].flip
  BY <1>4 DEF Vblank
<1>6. \/ rec.due > 0 /\ QueueVblank(v, rec) /\ Continue(QueueResets)
      \/ /\ ~(rec.due > 0) /\ vb' = [vb EXCEPT ![v] = rec]
         /\ Continue(<<CallOn("execute", v, 0)>>)
         /\ UNCHANGED <<wait_list, flip_queue, idle_queue, hooked>>
  BY <1>3
<1> HIDE DEF rec
<1>7. Only(v) /\ vb'[v] = rec
  <2>1. vb' = [vb EXCEPT ![v] = rec]
    BY <1>6 DEF QueueVblank
  <2> QED
    BY <2>1, OneRecord DEF Good
<1>8. rec \in Vblank
  BY <1>7 DEF TypeOK
<1>9. Gentle(v) /\ \A p : Rank(p) = 3 /\ (p = "wait" \/ p = at[v]) => Stage(vb'[v], p)
  BY <1>1, <1>4, <1>5, <1>7, RankThree DEF Gentle, Stage, Owed, Shown
<1>10. Rank(at[v]) = 3 /\ Rank("wait") = 3 /\ at[v] # "fence"
  BY <1>1 DEF Rank
<1>11. blocking_event = v => vb'[v].pixmap /\ ~vb'[v].copied
  BY <1>1, <1>5, <1>7, BlockerIs, IdsNat DEF Timing
<1>12. vb'[v].copied /\ HasSyncobj(v) => acq[v] = "sig"
  BY <1>1, <1>5, <1>7 DEF Good, Fits, Arguments
<1>13. CASE rec.due > 0
  <2>1. QueueVblank(v, rec) /\ Continue(QueueResets)
    BY <1>6, <1>13
  <2>2. PICK at2 \in [Ids -> Places] : Moves(at, at2, v) /\ at2[v] = "wait"
    <3>1. "wait" \in Places
      BY DEF Places
    <3> QED
      BY <3>1, Moving
  <2>3. PICK new : /\ Goes(new) /\ new \subseteq {Call("reset_timer")}
                   /\ ~Running("flip_notify")' /\ MayPresent'
                   /\ Running("copy")' => "flush_loop" \notin Fns(stack')
                   /\ frame_timer = "set" \/ "reset_timer" \in Fns(stack')
    BY <1>1, <2>1, ResetAlone DEF Timing
  <2>4. OnLists(at2)'
    <3>1. at[v] # "blocked" /\ blocked_queue' = IF at[v] = "blocked" THEN Without(blocked_queue, v) ELSE blocked_queue
      BY <1>1, <1>2
    <3> QED
      BY <1>1, <1>2, <2>1, <2>2, <3>1, ListsQueue DEF Good, Fits
  <2>5. /\ (\A g \in new : g.fn \in Moderate) /\ (\A g \in new : Knows(g, at2[g.v], vb'[g.v]))
        /\ "flush_blocked" \notin Fns(stack')
    <3>1. \A g \in new : g.fn = "reset_timer"
      BY <2>3, CallFields
    <3>2. Fns(stack') = {g.fn : g \in new} \cup Fns(Rest)
      BY <2>3, GoesFns
    <3>3. "flush_blocked" \notin Fns(Rest)
      BY <1>1, NoStops DEF Timing
    <3> QED
      BY <3>1, <3>2, <3>3 DEF Knows, Owners, Moderate, RequestFns
  <2>6. blocking_event = v => Blocks(v, at2)'
    BY <1>1, <1>5, <1>7, <1>11, <2>2 DEF Blocks, Live
  <2>7. OwnMove(at, at2, v, new)
    BY <1>1, <1>2, <1>7, <1>9, <1>10, <1>11, <1>12, <2>2, <2>3, <2>4, <2>5, <2>6 DEF OwnMove
  <2>8. Fits(at2)'
    BY <2>7, OwnMoveFits
  <2> QED
    BY <2>2, <2>8
<1>14. CASE ~(rec.due > 0)
  <2> DEFINE f == CallOn("execute", v, 0)
  <2>1. Continue(<<f>>) /\ UNCHANGED <<lists, flip_active>> /\ wait_list' = wait_list
    BY <1>2, <1>6, <1>14 DEF lists
  <2>2. f \in Frame /\ f.fn = "execute" /\ f.v = v /\ f.lag = 0
    BY <1>1, CallTyped, CallFields DEF RequestFns
  <2>3. stack' = <<f>> \o Rest
    BY <2>1 DEF Continue, Rest
  <2> HIDE DEF f
  <2>4. OnTop(f, Rest)
    BY <1>1, <2>2, SameCall
  <2>5. /\ Goes({f}) /\ (\A fn : Running(fn)' <=> f.fn = fn)
        /\ Fns(stack') = {f.fn} \cup Fns(Rest)
    BY <1>1, <2>2, <2>3, <2>4, OneMade
  <2>6. rec.due <= 0
    BY <1>8, <1>14 DEF Vblank
  <2>7. (\A g \in {f} : g.fn \in Moderate) /\ (\A g \in {f} : Knows(g, at[g.v], vb'[g.v]))
    BY <1>1, <1>5, <1>7, <2>2, <2>6 DEF Knows, Owners, Moderate
  <2>8. at[v] \in {"none", "held", "flipping"} => \E g \in {f} : Attends(g, v, at[v])
    BY <1>1, <2>2 DEF Attends
  <2>9. "flush_blocked" \notin Fns(stack') /\ ~Running("flip_notify")' /\ ~Running("copy")' /\ MayPresent'
    BY <1>1, <2>2, <2>5, NoStops DEF Timing, MayPresent
  <2>10. blocking_event = v => Blocks(v, at)'
    BY <1>1, <1>5, <1>7, <1>11 DEF Blocks, Live
  <2>11. Moves(at, at, v)
    BY DEF Moves
  <2>12. OnLists(at)'
    BY <2>1, SameLists DEF Good, Fits
  <2>13. OwnMove(at, at, v, {f})
    BY <1>1, <1>2, <1>7, <1>9, <1>10, <1>11, <1>12, <2>1, <2>5, <2>7, <2>8, <2>9, <2>10, <2>11, <2>12 DEF OwnMove
  <2>14. Fits(at)'
    BY <2>13, OwnMoveFits
  <2> QED
    BY <2>14 DEF Good
<1> QED
  BY <1>13, <1>14

LEMMA RestKnowsOther ==
  ASSUME NEW at, Good(at), stack # <<>>, Top.fn \notin Timing, NEW at2, NEW v \in Ids,
         Moves(at, at2, v), Only(v), at[v] \notin {"wait", "held", "blocked"}
  PROVE  \A f \in Elements(Rest) : Knows(f, at2[f.v], vb'[f.v])
<1>1. \A u \in Ids : at[u] \in {"wait", "held", "blocked"} /\ u \notin {v} => at2[u] = at[u] /\ vb'[u] = vb[u]
  BY DEF Moves, Only
<1>2. \A f \in Elements(Rest) : f.fn \in RequestFns => f.v \notin {v}
  BY RestPlaces
<1> QED
  BY <1>1, <1>2, RestKnows

\* A step that moves a request of which another call knows.
OtherMove(at, at2, v, new) ==
  /\ stack # <<>> /\ Top.fn \in {"re_execute", "execute", "retry", "append_flip", "copy"}
  /\ Moves(at, at2, v) /\ Only(v) /\ Gentle(v)
  /\ Rank(at[v]) = 3 /\ Rank(at2[v]) = 3 /\ at[v] \notin {"fence", "wait", "held", "blocked"} /\ vb[v].st # "new"
  /\ OnLists(at2)' /\ Stage(vb'[v], at2[v]) /\ ~vb'[v].copied
  /\ Goes(new) /\ (\A f \in new : f.fn \in Moderate) /\ (\A f \in new : Knows(f, at2[f.v], vb'[f.v]))
  /\ Attended(at2)' /\ Calm /\ MayPresent' /\ ~Running("flip_notify")' /\ ~Running("copy")'
  /\ "flush_blocked" \notin Fns(stack') /\ blocked_queue' = blocked_queue /\ blocking_event # v
  /\ wait_list' = wait_list
LEMMA OtherMoveFits ==
  ASSUME NEW at, Good(at), TypeOK', NEW at2, NEW v \in Ids, NEW new, OtherMove(at, at2, v, new)
  PROVE  Fits(at2)'
<1>1. \A f \in Elements(Rest) : Knows(f, at2[f.v], vb'[f.v])
  BY RestKnowsOther DEF OtherMove, Timing
<1>2. \A f \in new : /\ f.fn \in {"retry", "append_flip", "re_execute", "execute", "block",
                                    "reset_timer", "flush_blocked"}
                     /\ Knows(f, at2[f.v], vb'[f.v])
  BY DEF Moderate, OtherMove
<1> QED
  BY <1>1, <1>2, MoveFits DEF OtherMove

LEMMA RetryQueueFlipFits ==
  ASSUME NEW at, Good(at), TypeOK', NEW v \in Ids, RetryQueueFlip(v)
  PROVE  \E at2 \in [Ids -> Places] : Fits(at2)'
<1> DEFINE f == CallOn("append_flip", v, 0)
<1>1. /\ stack # <<>> /\ Top.fn = "retry" /\ Top.v = v /\ Top.lag = 0
      /\ at[v] = "held" /\ vb[v].st = "live" /\ vb[v].pixmap /\ vb[v].flip /\ PendingFlip # NoId
      /\ vb[v] \in Vblank /\ Owed(vb[v]) /\ vb[v].idled <= 1
      /\ (vb[v].copied /\ HasSyncobj(v) => acq[v] = "sig")
      /\ Presents(v) => blocking_event \in {NoId, v}
      /\ blocking_event = v => Presents(v)
  <2>1. Retrying(v) /\ Queues(v)
    BY DEF RetryQueueFlip, Ready
  <2> QED
    BY <2>1, RetryKnows DEF Queues
<1>2. vb[v].queued /\ ~vb[v].copied /\ blocking_event \in {NoId, v}
  BY <1>1 DEF Owed, Presents
<1>3. /\ Calm /\ UNCHANGED <<wait_list, idle_queue, blocked_queue, flip_active>>
  BY DEF RetryQueueFlip, Calm, world, links, timer
<1>4. f \in Frame /\ f.fn = "append_flip" /\ f.v = v /\ f.lag = 0 /\ f = CallOn("append_flip", v, Top.lag)
  BY <1>1, CallTyped, CallFields DEF RequestFns
<1> HIDE DEF f
<1>5. OnTop(f, Rest)
  BY <1>1, <1>4, SameCall
<1>6. \/ /\ flip_queue' = flip_queue /\ vb' = vb /\ Continue(<<>> \o <<f>>)
      \/ \E last \in {flip_queue[Len(flip_queue)]} :
           /\ last # PendingFlip /\ flip_queue' = Without(flip_queue, last)
           /\ vb' = [vb EXCEPT ![last] = [Idled(@) EXCEPT !.pixmap = FALSE, !.flip = FALSE]]
           /\ Continue(<<CallOn("re_execute", last, 0)>> \o <<f>>)
  BY <1>4 DEF RetryQueueFlip, If
<1>7. CASE flip_queue' = flip_queue /\ vb' = vb /\ Continue(<<>> \o <<f>>)
  <2>1. stack' = <<f>> \o Rest
    <3>1. stack' = (<<>> \o <<f>>) \o Rest
      BY <1>7 DEF Continue, Rest
    <3> QED
      BY <3>1, <1>1, <1>4, Runs, Frames
  <2>2. /\ Goes({f}) /\ (\A fn : Running(fn)' <=> f.fn = fn)
        /\ Fns(stack') = {f.fn} \cup Fns(Rest)
    BY <1>1, <1>4, <1>5, <2>1, OneMade
  <2>3. Only(v) /\ vb'[v] = vb[v] /\ Moves(at, at, v) /\ Gentle(v)
    BY <1>7 DEF Only, Moves, Gentle
  <2>4. Stage(vb'[v], at[v]) /\ OnLists(at)'
    BY <1>3, <1>7, SameLists DEF Good, Fits, Records, lists
  <2>5. (\A g \in {f} : g.fn \in Moderate) /\ (\A g \in {f} : Knows(g, at[g.v], vb'[g.v]))
    BY <1>1, <1>2, <1>4, <2>3 DEF Knows, Owners, Moderate
  <2>6. \E g \in {f} : Attends(g, v, at[v])
    BY <1>1, <1>4 DEF Attends, Owners
  <2>7. "flush_blocked" \notin Fns(stack') /\ ~Running("flip_notify")' /\ ~Running("copy")' /\ MayPresent'
    BY <1>1, <1>4, <2>2, NoStops DEF Timing, MayPresent
  <2>8. blocking_event = v => vb'[v].pixmap /\ Blocks(v, at)'
    BY <1>1, <1>2, <2>3 DEF Blocks, Live
  <2>9. Rank(at[v]) = 3 /\ at[v] # "fence" /\ vb[v].st # "new"
    BY <1>1 DEF Rank
  <2>10. vb'[v].copied /\ HasSyncobj(v) => acq[v] = "sig"
    BY <1>1, <2>3
  <2>11. OwnMove(at, at, v, {f})
    BY <1>1, <1>3, <2>2, <2>3, <2>4, <2>5, <2>6, <2>7, <2>8, <2>9, <2>10 DEF OwnMove
  <2>12. Fits(at)'
    BY <2>11, OwnMoveFits
  <2> QED
    BY <2>12 DEF Good
<1>8. ASSUME NEW last \in {flip_queue[Len(flip_queue)]},
             last # PendingFlip, flip_queue' = Without(flip_queue, last),
             vb' = [vb EXCEPT ![last] = [Idled(@) EXCEPT !.pixmap = FALSE, !.flip = FALSE]],
             Continue(<<CallOn("re_execute", last, 0)>> \o <<f>>)
      PROVE  \E at2 \in [Ids -> Places] : Fits(at2)'
  <2> DEFINE g == CallOn("re_execute", last, 0)
  <2>1. last \in Ids /\ at[last] = "queue" /\ last # v /\ vb[last].st = "live"
    <3>1. flip_queue \in Seq(Ids) /\ flip_queue # <<>> /\ OnLists(at) /\ Records(at) /\ TypeOK
      BY <1>1 DEF Good, Fits, TypeOK, PendingFlip
    <3>2. Len(flip_queue) \in DOMAIN flip_queue /\ Len(flip_queue) \in 1 .. Len(flip_queue)
      BY <3>1, LenProperties, EmptySeq
    <3>3. Has(flip_queue, last) /\ last \in Ids
      BY <3>1, <3>2, ElementOfSeq DEF Has
    <3>4. at[last] \in {"queue", "pending"}
      BY <3>1, <3>3 DEF OnLists, Is
    <3>5. at[last] # "pending"
      BY <3>1, <3>3, PendingIs, <1>8
    <3>6. vb[last].st = "live"
      BY <3>1, <3>3, <3>4 DEF Records, Stage
    <3> QED
      BY <3>3, <3>4, <3>5, <3>6, <1>1
  <2>2. g \in Frame /\ g.fn = "re_execute" /\ g.v = last /\ g.lag = 0
    BY <2>1, CallTyped, CallFields DEF RequestFns
  <2>3. stack' = <<g>> \o (<<f>> \o Rest)
    <3>1. stack' = (<<g>> \o <<f>>) \o Rest
      BY <1>8 DEF Continue, Rest
    <3> HIDE DEF g
    <3> QED
      BY <3>1, <2>2, <1>1, <1>4, Runs, Frames
  <2> HIDE DEF g
  <2>4. OnTop(g, Rest)
    BY <1>1, <2>2, PlainCall DEF Plain, Timing
  <2>5. Stacked(g, f) /\ \A h \in Elements(Rest) : Buried(f, h)
    BY <1>4, <2>2 DEF Stacked, Buried, Tops, Sealed, Timing, Bumps, Owners, Stops
  <2>6. /\ Goes({g, f}) /\ (\A fn : Running(fn)' <=> g.fn = fn)
        /\ Fns(stack') = {g.fn, f.fn} \cup Fns(Rest)
    BY <1>1, <1>4, <1>5, <2>2, <2>3, <2>4, <2>5, TwoMade
  <2>7. PICK at2 \in [Ids -> Places] : Moves(at, at2, last) /\ at2[last] = "none"
    <3>1. "none" \in Places
      BY DEF Places
    <3> QED
      BY <2>1, <3>1, Moving
  <2>8. vb[last] \in Vblank /\ Stage(vb[last], at[last]) /\ Owed(vb[last]) /\ ~vb[last].copied /\ vb[last].pixmap
    BY <2>1 DEF Good, Fits, Records, TypeOK, Stage, Shown
  <2>9. Only(last) /\ vb'[last] = [Idled(vb[last]) EXCEPT !.pixmap = FALSE, !.flip = FALSE]
    BY <1>8, <2>1 DEF Only, Good, TypeOK
  <2>10. /\ vb'[last].st = vb[last].st /\ vb'[last].pixmap = FALSE /\ vb'[last].copied = vb[last].copied
         /\ vb'[last].evpix = vb[last].evpix /\ vb'[last].handed = vb[last].handed /\ vb'[last].done = vb[last].done
         /\ vb'[last].idled = vb[last].idled + 1 /\ vb'[last].efd = vb[last].efd /\ vb'[last].flip = FALSE
    BY <2>8, <2>9 DEF Vblank, Idled
  <2>11. vb[last].idled = 0 /\ vb[last].efd = "none" /\ vb[last].evpix = FALSE /\ vb[last].handed = FALSE
    BY <2>1, <2>8 DEF Stage, Owed, Vblank
  <2>12. vb'[last].idled = 1 /\ vb[last].done = 0
    BY <2>8, <2>10, <2>11 DEF Owed
  <2>13. Stage(vb'[last], at2[last]) /\ Gentle(last)
    BY <2>1, <2>7, <2>8, <2>10, <2>11, <2>12 DEF Stage, Shown, Owed, Gentle
  <2>14. OnLists(at2)'
    <3>1. OnLists(at) /\ TypeOK
      BY DEF Good, Fits
    <3>2. Is(wait_list', at2, {"wait"}) /\ Is(idle_queue', at2, {"idle"}) /\ Is(blocked_queue', at2, {"blocked"})
      BY <3>1, <1>3, <2>1, <2>7, IsKept DEF OnLists, TypeOK
    <3>3. Is(flip_queue', at2, {"queue", "pending"})
      BY <3>1, <1>8, <2>1, <2>7, IsWithout DEF OnLists, TypeOK
    <3>4. \A u \in Ids : u = flip_active' <=> at2[u] = "active"
      BY <3>1, <1>3, <2>1, <2>7 DEF OnLists, Moves
    <3>5. \A u \in Ids : at2[u] = "pending" => First(flip_queue') = u
      <4> SUFFICES ASSUME NEW u \in Ids, at2[u] = "pending" PROVE First(flip_queue') = u
        OBVIOUS
      <4>1. at[u] = "pending" /\ First(flip_queue) = u /\ u # last
        BY <3>1, <2>1, <2>7 DEF OnLists, Moves
      <4>2. First(flip_queue') = First(flip_queue)
        BY <3>1, <4>1, <1>8, FirstWithout DEF OnLists, Is, TypeOK
      <4> QED
        BY <4>1, <4>2
    <3>6. OnePending(at2)
      BY <3>1, <2>1, <2>7, SettlesMove DEF OnLists
    <3> QED
      BY <3>2, <3>3, <3>4, <3>5, <3>6 DEF OnLists
  <2>15. vb'[v] = vb[v] /\ at2[v] = "held"
    BY <1>1, <2>1, <2>7, <2>9 DEF Only, Moves
  <2>16. (\A h \in {g, f} : h.fn \in Moderate) /\ (\A h \in {g, f} : Knows(h, at2[h.v], vb'[h.v]))
    <3>1. g.fn \in Moderate /\ Knows(g, at2[g.v], vb'[g.v])
      BY <2>1, <2>2, <2>7, <2>10 DEF Knows, Owners, Moderate
    <3>2. f.fn \in Moderate /\ Knows(f, at2[f.v], vb'[f.v])
      BY <1>1, <1>2, <1>4, <2>15 DEF Knows, Owners, Moderate
    <3> QED
      BY <3>1, <3>2
  <2>17. Attended(at2)'
    <3> SUFFICES ASSUME NEW u \in Ids, vb'[u].st = "live", at2[u] \in {"none", "held", "flipping"}
                 PROVE  \E h \in Elements(stack') : Attends(h, u, at2[u])
      BY DEF Attended, Live
    <3>1. Elements(Rest) \subseteq Elements(stack') /\ {g, f} \subseteq Elements(stack')
      BY <2>6, GoesFns
    <3>2. CASE u = last
      BY <3>1, <3>2, <2>2, <2>7 DEF Attends
    <3>3. CASE u = v
      BY <3>1, <3>3, <1>4, <2>15 DEF Attends, Owners
    <3>4. CASE u # last /\ u # v
      <4>1. at2[u] = at[u] /\ Live(u)
        BY <3>4, <2>7, <2>9 DEF Moves, Only, Live
      <4>2. \E h \in Elements(Rest) : Attends(h, u, at[u])
        BY <4>1, <3>4, <1>1, RestAttends
      <4> QED
        BY <4>1, <4>2, <3>1
    <3> QED
      BY <3>2, <3>3, <3>4
  <2>18. "flush_blocked" \notin Fns(stack') /\ ~Running("flip_notify")' /\ ~Running("copy")' /\ MayPresent'
    BY <1>1, <1>4, <2>2, <2>6, NoStops DEF Timing, MayPresent
  <2>19. /\ blocking_event # last /\ Rank(at[last]) = 3 /\ Rank(at2[last]) = 3 /\ ~vb'[last].copied
         /\ at[last] \notin {"fence", "wait", "held", "blocked"} /\ vb[last].st # "new"
    BY <1>2, <2>1, <2>7, <2>8, <2>10, IdsNat DEF Rank
  <2>20. OtherMove(at, at2, last, {g, f})
    BY <1>1, <1>3, <2>1, <2>6, <2>7, <2>9, <2>13, <2>14, <2>16, <2>17, <2>18, <2>19 DEF OtherMove
  <2>21. Fits(at2)'
    BY <2>1, <2>20, OtherMoveFits
  <2> QED
    BY <2>21
<1> QED
  BY <1>6, <1>7, <1>8

\* Without a pending flip, and with one on the screen, nothing walks blocked_queue.
LEMMA NoWalk ==
  ASSUME NEW at, Good(at), stack # <<>>, Top.fn \notin Timing \cup {"flip_done"},
         PendingFlip = NoId, flip_active # NoId
  PROVE  ~Pending(at) /\ ~Settles(at) /\ "flush_loop" \notin Fns(stack)
<1>1. TypeOK /\ OnLists(at) /\ Records(at) /\ Relies(at) /\ flip_active \in Ids
  BY DEF Good, Fits, TypeOK
<1>2. \A u \in Ids : at[u] # "pending"
  <2>1. \A u \in Ids : at[u] = "pending" <=> PendingFlip = u
    BY <1>1, PendingIs
  <2> QED
    BY <2>1, IdsNat
<1>3. ~Pending(at)
  BY <1>2, NoneFlipping DEF Pending
<1>4. at[flip_active] = "active"
  BY <1>1 DEF OnLists
<1>5. ~Settles(at)
  BY <1>1, <1>3, <1>4 DEF Settles
<1> QED
  BY <1>1, <1>3, <1>5 DEF Relies, FlushesSettled

LEMMA RetryCopyFits ==
  ASSUME NEW at, Good(at), TypeOK', NEW v \in Ids, RetryCopy(v)
  PROVE  Fits(at)'
<1> DEFINE f == CallOn("copy", v, 0)
           s == Call("flips_stop")
<1>1. /\ stack # <<>> /\ Top.fn = "retry" /\ Top.v = v /\ Top.lag = 0
      /\ at[v] = "held" /\ vb[v].st = "live" /\ vb[v].due <= 0 /\ vb[v].pixmap /\ ~vb[v].copied /\ ~vb[v].flip
      /\ vb[v] \in Vblank /\ Owed(vb[v]) /\ vb[v].idled <= 1 /\ vb[v].efd = "none"
      /\ blocking_event \in {NoId, v} /\ (HasSyncobj(v) => acq[v] = "sig")
  <2>1. Retrying(v) /\ ~MustWait(v, Top.lag) /\ Presents(v) /\ ~vb[v].flip
    BY DEF RetryCopy, Ready
  <2>2. ~Unready(v)
    BY <2>1, RetryKnows
  <2>3. HasSyncobj(v) => acq[v] = "sig"
    BY <2>1, <2>2 DEF Unready, HasSyncobj
  <2> QED
    BY <2>1, <2>3, RetryKnows DEF Presents
<1>2. /\ UNCHANGED <<lists, flip_active, release_cb, req, pix, acq, held, setup>>
      /\ UNCHANGED <<blocking_event, sync_callback, entered_for_each, frame_timer, timer_armed>>
      /\ wait_list' = wait_list /\ blocked_queue' = blocked_queue
  BY DEF RetryCopy, world, links, timer, lists
<1>3. /\ \A u \in Ids : u # v => Similar(vb[u], vb'[u])
      /\ vb'[v] = Started(vb[v])
  BY DEF RetryCopy, Similar, Good, TypeOK, Vblank
<1>4. /\ vb'[v].st = "live" /\ vb'[v].pixmap = vb[v].pixmap /\ vb'[v].copied = vb[v].copied
      /\ vb'[v].evpix = vb[v].evpix /\ vb'[v].handed = vb[v].handed /\ vb'[v].done = vb[v].done
      /\ vb'[v].idled = vb[v].idled /\ vb'[v].efd = vb[v].efd /\ vb'[v].due = vb[v].due
      /\ vb'[v].flip = vb[v].flip /\ ~vb'[v].queued /\ vb'[v].sync_flip = vb[v].sync_flip
  BY <1>1, <1>3 DEF Vblank, Started
<1>5. OnLists(at)'
  BY <1>2, SameLists DEF Good, Fits
<1>6. Records(at)'
  <2> SUFFICES ASSUME NEW u \in Ids PROVE Stage(vb'[u], at[u])
    BY DEF Records
  <2>1. Stage(vb[u], at[u])
    BY DEF Good, Fits, Records
  <2>2. CASE u = v
    BY <2>1, <2>2, <1>1, <1>4 DEF Stage, Owed, Shown
  <2>3. CASE u # v
    BY <2>1, <2>3, <1>3 DEF Stage, Similar, Owed, InUse
  <2> QED
    BY <2>2, <2>3
<1>7. \A u \in Ids : /\ vb'[u].st = vb[u].st /\ vb'[u].pixmap = vb[u].pixmap /\ vb'[u].copied = vb[u].copied
                     /\ vb'[u].evpix = vb[u].evpix /\ vb'[u].handed = vb[u].handed /\ vb'[u].idled = vb[u].idled
                     /\ vb'[u].sync_flip = vb[u].sync_flip
  <2> SUFFICES ASSUME NEW u \in Ids
               PROVE  /\ vb'[u].st = vb[u].st /\ vb'[u].pixmap = vb[u].pixmap /\ vb'[u].copied = vb[u].copied
                      /\ vb'[u].evpix = vb[u].evpix /\ vb'[u].handed = vb[u].handed /\ vb'[u].idled = vb[u].idled
                      /\ vb'[u].sync_flip = vb[u].sync_flip
    OBVIOUS
  <2>1. CASE u = v
    BY <2>1, <1>1, <1>4
  <2>2. CASE u # v
    BY <2>2, <1>3 DEF Similar
  <2> QED
    BY <2>1, <2>2
<1>8. Buffers(at)' /\ Arguments'
  <2>1. Buffers(at) /\ Arguments
    BY DEF Good, Fits
  <2>2. InOrder(at)'
    BY <2>1, <1>2 DEF Buffers, InOrder
  <2>3. Reused'
    BY <2>1, <1>2, <1>7 DEF Buffers, Reused, Uses, Live, Settled
  <2>4. Names'
    BY <2>1, <1>2, <1>7 DEF Buffers, Names
  <2>5. Shows'
    BY <2>1, <1>2, <1>7 DEF Buffers, Shows, Explicit, HasSyncobj
  <2>6. Arguments'
    BY <2>1, <1>2, <1>7 DEF Arguments, HasSyncobj
  <2> QED
    BY <2>2, <2>3, <2>4, <2>5, <2>6 DEF Buffers
<1>9. f \in Frame /\ f.fn = "copy" /\ f.v = v /\ f.lag = 0 /\ f = CallOn("copy", v, Top.lag)
  BY <1>1, CallTyped, CallFields DEF RequestFns
<1>10. s \in Frame /\ s.fn = "flips_stop" /\ s.v = NoId
  BY CallTyped, CallFields DEF WindowFns
<1>11. Continue(If(PendingFlip = NoId /\ flip_active # NoId, <<s>>) \o <<f>>)
  BY <1>9 DEF RetryCopy
<1> HIDE DEF f, s
<1>12. /\ Rest \in Seq(Frame) /\ Nested(Rest) /\ OnTop(Top, Rest) /\ Elements(Rest) \subseteq Frame
       /\ Elements(stack) = {Top} \cup Elements(Rest) /\ Fns(stack) = {Top.fn} \cup Fns(Rest)
       /\ Fns(Rest) \cap Stops = {} /\ Fns(Rest) \cap {"flip_done", "flush_blocked", "block"} = {}
  BY <1>1, Runs, NoStops DEF Timing
<1>13. OnTop(f, Rest)
  BY <1>1, <1>9, SameCall
\* The new calls, with the stop of the flips or without.
<1>14. PICK new : /\ Goes(new) /\ f \in new /\ new \subseteq {f, s}
                  /\ \A fn \in {"retry", "flip_notify"} : ~Running(fn)'
                  /\ PendingFlip = NoId /\ flip_active # NoId => s \in new
                  /\ s \in new => PendingFlip = NoId /\ flip_active # NoId
  <2>1. CASE PendingFlip = NoId /\ flip_active # NoId
    <3>1. stack' = <<s>> \o (<<f>> \o Rest)
      <4>1. stack' = (<<s>> \o <<f>>) \o Rest
        BY <2>1, <1>11 DEF Continue, Rest, If
      <4> QED
        BY <4>1, <1>9, <1>10, <1>12, Frames
    <3>2. OnTop(s, Rest)
      <4> SUFFICES ASSUME NEW g \in Elements(Rest) PROVE Stacked(s, g)
        BY Zenon DEF OnTop
      <4>1. Stacked(Top, g)
        BY <1>12, Zenon DEF OnTop
      <4>2. g.fn # "flush_loop"
        BY <2>1, <1>1, <1>12, NoWalk DEF Timing, Fns
      <4> QED
        BY <4>1, <4>2, <1>1, <1>10 DEF Stacked, Tops, Sealed, Timing, Bumps, Owners, Stops
    <3>3. Stacked(s, f) /\ \A g \in Elements(Rest) : Buried(f, g)
      <4>1. \A g \in Elements(Rest) : g.fn # "flush_loop"
        BY <2>1, <1>1, <1>12, NoWalk DEF Timing, Fns
      <4> QED
        BY <4>1, <1>9, <1>10 DEF Stacked, Buried, Tops, Sealed, Timing, Bumps, Owners, Stops
    <3>4. Goes({s, f}) /\ (\A fn : Running(fn)' <=> s.fn = fn)
      BY <1>1, <1>9, <1>10, <1>13, <3>1, <3>2, <3>3, TwoMade
    <3>5. f \in {s, f} /\ s \in {s, f} /\ {s, f} \subseteq {f, s}
      OBVIOUS
    <3>6. \A fn \in {"retry", "flip_notify"} : ~Running(fn)'
      BY <3>4, <1>10
    <3> QED
      BY <2>1, <3>4, <3>5, <3>6
  <2>2. CASE ~(PendingFlip = NoId /\ flip_active # NoId)
    <3>1. stack' = <<f>> \o Rest
      <4>1. stack' = (<<>> \o <<f>>) \o Rest
        BY <2>2, <1>11 DEF Continue, Rest, If
      <4> QED
        BY <4>1, <1>9, <1>12, Frames
    <3>2. Goes({f}) /\ (\A fn : Running(fn)' <=> f.fn = fn)
      BY <1>1, <1>9, <1>13, <3>1, OneMade
    <3>3. f \in {f} /\ {f} \subseteq {f, s} /\ s \notin {f}
      BY <1>9, <1>10
    <3>4. \A fn \in {"retry", "flip_notify"} : ~Running(fn)'
      BY <3>2, <1>9
    <3> QED
      BY <2>2, <3>2, <3>3, <3>4
  <2> QED
    BY <2>1, <2>2
<1>15. /\ Elements(stack') = new \cup Elements(Rest) /\ Sound(stack')
       /\ Fns(stack') = {g.fn : g \in new} \cup Fns(Rest)
       /\ Elements(Rest) \subseteq Elements(stack') /\ f \in Elements(stack')
  BY <1>14, GoesFns DEF Goes
<1>16. \A fn : fn \in Fns(stack') => fn \in Fns(Rest) \/ fn = "copy" \/ (fn = "flips_stop" /\ s \in new)
  BY <1>9, <1>10, <1>14, <1>15
<1>17. s \in new => ~Pending(at) /\ "flips_stop" \in Fns(stack')
  BY <1>1, <1>10, <1>14, <1>15, NoWalk DEF Timing
<1>18. Calls(at)'
  <2>1. \A g \in Elements(stack') : Knows(g, at[g.v], vb'[g.v])
    <3> SUFFICES ASSUME NEW g \in Elements(stack') PROVE Knows(g, at[g.v], vb'[g.v])
      OBVIOUS
    <3>1. CASE g = f
      BY <3>1, <1>1, <1>4, <1>9 DEF Knows, Owners
    <3>2. CASE g = s
      BY <3>2, <1>10 DEF Knows, Owners, RequestFns
    <3>3. CASE g \in Elements(Rest)
      <4>1. Knows(g, at[g.v], vb[g.v]) /\ g \in Frame
        BY <3>3, <1>1, <1>12, Runs
      <4>2. CASE g.fn \in RequestFns
        <5>1. g.v # v /\ g.v \in Ids
          BY <4>2, <3>3, <1>1, RestOthers, RestPlaces DEF Timing
        <5>2. Similar(vb[g.v], vb'[g.v])
          BY <5>1, <1>3
        <5>3. vb[g.v] \in Vblank /\ vb'[g.v] \in Vblank
          BY <5>1 DEF Good, TypeOK
        <5> QED
          BY <4>1, <5>2, <5>3 DEF Knows, Similar
      <4>3. CASE g.fn \notin RequestFns
        BY <4>1, <4>3, WindowKnows
      <4> QED
        BY <4>2, <4>3
    <3> QED
      BY <3>1, <3>2, <3>3, <1>14, <1>15
  <2> QED
    BY <1>15, <2>1 DEF Calls
<1>19. Relies(at)'
  <2>1. Relies(at) /\ blocking_event \in Ids \cup {NoId}
    BY DEF Good, Fits, TypeOK
  <2>2. StopsAlone(at)'
    <3>1. Fns(stack') \cap Stops # {} => s \in new
      BY <1>12, <1>16 DEF Stops
    <3> QED
      BY <3>1, <1>17 DEF StopsAlone, Pending
  <2>3. FlushesSettled(at)'
    <3>1. Settles(at)' <=> Settles(at)
      BY DEF Settles, Pending
    <3>2. Fns(stack') \cap {"flush_blocked", "flush_loop"} # {} => Settles(at)
      BY <2>1, <1>12, <1>16 DEF Relies, FlushesSettled
    <3>3. Settles(at) \/ Fns(stack') \cap Stops # {}
      <4>1. CASE s \in new
        BY <4>1, <1>17 DEF Stops
      <4>2. CASE PendingFlip # NoId
        <5>1. at[PendingFlip] = "pending" /\ PendingFlip \in Ids
          BY <4>2, PendingIs DEF Good, Fits
        <5> QED
          BY <5>1 DEF Settles, Pending
      <4>3. CASE flip_active = NoId
        <5>1. \A u \in Ids : at[u] # "active"
          BY <4>3, IdsNat DEF Good, Fits, OnLists
        <5> QED
          BY <5>1 DEF Settles
      <4> QED
        BY <4>1, <4>2, <4>3, <1>14
    <3> QED
      BY <3>1, <3>2, <3>3 DEF FlushesSettled
  <2>4. Flushing(at)'
    <3> SUFFICES ASSUME "flush_loop" \in Fns(stack')
                 PROVE  /\ blocking_event # NoId => at[blocking_event] = "fence"
                        /\ blocking_event = NoId
      BY <1>2 DEF Flushing
    <3>1. "flush_loop" \in Fns(stack)
      BY <1>12, <1>16
    <3>2. blocking_event # NoId => at[blocking_event] = "fence"
      BY <2>1, <3>1 DEF Relies, Flushing
    <3> QED
      BY <3>2, <1>1
  <2>5. MayPresent' /\ Entered'
    <3>1. "leave_for_each" \in Fns(stack') => "leave_for_each" \in Fns(stack)
      BY <1>12, <1>16
    <3>2. MayPresent'
      BY <1>14 DEF MayPresent
    <3> QED
      BY <2>1, <3>1, <3>2, <1>2 DEF Relies, Entered
  <2>6. Acquired'
    <3> SUFFICES ASSUME NEW g \in Elements(stack'), g.fn = "copy", HasSyncobj(g.v) PROVE acq[g.v] = "sig"
      BY <1>2 DEF Acquired, HasSyncobj
    <3>1. CASE g = f
      BY <3>1, <1>1, <1>9
    <3>2. CASE g \in Elements(Rest)
      BY <3>2, <2>1, <1>12 DEF Relies, Acquired
    <3> QED
      BY <3>1, <3>2, <1>10, <1>14, <1>15
  <2> QED
    BY <2>2, <2>3, <2>4, <2>5, <2>6 DEF Relies
<1>20. Attended(at)'
  <2> SUFFICES ASSUME NEW u \in Ids, vb'[u].st = "live", at[u] \in {"none", "held", "flipping"}
               PROVE  \E g \in Elements(stack') : Attends(g, u, at[u])
    BY DEF Attended, Live
  <2>1. CASE u = v
    BY <2>1, <1>1, <1>9, <1>15 DEF Attends, Owners
  <2>2. CASE u # v
    <3>1. Live(u)
      BY <1>7 DEF Live
    <3>2. \E g \in Elements(Rest) : Attends(g, u, at[u])
      BY <2>2, <3>1, <1>1, RestAttends
    <3> QED
      BY <3>2, <1>15
  <2> QED
    BY <2>1, <2>2
<1>21. Blocker(at)'
  <2>1. Blocker(at) /\ blocking_event \in Ids \cup {NoId}
    BY DEF Good, Fits, TypeOK
  <2>2. CASE blocking_event = NoId
    <3>1. ASSUME blocked_queue # <<>>
          PROVE  \E g \in Elements(stack') : \/ g.fn = "flush_loop" /\ g.v = First(blocked_queue)
                                             \/ g.fn = "block" /\ vb'[g.v].pixmap
      <4>1. PICK g \in Elements(stack) : \/ g.fn = "flush_loop" /\ g.v = First(blocked_queue)
                                         \/ g.fn = "block" /\ vb[g.v].pixmap
        BY <2>1, <2>2, <3>1 DEF Blocker
      <4>2. g \in Elements(Rest) /\ g.fn # "block"
        BY <4>1, <1>1, <1>12 DEF Fns
      <4> QED
        BY <4>1, <4>2, <1>15
    <3> QED
      BY <2>2, <3>1, <1>2 DEF Blocker
  <2>3. CASE blocking_event = v
    BY <2>3, <1>1, <1>2, <1>4, IdsNat DEF Blocker, Blocks, Live
  <2> QED
    BY <2>2, <2>3, <1>1
<1>22. Timely'
  <2>1. Timely /\ TypeOK /\ OnLists(at) /\ Records(at)
    BY DEF Good, Fits
  <2>2. "reset_timer" \in Fns(stack) => "reset_timer" \in Fns(stack')
    BY <1>1, <1>12, <1>15
  <2>3. \A u \in Ids : at[u] = "pending" => at[u] = "pending" /\ vb'[u].sync_flip = vb[u].sync_flip
    BY <1>7
  <2> QED
    BY <1>2, <1>5, <1>6, <2>1, <2>2, <2>3, TimelyMove
<1>23. Callbacks(at)'
  <2>1. Callbacks(at) /\ sync_callback \in Ids \cup {NoId} /\ ~Running("flip_notify") /\ ~Running("flip_notify")'
    BY <1>1, <1>14 DEF Good, Fits, TypeOK, Running
  <2> QED
    BY <2>1, <1>2, <1>7 DEF Callbacks
<1> QED
  BY <1>5, <1>6, <1>8, <1>18, <1>19, <1>20, <1>21, <1>22, <1>23 DEF Fits

\* A buffer that the compositor still has is that of the last request of its pixmap.
LEMMA ShownUnsettled ==
  ASSUME NEW at, Good(at), NEW u \in Ids, vb[u].evpix
  PROVE  at[u] \in Shown /\ Uses(u) /\ (~vb[u].handed => ~Settled(u))
<1>1. Stage(vb[u], at[u])
  BY DEF Good, Fits, Records
<1>2. at[u] \in Shown /\ vb[u].st = "live" /\ vb[u].pixmap /\ vb[u].idled = 0
  BY <1>1 DEF Stage, InUse, Shown
<1> QED
  BY <1>2 DEF Uses, Live, Settled

\* What the flip of v does to the buffers.
LEMMA FlipBuffers ==
  ASSUME NEW at, Good(at), NEW v \in Ids, at[v] = "held", vb[v].st = "live", vb[v].pixmap, ~vb[v].copied,
         NEW at2, Moves(at, at2, v), at2[v] = "flipping", Only(v), ~Pending(at),
         vb'[v].st = vb[v].st, vb'[v].pixmap = vb[v].pixmap, vb'[v].idled = vb[v].idled, vb'[v].evpix,
         vb'[v].handed <=> Explicit(v),
         UNCHANGED <<req, pix, setup>>,
         release_cb' = IF Explicit(v) THEN release_cb ELSE [release_cb EXCEPT ![pix[v]] = v],
         held' = IF Explicit(v) THEN held ELSE held \cup {pix[v]}
  PROVE  Buffers(at2)'
<1>1. /\ InOrder(at) /\ Reused /\ Names /\ Shows /\ pix[v] \in Pixmaps
      /\ release_cb \in [Pixmaps -> Ids \cup {NoId}] /\ held \subseteq Pixmaps
  BY DEF Good, Fits, Buffers, TypeOK, PixmapsNamed
<1>2. Uses(v) /\ ~Settled(v) /\ vb[v].idled = 0 /\ ~vb[v].handed /\ ~vb[v].evpix
  <2>1. Stage(vb[v], at[v]) /\ vb[v] \in Vblank
    BY DEF Good, Fits, Records, TypeOK
  <2>2. Owed(vb[v])
    BY <2>1 DEF Stage, Shown
  <2> QED
    BY <2>2 DEF Uses, Live, Settled, Owed
\* Of the other requests of its pixmap, those that are not settled are earlier: there are none.
<1>3. \A u \in Ids : u # v /\ pix[u] = pix[v] /\ Uses(u) => u < v /\ Settled(u)
  <2> SUFFICES ASSUME NEW u \in Ids, u # v, pix[u] = pix[v], Uses(u) PROVE u < v /\ Settled(u)
    OBVIOUS
  <2>1. u < v \/ v < u
    BY IdsNat
  <2> QED
    BY <2>1, <1>1, <1>2 DEF Reused
<1>4. InOrder(at2)'
  <2> SUFFICES ASSUME NEW u \in Ids, NEW w \in Ids, pix[u] = pix[w],
                      Rank(at2[u]) < Rank(at2[w]), Rank(at2[w]) < 3
               PROVE  u < w
    BY DEF InOrder
  <2>1. Rank(at2[v]) = 2 /\ \A p : Rank(p) \in {0, 1, 2, 3}
    BY DEF Rank
  <2>2. CASE w = v
    <3>1. u # v /\ at2[u] = at[u] /\ Rank(at[u]) \in {0, 1}
      BY <2>1, <2>2 DEF Moves
    <3>2. at[u] \in {"idle", "active"}
      BY <3>1 DEF Rank
    <3>3. Stage(vb[u], at[u])
      BY DEF Good, Fits, Records
    <3>4. Uses(u)
      BY <3>2, <3>3 DEF Stage, Shown, InUse, Uses, Live
    <3> QED
      BY <3>1, <3>4, <1>3, <2>2
  <2>3. CASE w # v /\ u = v
    BY <2>1, <2>3
  <2>4. CASE w # v /\ u # v
    BY <2>4, <1>1 DEF InOrder, Moves
  <2> QED
    BY <2>2, <2>3, <2>4
<1>5. Reused'
  <2> SUFFICES ASSUME NEW u \in Ids, NEW w \in Ids, u < w, pix[u] = pix[w], Uses(u)', Uses(w)'
               PROVE  Settled(u)'
    BY DEF Reused
  <2>1. Uses(u) /\ Uses(w)
    BY DEF Uses, Live, Only
  <2>2. Settled(u)
    BY <2>1, <1>1 DEF Reused
  <2>3. u # v
    BY <2>2, <1>2
  <2> QED
    BY <2>2, <2>3 DEF Settled, Only
<1>6. Names'
  <2> SUFFICES ASSUME NEW p \in Pixmaps, NEW u \in Ids, release_cb'[p] = u
               PROVE  pix[u] = p /\ vb'[u].evpix /\ ~vb'[u].handed
    BY DEF Names
  <2>1. CASE ~Explicit(v) /\ p = pix[v]
    BY <2>1, <1>1
  <2>2. CASE Explicit(v) \/ p # pix[v]
    <3>1. release_cb[p] = u
      BY <2>2, <1>1
    <3>2. pix[u] = p /\ vb[u].evpix /\ ~vb[u].handed
      BY <3>1, <1>1 DEF Names
    <3>3. u # v
      BY <3>2, <1>2
    <3> QED
      BY <3>2, <3>3 DEF Only
  <2> QED
    BY <2>1, <2>2
<1>7. Shows'
  <2> SUFFICES ASSUME NEW u \in Ids, vb'[u].evpix
               PROVE  /\ pix[u] \in Pixmaps /\ (vb'[u].handed <=> Explicit(u))
                      /\ ~vb'[u].handed => release_cb'[pix[u]] = u /\ pix[u] \in held'
    BY DEF Shows, Explicit, HasSyncobj
  <2>1. CASE u = v
    BY <2>1, <1>1
  <2>2. CASE u # v
    <3>1. vb'[u] = vb[u]
      BY <2>2 DEF Only
    <3>2. /\ pix[u] \in Pixmaps /\ (vb[u].handed <=> Explicit(u))
          /\ ~vb[u].handed => release_cb[pix[u]] = u /\ pix[u] \in held
      BY <3>1, <1>1 DEF Shows
    <3>3. ~vb[u].handed => pix[u] # pix[v]
      BY <2>2, <3>1, <1>3, ShownUnsettled
    <3> QED
      BY <3>1, <3>2, <3>3, <1>1
  <2> QED
    BY <2>1, <2>2
<1> QED
  BY <1>4, <1>5, <1>6, <1>7 DEF Buffers

\* The calls of a flip: to join flip_queue, after the timers of a new frame callback.
LEMMA FlipCalls ==
  ASSUME NEW at, Good(at), NEW v \in Ids, Retrying(v), NEW resets \in BOOLEAN, resets => ~entered_for_each,
         Continue(If(resets, <<Call("reset_timer"), Call("leave_for_each")>>) \o <<CallOn("flip_done", v, Top.lag)>>)
  PROVE  \E new : /\ Goes(new) /\ CallOn("flip_done", v, 0) \in new
                  /\ new \subseteq {Call("reset_timer"), Call("leave_for_each"), CallOn("flip_done", v, 0)}
                  /\ Call("leave_for_each") \in new => resets
                  /\ \A fn \in {"retry", "flip_notify", "copy"} : ~Running(fn)'
<1> DEFINE f == CallOn("flip_done", v, 0)
           r == Call("reset_timer")
           e == Call("leave_for_each")
<1>1. stack # <<>> /\ Top.fn = "retry" /\ Top.lag = 0 /\ Top.v = v
  BY RetryKnows
<1>2. /\ f \in Frame /\ f.fn = "flip_done" /\ f.v = v /\ f = CallOn("flip_done", v, Top.lag)
      /\ r \in Frame /\ r.fn = "reset_timer" /\ r.v = NoId /\ e \in Frame /\ e.fn = "leave_for_each" /\ e.v = NoId
  BY <1>1, CallTyped, CallFields DEF RequestFns, WindowFns
<1>3. Continue(If(resets, <<r, e>>) \o <<f>>)
  BY <1>2
<1> HIDE DEF f, r, e
<1>4. Rest \in Seq(Frame) /\ Nested(Rest) /\ OnTop(Top, Rest)
  BY <1>1, Runs
<1>5. OnTop(f, Rest) /\ OnTop(r, Rest)
  BY <1>1, <1>2, PlainCall DEF Plain, Timing
<1>6. CASE resets
  <2>1. stack' = <<r>> \o (<<e>> \o (<<f>> \o Rest))
    <3>1. stack' = (<<r, e>> \o <<f>>) \o Rest
      BY <1>3, <1>6 DEF Continue, Rest, If
    <3> QED
      BY <3>1, <1>2, <1>4, TwoAndOne
  <2>2. OnTop(e, Rest)
    <3> SUFFICES ASSUME NEW g \in Elements(Rest) PROVE Stacked(e, g)
      BY Zenon DEF OnTop
    <3>1. Stacked(Top, g)
      BY <1>4, Zenon DEF OnTop
    <3>2. g.fn # "leave_for_each"
      <4>1. g \in Elements(stack)
        BY <1>1, Runs
      <4>2. Entered /\ ~entered_for_each
        BY <1>6 DEF Good, Fits, Relies
      <4> QED
        BY <4>1, <4>2 DEF Entered, Fns
    <3> QED
      BY <3>1, <3>2, <1>1, <1>2 DEF Stacked, Tops, Sealed, Timing, Bumps, Owners, Stops
  <2>3. /\ Stacked(r, e) /\ Stacked(r, f) /\ Stacked(e, f) /\ Buried(e, f)
        /\ \A g \in Elements(Rest) : Buried(e, g) /\ Buried(f, g)
    BY <1>2 DEF Stacked, Buried, Tops, Sealed, Timing, Bumps, Owners, Stops
  <2>4. Made(stack', r, {e, f}, Rest)
    BY <1>2, <1>4, <1>5, <2>1, <2>2, <2>3, MadeThree
  <2>5. Goes({r} \cup {e, f}) /\ (\A fn : Running(fn)' <=> r.fn = fn)
    BY <2>4, GoesMade
  <2>6. f \in {r} \cup {e, f} /\ {r} \cup {e, f} \subseteq {r, e, f}
    OBVIOUS
  <2>7. \A fn \in {"retry", "flip_notify", "copy"} : ~Running(fn)'
    BY <2>5, <1>2
  <2> QED
    BY <1>6, <2>5, <2>6, <2>7 DEF f, r, e
<1>7. CASE ~resets
  <2>1. stack' = <<f>> \o Rest
    <3>1. stack' = (<<>> \o <<f>>) \o Rest
      BY <1>3, <1>7 DEF Continue, Rest, If
    <3> QED
      BY <3>1, <1>2, <1>4, Frames
  <2>2. Goes({f}) /\ (\A fn : Running(fn)' <=> f.fn = fn)
    BY <1>1, <1>2, <1>5, <2>1, OneMade
  <2>3. f \in {f} /\ {f} \subseteq {r, e, f} /\ e \notin {f}
    BY <1>2
  <2>4. \A fn \in {"retry", "flip_notify", "copy"} : ~Running(fn)'
    BY <2>2, <1>2
  <2> QED
    BY <2>2, <2>3, <2>4 DEF f, r, e
<1> QED
  BY <1>6, <1>7

LEMMA RetryFlipFits ==
  ASSUME NEW at, Good(at), TypeOK', NEW v \in Ids, RetryFlip(v)
  PROVE  \E at2 \in [Ids -> Places] : Fits(at2)'
<1> DEFINE f == CallOn("flip_done", v, 0)
<1>1. /\ stack # <<>> /\ Top.fn = "retry" /\ Top.v = v
      /\ at[v] = "held" /\ vb[v].st = "live" /\ vb[v].pixmap /\ ~vb[v].copied /\ vb[v].flip
      /\ vb[v] \in Vblank /\ Owed(vb[v]) /\ vb[v].idled <= 1 /\ vb[v].efd = "none"
      /\ blocking_event \in {NoId, v} /\ PendingFlip = NoId /\ Retrying(v)
  <2>1. Retrying(v) /\ ~Queues(v) /\ Presents(v) /\ vb[v].flip
    BY DEF RetryFlip, Ready
  <2> QED
    BY <2>1, RetryKnows DEF Presents, Queues
<1>2. /\ UNCHANGED <<lists, flip_active, req, pix, acq, setup, blocking_event, sync_callback, frame_timer, timer_armed>>
      /\ wait_list' = wait_list /\ blocked_queue' = blocked_queue
      /\ release_cb' = IF Explicit(v) THEN release_cb ELSE [release_cb EXCEPT ![pix[v]] = v]
      /\ held' = IF Explicit(v) THEN held ELSE held \cup {pix[v]}
      /\ entered_for_each' = (entered_for_each \/ CallbackResets)
      /\ Continue(If(CallbackResets, <<Call("reset_timer"), Call("leave_for_each")>>)
                    \o <<CallOn("flip_done", v, Top.lag)>>)
      /\ vb' = [vb EXCEPT ![v] = [Started(@) EXCEPT !.evpix = TRUE, !.handed = Explicit(v)]]
  BY DEF RetryFlip, timer, lists, Explicit
<1>3. Only(v) /\ vb'[v] = [Started(vb[v]) EXCEPT !.evpix = TRUE, !.handed = Explicit(v)]
  BY <1>2 DEF Only, Good, TypeOK
<1>4. /\ vb'[v].st = vb[v].st /\ vb'[v].pixmap = vb[v].pixmap /\ vb'[v].copied = vb[v].copied
      /\ vb'[v].evpix = TRUE /\ vb'[v].handed = Explicit(v) /\ vb'[v].done = vb[v].done
      /\ vb'[v].idled = vb[v].idled /\ vb'[v].efd = vb[v].efd /\ vb'[v].queued = FALSE
  BY <1>1, <1>3 DEF Vblank, Started
<1>5. PICK at2 \in [Ids -> Places] : Moves(at, at2, v) /\ at2[v] = "flipping"
  <2>1. "flipping" \in Places
    BY DEF Places
  <2> QED
    BY <2>1, Moving
<1>6. ~Pending(at)
  <2>1. \A u \in Ids : at[u] = "pending" <=> PendingFlip = u
    BY PendingIs DEF Good, Fits
  <2>2. \A u \in Ids : at[u] # "flipping"
    BY <1>1, NoneFlipping DEF Timing
  <2> QED
    BY <1>1, <2>1, <2>2, IdsNat DEF Pending
<1>7. Settles(at2)
  BY <1>5 DEF Settles, Pending
<1>8. OnLists(at2)'
  BY <1>1, <1>2, <1>5, <1>6, ListsStay DEF Loose, Good, Fits
<1>9. Records(at2)'
  <2>1. vb[v].idled = 0 /\ vb[v].done = 0
    BY <1>1 DEF Owed
  <2>2. Stage(vb'[v], at2[v])
    BY <1>1, <1>4, <1>5, <2>1 DEF Stage, Shown, InUse
  <2> QED
    BY <1>3, <1>5, <2>2, RecordsMove DEF Good, Fits
<1>10. Buffers(at2)'
  <2>1. vb'[v].handed <=> Explicit(v)
    BY <1>4
  <2> QED
    BY <1>1, <1>2, <1>3, <1>4, <1>5, <1>6, <2>1, FlipBuffers
<1>11. PICK new : /\ Goes(new) /\ f \in new
                  /\ new \subseteq {Call("reset_timer"), Call("leave_for_each"), f}
                  /\ Call("leave_for_each") \in new => CallbackResets
                  /\ \A fn \in {"retry", "flip_notify", "copy"} : ~Running(fn)'
  <2>1. CallbackResets \in BOOLEAN /\ (CallbackResets => ~entered_for_each)
    BY DEF CallbackResets
  <2> QED
    BY <1>1, <1>2, <2>1, FlipCalls
<1>12. f.fn = "flip_done" /\ f.v = v /\ f.lag = 0
  BY CallFields
<1> HIDE DEF f
<1>13. /\ Elements(stack') = new \cup Elements(Rest) /\ Sound(stack')
       /\ Fns(stack') = {g.fn : g \in new} \cup Fns(Rest)
       /\ Elements(Rest) \subseteq Elements(stack') /\ f \in Elements(stack')
  BY <1>11, GoesFns DEF Goes
<1>14. /\ Fns(stack) = {Top.fn} \cup Fns(Rest) /\ Elements(stack) = {Top} \cup Elements(Rest)
       /\ Fns(Rest) \cap Stops = {} /\ Fns(Rest) \cap {"flip_done", "flush_blocked", "block"} = {}
  BY <1>1, Runs, NoStops DEF Timing
<1>15. \A g \in new : g = f \/ g.fn = "reset_timer" \/ (g.fn = "leave_for_each" /\ CallbackResets)
  BY <1>11, CallFields
<1>16. \A fn : fn \in Fns(stack') =>
          fn \in Fns(Rest) \/ fn \in {"flip_done", "reset_timer"} \/ (fn = "leave_for_each" /\ CallbackResets)
  BY <1>12, <1>13, <1>15
<1>17. Calls(at2)'
  <2>1. \A g \in Elements(stack') : Knows(g, at2[g.v], vb'[g.v])
    <3> SUFFICES ASSUME NEW g \in Elements(stack') PROVE Knows(g, at2[g.v], vb'[g.v])
      OBVIOUS
    <3>1. CASE g = f
      BY <3>1, <1>1, <1>4, <1>5, <1>12 DEF Knows, Owners
    <3>2. CASE g.fn \in {"reset_timer", "leave_for_each"}
      BY <3>2 DEF Knows, Owners, RequestFns
    <3>3. CASE g \in Elements(Rest)
      BY <3>3, <1>1, <1>3, <1>5, RestKnowsMove
    <3> QED
      BY <3>1, <3>2, <3>3, <1>13, <1>15
  <2> QED
    BY <1>13, <2>1 DEF Calls
<1>18. Relies(at2)'
  <2>1. Relies(at) /\ blocking_event \in Ids \cup {NoId}
    BY DEF Good, Fits, TypeOK
  <2>2. StopsAlone(at2)'
    BY <1>14, <1>16 DEF StopsAlone, Stops
  <2>3. FlushesSettled(at2)'
    BY <1>7 DEF FlushesSettled, Settles, Pending
  <2>4. Flushing(at2)'
    <3> SUFFICES ASSUME "flush_loop" \in Fns(stack') PROVE blocking_event = NoId
      BY <1>2 DEF Flushing
    <3>1. "flush_loop" \in Fns(stack)
      BY <1>14, <1>16
    <3>2. blocking_event # NoId => at[blocking_event] = "fence"
      BY <2>1, <3>1 DEF Relies, Flushing
    <3> QED
      BY <3>2, <1>1
  <2>5. MayPresent' /\ Entered'
    <3>1. "leave_for_each" \in Fns(stack') => "leave_for_each" \in Fns(stack) \/ CallbackResets
      BY <1>14, <1>16
    <3>2. MayPresent'
      BY <1>11 DEF MayPresent
    <3> QED
      BY <2>1, <3>1, <3>2, <1>2 DEF Relies, Entered
  <2>6. Acquired'
    <3>1. \A g \in Elements(stack') : g.fn = "copy" => g \in Elements(stack)
      BY <1>12, <1>13, <1>14, <1>15
    <3> QED
      BY <2>1, <3>1, <1>2 DEF Relies, Acquired, HasSyncobj
  <2> QED
    BY <2>2, <2>3, <2>4, <2>5, <2>6 DEF Relies
<1>19. Attended(at2)'
  <2>1. \E g \in Elements(stack') : Attends(g, v, at2[v])
    BY <1>5, <1>12, <1>13 DEF Attends
  <2> QED
    BY <1>1, <1>3, <1>5, <1>13, <2>1, AttendedMove
<1>20. Blocker(at2)'
  <2>1. blocking_event = v => vb'[v].pixmap /\ Blocks(v, at2)'
    BY <1>1, <1>4, <1>5 DEF Blocks, Live
  <2> QED
    BY <1>1, <1>2, <1>3, <1>5, <1>13, <2>1, BlockerMove DEF Timing
<1>21. Timely'
  <2>1. Timely /\ TypeOK /\ OnLists(at) /\ Records(at)
    BY DEF Good, Fits
  <2>2. "reset_timer" \in Fns(stack) => "reset_timer" \in Fns(stack')
    BY <1>1, <1>13, <1>14
  <2>3. \A u \in Ids : at2[u] = "pending" => at[u] = "pending" /\ vb'[u].sync_flip = vb[u].sync_flip
    BY <1>3, <1>5 DEF Moves, Only
  <2> QED
    BY <1>2, <1>8, <1>9, <2>1, <2>2, <2>3, TimelyMove
<1>22. Callbacks(at2)'
  <2>1. Callbacks(at) /\ sync_callback \in Ids \cup {NoId} /\ ~Running("flip_notify") /\ ~Running("flip_notify")'
    BY <1>1, <1>11 DEF Good, Fits, TypeOK, Running
  <2> QED
    BY <2>1, <1>1, <1>2, <1>3, <1>5, CallbacksMove
<1>23. Arguments'
  BY <1>1, <1>2, <1>3, <1>4, ArgumentsMove DEF Good, Fits
<1> QED
  BY <1>8, <1>9, <1>10, <1>17, <1>18, <1>19, <1>20, <1>21, <1>22, <1>23 DEF Fits

LEMMA FlipDoneFits ==
  ASSUME NEW at, Good(at), TypeOK', FlipDone
  PROVE  \E at2 \in [Ids -> Places] : Fits(at2)'
<1> SUFFICES ASSUME NEW v \in Ids, v = Top.v PROVE \E at2 \in [Ids -> Places] : Fits(at2)'
  BY Runs DEF FlipDone, Running, RequestFns
<1> DEFINE b == CallOn("flush_blocked", NoId, 0)
           r == Call("reset_timer")
<1>1. /\ stack # <<>> /\ Top.fn = "flip_done" /\ Top.lag = 0 /\ at[v] = "flipping" /\ vb[v].st = "live"
  <2>1. stack # <<>> /\ Top.fn = "flip_done"
    BY DEF FlipDone, Running
  <2> QED
    BY <2>1, Runs DEF Knows, RequestFns
<1>2. /\ UNCHANGED <<vb, wait_list, idle_queue, blocked_queue, flip_active, release_cb, req, pix, acq, held, setup>>
      /\ UNCHANGED <<blocking_event, entered_for_each, frame_timer, timer_armed>>
      /\ sync_callback' = IF vb[v].sync_flip THEN sync_callback ELSE v
      /\ flip_queue' = <<v>> \o flip_queue
      /\ Continue(<<r, b>>)
  BY <1>1 DEF FlipDone, WithPending, world, timer
<1>3. b \in Frame /\ b.fn = "flush_blocked" /\ b.lag = 0 /\ r \in Frame /\ r.fn = "reset_timer"
  BY CallTyped, CallFields DEF WindowFns
<1> HIDE DEF b, r
<1>4. PICK at2 \in [Ids -> Places] : Moves(at, at2, v) /\ at2[v] = "pending"
  <2>1. "pending" \in Places
    BY DEF Places
  <2> QED
    BY <2>1, Moving
<1>5. /\ Rest \in Seq(Frame) /\ Nested(Rest) /\ OnTop(Top, Rest)
      /\ Fns(stack) = {Top.fn} \cup Fns(Rest) /\ Elements(stack) = {Top} \cup Elements(Rest)
      /\ Fns(Rest) \cap Stops = {} /\ Fns(Rest) \cap {"flip_done", "flush_blocked", "block"} = {}
  BY <1>1, Runs, NoStops DEF Timing
<1>6. OnTop(b, Rest) /\ OnTop(r, Rest) /\ Stacked(r, b) /\ \A g \in Elements(Rest) : Buried(b, g)
  <2>1. OnTop(b, Rest) /\ OnTop(r, Rest)
    BY <1>1, <1>3, PlainCall DEF Plain, Timing
  <2> QED
    BY <2>1, <1>3 DEF Stacked, Buried, Tops, Sealed, Timing, Bumps, Owners, Stops
<1>7. stack' = <<r>> \o (<<b>> \o Rest)
  <2>1. stack' = <<r, b>> \o Rest
    BY <1>2 DEF Continue, Rest
  <2> QED
    BY <2>1, <1>3, <1>5, Frames
<1>8. /\ Goes({r, b}) /\ (\A fn : Running(fn)' <=> r.fn = fn)
      /\ Fns(stack') = {r.fn, b.fn} \cup Fns(Rest)
  BY <1>1, <1>3, <1>6, <1>7, TwoMade
<1>9. /\ Elements(stack') = {r, b} \cup Elements(Rest) /\ Sound(stack')
      /\ "reset_timer" \in Fns(stack') /\ "flush_blocked" \in Fns(stack')
      /\ \A fn \in {"retry", "flip_notify", "copy"} : ~Running(fn)'
  BY <1>3, <1>8 DEF Goes
<1>10. \A fn : fn \in Fns(stack') => fn \in Fns(Rest) \/ fn \in {"reset_timer", "flush_blocked"}
  BY <1>3, <1>8
<1>11. OnLists(at2)'
  <2>1. OnLists(at) /\ TypeOK
    BY DEF Good, Fits
  <2>2. Is(wait_list', at2, {"wait"}) /\ Is(idle_queue', at2, {"idle"}) /\ Is(blocked_queue', at2, {"blocked"})
    BY <2>1, <1>1, <1>2, <1>4, IsKept DEF OnLists, TypeOK
  <2>3. Is(flip_queue', at2, {"queue", "pending"})
    BY <2>1, <1>1, <1>2, <1>4, IsPrepended DEF OnLists, TypeOK
  <2>4. \A u \in Ids : u = flip_active' <=> at2[u] = "active"
    BY <2>1, <1>1, <1>2, <1>4 DEF OnLists, Moves
  <2>5. \A u \in Ids : at2[u] \in {"pending", "flipping"} => u = v
    BY <2>1, <1>1, <1>4 DEF OnLists, OnePending, Moves
  <2>6. First(flip_queue') = v
    BY <2>1, <1>2, PrependHas DEF TypeOK
  <2>7. OnePending(at2)
    BY <2>5 DEF OnePending
  <2> QED
    BY <2>2, <2>3, <2>4, <2>5, <2>6, <2>7 DEF OnLists
<1>12. Only(v) /\ vb'[v] = vb[v] /\ Gentle(v)
  BY <1>2 DEF Only, Gentle
<1>13. Records(at2)'
  <2>1. Stage(vb[v], at[v])
    BY DEF Good, Fits, Records
  <2>2. Stage(vb'[v], at2[v])
    BY <2>1, <1>1, <1>4, <1>12 DEF Stage, Shown, InUse
  <2> QED
    BY <1>4, <1>12, <2>2, RecordsMove DEF Good, Fits
<1>14. Buffers(at2)'
  <2>1. Rank(at2[v]) = Rank(at[v])
    BY <1>1, <1>4 DEF Rank
  <2> QED
    BY <1>2, <1>4, <1>12, <2>1, BuffersMove DEF Good, Fits
<1>15. Calls(at2)'
  <2>1. \A g \in Elements(stack') : Knows(g, at2[g.v], vb'[g.v])
    <3> SUFFICES ASSUME NEW g \in Elements(stack') PROVE Knows(g, at2[g.v], vb'[g.v])
      OBVIOUS
    <3>1. CASE g \in {r, b}
      BY <3>1, <1>3 DEF Knows, Owners, RequestFns
    <3>2. CASE g \in Elements(Rest)
      BY <3>2, <1>1, <1>4, <1>12, RestKnowsMove
    <3> QED
      BY <3>1, <3>2, <1>9
  <2> QED
    BY <1>9, <2>1 DEF Calls
<1>16. Relies(at2)'
  <2>1. Relies(at) /\ blocking_event \in Ids \cup {NoId}
    BY DEF Good, Fits, TypeOK
  <2>2. StopsAlone(at2)'
    BY <1>5, <1>10 DEF StopsAlone, Stops
  <2>3. FlushesSettled(at2)'
    <3>1. Settles(at2)
      BY <1>4 DEF Settles, Pending
    <3> QED
      BY <3>1 DEF FlushesSettled, Settles, Pending
  <2>4. Flushing(at2)'
    <3> SUFFICES ASSUME "flush_loop" \in Fns(stack') PROVE blocking_event = NoId
      BY <1>2 DEF Flushing
    <3>1. "flush_loop" \in Fns(stack) /\ "flip_done" \in Fns(stack)
      BY <1>1, <1>5, <1>10
    <3> QED
      BY <2>1, <3>1 DEF Relies, Flushing
  <2>5. MayPresent' /\ Entered'
    <3>1. "leave_for_each" \in Fns(stack') => "leave_for_each" \in Fns(stack)
      BY <1>5, <1>10
    <3>2. MayPresent'
      BY <1>9 DEF MayPresent
    <3> QED
      BY <2>1, <3>1, <3>2, <1>2 DEF Relies, Entered
  <2>6. Acquired'
    <3>1. \A g \in Elements(stack') : g.fn = "copy" => g \in Elements(stack)
      BY <1>3, <1>5, <1>9
    <3> QED
      BY <2>1, <3>1, <1>2 DEF Relies, Acquired, HasSyncobj
  <2> QED
    BY <2>2, <2>3, <2>4, <2>5, <2>6 DEF Relies
<1>17. Attended(at2)'
  BY <1>1, <1>4, <1>9, <1>12, AttendedMove
<1>18. Blocker(at2)'
  <2>1. blocking_event = v => vb'[v].pixmap /\ "flush_blocked" \in Fns(stack')
    BY <1>1, <1>2, <1>9, BlockerIs, IdsNat DEF Timing
  <2> QED
    BY <1>1, <1>2, <1>4, <1>9, <1>12, <2>1, BlockerMove DEF Timing
<1>19. Timely'
  <2>1. Timely
    BY DEF Good, Fits
  <2> QED
    BY <2>1, <1>2, <1>9 DEF Timely
<1>20. Callbacks(at2)'
  <2>1. Callbacks(at) /\ OnLists(at) /\ sync_callback \in Ids \cup {NoId}
    BY DEF Good, Fits, TypeOK
  <2>2. sync_callback = NoId
    BY <2>1, <1>1 DEF Callbacks, OnLists, OnePending
  <2>3. \A u \in Ids : at2[u] = "pending" => u = v
    BY <2>1, <1>1, <1>4 DEF OnLists, OnePending, Moves
  <2>4. sync_callback' # NoId => sync_callback' = v /\ ~vb'[v].sync_flip
    BY <2>2, <1>2
  <2>5. ~vb'[v].sync_flip => sync_callback' = v
    BY <1>2
  <2> QED
    BY <2>3, <2>4, <2>5, <1>4, <1>9 DEF Callbacks
<1>21. Arguments'
  BY <1>1, <1>2, <1>12, ArgumentsMove DEF Good, Fits
<1> QED
  BY <1>11, <1>13, <1>14, <1>15, <1>16, <1>17, <1>18, <1>19, <1>20, <1>21 DEF Fits

\* A step of the walk of blocked_queue, that takes v off it.
FlushMove(at, at2, v, new) ==
  /\ stack # <<>> /\ v = Top.v /\ Top.fn = "flush_loop"
  /\ at[v] = "blocked" /\ at2[v] \in {"none", "fence"}
  /\ Moves(at, at2, v) /\ Only(v) /\ Gentle(v) /\ vb[v].st # "new" /\ Stage(vb'[v], at2[v]) /\ ~vb'[v].copied
  /\ blocked_queue' = Without(blocked_queue, v)
  /\ UNCHANGED <<wait_list, flip_queue, idle_queue, flip_active>> /\ Calm
  /\ Goes(new) /\ (\A f \in new : f.fn \in {"re_execute", "flush_loop", "block"})
  /\ \A f \in new : Knows(f, at2[f.v], vb'[f.v])
  /\ at2[v] = "none" => \E f \in new : Attends(f, v, at2[v])
  /\ blocking_event = NoId /\ blocked_queue' # <<>> =>
       \E f \in new : \/ f.fn = "flush_loop" /\ f.v = First(blocked_queue')
                      \/ f.fn = "block" /\ vb'[f.v].pixmap
  /\ \A fn \in {"retry", "flip_notify", "copy"} : ~Running(fn)'

LEMMA FlushMoveFits ==
  ASSUME NEW at, Good(at), TypeOK', NEW at2, NEW v \in Ids, NEW new, FlushMove(at, at2, v, new)
  PROVE  Fits(at2)'
<1>1. /\ stack # <<>> /\ v = Top.v /\ Top.fn = "flush_loop"
      /\ at[v] = "blocked" /\ at2[v] \in {"none", "fence"}
      /\ Moves(at, at2, v) /\ Only(v) /\ Gentle(v) /\ vb[v].st # "new" /\ Stage(vb'[v], at2[v]) /\ ~vb'[v].copied
      /\ UNCHANGED <<wait_list, flip_queue, idle_queue, flip_active>> /\ Calm
      /\ blocked_queue' = Without(blocked_queue, v)
  BY DEF FlushMove
<1>2. /\ Goes(new) /\ \A f \in new : f.fn \in {"re_execute", "flush_loop", "block"}
  BY DEF FlushMove
<1>3. \A fn \in {"retry", "flip_notify", "copy"} : ~Running(fn)'
  BY DEF FlushMove
<1>4. /\ Elements(stack') = new \cup Elements(Rest) /\ Sound(stack')
      /\ Fns(stack') = {g.fn : g \in new} \cup Fns(Rest) /\ Elements(Rest) \subseteq Elements(stack')
  BY <1>2, GoesFns DEF Goes
<1>5. /\ Fns(stack) = {Top.fn} \cup Fns(Rest) /\ Elements(stack) = {Top} \cup Elements(Rest)
      /\ Fns(Rest) \cap Stops = {} /\ Fns(Rest) \cap {"flip_done", "flush_blocked", "block"} = {}
      /\ OnTop(Top, Rest)
  BY <1>1, Runs, NoStops DEF Timing
<1>6. "flush_loop" \notin Fns(Rest)
  <2>1. \A g \in Elements(Rest) : g.fn # "flush_loop"
    <3> TAKE g \in Elements(Rest)
    <3>1. Stacked(Top, g)
      BY <1>5, Zenon DEF OnTop
    <3> QED
      BY <3>1, <1>1 DEF Stacked
  <2> QED
    BY <2>1 DEF Fns
<1>7. \A fn : fn \in Fns(stack') => fn \in Fns(Rest) \/ fn \in {"re_execute", "flush_loop", "block"}
  BY <1>2, <1>4
<1>8. Relies(at) /\ blocking_event \in Ids \cup {NoId} /\ "flush_loop" \in Fns(stack)
  BY <1>1, <1>5 DEF Good, Fits, TypeOK
<1>9. /\ Settles(at) /\ (blocking_event # NoId => at[blocking_event] = "fence")
      /\ blocking_event # v
  <2>1. Settles(at) /\ (blocking_event # NoId => at[blocking_event] = "fence")
    BY <1>8 DEF Relies, FlushesSettled, Flushing
  <2> QED
    BY <2>1, <1>1, IdsNat
<1>10. /\ Settles(at2) <=> Settles(at)
       /\ OnePending(at) => OnePending(at2)
  BY <1>1, SettlesMove
<1>11. OnLists(at2)'
  <2>1. OnLists(at) /\ TypeOK
    BY DEF Good, Fits
  <2>2. Is(wait_list', at2, {"wait"}) /\ Is(idle_queue', at2, {"idle"}) /\ Is(flip_queue', at2, {"queue", "pending"})
    BY <2>1, <1>1, IsKept DEF OnLists, TypeOK
  <2>3. Is(blocked_queue', at2, {"blocked"})
    BY <2>1, <1>1, IsWithout DEF OnLists, TypeOK
  <2>4. \A u \in Ids : u = flip_active' <=> at2[u] = "active"
    BY <2>1, <1>1 DEF OnLists, Moves
  <2>5. \A u \in Ids : at2[u] = "pending" => First(flip_queue') = u
    BY <2>1, <1>1 DEF OnLists, Moves
  <2> QED
    BY <2>1, <2>2, <2>3, <2>4, <2>5, <1>10 DEF OnLists
<1>12. Records(at2)'
  BY <1>1, RecordsMove DEF Good, Fits
<1>13. Buffers(at2)'
  <2>1. Rank(at2[v]) = Rank(at[v])
    BY <1>1 DEF Rank
  <2> QED
    BY <1>1, <2>1, BuffersMove DEF Good, Fits, Calm
<1>14. Calls(at2)'
  <2>1. \A g \in Elements(Rest) : Knows(g, at2[g.v], vb'[g.v])
    BY <1>1, RestKnowsMove
  <2>2. \A g \in new : Knows(g, at2[g.v], vb'[g.v])
    BY DEF FlushMove
  <2> QED
    BY <2>1, <2>2, <1>4 DEF Calls
<1>15. Relies(at2)'
  <2>1. StopsAlone(at2)'
    BY <1>5, <1>7 DEF StopsAlone, Stops
  <2>2. FlushesSettled(at2)'
    BY <1>9, <1>10 DEF FlushesSettled, Settles, Pending
  <2>3. Flushing(at2)'
    <3>1. "flip_done" \notin Fns(stack') /\ "flush_blocked" \notin Fns(stack')
      BY <1>5, <1>7
    <3>2. blocking_event # NoId => at2[blocking_event] = "fence"
      BY <1>8, <1>9, <1>1 DEF Moves
    <3> QED
      BY <1>1, <1>3, <3>1, <3>2 DEF Flushing, Calm
  <2>4. MayPresent'
    BY <1>3 DEF MayPresent
  <2>5. Entered'
    <3>1. "leave_for_each" \in Fns(stack') => "leave_for_each" \in Fns(stack)
      BY <1>5, <1>7
    <3> QED
      BY <1>1, <1>8, <3>1 DEF Relies, Entered, Calm
  <2>6. Acquired'
    <3>1. \A g \in Elements(stack') : g.fn = "copy" => g \in Elements(stack)
      BY <1>2, <1>4, <1>5
    <3> QED
      BY <1>1, <1>8, <3>1 DEF Relies, Acquired, HasSyncobj, Calm
  <2> QED
    BY <2>1, <2>2, <2>3, <2>4, <2>5, <2>6 DEF Relies
<1>16. Attended(at2)'
  <2>1. vb'[v].st = "live" /\ at2[v] \in {"none", "held", "flipping"} =>
          \E f \in Elements(stack') : Attends(f, v, at2[v])
    <3>1. at2[v] = "none" => \E f \in new : Attends(f, v, at2[v])
      BY DEF FlushMove
    <3> QED
      BY <3>1, <1>1, <1>4
  <2> QED
    BY <1>1, <1>4, <2>1, AttendedMove
<1>17. Blocker(at2)'
  <2>1. Blocker(at) /\ "flush_blocked" \notin Fns(stack)
    BY <1>1, <1>5 DEF Good, Fits
  <2>2. CASE blocking_event = NoId
    <3>1. blocked_queue' # <<>> =>
            \E f \in new : \/ f.fn = "flush_loop" /\ f.v = First(blocked_queue')
                           \/ f.fn = "block" /\ vb'[f.v].pixmap
      BY <2>2 DEF FlushMove
    <3> QED
      BY <2>2, <3>1, <1>1, <1>4 DEF Blocker, Calm
  <2>3. CASE blocking_event # NoId
    <3>1. /\ blocking_event \in Ids /\ blocking_event # v
          /\ vb[blocking_event].pixmap /\ Blocks(blocking_event, at)
      BY <2>1, <2>3, <1>8, <1>9 DEF Blocker
    <3>2. vb'[blocking_event] = vb[blocking_event] /\ at2[blocking_event] = at[blocking_event]
      BY <3>1, <1>1 DEF Only, Moves
    <3> QED
      BY <2>3, <3>1, <3>2, <1>1 DEF Blocker, Blocks, Live, Calm
  <2> QED
    BY <2>2, <2>3
<1>18. Timely'
  <2>1. Timely /\ TypeOK /\ OnLists(at) /\ Records(at)
    BY DEF Good, Fits
  <2>2. "reset_timer" \in Fns(stack) => "reset_timer" \in Fns(stack')
    BY <1>1, <1>4, <1>5
  <2>3. \A u \in Ids : at2[u] = "pending" => at[u] = "pending" /\ vb'[u].sync_flip = vb[u].sync_flip
    BY <1>1 DEF Moves, Only
  <2>4. wait_list' = wait_list /\ UNCHANGED <<frame_timer, timer_armed>>
    BY <1>1 DEF Calm
  <2> QED
    BY <1>11, <1>12, <2>1, <2>2, <2>3, <2>4, TimelyMove
<1>19. Callbacks(at2)'
  <2>1. /\ Callbacks(at) /\ sync_callback \in Ids \cup {NoId} /\ ~Running("flip_notify") /\ ~Running("flip_notify")'
        /\ sync_callback' = sync_callback
    BY <1>1, <1>3 DEF Good, Fits, TypeOK, Running, Calm
  <2> QED
    BY <2>1, <1>1, CallbacksMove
<1>20. Arguments'
  BY <1>1, ArgumentsMove DEF Good, Fits, Calm
<1> QED
  BY <1>11, <1>12, <1>13, <1>14, <1>15, <1>16, <1>17, <1>18, <1>19, <1>20 DEF Fits

LEMMA FlushLoopFits ==
  ASSUME NEW at, Good(at), TypeOK', FlushLoop
  PROVE  \E at2 \in [Ids -> Places] : Fits(at2)'
<1> SUFFICES ASSUME NEW v \in Ids, v = Top.v PROVE \E at2 \in [Ids -> Places] : Fits(at2)'
  BY Runs DEF FlushLoop, Running, RequestFns
<1>1. /\ stack # <<>> /\ Top.fn = "flush_loop" /\ Top.lag = 0 /\ at[v] = "blocked" /\ vb[v].st = "live"
      /\ Has(blocked_queue, v)
  <2>1. stack # <<>> /\ Top.fn = "flush_loop" /\ Has(blocked_queue, v)
    BY DEF FlushLoop, Running
  <2> QED
    BY <2>1, Runs DEF Knows, RequestFns
<1>2. /\ vb[v] \in Vblank /\ Owed(vb[v]) /\ vb[v].idled <= 1 /\ vb[v].efd = "none"
      /\ vb[v].pixmap /\ ~vb[v].copied /\ vb[v].due <= 0 /\ vb[v].done <= 1
  <2>1. Stage(vb[v], at[v]) /\ vb[v] \in Vblank
    BY DEF Good, Fits, Records, TypeOK
  <2> QED
    BY <2>1, <1>1 DEF Stage, Shown, Vblank
<1>3. ~Requeues(v, Top.lag)
  BY <1>1, <1>2 DEF Requeues, Ahead, Vblank
<1>4. /\ blocked_queue' = Without(blocked_queue, v)
      /\ Calm /\ UNCHANGED <<wait_list, flip_queue, idle_queue, flip_active>>
  BY <1>3 DEF FlushLoop, Calm, world, links, timer, Wait
<1>5. TypeOK /\ OnLists(at) /\ Once(blocked_queue) /\ blocked_queue \in Seq(Ids)
  BY DEF Good, Fits, OnLists, Is, TypeOK
<1>6. /\ Rest \in Seq(Frame) /\ Nested(Rest) /\ OnTop(Top, Rest)
      /\ Elements(stack) = {Top} \cup Elements(Rest)
      /\ Fns(Rest) \cap {"flip_done", "flush_blocked", "block"} = {}
  BY <1>1, Runs, NoStops DEF Timing
<1>7. CASE MustWait(v, Top.lag)
  <2> DEFINE f == CallOn("block", v, 0)
  <2>1. HasSyncobj(v)
    <3>1. Unready(v) /\ req[v].sync # "fence"
      BY <1>1, <1>3, <1>7 DEF MustWait, Good, Fits, Arguments
    <3> QED
      BY <3>1 DEF Unready, HasSyncobj
  <2>2. vb' = [vb EXCEPT ![v] = Waiting(@, v)] /\ Continue(<<f>>)
    BY <1>1, <1>3, <1>7 DEF FlushLoop, Wait
  <2>3. Only(v) /\ vb'[v] = Waiting(vb[v], v)
    BY <2>2 DEF Only, Good, TypeOK
  <2>4. /\ vb'[v].st = "live" /\ vb'[v].pixmap = vb[v].pixmap /\ vb'[v].copied = vb[v].copied
        /\ vb'[v].evpix = vb[v].evpix /\ vb'[v].handed = vb[v].handed /\ vb'[v].done = vb[v].done
        /\ vb'[v].idled = vb[v].idled /\ vb'[v].efd # "none" /\ vb'[v].flip = vb[v].flip
        /\ vb'[v].queued = vb[v].queued
    BY <1>1, <1>2, <2>1, <2>3 DEF Vblank, Waiting
  <2>5. PICK at2 \in [Ids -> Places] : Moves(at, at2, v) /\ at2[v] = "fence"
    <3>1. "fence" \in Places
      BY DEF Places
    <3> QED
      BY <3>1, Moving
  <2>6. Stage(vb'[v], at2[v]) /\ Gentle(v)
    BY <1>1, <1>2, <2>4, <2>5 DEF Stage, Shown, Owed, Gentle
  <2>7. f \in Frame /\ f.fn = "block" /\ f.v = v /\ f.lag = 0
    BY <1>1, CallTyped, CallFields DEF RequestFns
  <2>8. stack' = <<f>> \o Rest
    BY <2>2 DEF Continue, Rest
  <2> HIDE DEF f
  <2>9. OnTop(f, Rest)
    BY <1>1, <2>7, PlainCall DEF Plain, Timing
  <2>10. /\ Goes({f}) /\ (\A fn : Running(fn)' <=> f.fn = fn)
    BY <1>1, <2>7, <2>8, <2>9, OneMade
  <2>11. /\ \A g \in {f} : g.fn \in {"re_execute", "flush_loop", "block"}
         /\ \A g \in {f} : Knows(g, at2[g.v], vb'[g.v])
    BY <1>1, <1>2, <2>4, <2>5, <2>7 DEF Knows, Owners
  <2>12. \E g \in {f} : g.fn = "block" /\ vb'[g.v].pixmap
    BY <1>2, <2>4, <2>7
  <2>13. \A fn \in {"retry", "flip_notify", "copy"} : ~Running(fn)'
    BY <2>7, <2>10
  <2>14. FlushMove(at, at2, v, {f})
    BY <1>1, <1>2, <1>4, <2>3, <2>4, <2>5, <2>6, <2>10, <2>11, <2>12, <2>13 DEF FlushMove
  <2>15. Fits(at2)'
    BY <2>14, FlushMoveFits
  <2> QED
    BY <2>15
<1>8. CASE ~MustWait(v, Top.lag)
  <2> SUFFICES ASSUME NEW tmp, tmp = After(blocked_queue, v) PROVE \E at2 \in [Ids -> Places] : Fits(at2)'
    OBVIOUS
  <2> DEFINE f == CallOn("re_execute", v, 0)
             g == CallOn("flush_loop", tmp, 0)
  <2>1. vb' = vb /\ Continue(<<f>> \o If(tmp # NoId, <<g>>))
    BY <1>1, <1>8 DEF FlushLoop
  <2>2. Only(v) /\ vb'[v] = vb[v] /\ Gentle(v)
    BY <2>1 DEF Only, Gentle
  <2>3. PICK at2 \in [Ids -> Places] : Moves(at, at2, v) /\ at2[v] = "none"
    <3>1. "none" \in Places
      BY DEF Places
    <3> QED
      BY <3>1, Moving
  <2>4. Stage(vb'[v], at2[v])
    BY <1>1, <1>2, <2>2, <2>3 DEF Stage, Shown, Owed
  <2>5. f \in Frame /\ f.fn = "re_execute" /\ f.v = v /\ f.lag = 0 /\ g.fn = "flush_loop"
    BY <1>1, CallTyped, CallFields DEF RequestFns
  <2>6. tmp # NoId => /\ g \in Frame /\ g.fn = "flush_loop" /\ g.v = tmp /\ g.lag = 0
                      /\ tmp \in Ids /\ tmp # v /\ at[tmp] = "blocked" /\ vb[tmp].st = "live"
    <3>1. tmp # NoId => tmp \in Ids /\ tmp # v /\ Has(blocked_queue, tmp)
      BY <1>1, <1>5, AfterHas
    <3>2. tmp # NoId => at[tmp] = "blocked"
      BY <3>1, <1>5 DEF OnLists, Is
    <3>3. tmp # NoId => vb[tmp].st = "live"
      BY <3>1, <3>2 DEF Good, Fits, Records, Stage
    <3> QED
      BY <3>1, <3>2, <3>3, CallTyped, CallFields DEF RequestFns
  <2> HIDE DEF f, g
  <2>7. OnTop(f, Rest)
    BY <1>1, <2>5, PlainCall DEF Plain, Timing
  \* Without a blocker the walk is at the head of the list, and goes on there.
  <2>8. blocking_event = NoId /\ blocked_queue' # <<>> => tmp # NoId /\ First(blocked_queue') = tmp
    <3> SUFFICES ASSUME blocking_event = NoId, blocked_queue' # <<>>
                 PROVE  tmp # NoId /\ First(blocked_queue') = tmp
      OBVIOUS
    <3>1. blocked_queue # <<>>
      BY <1>1, HasNone
    <3>2. PICK h \in Elements(stack) : \/ h.fn = "flush_loop" /\ h.v = First(blocked_queue)
                                       \/ h.fn = "block" /\ vb[h.v].pixmap
      BY <3>1 DEF Good, Fits, Blocker
    <3>3. h \notin Elements(Rest)
      <4>1. CASE h.fn = "block"
        BY <4>1, <1>6 DEF Fns
      <4>2. CASE h.fn = "flush_loop"
        <5>1. ~Stacked(Top, h)
          BY <4>2, <1>1 DEF Stacked
        <5> QED
          BY <5>1, <1>6, Zenon DEF OnTop
      <4> QED
        BY <4>1, <4>2, <3>2
    <3>4. v = First(blocked_queue)
      BY <3>2, <3>3, <1>1, <1>6
    <3> QED
      BY <3>1, <3>4, <1>4, <1>5, FirstAfter
  <2>9. PICK new : /\ Goes(new) /\ f \in new /\ new \subseteq {f, g} /\ (g \in new => tmp # NoId)
                   /\ tmp # NoId => g \in new
                   /\ \A fn \in {"retry", "flip_notify", "copy"} : ~Running(fn)'
    <3>1. CASE tmp # NoId
      <4>1. stack' = <<f>> \o (<<g>> \o Rest)
        <5>1. stack' = (<<f>> \o <<g>>) \o Rest
          BY <3>1, <2>1 DEF Continue, Rest, If
        <5> QED
          BY <5>1, <3>1, <2>5, <2>6, <1>6, Frames
      <4>2. OnTop(g, Rest)
        <5> SUFFICES ASSUME NEW h \in Elements(Rest) PROVE Stacked(g, h)
          BY Zenon DEF OnTop
        <5>1. Stacked(Top, h)
          BY <1>6, Zenon DEF OnTop
        <5> QED
          BY <5>1, <3>1, <2>6, <1>1 DEF Stacked, Owners
      <4>3. Stacked(f, g) /\ \A h \in Elements(Rest) : Buried(g, h)
        BY <3>1, <2>5, <2>6 DEF Stacked, Buried, Tops, Sealed, Timing, Bumps, Owners, Stops
      <4>4. Goes({f, g}) /\ (\A fn : Running(fn)' <=> f.fn = fn)
        BY <1>1, <3>1, <2>5, <2>6, <2>7, <4>1, <4>2, <4>3, TwoMade
      <4>5. f \in {f, g} /\ g \in {f, g} /\ {f, g} \subseteq {f, g}
        OBVIOUS
      <4>6. \A fn \in {"retry", "flip_notify", "copy"} : ~Running(fn)'
        BY <4>4, <2>5
      <4> QED
        BY <3>1, <4>4, <4>5, <4>6
    <3>2. CASE tmp = NoId
      <4>1. stack' = <<f>> \o Rest
        <5>1. stack' = (<<f>> \o <<>>) \o Rest /\ <<f>> \o <<>> = <<f>>
          BY <3>2, <2>1 DEF Continue, Rest, If
        <5> QED
          BY <5>1
      <4>2. Goes({f}) /\ (\A fn : Running(fn)' <=> f.fn = fn)
        BY <1>1, <2>5, <2>7, <4>1, OneMade
      <4>3. f \in {f} /\ {f} \subseteq {f, g} /\ g \notin {f}
        BY <2>5
      <4>4. \A fn \in {"retry", "flip_notify", "copy"} : ~Running(fn)'
        BY <4>2, <2>5
      <4> QED
        BY <3>2, <4>2, <4>3, <4>4
    <3> QED
      BY <3>1, <3>2
  <2>10. /\ \A h \in new : h.fn \in {"re_execute", "flush_loop", "block"}
         /\ \A h \in new : Knows(h, at2[h.v], vb'[h.v])
    <3>1. f.fn \in {"re_execute", "flush_loop", "block"} /\ Knows(f, at2[f.v], vb'[f.v])
      BY <1>1, <2>2, <2>3, <2>5 DEF Knows, Owners
    <3>2. tmp # NoId => at2[tmp] = "blocked" /\ vb'[tmp].st = "live"
      BY <2>1, <2>3, <2>6 DEF Moves
    <3>3. tmp # NoId => g.fn \in {"re_execute", "flush_loop", "block"} /\ Knows(g, at2[g.v], vb'[g.v])
      BY <2>6, <3>2 DEF Knows, Owners
    <3> QED
      BY <3>1, <3>3, <2>9
  <2>11. \E h \in new : Attends(h, v, at2[v])
    BY <2>3, <2>5, <2>9 DEF Attends
  <2>12. blocking_event = NoId /\ blocked_queue' # <<>> =>
           \E h \in new : \/ h.fn = "flush_loop" /\ h.v = First(blocked_queue')
                          \/ h.fn = "block" /\ vb'[h.v].pixmap
    BY <2>6, <2>8, <2>9
  <2>13. FlushMove(at, at2, v, new)
    BY <1>1, <1>2, <1>4, <2>2, <2>3, <2>4, <2>9, <2>10, <2>11, <2>12 DEF FlushMove
  <2>14. Fits(at2)'
    BY <2>13, FlushMoveFits
  <2> QED
    BY <2>14
<1> QED
  BY <1>7, <1>8

\* The flip v completes: it is on the screen, and the flip before it is not any more.
NotifyPlaces(at, at2, v, old, free) ==
  /\ at2[v] = "active" /\ (old # NoId => at2[old] = IF free THEN "none" ELSE "idle")
  /\ \A u \in Ids : u # v /\ u # old => at2[u] = at[u]

\* What that does to the buffers.
LEMMA NotifyBuffers ==
  ASSUME NEW at, Good(at), NEW v \in Ids, at[v] = "pending", NEW old, old = flip_active,
         NEW free, free <=> old # NoId /\ Released(old, v),
         NEW at2, NotifyPlaces(at, at2, v, old, free), \A u \in Ids : at[u] # "flipping",
         vb' = [u \in Ids |-> IF u = v THEN Done(vb[v])
                              ELSE IF free /\ u = old THEN Freed(vb[u]) ELSE vb[u]],
         release_cb' = IF free THEN CbWithout({old}) ELSE release_cb,
         UNCHANGED <<req, pix, setup, held>>
  PROVE  Buffers(at2)'
<1>1. /\ InOrder(at) /\ Reused /\ Names /\ Shows
      /\ release_cb \in [Pixmaps -> Ids \cup {NoId}] /\ vb \in [Ids -> Vblank]
  BY DEF Good, Fits, Buffers, TypeOK
<1>2. /\ old # NoId => old \in Ids /\ at[old] = "active" /\ old # v
      /\ \A u \in Ids : at[u] = "active" <=> u = old
      /\ \A u \in Ids : at[u] = "pending" <=> u = v
  <2>1. OnLists(at) /\ flip_active \in Ids \cup {NoId}
    BY DEF Good, Fits, TypeOK
  <2> QED
    BY <2>1 DEF OnLists, OnePending
\* The records: those that are not freed keep what the buffers depend on.
<1>3. \A u \in Ids : ~(free /\ u = old) =>
        /\ vb'[u].st = vb[u].st /\ vb'[u].pixmap = vb[u].pixmap /\ vb'[u].evpix = vb[u].evpix
        /\ vb'[u].handed = vb[u].handed /\ vb'[u].idled = vb[u].idled
  BY <1>1 DEF Done, Vblank
<1>4. free => /\ vb'[old].st = "freed" /\ vb'[old].evpix = FALSE
  BY <1>2 DEF Freed, Blank
<1>5. InOrder(at2)'
  <2> SUFFICES ASSUME NEW u \in Ids, NEW w \in Ids, pix[u] = pix[w],
                      Rank(at2[u]) < Rank(at2[w]), Rank(at2[w]) < 3
               PROVE  u < w
    BY DEF InOrder
  <2>1. /\ \A p : Rank(p) \in {0, 1, 2, 3} /\ (Rank(p) = 2 <=> p \in {"pending", "flipping"})
        /\ \A p : (Rank(p) = 1 <=> p = "active") /\ (Rank(p) = 0 <=> p = "idle")
    BY DEF Rank
  <2>2. \A x \in Ids : \/ x = v /\ at2[x] = "active" /\ at[x] = "pending"
                       \/ x = old /\ at2[x] \in {"none", "idle"} /\ at[x] = "active"
                       \/ x # v /\ x # old /\ at2[x] = at[x] /\ at[x] \notin {"active", "pending", "flipping"}
    BY <1>2, IdsNat DEF NotifyPlaces
  <2>3. \A x \in Ids : Rank(at2[x]) # 2 /\ (Rank(at2[x]) = 1 => x = v)
    BY <2>1, <2>2
  <2>4. Rank(at2[w]) = 1 /\ Rank(at2[u]) = 0
    BY <2>1, <2>3
  <2>5. w = v /\ at2[u] = "idle"
    BY <2>1, <2>3, <2>4
  <2>6. Rank(at[w]) = 2 /\ at[u] \in {"idle", "active"}
    BY <2>1, <2>2, <2>5
  <2>7. Rank(at[u]) < Rank(at[w]) /\ Rank(at[w]) < 3
    BY <2>6 DEF Rank
  <2> QED
    BY <1>1, <2>7 DEF InOrder
<1>6. Reused'
  <2> SUFFICES ASSUME NEW u \in Ids, NEW w \in Ids, u < w, pix[u] = pix[w], Uses(u)', Uses(w)'
               PROVE  Settled(u)'
    BY DEF Reused
  <2>1. ~(free /\ u = old) /\ ~(free /\ w = old)
    BY <1>4 DEF Uses, Live
  <2>2. Uses(u) /\ Uses(w)
    BY <2>1, <1>3 DEF Uses, Live
  <2>3. Settled(u)
    BY <2>2, <1>1 DEF Reused
  <2> QED
    BY <2>1, <2>3, <1>3 DEF Settled
<1>7. Names'
  <2> SUFFICES ASSUME NEW p \in Pixmaps, NEW u \in Ids, release_cb'[p] = u
               PROVE  pix[u] = p /\ vb'[u].evpix /\ ~vb'[u].handed
    BY DEF Names
  <2>1. release_cb[p] = u /\ (free => ~(vb[old].evpix /\ pix[old] = p))
    BY IdsNat DEF CbWithout
  <2>2. pix[u] = p /\ vb[u].evpix /\ ~vb[u].handed
    BY <2>1, <1>1 DEF Names
  <2>3. ~(free /\ u = old)
    BY <2>1, <2>2
  <2> QED
    BY <2>2, <2>3, <1>3
<1>8. Shows'
  <2> SUFFICES ASSUME NEW u \in Ids, vb'[u].evpix
               PROVE  /\ pix[u] \in Pixmaps /\ (vb'[u].handed <=> Explicit(u))
                      /\ ~vb'[u].handed => release_cb'[pix[u]] = u /\ pix[u] \in held
    BY DEF Shows, Explicit, HasSyncobj
  <2>1. ~(free /\ u = old)
    BY <1>4
  <2>2. vb[u].evpix /\ vb'[u].handed = vb[u].handed
    BY <2>1, <1>3
  <2>3. /\ pix[u] \in Pixmaps /\ (vb[u].handed <=> Explicit(u))
        /\ ~vb[u].handed => release_cb[pix[u]] = u /\ pix[u] \in held
    BY <2>2, <1>1 DEF Shows
  \* The freed flip's release callback is not that of another request of its pixmap.
  <2>4. ASSUME ~vb[u].handed, free, vb[old].evpix, pix[old] = pix[u] PROVE FALSE
    <3>1. old \in Ids /\ u # old /\ at[old] = "active" /\ Uses(u) /\ Uses(old) /\ ~Settled(u) /\ at[u] \in Shown
      BY <2>1, <2>2, <2>4, <1>2, ShownUnsettled
    <3>2. Explicit(v)
      BY <2>4 DEF Released, Explicit
    <3>3. vb[v].evpix => vb[v].handed
      BY <1>1, <3>2 DEF Shows
    <3>4. u # v
      BY <2>2, <2>4, <3>3
    <3>5. at[u] = "idle"
      BY <3>1, <3>4, <1>2 DEF Shown
    <3>6. u < old
      BY <3>1, <3>5, <1>1, <2>4 DEF InOrder, Rank
    <3> QED
      BY <3>1, <3>6, <1>1, <2>4 DEF Reused
  <2>5. ~vb[u].handed => release_cb'[pix[u]] = release_cb[pix[u]]
    BY <2>3, <2>4 DEF CbWithout
  <2> QED
    BY <2>2, <2>3, <2>5
<1> QED
  BY <1>5, <1>6, <1>7, <1>8 DEF Buffers

\* What the completion does to the records.
LEMMA NotifyRecords ==
  ASSUME NEW at, Good(at), NEW v \in Ids, at[v] = "pending", NEW old, old = flip_active,
         NEW free, free <=> old # NoId /\ Released(old, v),
         NEW at2, NotifyPlaces(at, at2, v, old, free),
         vb' = [u \in Ids |-> IF u = v THEN Done(vb[v])
                              ELSE IF free /\ u = old THEN Freed(vb[u]) ELSE vb[u]]
  PROVE  Records(at2)'
<1> SUFFICES ASSUME NEW u \in Ids PROVE Stage(vb'[u], at2[u])
  BY DEF Records
<1>1. Stage(vb[u], at[u]) /\ vb[u] \in Vblank
  BY DEF Good, Fits, Records, TypeOK
<1>2. old # NoId => old \in Ids /\ at[old] = "active" /\ old # v
  BY DEF Good, Fits, OnLists, TypeOK
<1>3. CASE u = v
  <2>1. vb'[u] = Done(vb[u]) /\ at2[u] = "active" /\ at[u] = "pending"
    BY <1>3 DEF NotifyPlaces
  <2>2. /\ Done(vb[u]).st = vb[u].st /\ Done(vb[u]).pixmap = vb[u].pixmap /\ Done(vb[u]).copied = vb[u].copied
        /\ Done(vb[u]).evpix = vb[u].evpix /\ Done(vb[u]).handed = vb[u].handed /\ Done(vb[u]).done = vb[u].done + 1
        /\ Done(vb[u]).idled = vb[u].idled /\ Done(vb[u]).efd = vb[u].efd /\ Done(vb[u]).queued = vb[u].queued
    BY <1>1 DEF Vblank, Done
  <2>3. Stage(vb[u], "pending")
    BY <1>1, <2>1
  <2>4. vb[u].done = 0
    BY <2>3 DEF Stage, Shown, InUse
  <2>5. Done(vb[u]).done = 1
    BY <2>2, <2>4
  <2>6. Stage(Done(vb[u]), "active")
    BY <2>2, <2>3, <2>5 DEF Stage, Shown, InUse
  <2> QED
    BY <2>1, <2>6
<1>4. CASE u = old /\ u # v
  <2>1. at[u] = "active" /\ Stage(vb[u], "active")
    BY <1>1, <1>2, <1>4, IdsNat
  <2>2. CASE free
    <3>1. vb'[u] = Freed(vb[u]) /\ at2[u] = "none"
      BY <1>4, <2>2, IdsNat DEF NotifyPlaces
    <3>2. /\ Freed(vb[u]).st = "freed" /\ Freed(vb[u]).done = vb[u].done /\ Freed(vb[u]).idled = vb[u].idled
          /\ Freed(vb[u]).evpix = FALSE /\ Freed(vb[u]).efd = "none"
      BY DEF Freed, Blank
    <3>3. Stage(Freed(vb[u]), "none")
      BY <2>1, <3>2 DEF Stage, Shown
    <3> QED
      BY <3>1, <3>3
  <2>3. CASE ~free
    <3>1. vb'[u] = vb[u] /\ at2[u] = "idle" /\ vb[u].evpix
      BY <1>4, <2>3, IdsNat DEF NotifyPlaces, Released
    <3>2. Stage(vb[u], "idle")
      BY <2>1, <3>1 DEF Stage, Shown, InUse
    <3> QED
      BY <3>1, <3>2
  <2> QED
    BY <2>2, <2>3
<1>5. CASE u # v /\ u # old
  BY <1>1, <1>5 DEF NotifyPlaces
<1> QED
  BY <1>3, <1>4, <1>5

LEMMA FlipNotifyFits ==
  ASSUME NEW at, Good(at), TypeOK', FlipNotify
  PROVE  \E at2 \in [Ids -> Places] : Fits(at2)'
<1> SUFFICES ASSUME NEW v \in Ids, v = Top.v, NEW old, old = flip_active,
                    NEW free, free = (old # NoId /\ Released(old, v))
             PROVE  \E at2 \in [Ids -> Places] : Fits(at2)'
  BY Runs DEF FlipNotify, Running, RequestFns
<1> DEFINE s == Call("flips_stop")
           y == Call("flip_try_ready")
<1>1. stack # <<>> /\ Top.fn = "flip_notify" /\ at[v] = "pending" /\ vb[v].st = "live"
  <2>1. stack # <<>> /\ Top.fn = "flip_notify"
    BY DEF FlipNotify, Running
  <2> QED
    BY <2>1, Runs DEF Knows, RequestFns
<1>2. /\ flip_queue' = Without(flip_queue, v) /\ flip_active' = v
      /\ vb' = [u \in Ids |-> IF u = v THEN Done(vb[v])
                              ELSE IF free /\ u = old THEN Freed(vb[u]) ELSE vb[u]]
      /\ release_cb' = IF free THEN CbWithout({old}) ELSE release_cb
      /\ idle_queue' = IF old # NoId /\ ~free THEN Append(idle_queue, old) ELSE idle_queue
      /\ Continue(If(vb[v].abort_flip, <<s>>) \o <<y>>)
  BY DEF FlipNotify
<1>3. /\ UNCHANGED <<req, pix, acq, held, setup, wait_list, blocked_queue>>
      /\ UNCHANGED <<blocking_event, sync_callback, entered_for_each, frame_timer, timer_armed>>
  BY DEF FlipNotify, world, links, timer
<1>4. /\ s \in Frame /\ s.fn = "flips_stop" /\ s.v = NoId
      /\ y \in Frame /\ y.fn = "flip_try_ready" /\ y.v = NoId
  BY CallTyped, CallFields DEF WindowFns
<1> HIDE DEF s, y
<1>5. TypeOK /\ OnLists(at) /\ Relies(at)
  BY DEF Good, Fits
<1>6. /\ old \in Ids \cup {NoId}
      /\ old # NoId => at[old] = "active" /\ old # v
      /\ \A u \in Ids : at[u] = "active" <=> u = old
      /\ \A u \in Ids : at[u] = "pending" <=> u = v
      /\ \A u \in Ids : at[u] # "flipping"
  BY <1>1, <1>5, NoneFlipping DEF OnLists, OnePending, TypeOK, Timing
<1>7. PICK at2 \in [Ids -> Places] : NotifyPlaces(at, at2, v, old, free)
  <2> DEFINE at2 == [u \in Ids |-> IF u = v THEN "active"
                                   ELSE IF u = old THEN (IF free THEN "none" ELSE "idle") ELSE at[u]]
  <2>1. at2 \in [Ids -> Places]
    BY DEF Good, Places
  <2>2. NotifyPlaces(at, at2, v, old, free)
    BY <1>6 DEF NotifyPlaces
  <2> QED
    BY <2>1, <2>2
<1>8. \A u \in Ids : \/ u = v /\ at2[u] = "active" /\ at[u] = "pending"
                     \/ u = old /\ u # v /\ at2[u] = (IF free THEN "none" ELSE "idle") /\ at[u] = "active"
                     \/ u # v /\ u # old /\ at2[u] = at[u] /\ at[u] \notin {"active", "pending", "flipping"}
  BY <1>6, <1>7, IdsNat DEF NotifyPlaces
<1>9. ~Pending(at2)
  BY <1>8 DEF Pending
<1>10. Records(at2)' /\ Buffers(at2)'
  <2>1. free <=> old # NoId /\ Released(old, v)
    OBVIOUS
  <2>2. UNCHANGED <<req, pix, setup, held>> /\ \A u \in Ids : at[u] # "flipping"
    BY <1>3, <1>6
  <2>3. Records(at2)'
    BY <1>1, <1>2, <1>7, <2>1, NotifyRecords
  <2>4. Buffers(at2)'
    BY <1>1, <1>2, <1>7, <2>1, <2>2, NotifyBuffers
  <2> QED
    BY <2>3, <2>4
<1>11. OnLists(at2)'
  <2>1. Is(wait_list', at2, {"wait"}) /\ Is(blocked_queue', at2, {"blocked"})
    BY <1>3, <1>5, <1>8 DEF OnLists, Is
  <2>2. Is(flip_queue', at2, {"queue", "pending"})
    <3>1. Once(flip_queue') /\ \A u : Has(flip_queue', u) <=> Has(flip_queue, u) /\ u # v
      BY <1>2, <1>5, WithoutHas DEF OnLists, Is, TypeOK
    <3> QED
      BY <3>1, <1>5, <1>8 DEF OnLists, Is
  <2>3. Is(idle_queue', at2, {"idle"})
    <3>1. CASE old # NoId /\ ~free
      <4>1. ~Has(idle_queue, old) /\ Once(idle_queue) /\ old \in Ids
        BY <1>5, <1>6, <3>1 DEF OnLists, Is
      <4>2. Once(idle_queue') /\ \A u : Has(idle_queue', u) <=> Has(idle_queue, u) \/ u = old
        BY <1>2, <1>5, <3>1, <4>1, AppendHas DEF TypeOK
      <4> QED
        BY <3>1, <4>2, <1>5, <1>8 DEF OnLists, Is
    <3>2. CASE ~(old # NoId /\ ~free)
      <4>1. idle_queue' = idle_queue
        BY <3>2, <1>2
      <4>2. \A u \in Ids : u = old => free
        BY <3>2, IdsNat
      <4> QED
        BY <4>1, <4>2, <1>5, <1>8 DEF OnLists, Is
    <3> QED
      BY <3>1, <3>2
  <2>4. \A u \in Ids : u = flip_active' <=> at2[u] = "active"
    BY <1>2, <1>8
  <2>5. \A u \in Ids : at2[u] \notin {"pending", "flipping"}
    BY <1>8
  <2>6. OnePending(at2)
    BY <2>5 DEF OnePending
  <2> QED
    BY <2>1, <2>2, <2>3, <2>4, <2>5, <2>6 DEF OnLists
<1>12. /\ Rest \in Seq(Frame) /\ Nested(Rest) /\ OnTop(Top, Rest) /\ Elements(Rest) \subseteq Frame
       /\ Elements(stack) = {Top} \cup Elements(Rest) /\ Fns(stack) = {Top.fn} \cup Fns(Rest)
  BY <1>1, Runs
\* It is called from the event loop or from the bump of the msc.
<1>13. \A g \in Elements(Rest) : g.fn \in Bases \cup {"bump_start"}
  <2> TAKE g \in Elements(Rest)
  <2>1. Stacked(Top, g)
    BY <1>12, Zenon DEF OnTop
  <2> QED
    BY <2>1, <1>1 DEF Stacked
<1>14. PICK new : /\ Goes(new) /\ new \subseteq {s, y}
                  /\ \A fn \in {"retry", "flip_notify", "copy"} : ~Running(fn)'
  <2>1. OnTop(y, Rest) /\ OnTop(s, Rest)
    <3>1. OnTop(y, Rest)
      BY <1>1, <1>4, PlainCall DEF Plain, Timing
    <3>2. \A g \in Elements(Rest) : Stacked(s, g)
      BY <1>4, <1>13 DEF Stacked, Tops, Sealed, Timing, Bumps, Owners, Stops, Bases
    <3> QED
      BY <3>1, <3>2, Zenon DEF OnTop
  <2>2. CASE vb[v].abort_flip
    <3>1. stack' = <<s>> \o (<<y>> \o Rest)
      <4>1. stack' = (<<s>> \o <<y>>) \o Rest
        BY <2>2, <1>2 DEF Continue, Rest, If
      <4> QED
        BY <4>1, <1>4, <1>12, Frames
    <3>2. Stacked(s, y) /\ \A g \in Elements(Rest) : Buried(y, g)
      BY <1>4 DEF Stacked, Buried, Tops, Sealed, Timing, Bumps, Owners, Stops
    <3>3. Goes({s, y}) /\ (\A fn : Running(fn)' <=> s.fn = fn)
      BY <1>1, <1>4, <2>1, <3>1, <3>2, TwoMade
    <3>4. \A fn \in {"retry", "flip_notify", "copy"} : ~Running(fn)'
      BY <3>3, <1>4
    <3> QED
      BY <3>3, <3>4
  <2>3. CASE ~vb[v].abort_flip
    <3>1. stack' = <<y>> \o Rest
      <4>1. stack' = (<<>> \o <<y>>) \o Rest
        BY <2>3, <1>2 DEF Continue, Rest, If
      <4> QED
        BY <4>1, <1>4, <1>12, Frames
    <3>2. Goes({y}) /\ (\A fn : Running(fn)' <=> y.fn = fn)
      BY <1>1, <1>4, <2>1, <3>1, OneMade
    <3>3. {y} \subseteq {s, y}
      OBVIOUS
    <3>4. \A fn \in {"retry", "flip_notify", "copy"} : ~Running(fn)'
      BY <3>2, <1>4
    <3> QED
      BY <3>2, <3>3, <3>4
  <2> QED
    BY <2>2, <2>3
<1>15. /\ Elements(stack') = new \cup Elements(Rest) /\ Sound(stack')
       /\ Fns(stack') = {g.fn : g \in new} \cup Fns(Rest) /\ Elements(Rest) \subseteq Elements(stack')
  BY <1>14, GoesFns DEF Goes
<1>16. \A g \in Elements(stack') : g.fn \in Bases \cup {"bump_start", "flips_stop", "flip_try_ready"}
  BY <1>4, <1>13, <1>14, <1>15
<1>17. \A fn : fn \in Fns(stack') => /\ fn \in Bases \cup {"bump_start", "flips_stop", "flip_try_ready"}
                                     /\ fn \in Fns(Rest) \/ fn \in {"flips_stop", "flip_try_ready"}
  <2>1. \A fn : fn \in Fns(stack') => fn \in Bases \cup {"bump_start", "flips_stop", "flip_try_ready"}
    BY <1>16 DEF Fns
  <2>2. \A fn : fn \in Fns(stack') => fn \in Fns(Rest) \/ fn \in {"flips_stop", "flip_try_ready"}
    BY <1>4, <1>14, <1>15
  <2> QED
    BY <2>1, <2>2
<1>18. Calls(at2)'
  <2> SUFFICES ASSUME NEW g \in Elements(stack') PROVE Knows(g, at2[g.v], vb'[g.v])
    BY <1>15 DEF Calls
  <2>1. CASE g \in {s, y}
    BY <2>1, <1>4 DEF Knows, Owners, RequestFns
  <2>2. CASE g \in Elements(Rest)
    <3>1. Knows(g, at[g.v], vb[g.v]) /\ g \in Frame /\ g.fn \notin RequestFns
      BY <2>2, <1>1, <1>12, <1>13, Runs DEF Bases, RequestFns
    <3> QED
      BY <3>1, WindowKnows
  <2> QED
    BY <2>1, <2>2, <1>14, <1>15
<1>19. Relies(at2)'
  <2>1. StopsAlone(at2)'
    BY <1>9 DEF StopsAlone, Pending
  <2>2. FlushesSettled(at2)' /\ Flushing(at2)'
    BY <1>17 DEF FlushesSettled, Flushing, Bases
  <2>3. MayPresent'
    BY <1>14 DEF MayPresent
  <2>4. Entered'
    <3>1. "leave_for_each" \in Fns(stack') => "leave_for_each" \in Fns(stack)
      BY <1>12, <1>17
    <3> QED
      BY <3>1, <1>3, <1>5 DEF Relies, Entered
  <2>5. Acquired'
    BY <1>16 DEF Acquired, Bases
  <2> QED
    BY <2>1, <2>2, <2>3, <2>4, <2>5 DEF Relies
<1>20. \A u \in Ids : u # v /\ u # old => vb'[u] = vb[u]
  BY <1>2
<1>21. free => vb'[old].st = "freed"
  BY <1>2, <1>6 DEF Freed, Blank
<1>22. Attended(at2)'
  <2> SUFFICES ASSUME NEW u \in Ids, vb'[u].st = "live", at2[u] \in {"none", "held", "flipping"}
               PROVE  \E g \in Elements(stack') : Attends(g, u, at2[u])
    BY DEF Attended, Live
  <2>1. u # v /\ u # old
    BY <1>8, <1>21
  <2>2. at2[u] = at[u] /\ Live(u)
    BY <2>1, <1>8, <1>20 DEF Live
  <2>3. \E g \in Elements(Rest) : Attends(g, u, at[u])
    BY <2>1, <2>2, <1>1, RestAttends
  <2> QED
    BY <2>2, <2>3, <1>15
<1>23. Blocker(at2)'
  <2>1. CASE blocking_event = NoId
    <3>1. blocked_queue = <<>>
      <4>1. \A g \in Elements(stack) : g.fn \notin {"flush_loop", "block"}
        BY <1>1, <1>12, <1>13 DEF Bases
      <4> QED
        BY <2>1, <4>1 DEF Good, Fits, Blocker
    <3> QED
      BY <2>1, <3>1, <1>3 DEF Blocker
  <2>2. CASE blocking_event # NoId
    <3>1. /\ blocking_event \in Ids /\ vb[blocking_event].pixmap /\ Blocks(blocking_event, at)
      BY <1>1, <2>2, BlockerIs DEF Timing
    <3>2. blocking_event # v /\ blocking_event # old
      BY <3>1, <1>1, <1>6 DEF Blocks
    <3>3. vb'[blocking_event] = vb[blocking_event] /\ at2[blocking_event] = at[blocking_event]
      BY <3>1, <3>2, <1>8, <1>20
    <3> QED
      BY <2>2, <3>1, <3>3, <1>3 DEF Blocker, Blocks, Live
  <2> QED
    BY <2>1, <2>2
<1>24. Timely'
  <2>1. Timely /\ Records(at)
    BY DEF Good, Fits
  <2>2. "reset_timer" \in Fns(stack) => "reset_timer" \in Fns(stack')
    BY <1>1, <1>12, <1>15
  <2>3. \A u \in Ids : at2[u] = "pending" => at[u] = "pending" /\ vb'[u].sync_flip = vb[u].sync_flip
    BY <1>8
  <2> QED
    BY <1>3, <1>5, <1>10, <1>11, <2>1, <2>2, <2>3, TimelyMove
<1>25. Callbacks(at2)'
  <2>1. sync_callback = NoId
    BY <1>1 DEF Good, Fits, Callbacks, Running
  <2>2. \A u \in Ids : at2[u] # "pending"
    BY <1>8
  <2> QED
    BY <2>1, <2>2, <1>3 DEF Callbacks
<1>26. Arguments'
  <2> SUFFICES ASSUME NEW u \in Ids
               PROVE  /\ vb'[u].st # "new" => req[u].sync # "fence"
                      /\ vb'[u].copied /\ HasSyncobj(u) => acq[u] = "sig"
    BY <1>3 DEF Arguments, HasSyncobj
  <2>1. /\ vb[u].st # "new" => req[u].sync # "fence"
        /\ vb[u].copied /\ HasSyncobj(u) => acq[u] = "sig"
    BY DEF Good, Fits, Arguments
  <2>2. CASE u = v
    <3>1. vb'[u].copied = vb[u].copied /\ vb[u].st # "new"
      BY <2>2, <1>1, <1>2, <1>5 DEF Done, TypeOK, Vblank
    <3> QED
      BY <2>1, <3>1
  <2>3. CASE u # v /\ u = old /\ free
    <3>1. vb'[u].copied = FALSE /\ vb[u].st # "new"
      <4>1. vb'[u] = Freed(vb[u])
        BY <2>3, <1>2
      <4>2. Stage(vb[u], at[u]) /\ at[u] = "active"
        BY <2>3, <1>6 DEF Good, Fits, Records
      <4> QED
        BY <4>1, <4>2 DEF Freed, Blank, Stage
    <3> QED
      BY <2>1, <3>1
  <2>4. CASE u # v /\ ~(u = old /\ free)
    <3>1. vb'[u] = vb[u]
      BY <2>4, <1>2
    <3> QED
      BY <2>1, <3>1
  <2> QED
    BY <2>2, <2>3, <2>4
<1> QED
  BY <1>10, <1>11, <1>18, <1>19, <1>22, <1>23, <1>24, <1>25, <1>26 DEF Fits

\* xwl_present_flips_stop frees every flip that was shown: none is pending then.
StoppedPlaces(at, at2) ==
  \A u \in Ids : at2[u] = IF at[u] \in {"idle", "active"} THEN "none" ELSE at[u]
LEMMA StoppedRecords ==
  ASSUME NEW at, Good(at), FlipsStopFree, NEW u \in Ids
  PROVE  /\ at[u] \in {"idle", "active"} =>
              vb'[u] = IF vb[u].evpix THEN Freed(Idled(vb[u])) ELSE Freed(vb[u])
         /\ at[u] \notin {"idle", "active"} => vb'[u] = vb[u]
         /\ \A p \in Pixmaps :
              release_cb'[p] = IF \E w \in Ids : at[w] \in {"idle", "active"} /\ vb[w].evpix /\ pix[w] = p
                               THEN NoId ELSE release_cb[p]
<1> SUFFICES ASSUME NEW idle, idle = {v \in Ids : Has(idle_queue, v) \/ (v = flip_active /\ NotIdleYet(v))},
                    NEW all, all = idle \cup ({flip_active} \ {NoId})
             PROVE  /\ at[u] \in {"idle", "active"} =>
                         vb'[u] = IF vb[u].evpix THEN Freed(Idled(vb[u])) ELSE Freed(vb[u])
                    /\ at[u] \notin {"idle", "active"} => vb'[u] = vb[u]
                    /\ \A p \in Pixmaps :
                         release_cb'[p] = IF \E w \in Ids : at[w] \in {"idle", "active"} /\ vb[w].evpix /\ pix[w] = p
                                          THEN NoId ELSE release_cb[p]
  OBVIOUS
<1>1. /\ vb' = [v \in Ids |-> IF v \in idle THEN Freed(Idled(vb[v]))
                              ELSE IF v \in all THEN Freed(vb[v]) ELSE vb[v]]
      /\ release_cb' = CbWithout(all)
  BY DEF FlipsStopFree
<1>2. OnLists(at) /\ Records(at) /\ flip_active \in Ids \cup {NoId}
  BY DEF Good, Fits, TypeOK
<1>3. \A w \in Ids : /\ Has(idle_queue, w) <=> at[w] = "idle"
                     /\ w = flip_active <=> at[w] = "active"
                     /\ at[w] = "idle" => vb[w].evpix
  BY <1>2 DEF OnLists, Is, Records, Stage
<1>4. \A w \in Ids : /\ w \in all <=> at[w] \in {"idle", "active"}
                     /\ w \in idle <=> at[w] \in {"idle", "active"} /\ vb[w].evpix
  BY <1>3, IdsNat DEF NotIdleYet
<1>5. all \subseteq Ids
  BY <1>2
<1>6. \A p \in Pixmaps :
        release_cb'[p] = IF \E w \in all : vb[w].evpix /\ pix[w] = p THEN NoId ELSE release_cb[p]
  BY <1>1 DEF CbWithout
<1>7. \A p : (\E w \in all : vb[w].evpix /\ pix[w] = p)
             <=> \E w \in Ids : at[w] \in {"idle", "active"} /\ vb[w].evpix /\ pix[w] = p
  BY <1>4, <1>5
<1> QED
  BY <1>1, <1>4, <1>6, <1>7

LEMMA RestKnowsAll ==
  ASSUME NEW at, Good(at), stack # <<>>, Top.fn \notin Timing, NEW at2,
         \A u \in Ids : at[u] \in {"wait", "held", "blocked"} => at2[u] = at[u] /\ vb'[u] = vb[u]
  PROVE  \A f \in Elements(Rest) : Knows(f, at2[f.v], vb'[f.v])
<1> SUFFICES ASSUME NEW f \in Elements(Rest) PROVE Knows(f, at2[f.v], vb'[f.v])
  OBVIOUS
<1>1. f \in Frame /\ Knows(f, at[f.v], vb[f.v])
  BY Runs
<1>2. CASE f.fn \in RequestFns
  <2>1. f.v \in Ids /\ at[f.v] \in {"wait", "held", "blocked"}
    BY <1>2, RestPlaces
  <2>2. at2[f.v] = at[f.v] /\ vb'[f.v] = vb[f.v]
    BY <2>1
  <2> QED
    BY <1>1, <2>2
<1>3. CASE f.fn \notin RequestFns
  BY <1>1, <1>3, WindowKnows
<1> QED
  BY <1>2, <1>3

LEMMA FlipsStopFreeFits ==
  ASSUME NEW at, Good(at), TypeOK', FlipsStopFree
  PROVE  \E at2 \in [Ids -> Places] : Fits(at2)'
<1>1. stack # <<>> /\ Top.fn = "flips_stop_free" /\ Continue(<<>>)
  BY DEF FlipsStopFree, Running
<1>2. /\ UNCHANGED <<req, pix, acq, held, setup, wait_list, flip_queue, blocked_queue>>
      /\ UNCHANGED <<blocking_event, sync_callback, entered_for_each, frame_timer, timer_armed>>
      /\ idle_queue' = <<>> /\ flip_active' = NoId
  BY DEF FlipsStopFree, world, links, timer
<1>3. TypeOK /\ OnLists(at) /\ Records(at) /\ Buffers(at) /\ Relies(at) /\ Timely /\ Callbacks(at) /\ Arguments
  BY DEF Good, Fits
<1>4. ~Pending(at)
  <2>1. Fns(stack) \cap Stops # {}
    BY <1>1, Runs DEF Stops
  <2> QED
    BY <2>1, <1>3 DEF Relies, StopsAlone
<1>5. PICK at2 \in [Ids -> Places] : StoppedPlaces(at, at2)
  <2> DEFINE at2 == [u \in Ids |-> IF at[u] \in {"idle", "active"} THEN "none" ELSE at[u]]
  <2>1. at2 \in [Ids -> Places]
    BY DEF Good, Places
  <2>2. StoppedPlaces(at, at2)
    BY DEF StoppedPlaces
  <2> QED
    BY <2>1, <2>2
<1>6. \A u \in Ids : \/ at[u] \in {"idle", "active"} /\ at2[u] = "none"
                     \/ at[u] \notin {"idle", "active"} /\ at2[u] = at[u]
  BY <1>5 DEF StoppedPlaces
<1>7. \A u \in Ids : at2[u] \notin Shown /\ at[u] \notin {"pending", "flipping"}
  BY <1>4, <1>6 DEF Pending, Shown
<1>8. ~Pending(at2) /\ Settles(at2)
  BY <1>7 DEF Pending, Settles, Shown
<1>9. \A u \in Ids :
        /\ at[u] \in {"idle", "active"} =>
             vb'[u] = IF vb[u].evpix THEN Freed(Idled(vb[u])) ELSE Freed(vb[u])
        /\ at[u] \notin {"idle", "active"} => vb'[u] = vb[u]
  BY StoppedRecords
\* What is freed has been completed and called idle.
<1>10. \A u \in Ids : at[u] \in {"idle", "active"} =>
         /\ vb'[u].st = "freed" /\ vb'[u].evpix = FALSE /\ vb'[u].efd = "none"
         /\ vb'[u].done = 1 /\ vb'[u].idled = 1 /\ vb'[u].copied = FALSE
  <2> SUFFICES ASSUME NEW u \in Ids, at[u] \in {"idle", "active"}
               PROVE  /\ vb'[u].st = "freed" /\ vb'[u].evpix = FALSE /\ vb'[u].efd = "none"
                      /\ vb'[u].done = 1 /\ vb'[u].idled = 1 /\ vb'[u].copied = FALSE
    OBVIOUS
  <2>1. Stage(vb[u], at[u]) /\ vb[u] \in Vblank
    BY <1>3 DEF Records, TypeOK
  <2>2. vb[u].done = 1 /\ vb[u].idled = IF vb[u].evpix THEN 0 ELSE 1
    BY <2>1 DEF Stage, Shown, InUse
  <2>3. /\ Freed(vb[u]).st = "freed" /\ Freed(vb[u]).evpix = FALSE /\ Freed(vb[u]).efd = "none"
        /\ Freed(vb[u]).done = vb[u].done /\ Freed(vb[u]).idled = vb[u].idled /\ Freed(vb[u]).copied = FALSE
    BY DEF Freed, Blank
  <2>4. /\ Freed(Idled(vb[u])).st = "freed" /\ Freed(Idled(vb[u])).evpix = FALSE /\ Freed(Idled(vb[u])).efd = "none"
        /\ Freed(Idled(vb[u])).done = vb[u].done /\ Freed(Idled(vb[u])).idled = vb[u].idled + 1
        /\ Freed(Idled(vb[u])).copied = FALSE
    BY <2>1 DEF Freed, Blank, Idled, Vblank
  <2> QED
    BY <2>2, <2>3, <2>4, <1>9
<1>11. Records(at2)'
  <2> SUFFICES ASSUME NEW u \in Ids PROVE Stage(vb'[u], at2[u])
    BY DEF Records
  <2>1. CASE at[u] \in {"idle", "active"}
    <3>1. at2[u] = "none"
      BY <2>1, <1>6
    <3> QED
      BY <2>1, <3>1, <1>10 DEF Stage, Shown
  <2>2. CASE at[u] \notin {"idle", "active"}
    BY <2>2, <1>3, <1>6, <1>9 DEF Records
  <2> QED
    BY <2>1, <2>2
<1>12. \A u \in Ids : vb'[u].evpix = FALSE
  <2> TAKE u \in Ids
  <2>1. vb'[u] \in Vblank
    BY DEF TypeOK
  <2>2. Stage(vb'[u], at2[u])
    BY <1>11 DEF Records
  <2> QED
    BY <2>1, <2>2, <1>7 DEF Stage, Vblank
<1>13. Buffers(at2)'
  <2>1. InOrder(at2)'
    BY <1>7 DEF InOrder, Rank, Shown
  <2>2. Reused'
    <3> SUFFICES ASSUME NEW u \in Ids, NEW w \in Ids, u < w, pix[u] = pix[w], Uses(u)', Uses(w)'
                 PROVE  Settled(u)'
      BY <1>2 DEF Reused
    <3>1. at[u] \notin {"idle", "active"} /\ at[w] \notin {"idle", "active"}
      BY <1>10 DEF Uses, Live
    <3>2. vb'[u] = vb[u] /\ vb'[w] = vb[w]
      BY <3>1, <1>9
    <3>3. Uses(u) /\ Uses(w)
      BY <3>2 DEF Uses, Live
    <3>4. Settled(u)
      BY <3>3, <1>3 DEF Buffers, Reused
    <3> QED
      BY <3>2, <3>4 DEF Settled
  <2>3. Names'
    <3> SUFFICES ASSUME NEW p \in Pixmaps, NEW u \in Ids, release_cb'[p] = u PROVE FALSE
      BY DEF Names
    <3>1. /\ ~\E w \in Ids : at[w] \in {"idle", "active"} /\ vb[w].evpix /\ pix[w] = p
          /\ release_cb[p] = u
      BY StoppedRecords, IdsNat
    <3>2. pix[u] = p /\ vb[u].evpix
      BY <3>1, <1>3 DEF Buffers, Names
    <3>3. at[u] \in Shown
      BY <3>2, ShownUnsettled
    <3> QED
      BY <3>1, <3>2, <3>3, <1>7 DEF Shown
  <2>4. Shows'
    BY <1>12 DEF Shows
  <2> QED
    BY <2>1, <2>2, <2>3, <2>4 DEF Buffers
<1>14. OnLists(at2)'
  <2>1. /\ Is(wait_list', at2, {"wait"}) /\ Is(blocked_queue', at2, {"blocked"})
        /\ Is(flip_queue', at2, {"queue", "pending"})
    BY <1>2, <1>3, <1>6 DEF OnLists, Is
  <2>2. Is(idle_queue', at2, {"idle"})
    BY <1>2, <1>7, HasNone DEF Is, Shown
  <2>3. \A u \in Ids : u = flip_active' <=> at2[u] = "active"
    BY <1>2, <1>7, IdsNat DEF Shown
  <2>4. OnePending(at2) /\ \A u \in Ids : at2[u] # "pending"
    BY <1>7 DEF OnePending, Shown
  <2> QED
    BY <2>1, <2>2, <2>3, <2>4 DEF OnLists
<1>15. /\ Goes({}) /\ stack' = Rest /\ Fns(stack') = Fns(Rest)
       /\ MayPresent' /\ ~Running("flip_notify")'
       /\ Running("copy")' => "flush_loop" \notin Fns(stack')
  BY <1>1, PoppedGoes
<1>16. /\ OnTop(Top, Rest) /\ Elements(Rest) \subseteq Frame
       /\ Elements(stack) = {Top} \cup Elements(Rest) /\ Fns(stack) = {Top.fn} \cup Fns(Rest)
       /\ Elements(stack') = Elements(Rest) /\ Sound(stack')
  BY <1>1, <1>15, Runs DEF Goes
<1>17. \A g \in Elements(Rest) : g.fn \notin Sealed \cup {"flush_loop"}
  <2> TAKE g \in Elements(Rest)
  <2>1. Stacked(Top, g)
    BY <1>16, Zenon DEF OnTop
  <2> QED
    BY <2>1, <1>1 DEF Stacked, Stops, Timing
<1>18. Fns(Rest) \cap (Sealed \cup {"flush_loop"}) = {}
  BY <1>17 DEF Fns
<1>19. Calls(at2)'
  <2>1. \A f \in Elements(Rest) : Knows(f, at2[f.v], vb'[f.v])
    <3>1. \A u \in Ids : at[u] \in {"wait", "held", "blocked"} => at2[u] = at[u] /\ vb'[u] = vb[u]
      BY <1>6, <1>9
    <3>2. stack # <<>> /\ Top.fn \notin Timing
      BY <1>1 DEF Timing
    <3> QED
      BY <3>1, <3>2, RestKnowsAll
  <2> QED
    BY <2>1, <1>16 DEF Calls
<1>20. Relies(at2)'
  <2>1. StopsAlone(at2)' /\ FlushesSettled(at2)'
    BY <1>8 DEF StopsAlone, FlushesSettled, Pending, Settles
  <2>2. Flushing(at2)'
    BY <1>15, <1>18 DEF Flushing
  <2>3. Entered'
    BY <1>2, <1>3, <1>15, <1>16 DEF Relies, Entered
  <2>4. Acquired'
    BY <1>2, <1>3, <1>16 DEF Relies, Acquired, HasSyncobj
  <2> QED
    BY <2>1, <2>2, <2>3, <2>4, <1>15 DEF Relies
<1>21. Attended(at2)'
  <2> SUFFICES ASSUME NEW u \in Ids, vb'[u].st = "live", at2[u] \in {"none", "held", "flipping"}
               PROVE  \E g \in Elements(stack') : Attends(g, u, at2[u])
    BY DEF Attended, Live
  <2>1. at[u] \notin {"idle", "active"}
    BY <1>10
  <2>2. at2[u] = at[u] /\ Live(u)
    BY <2>1, <1>6, <1>9 DEF Live
  <2>3. PICK g \in Elements(stack) : Attends(g, u, at[u])
    BY <2>2, Zenon DEF Good, Fits, Attended
  <2>4. g # Top
    BY <2>3, <1>1 DEF Attends, Owners
  <2> QED
    BY <2>2, <2>3, <2>4, <1>16
<1>22. Blocker(at2)'
  <2>1. CASE blocking_event = NoId
    <3>1. \A g \in Elements(stack) : g.fn \notin {"flush_loop", "block"}
      BY <1>1, <1>16, <1>17 DEF Sealed
    <3>2. blocked_queue = <<>>
      BY <2>1, <3>1 DEF Good, Fits, Blocker
    <3> QED
      BY <2>1, <3>2, <1>2 DEF Blocker
  <2>2. CASE blocking_event # NoId
    <3>1. blocking_event \in Ids /\ vb[blocking_event].pixmap /\ Blocks(blocking_event, at)
      BY <1>1, <2>2, BlockerIs DEF Timing
    <3>2. at[blocking_event] \notin {"idle", "active"}
      BY <3>1 DEF Blocks
    <3>3. vb'[blocking_event] = vb[blocking_event] /\ at2[blocking_event] = at[blocking_event]
      BY <3>1, <3>2, <1>6, <1>9
    <3> QED
      BY <2>2, <3>1, <3>3, <1>2 DEF Blocker, Blocks, Live
  <2> QED
    BY <2>1, <2>2
<1>23. Timely'
  <2>1. "reset_timer" \in Fns(stack) => "reset_timer" \in Fns(stack')
    BY <1>1, <1>15, <1>16
  <2>2. \A u \in Ids : at2[u] = "pending" => at[u] = "pending" /\ vb'[u].sync_flip = vb[u].sync_flip
    BY <1>7 DEF Shown
  <2> QED
    BY <1>2, <1>3, <1>11, <1>14, <2>1, <2>2, TimelyMove
<1>24. Callbacks(at2)'
  <2>1. sync_callback = NoId
    BY <1>3, <1>7 DEF Callbacks, TypeOK
  <2>2. \A u \in Ids : at2[u] # "pending"
    BY <1>7 DEF Shown
  <2> QED
    BY <2>1, <2>2, <1>2 DEF Callbacks
<1>25. Arguments'
  <2> SUFFICES ASSUME NEW u \in Ids
               PROVE  /\ vb'[u].st # "new" => req[u].sync # "fence"
                      /\ vb'[u].copied /\ HasSyncobj(u) => acq[u] = "sig"
    BY <1>2 DEF Arguments, HasSyncobj
  <2>1. CASE at[u] \in {"idle", "active"}
    <3>1. vb[u].st = "live" /\ vb'[u].copied = FALSE
      BY <2>1, <1>3, <1>10 DEF Records, Stage
    <3> QED
      BY <3>1, <1>3 DEF Arguments
  <2>2. CASE at[u] \notin {"idle", "active"}
    BY <2>2, <1>3, <1>9 DEF Arguments
  <2> QED
    BY <2>1, <2>2
<1> QED
  BY <1>11, <1>13, <1>14, <1>19, <1>20, <1>21, <1>22, <1>23, <1>24, <1>25 DEF Fits

\* At the event loop: no request is in anybody's hands, the blocked ones have a
\* blocker, and the timer runs if anything waits for it.
LEMMA AtRest ==
  ASSUME NEW at, Good(at), stack = <<>>
  PROVE  /\ \A u \in Ids : at[u] \notin {"held", "flipping"}
         /\ \A u \in Ids : at[u] = "none" <=> vb[u].st # "live"
         /\ blocking_event = NoId => blocked_queue = <<>>
         /\ blocking_event # NoId => /\ blocking_event \in Ids /\ vb[blocking_event].pixmap
                                     /\ Blocks(blocking_event, at)
         /\ sync_callback # NoId =>
              sync_callback \in Ids /\ at[sync_callback] = "pending" /\ ~vb[sync_callback].sync_flip
         /\ \A u \in Ids : at[u] = "pending" /\ ~vb[u].sync_flip => sync_callback = u
         /\ SyncFlipPending \/ wait_list # <<>> => frame_timer = "set"
         /\ frame_timer # "fired" /\ timer_armed # "stale"
<1>1. /\ Records(at) /\ Attended(at) /\ Blocker(at) /\ Timely /\ Callbacks(at)
      /\ blocking_event \in Ids \cup {NoId} /\ sync_callback \in Ids \cup {NoId}
  BY DEF Good, Fits, TypeOK
<1>2. Elements(stack) = {} /\ Fns(stack) = {}
  BY NoCalls
<1>3. \A u \in Ids : at[u] # "none" => vb[u].st = "live"
  BY <1>1 DEF Records, Stage
<1>4. \A u \in Ids : vb[u].st = "live" => at[u] \notin {"none", "held", "flipping"}
  BY <1>1, <1>2 DEF Attended, Live
<1>5. ~Running("flip_notify")
  BY DEF Running
<1>6. /\ blocking_event = NoId => blocked_queue = <<>>
      /\ blocking_event # NoId => vb[blocking_event].pixmap /\ Blocks(blocking_event, at)
  BY <1>1, <1>2 DEF Blocker
<1>7. /\ SyncFlipPending \/ wait_list # <<>> => frame_timer = "set"
      /\ frame_timer # "fired" /\ timer_armed # "stale"
  BY <1>1, <1>2 DEF Timely
<1>8. /\ sync_callback # NoId => at[sync_callback] = "pending" /\ ~vb[sync_callback].sync_flip
      /\ \A u \in Ids : at[u] = "pending" /\ ~vb[u].sync_flip => sync_callback = u
  BY <1>1, <1>5 DEF Callbacks
<1> QED
  BY <1>1, <1>3, <1>4, <1>6, <1>7, <1>8

\* What the event loop calls.
LEMMA TwoCalls ==
  ASSUME NEW a \in Frame, NEW b \in Frame, Stacked(a, b)
  PROVE  <<a, b>> \in Seq(Frame) /\ Sound(<<a, b>>) /\ Elements(<<a, b>>) = {a, b} /\ Head(<<a, b>>) = a
<1> DEFINE t == <<b>>
<1>1. t \in Seq(Frame) /\ Nested(t) /\ Elements(t) = {b} /\ <<a, b>> = <<a>> \o t
  <2>1. t \in Seq(Frame) /\ Nested(t) /\ Elements(t) = {b}
    BY OneCall
  <2>2. <<a, b>> = <<a>> \o <<b>>
    <3>1. <<a, b>> = Append(<<a>>, b)
      OBVIOUS
    <3>2. Append(<<a>>, b) = <<a>> \o <<b>>
      BY OneElement, AppendIsConcat
    <3> QED
      BY <3>1, <3>2
  <2> QED
    BY <2>1, <2>2
<1> HIDE DEF t
<1>2. OnTop(a, t)
  BY <1>1 DEF OnTop
<1>3. Made(<<a>> \o t, a, {}, t)
  BY <1>1, <1>2, MadeOne
<1> QED
  BY <1>1, <1>3 DEF Made

LEMMA FourCalls ==
  ASSUME NEW a \in Frame, NEW b \in Frame, NEW c \in Frame, NEW d \in Frame,
         Stacked(a, b), Stacked(a, c), Stacked(a, d), Stacked(b, c), Stacked(b, d), Stacked(c, d),
         Buried(b, c), Buried(b, d), Buried(c, d)
  PROVE  /\ <<a, b, c, d>> \in Seq(Frame) /\ Sound(<<a, b, c, d>>)
         /\ Elements(<<a, b, c, d>>) = {a, b, c, d} /\ Head(<<a, b, c, d>>) = a
<1> DEFINE t == <<d>>
<1>1. t \in Seq(Frame) /\ Nested(t) /\ Elements(t) = {d}
  BY OneCall
<1>2. <<a, b, c, d>> = <<a, b, c>> \o t
  OBVIOUS
<1> HIDE DEF t
<1>3. <<a, b, c, d>> = <<a>> \o (<<b>> \o (<<c>> \o t))
  <2>1. <<a, b, c>> \o t = <<a>> \o (<<b>> \o (<<c>> \o t))
    BY <1>1, ThreeFrames
  <2> QED
    BY <2>1, <1>2
<1>4. OnTop(a, t) /\ OnTop(b, t) /\ OnTop(c, t) /\ \A g \in Elements(t) : Buried(b, g) /\ Buried(c, g)
  BY <1>1 DEF OnTop
<1>5. Made(<<a>> \o (<<b>> \o (<<c>> \o t)), a, {b, c}, t)
  BY <1>1, <1>4, MadeThree
<1> QED
  BY <1>1, <1>3, <1>5 DEF Made

\* An event that moves no request, and calls functions of the window if any.
Starts == {"reset_timer", "msc_bump", "leave_for_each", "frame_done"}
LEMMA LoopStill ==
  ASSUME NEW at, Good(at), stack = <<>>, Still, Sound(stack'),
         \A f \in Elements(stack') : f.fn \in Starts /\ f.v = NoId,
         stack' # <<>> => Head(stack') \in Elements(stack'),
         UNCHANGED <<blocking_event, sync_callback>>,
         "leave_for_each" \in Fns(stack') => entered_for_each', Timely'
  PROVE  Fits(at)'
<1>1. OnLists(at)' /\ Records(at)' /\ Buffers(at)' /\ Arguments'
  BY StillFits
<1>2. vb' = vb /\ blocked_queue' = blocked_queue
  BY DEF Still, lists
<1>3. \A fn : fn \in Fns(stack') => fn \in Starts
  BY DEF Fns
<1>4. \A fn : Running(fn)' => fn \in Starts
  BY DEF Running, Top
<1>5. Calls(at)'
  <2>1. \A f \in Elements(stack') : Knows(f, at[f.v], vb'[f.v])
    BY DEF Knows, Starts, RequestFns, Owners
  <2> QED
    BY <2>1 DEF Calls
<1>6. Relies(at)'
  <2>1. StopsAlone(at)' /\ FlushesSettled(at)' /\ Flushing(at)'
    BY <1>3 DEF StopsAlone, FlushesSettled, Flushing, Stops, Starts
  <2>2. MayPresent' /\ Acquired'
    BY <1>4 DEF MayPresent, Acquired, Starts
  <2> QED
    BY <2>1, <2>2 DEF Relies, Entered
<1>7. Attended(at)'
  BY <1>2, AtRest DEF Attended, Live
<1>8. Blocker(at)'
  <2>1. /\ blocking_event = NoId => blocked_queue = <<>>
        /\ blocking_event # NoId => vb[blocking_event].pixmap /\ Blocks(blocking_event, at)
    BY AtRest
  <2> QED
    BY <2>1, <1>2 DEF Blocker, Blocks, Live
<1>9. Callbacks(at)'
  <2>1. ~Running("flip_notify")'
    BY <1>4 DEF Starts
  <2> QED
    BY <2>1, <1>2, AtRest DEF Callbacks
<1> QED
  BY <1>1, <1>5, <1>6, <1>7, <1>8, <1>9 DEF Fits

\* The calls of such an event.
StartCall == {Call("reset_timer"), Call("msc_bump"), Call("leave_for_each"), Call("frame_done")}
LEMMA StartCalls ==
  /\ StartCall \subseteq Frame /\ \A f \in StartCall : f.fn \in Starts /\ f.v = NoId
  /\ Call("reset_timer").fn = "reset_timer" /\ Call("msc_bump").fn = "msc_bump"
  /\ Call("leave_for_each").fn = "leave_for_each" /\ Call("frame_done").fn = "frame_done"
  BY CallTyped, CallFields DEF StartCall, Starts, WindowFns

\* None, reset_timer on leave_for_each, msc_bump on reset_timer, or the four.
LEMMA EventCalls ==
  ASSUME NEW s, \/ s = <<>>
                \/ s = <<Call("msc_bump"), Call("reset_timer")>>
                \/ s = <<Call("reset_timer"), Call("leave_for_each")>>
                \/ s = <<Call("msc_bump"), Call("reset_timer"), Call("leave_for_each"), Call("frame_done")>>
  PROVE  /\ s \in Seq(Frame) /\ Sound(s)
         /\ \A f \in Elements(s) : f.fn \in Starts /\ f.v = NoId
         /\ s # <<>> => Head(s) \in Elements(s) /\ "reset_timer" \in Fns(s)
         /\ s = <<Call("msc_bump"), Call("reset_timer")>> => "leave_for_each" \notin Fns(s)
         /\ s = <<>> => Fns(s) = {}
<1> DEFINE a == Call("msc_bump")
           b == Call("reset_timer")
           c == Call("leave_for_each")
           d == Call("frame_done")
<1>1. /\ a \in Frame /\ b \in Frame /\ c \in Frame /\ d \in Frame
      /\ a.fn = "msc_bump" /\ b.fn = "reset_timer" /\ c.fn = "leave_for_each" /\ d.fn = "frame_done"
      /\ a.v = NoId /\ b.v = NoId /\ c.v = NoId /\ d.v = NoId
  BY StartCalls, CallFields DEF StartCall
<1>2. s = <<>> \/ s = <<a, b>> \/ s = <<b, c>> \/ s = <<a, b, c, d>>
  OBVIOUS
<1> HIDE DEF a, b, c, d
<1>3. /\ Stacked(a, b) /\ Stacked(a, c) /\ Stacked(a, d) /\ Stacked(b, c) /\ Stacked(b, d) /\ Stacked(c, d)
      /\ Buried(b, c) /\ Buried(b, d) /\ Buried(c, d)
  BY <1>1 DEF Stacked, Buried, Tops, Sealed, Bumps, Bases, Owners, Stops, Timing
<1>4. CASE s = <<>>
  BY <1>4, NoCalls
<1>5. CASE s = <<a, b>>
  <2>1. <<a, b>> \in Seq(Frame) /\ Sound(<<a, b>>) /\ Elements(<<a, b>>) = {a, b} /\ Head(<<a, b>>) = a
    BY <1>1, <1>3, TwoCalls
  <2>2. Fns(s) = {"msc_bump", "reset_timer"}
    BY <2>1, <1>1, <1>5 DEF Fns
  <2>3. s # <<>>
    BY <1>5
  <2> QED
    BY <2>1, <2>2, <2>3, <1>1, <1>5 DEF Starts
<1>6. CASE s = <<b, c>>
  <2>1. <<b, c>> \in Seq(Frame) /\ Sound(<<b, c>>) /\ Elements(<<b, c>>) = {b, c} /\ Head(<<b, c>>) = b
    BY <1>1, <1>3, TwoCalls
  <2>2. Fns(s) = {"reset_timer", "leave_for_each"}
    BY <2>1, <1>1, <1>6 DEF Fns
  <2>3. s # <<>> /\ s # <<a, b>>
    BY <1>1, <1>6
  <2> QED
    BY <2>1, <2>2, <2>3, <1>1, <1>6 DEF Starts, a, b
<1>7. CASE s = <<a, b, c, d>>
  <2>1. /\ <<a, b, c, d>> \in Seq(Frame) /\ Sound(<<a, b, c, d>>)
        /\ Elements(<<a, b, c, d>>) = {a, b, c, d} /\ Head(<<a, b, c, d>>) = a
    BY <1>1, <1>3, FourCalls
  <2>2. "reset_timer" \in Fns(s)
    BY <2>1, <1>1, <1>7 DEF Fns
  <2>3. s # <<>> /\ s # <<a, b>>
    BY <1>7
  <2> QED
    BY <2>1, <2>2, <2>3, <1>1, <1>7 DEF Starts, a, b
<1> QED
  BY <1>2, <1>4, <1>5, <1>6, <1>7

LEMMA FrameCallbackFits ==
  ASSUME NEW at, Good(at), FrameCallback
  PROVE  Fits(at)'
<1>1. /\ stack = <<>> /\ Still /\ UNCHANGED <<blocking_event, sync_callback, frame_timer, timer_armed>>
      /\ entered_for_each' = hooked
      /\ stack' = IF hooked THEN <<Call("msc_bump"), Call("reset_timer"), Call("leave_for_each"),
                                   Call("frame_done")>> ELSE <<>>
  BY DEF FrameCallback, AtEventLoop, Still, world, timer, If
<1>2. /\ Sound(stack') /\ (\A f \in Elements(stack') : f.fn \in Starts /\ f.v = NoId)
      /\ stack' # <<>> => Head(stack') \in Elements(stack') /\ "reset_timer" \in Fns(stack')
      /\ stack' = <<>> => Fns(stack') = {}
  BY <1>1, EventCalls
<1>3. "leave_for_each" \in Fns(stack') => entered_for_each'
  BY <1>1, <1>2
<1>4. Timely'
  <2>1. SyncFlipPending' = SyncFlipPending /\ wait_list' = wait_list
    BY <1>1, StillPending
  <2> QED
    BY <2>1, <1>1, AtRest DEF Timely
<1> QED
  BY <1>1, <1>2, <1>3, <1>4, LoopStill

LEMMA TimerCallbackFits ==
  ASSUME NEW at, Good(at), TimerCallback
  PROVE  Fits(at)'
<1>1. /\ stack = <<>> /\ Still /\ UNCHANGED <<blocking_event, sync_callback, timer_armed>>
      /\ stack' = <<Call("msc_bump"), Call("reset_timer")>>
  BY DEF TimerCallback, AtEventLoop, Still, world
<1>2. /\ Sound(stack') /\ (\A f \in Elements(stack') : f.fn \in Starts /\ f.v = NoId)
      /\ stack' # <<>> => Head(stack') \in Elements(stack') /\ "reset_timer" \in Fns(stack')
      /\ "leave_for_each" \notin Fns(stack')
  BY <1>1, EventCalls
<1>3. stack' # <<>>
  BY <1>1
<1>4. Timely'
  BY <1>1, <1>2, <1>3, AtRest DEF Timely
<1> QED
  BY <1>1, <1>2, <1>4, LoopStill

\* The window's functions that reset the timers of its requests.
LEMMA WindowFits ==
  ASSUME NEW at, Good(at), CreateFrameCallback \/ Unrealize
  PROVE  Fits(at)'
<1>1. /\ stack = <<>> /\ Still /\ UNCHANGED <<blocking_event, sync_callback, frame_timer>>
      /\ timer_armed' \in {timer_armed, "off"} /\ entered_for_each' = hooked
      /\ stack' = IF hooked THEN <<Call("reset_timer"), Call("leave_for_each")>> ELSE <<>>
  BY DEF CreateFrameCallback, Unrealize, AtEventLoop, Still, world, timer, If
<1>2. /\ Sound(stack') /\ (\A f \in Elements(stack') : f.fn \in Starts /\ f.v = NoId)
      /\ stack' # <<>> => Head(stack') \in Elements(stack') /\ "reset_timer" \in Fns(stack')
      /\ stack' = <<>> => Fns(stack') = {}
  BY <1>1, EventCalls
<1>3. "leave_for_each" \in Fns(stack') => entered_for_each'
  BY <1>1, <1>2
<1>4. Timely'
  <2>1. SyncFlipPending' = SyncFlipPending /\ wait_list' = wait_list
    BY <1>1, StillPending
  <2> QED
    BY <2>1, <1>1, AtRest DEF Timely
<1> QED
  BY <1>1, <1>2, <1>3, <1>4, LoopStill

LEMMA WindowCommitsFits ==
  ASSUME NEW at, Good(at), NEW w, WindowCommits(w)
  PROVE  Fits(at)'
<1>1. /\ stack = <<>> /\ Still /\ UNCHANGED <<blocking_event, sync_callback, frame_timer, timer_armed>>
      /\ stack' = <<>>
  BY DEF WindowCommits, AtEventLoop, Still, timer, links
<1>2. /\ Sound(stack') /\ (\A f \in Elements(stack') : f.fn \in Starts /\ f.v = NoId) /\ Fns(stack') = {}
  BY <1>1, EventCalls
<1>3. Timely'
  <2>1. SyncFlipPending' = SyncFlipPending /\ wait_list' = wait_list
    BY <1>1, StillPending
  <2> QED
    BY <2>1, <1>1, AtRest DEF Timely
<1> QED
  BY <1>1, <1>2, <1>3, LoopStill

\* The point of a request that has been copied was signaled before that.
LEMMA AcquireProgressFits ==
  ASSUME NEW at, Good(at), NEW v \in Ids, AcquireProgress(v)
  PROVE  Fits(at)'
<1>1. /\ stack = <<>> /\ stack' = <<>> /\ UNCHANGED <<vb, lists, flip_active, release_cb, req, pix, held, setup>>
      /\ UNCHANGED <<blocking_event, sync_callback, entered_for_each, frame_timer, timer_armed>>
      /\ HasSyncobj(v) /\ acq[v] # "sig" /\ \A u \in Ids : u # v => acq'[u] = acq[u]
  BY DEF AcquireProgress, AtEventLoop, timer, links, Good, TypeOK
<1>2. /\ OnLists(at) /\ Records(at) /\ Buffers(at) /\ Calls(at) /\ Relies(at) /\ Attended(at)
      /\ Blocker(at) /\ Timely /\ Callbacks(at) /\ Arguments
  BY DEF Good, Fits
<1>3. OnLists(at)' /\ Records(at)'
  BY <1>1, <1>2 DEF OnLists, Records, lists
<1>4. Buffers(at)'
  BY <1>1, <1>2 DEF Buffers, InOrder, Reused, Names, Shows, Uses, Live, Settled, Explicit, HasSyncobj
<1>5. Arguments'
  BY <1>1, <1>2 DEF Arguments, HasSyncobj
<1>6. Elements(stack') = {} /\ Fns(stack') = {} /\ Sound(stack')
  BY <1>1, NoCalls
<1>7. \A fn : ~Running(fn)' /\ ~Running(fn)
  BY <1>1 DEF Running
<1>8. Calls(at)' /\ Relies(at)'
  BY <1>6, <1>7 DEF Calls, Relies, StopsAlone, FlushesSettled, Flushing, MayPresent, Entered, Acquired
<1>9. Attended(at)' /\ Blocker(at)' /\ Callbacks(at)'
  <2>1. blocked_queue' = blocked_queue
    BY <1>1 DEF lists
  <2>2. Attended(at)'
    BY <1>1, AtRest DEF Attended, Live
  <2>3. Blocker(at)'
    BY <1>1, <2>1, AtRest DEF Blocker, Blocks, Live
  <2>4. Callbacks(at)'
    BY <1>1, <1>2, <1>7 DEF Callbacks
  <2> QED
    BY <2>2, <2>3, <2>4
<1>10. Timely'
  <2>1. SyncFlipPending' = SyncFlipPending /\ wait_list' = wait_list
    BY <1>1 DEF SyncFlipPending, PendingFlip, lists
  <2> QED
    BY <2>1, <1>1, AtRest DEF Timely
<1> QED
  BY <1>3, <1>4, <1>5, <1>8, <1>9, <1>10 DEF Fits

LEMMA SyncCallbackFits ==
  ASSUME NEW at, Good(at), SyncCallback
  PROVE  Fits(at)'
<1> SUFFICES ASSUME NEW v \in Ids, v = sync_callback, NEW f, f = CallOn("flip_notify", v, 0)
             PROVE  Fits(at)'
  BY DEF SyncCallback, Good, TypeOK
<1>1. /\ stack = <<>> /\ Still /\ stack' = <<f>> /\ sync_callback' = NoId
      /\ UNCHANGED <<blocking_event, entered_for_each, frame_timer, timer_armed>>
      /\ sync_callback # NoId
  BY DEF SyncCallback, AtEventLoop, Still, world, timer
<1>2. f \in Frame /\ f.fn = "flip_notify" /\ f.v = v /\ f.lag = 0
  BY CallTyped, CallFields DEF RequestFns
<1>3. Elements(stack') = {f} /\ Fns(stack') = {"flip_notify"} /\ Sound(stack') /\ Head(stack') = f
  BY <1>1, <1>2, OneCall
<1>4. \A fn : Running(fn)' <=> fn = "flip_notify"
  BY <1>1, <1>2, <1>3 DEF Running, Top
<1>5. OnLists(at)' /\ Records(at)' /\ Buffers(at)' /\ Arguments' /\ vb' = vb /\ blocked_queue' = blocked_queue
  BY <1>1, StillFits DEF Still, lists
<1>6. at[v] = "pending" /\ vb[v].st = "live"
  BY <1>1, AtRest
<1>7. Calls(at)'
  <2>1. Knows(f, at[f.v], vb'[f.v])
    BY <1>2, <1>5, <1>6 DEF Knows, Owners
  <2> QED
    BY <2>1, <1>3 DEF Calls
<1>8. Relies(at)'
  BY <1>2, <1>3, <1>4 DEF Relies, StopsAlone, FlushesSettled, Flushing, MayPresent, Entered, Acquired, Stops
<1>9. Attended(at)'
  BY <1>1, <1>5, AtRest DEF Attended, Live
<1>10. Blocker(at)'
  BY <1>1, <1>5, AtRest DEF Blocker, Blocks, Live
<1>11. Timely'
  <2>1. SyncFlipPending' = SyncFlipPending /\ wait_list' = wait_list
    BY <1>1, StillPending
  <2> QED
    BY <2>1, <1>1, AtRest DEF Timely
<1>12. Callbacks(at)'
  BY <1>1, <1>4 DEF Callbacks
<1> QED
  BY <1>5, <1>7, <1>8, <1>9, <1>10, <1>11, <1>12 DEF Fits

\* An event that changes one request, and executes it, re-executes it, or resets
\* the timer.
Runner == {"reset_timer", "re_execute", "execute"}
LoopMove(at, at2, v) ==
  /\ stack = <<>> /\ Moves(at, at2, v) /\ Only(v)
  /\ OnLists(at2)' /\ Stage(vb'[v], at2[v]) /\ Buffers(at2)' /\ Arguments' /\ Timely'
  /\ Sound(stack') /\ (stack' # <<>> => Head(stack') \in Elements(stack'))
  /\ \A f \in Elements(stack') : f.fn \in Runner /\ f.v \in {NoId, v} /\ Knows(f, at2[f.v], vb'[f.v])
  /\ vb'[v].st = "live" /\ at2[v] \in {"none", "held", "flipping"} =>
       \E f \in Elements(stack') : Attends(f, v, at2[v])
  /\ UNCHANGED <<blocked_queue, blocking_event, sync_callback>>
  /\ blocking_event = v => vb'[v].pixmap /\ Blocks(v, at2)'
  /\ at2[v] = "pending" <=> at[v] = "pending"
  /\ at[v] = "pending" => vb'[v].sync_flip = vb[v].sync_flip
LEMMA LoopMoveFits ==
  ASSUME NEW at, Good(at), NEW at2, NEW v \in Ids, LoopMove(at, at2, v)
  PROVE  Fits(at2)'
<1>1. /\ stack = <<>> /\ Moves(at, at2, v) /\ Only(v)
      /\ OnLists(at2)' /\ Stage(vb'[v], at2[v]) /\ Buffers(at2)' /\ Arguments' /\ Timely'
      /\ Sound(stack') /\ (stack' # <<>> => Head(stack') \in Elements(stack'))
      /\ UNCHANGED <<blocked_queue, blocking_event, sync_callback>>
  BY DEF LoopMove
<1>2. \A f \in Elements(stack') : f.fn \in Runner /\ f.v \in {NoId, v} /\ Knows(f, at2[f.v], vb'[f.v])
  BY DEF LoopMove
<1>3. \A fn : fn \in Fns(stack') => fn \in Runner
  BY <1>2 DEF Fns
<1>4. \A fn : Running(fn)' => fn \in Runner
  BY <1>1, <1>2 DEF Running, Top
<1>5. Records(at2)'
  BY <1>1, RecordsMove DEF Good, Fits
<1>6. Calls(at2)'
  BY <1>1, <1>2 DEF Calls
<1>7. Relies(at2)'
  <2>1. StopsAlone(at2)' /\ FlushesSettled(at2)' /\ Flushing(at2)' /\ Entered'
    BY <1>3 DEF StopsAlone, FlushesSettled, Flushing, Entered, Stops, Runner
  <2>2. MayPresent'
    BY <1>4 DEF MayPresent, Runner
  <2>3. Acquired'
    BY <1>2 DEF Acquired, Runner
  <2> QED
    BY <2>1, <2>2, <2>3 DEF Relies
<1>8. Attended(at2)'
  <2> SUFFICES ASSUME NEW u \in Ids, vb'[u].st = "live", at2[u] \in {"none", "held", "flipping"}
               PROVE  \E f \in Elements(stack') : Attends(f, u, at2[u])
    BY DEF Attended, Live
  <2>1. CASE u = v
    BY <2>1 DEF LoopMove
  <2>2. CASE u # v
    <3>1. vb'[u] = vb[u] /\ at2[u] = at[u]
      BY <2>2, <1>1 DEF Moves, Only
    <3> QED
      BY <3>1, <1>1, AtRest
  <2> QED
    BY <2>1, <2>2
<1>9. Blocker(at2)'
  <2>1. CASE blocking_event = NoId
    <3>1. blocked_queue = <<>>
      BY <2>1, <1>1, AtRest
    <3> QED
      BY <2>1, <3>1, <1>1 DEF Blocker
  <2>2. CASE blocking_event = v
    <3>1. vb'[v].pixmap /\ Blocks(v, at2)' /\ v # NoId
      BY <2>2, IdsNat DEF LoopMove
    <3> QED
      BY <2>2, <3>1, <1>1 DEF Blocker
  <2>3. CASE blocking_event \notin {v, NoId}
    <3>1. blocking_event \in Ids /\ vb[blocking_event].pixmap /\ Blocks(blocking_event, at)
      BY <2>3, <1>1, AtRest
    <3>2. vb'[blocking_event] = vb[blocking_event] /\ at2[blocking_event] = at[blocking_event]
      BY <2>3, <3>1, <1>1 DEF Moves, Only
    <3> QED
      BY <2>3, <3>1, <3>2, <1>1 DEF Blocker, Blocks, Live
  <2> QED
    BY <2>1, <2>2, <2>3
<1>10. Callbacks(at2)'
  <2>1. \A u \in Ids : at2[u] = "pending" <=> at[u] = "pending"
    BY <1>1 DEF Moves, LoopMove
  <2>2. \A u \in Ids : at[u] = "pending" => vb'[u].sync_flip = vb[u].sync_flip
    BY <1>1 DEF Only, LoopMove
  <2>3. ~Running("flip_notify")'
    BY <1>4 DEF Runner
  <2>4. /\ sync_callback # NoId =>
              sync_callback \in Ids /\ at[sync_callback] = "pending" /\ ~vb[sync_callback].sync_flip
        /\ \A u \in Ids : at[u] = "pending" /\ ~vb[u].sync_flip => sync_callback = u
    BY <1>1, AtRest
  <2> QED
    BY <2>1, <2>2, <2>3, <2>4, <1>1 DEF Callbacks
<1> QED
  BY <1>1, <1>5, <1>6, <1>7, <1>8, <1>9, <1>10 DEF Fits

\* The timer still covers what it covered.
LEMMA LoopTimely ==
  ASSUME NEW at, Good(at), TypeOK', stack = <<>>, NEW at2, OnLists(at2)', Records(at2)',
         \A u \in Ids : at2[u] = "pending" => at[u] = "pending" /\ vb'[u].sync_flip = vb[u].sync_flip,
         UNCHANGED <<frame_timer, timer_armed>>,
         wait_list' # <<>> =>
           wait_list # <<>> \/ frame_timer = "set" \/ "reset_timer" \in Fns(stack')
  PROVE  Timely'
<1>1. TypeOK /\ OnLists(at) /\ Records(at) /\ Timely
  BY DEF Good, Fits
<1>2. "reset_timer" \notin Fns(stack)
  BY NoCalls
<1> QED
  BY <1>1, <1>2, TimelyMove

LEMMA AcquireFenceAvailFits ==
  ASSUME NEW at, Good(at), TypeOK', NEW v \in Ids, AcquireFenceAvail(v)
  PROVE  \E at2 \in [Ids -> Places] : Fits(at2)'
<1> SUFFICES ASSUME NEW f, f = CallOn("re_execute", v, 0)
             PROVE  \E at2 \in [Ids -> Places] : Fits(at2)'
  OBVIOUS
<1>1. /\ stack = <<>> /\ stack' = <<f>> /\ vb' = [vb EXCEPT ![v].efd = "none"] /\ vb[v].efd # "none"
      /\ UNCHANGED <<lists, flip_active, blocking_event, sync_callback, frame_timer, timer_armed>>
      /\ UNCHANGED <<req, pix, acq, release_cb, held, setup, blocked_queue, wait_list>>
  BY DEF AcquireFenceAvail, AtEventLoop, lists, links, timer, world
<1>2. at[v] = "fence" /\ vb[v] \in Vblank /\ vb[v].st = "live" /\ Stage(vb[v], at[v])
  BY <1>1 DEF Good, Fits, Records, Stage, TypeOK
<1>3. Only(v) /\ vb'[v] = [vb[v] EXCEPT !.efd = "none"]
  BY <1>1 DEF Only, Good, TypeOK
<1>4. /\ vb'[v].st = "live" /\ vb'[v].pixmap = vb[v].pixmap /\ vb'[v].copied = vb[v].copied
      /\ vb'[v].evpix = vb[v].evpix /\ vb'[v].handed = vb[v].handed /\ vb'[v].done = vb[v].done
      /\ vb'[v].idled = vb[v].idled /\ vb'[v].efd = "none" /\ vb'[v].flip = vb[v].flip
      /\ vb'[v].queued = vb[v].queued /\ vb'[v].sync_flip = vb[v].sync_flip
  BY <1>2, <1>3 DEF Vblank
<1>5. PICK at2 \in [Ids -> Places] : Moves(at, at2, v) /\ at2[v] = "none"
  <2>1. "none" \in Places
    BY DEF Places
  <2> QED
    BY <2>1, Moving
<1>6. Stage(vb'[v], at2[v]) /\ Gentle(v) /\ Rank(at2[v]) = Rank(at[v])
  BY <1>2, <1>4, <1>5 DEF Stage, Shown, Owed, Gentle, Rank
<1>7. OnLists(at2)'
  BY <1>1, <1>2, <1>5, ListsStay DEF Loose, Good, Fits
<1>8. Buffers(at2)'
  BY <1>1, <1>3, <1>5, <1>6, BuffersMove DEF Good, Fits
<1>9. Arguments'
  BY <1>1, <1>2, <1>3, <1>4, ArgumentsMove DEF Good, Fits
<1>10. Records(at2)'
  BY <1>3, <1>5, <1>6, RecordsMove DEF Good, Fits
<1>11. \A u \in Ids : at2[u] = "pending" => at[u] = "pending" /\ vb'[u].sync_flip = vb[u].sync_flip
  BY <1>3, <1>5 DEF Moves, Only
<1>12. Timely'
  BY <1>1, <1>7, <1>10, <1>11, LoopTimely
<1>13. f \in Frame /\ f.fn = "re_execute" /\ f.v = v /\ f.lag = 0
  BY CallTyped, CallFields DEF RequestFns
<1>14. Elements(stack') = {f} /\ Sound(stack') /\ Head(stack') = f
  BY <1>1, <1>13, OneCall
<1>15. Knows(f, at2[f.v], vb'[f.v]) /\ Attends(f, v, at2[v])
  BY <1>4, <1>5, <1>13 DEF Knows, Owners, Attends
<1>16. blocking_event = v => vb'[v].pixmap /\ Blocks(v, at2)'
  <2> SUFFICES ASSUME blocking_event = v PROVE vb'[v].pixmap /\ Blocks(v, at2)'
    OBVIOUS
  <2>1. vb[v].pixmap /\ Blocks(v, at)
    BY <1>1, AtRest, IdsNat
  <2> QED
    BY <2>1, <1>4, <1>5 DEF Blocks, Live
<1>17. LoopMove(at, at2, v)
  BY <1>1, <1>2, <1>3, <1>5, <1>6, <1>7, <1>8, <1>9, <1>12, <1>13, <1>14, <1>15, <1>16 DEF LoopMove, Runner
<1> QED
  BY <1>5, <1>17, LoopMoveFits

\* A released buffer is the one its callback names: nobody else's pixmap is held.
LEMMA ReleaseBuffers ==
  ASSUME NEW at, Good(at), NEW p \in Pixmaps, NEW v \in Ids, release_cb[p] = v,
         NEW at2, Moves(at, at2, v), at2[v] = at[v] \/ Rank(at2[v]) = 3, Only(v),
         vb'[v].evpix = FALSE, vb'[v].st = vb[v].st \/ vb'[v].st = "freed", vb[v].pixmap,
         vb'[v].idled > 0, release_cb' = CbWithout({v}), held' = held \ {p},
         UNCHANGED <<req, pix, setup>>
  PROVE  Buffers(at2)'
<1>1. InOrder(at) /\ Reused /\ Names /\ Shows
  BY DEF Good, Fits, Buffers
<1>2. pix[v] = p /\ vb[v].evpix /\ ~vb[v].handed
  BY <1>1 DEF Names
<1>3. \A q \in Pixmaps : release_cb'[q] = IF q = p THEN NoId ELSE release_cb[q]
  BY <1>2 DEF CbWithout
<1>4. InOrder(at2)'
  <2> SUFFICES ASSUME NEW u \in Ids, NEW w \in Ids, pix[u] = pix[w],
                      Rank(at2[u]) < Rank(at2[w]), Rank(at2[w]) < 3
               PROVE  u < w
    BY DEF InOrder
  <2>1. \A q : Rank(q) \in {0, 1, 2, 3}
    BY DEF Rank
  <2>2. Rank(at2[u]) < 3 /\ Rank(at2[w]) < 3
    BY <2>1
  <2>3. at2[u] = at[u] /\ at2[w] = at[w]
    BY <2>2 DEF Moves
  <2> QED
    BY <2>3, <1>1 DEF InOrder
<1>5. Reused'
  <2> SUFFICES ASSUME NEW u \in Ids, NEW w \in Ids, u < w, pix[u] = pix[w], Uses(u)', Uses(w)'
               PROVE  Settled(u)'
    BY DEF Reused
  <2>1. \A x \in Ids : Uses(x)' => Uses(x)
    BY DEF Only, Uses, Live
  <2>2. Settled(u)
    BY <2>1, <1>1 DEF Reused
  <2>3. CASE u = v
    BY <2>3 DEF Settled
  <2>4. CASE u # v
    BY <2>2, <2>4 DEF Settled, Only
  <2> QED
    BY <2>3, <2>4
<1>6. Names'
  <2> SUFFICES ASSUME NEW q \in Pixmaps, NEW u \in Ids, release_cb'[q] = u
               PROVE  pix[u] = q /\ vb'[u].evpix /\ ~vb'[u].handed
    BY DEF Names
  <2>1. q # p /\ release_cb[q] = u
    BY <1>3, IdsNat
  <2>2. pix[u] = q /\ vb[u].evpix /\ ~vb[u].handed
    BY <2>1, <1>1 DEF Names
  <2>3. u # v
    BY <2>1, <2>2, <1>2
  <2> QED
    BY <2>2, <2>3 DEF Only
<1>7. Shows'
  <2> SUFFICES ASSUME NEW u \in Ids, vb'[u].evpix
               PROVE  /\ pix[u] \in Pixmaps /\ (vb'[u].handed <=> Explicit(u))
                      /\ ~vb'[u].handed => release_cb'[pix[u]] = u /\ pix[u] \in held'
    BY DEF Shows, Explicit, HasSyncobj
  <2>1. u # v /\ vb'[u] = vb[u]
    BY DEF Only
  <2>2. /\ pix[u] \in Pixmaps /\ (vb[u].handed <=> Explicit(u))
        /\ ~vb[u].handed => release_cb[pix[u]] = u /\ pix[u] \in held
    BY <2>1, <1>1 DEF Shows
  <2>3. ~vb[u].handed => pix[u] # p
    BY <2>1, <2>2
  <2> QED
    BY <2>1, <2>2, <2>3, <1>3
<1> QED
  BY <1>4, <1>5, <1>6, <1>7 DEF Buffers

LEMMA BufferReleaseFits ==
  ASSUME NEW at, Good(at), TypeOK', NEW p \in Pixmaps, BufferRelease(p)
  PROVE  \E at2 \in [Ids -> Places] : Fits(at2)'
<1>1. /\ stack = <<>> /\ stack' = <<>> /\ held' = held \ {p}
      /\ UNCHANGED <<blocked_queue, flip_active, blocking_event, sync_callback, frame_timer, timer_armed>>
      /\ UNCHANGED <<entered_for_each, req, pix, acq, setup>>
  BY DEF BufferRelease, AtEventLoop, links, timer
<1>2. /\ TypeOK /\ OnLists(at) /\ Records(at) /\ Buffers(at) /\ Arguments
      /\ release_cb[p] \in Ids \cup {NoId}
  BY DEF Good, Fits, TypeOK
<1>3. /\ Elements(stack') = {} /\ Sound(stack')
  BY <1>1, NoCalls
<1>4. CASE release_cb[p] = NoId
  <2>1. UNCHANGED <<vb, lists, release_cb>>
    BY <1>1, <1>4 DEF BufferRelease, lists
  <2>2. OnLists(at)' /\ Records(at)' /\ Arguments'
    BY <1>1, <1>2, <2>1 DEF OnLists, Records, Arguments, HasSyncobj, lists
  <2>3. Buffers(at)'
    <3>1. InOrder(at) /\ Reused /\ Names /\ Shows
      BY <1>2 DEF Buffers
    <3>2. InOrder(at)' /\ Reused' /\ Names'
      BY <3>1, <1>1, <2>1 DEF InOrder, Reused, Names, Uses, Settled, Live
    <3>3. \A u \in Ids : release_cb[pix[u]] = u => pix[u] # p
      BY <1>4, IdsNat
    <3>4. Shows'
      BY <3>1, <3>3, <1>1, <2>1 DEF Shows, Explicit, HasSyncobj
    <3> QED
      BY <3>2, <3>4 DEF Buffers
  <2>4. Calls(at)' /\ Relies(at)' /\ Attended(at)' /\ Blocker(at)' /\ Callbacks(at)'
    <3>1. /\ Calls(at) /\ Relies(at) /\ Attended(at) /\ Blocker(at) /\ Callbacks(at)
      BY DEF Good, Fits
    <3>2. stack' = stack /\ blocked_queue' = blocked_queue
      BY <1>1
    <3>3. Calls(at)' /\ Relies(at)'
      BY <3>1, <3>2, <1>1, <2>1 DEF Calls, Relies, StopsAlone, FlushesSettled, Flushing, MayPresent,
         Entered, Acquired, Running, Top, Presents, HasSyncobj
    <3>4. Attended(at)' /\ Blocker(at)' /\ Callbacks(at)'
      BY <3>1, <3>2, <1>1, <2>1 DEF Attended, Blocker, Callbacks, Live, Blocks, Running, Top
    <3> QED
      BY <3>3, <3>4
  <2>5. Timely'
    <3>1. SyncFlipPending' = SyncFlipPending /\ wait_list' = wait_list
      BY <2>1 DEF SyncFlipPending, PendingFlip, lists
    <3> QED
      BY <3>1, <1>1, AtRest DEF Timely
  <2>6. at \in [Ids -> Places]
    BY DEF Good
  <2> QED
    BY <2>2, <2>3, <2>4, <2>5, <2>6 DEF Fits
<1>5. CASE release_cb[p] # NoId
  <2> SUFFICES ASSUME NEW v \in Ids, v = release_cb[p],
                      NEW inUse, inUse <=> (v # NoId /\ v \in {flip_active, PendingFlip})
               PROVE  \E at2 \in [Ids -> Places] : Fits(at2)'
    BY <1>2, <1>5
  <2>1. /\ vb' = [vb EXCEPT ![v] = IF inUse THEN [Idled(@) EXCEPT !.evpix = FALSE] ELSE Freed(Idled(@))]
        /\ release_cb' = CbWithout({v})
        /\ inUse => UNCHANGED <<wait_list, flip_queue, idle_queue>>
        /\ ~inUse => Unlink(v)
    BY <1>5 DEF BufferRelease
  <2>2. Only(v) /\ vb'[v] = IF inUse THEN [Idled(vb[v]) EXCEPT !.evpix = FALSE] ELSE Freed(Idled(vb[v]))
    BY <1>2, <2>1 DEF Only, TypeOK
  <2>3. pix[v] = p /\ vb[v].evpix /\ vb[v] \in Vblank /\ Stage(vb[v], at[v])
    BY <1>2 DEF Buffers, Names, Records, TypeOK
  <2>4. at[v] \in {"idle", "active", "pending"}
    <3>1. at[v] \in Shown
      BY <2>3 DEF Stage
    <3>2. at[v] # "flipping"
      BY <1>1, AtRest
    <3> QED
      BY <3>1, <3>2 DEF Shown
  <2>5. inUse <=> at[v] \in {"active", "pending"}
    <3>1. (at[v] = "pending" <=> PendingFlip = v) /\ (at[v] = "active" <=> v = flip_active)
      BY <1>2, PendingIs DEF OnLists
    <3> QED
      BY <3>1, IdsNat
  <2>6. InUse(vb[v], at[v]) /\ vb[v].idled = 0 /\ vb[v].pixmap /\ vb[v].efd = "none" /\ vb[v].st = "live"
    BY <2>3, <2>4 DEF Stage, InUse, Shown
  <2>7. PICK at2 \in [Ids -> Places] :
          Moves(at, at2, v) /\ at2[v] = IF inUse THEN at[v] ELSE "none"
    <3>1. (IF inUse THEN at[v] ELSE "none") \in Places
      BY <2>4 DEF Places
    <3> QED
      BY <3>1, Moving
  <2>8. CASE inUse
    <3>1. /\ vb'[v].st = "live" /\ vb'[v].pixmap = vb[v].pixmap /\ vb'[v].copied = vb[v].copied
          /\ vb'[v].evpix = FALSE /\ vb'[v].handed = vb[v].handed /\ vb'[v].done = vb[v].done
          /\ vb'[v].idled = 1 /\ vb'[v].efd = "none" /\ vb'[v].queued = vb[v].queued
          /\ vb'[v].sync_flip = vb[v].sync_flip
      <4>1. vb'[v] = [Idled(vb[v]) EXCEPT !.evpix = FALSE]
        BY <2>2, <2>8
      <4> DEFINE r == [Idled(vb[v]) EXCEPT !.evpix = FALSE]
      <4>2. /\ r.st = vb[v].st /\ r.pixmap = vb[v].pixmap /\ r.copied = vb[v].copied
            /\ r.evpix = FALSE /\ r.handed = vb[v].handed /\ r.done = vb[v].done
            /\ r.idled = vb[v].idled + 1 /\ r.efd = vb[v].efd /\ r.queued = vb[v].queued
            /\ r.sync_flip = vb[v].sync_flip
        BY <2>3 DEF Vblank, Idled
      <4> HIDE DEF r
      <4>3. vb'[v] = r
        BY <4>1 DEF r
      <4>4. r.idled = 1 /\ r.st = "live" /\ r.efd = "none"
        BY <4>2, <2>6
      <4> QED
        BY <4>2, <4>3, <4>4
    <3>2. Stage(vb'[v], at2[v])
      <4>1. at2[v] = at[v] /\ at[v] \in {"active", "pending"}
        BY <2>5, <2>7, <2>8
      <4> QED
        BY <4>1, <3>1, <2>3, <2>6 DEF Stage, InUse, Shown
    <3>3. OnLists(at2)'
      <4>1. UNCHANGED <<lists, flip_active>>
        BY <1>1, <2>1, <2>8 DEF lists
      <4>2. \A u \in Ids : at2[u] = at[u]
        BY <2>7, <2>8 DEF Moves
      <4>3. OnLists(at)'
        BY <1>2, <4>1, SameLists
      <4> QED
        BY <4>2, <4>3 DEF OnLists, Is, OnePending
    <3>4. vb'[v].idled > 0 /\ (at2[v] = at[v] \/ Rank(at2[v]) = 3)
      BY <3>1, <2>7, <2>8
    <3>5. Buffers(at2)'
      BY <3>1, <3>4, <1>1, <2>1, <2>2, <2>6, <2>7, ReleaseBuffers
    <3>6. Arguments'
      BY <3>1, <2>2, <2>6, <1>1, <1>2, ArgumentsMove
    <3>7. Records(at2)'
      BY <3>2, <2>2, <2>7, <1>2, RecordsMove
    <3>8. \A u \in Ids : at2[u] = "pending" => at[u] = "pending" /\ vb'[u].sync_flip = vb[u].sync_flip
      <4>1. Only(v) /\ vb'[v].sync_flip = vb[v].sync_flip /\ at2[v] = at[v] /\ Moves(at, at2, v)
        BY <3>1, <2>2, <2>7, <2>8
      <4> QED
        BY <4>1 DEF Moves, Only
    <3>9. Timely'
      <4>1. wait_list' = wait_list
        BY <2>1, <2>8
      <4> QED
        BY <4>1, <3>3, <3>7, <3>8, <1>1, LoopTimely
    <3>10. blocking_event # v
      BY <2>4, <1>1, AtRest, IdsNat DEF Blocks
    <3>11. at2[v] \in {"active", "pending"} /\ (at2[v] = "pending" <=> at[v] = "pending")
      BY <2>5, <2>7, <2>8
    <3>12. LoopMove(at, at2, v)
      BY <1>1, <1>3, <2>2, <2>7, <3>1, <3>2, <3>3, <3>5, <3>6, <3>9, <3>10, <3>11 DEF LoopMove
    <3> QED
      BY <2>7, <3>12, LoopMoveFits
  <2>9. CASE ~inUse
    <3>1. at[v] = "idle" /\ at2[v] = "none" /\ vb[v].done = 1
      BY <2>4, <2>5, <2>6, <2>7, <2>9 DEF InUse
    <3>2. /\ vb'[v].st = "freed" /\ vb'[v].evpix = FALSE /\ vb'[v].efd = "none"
          /\ vb'[v].done = 1 /\ vb'[v].idled = 1 /\ vb'[v].copied = FALSE
      <4>1. /\ Freed(Idled(vb[v])).st = "freed" /\ Freed(Idled(vb[v])).evpix = FALSE
            /\ Freed(Idled(vb[v])).efd = "none" /\ Freed(Idled(vb[v])).done = vb[v].done
            /\ Freed(Idled(vb[v])).idled = vb[v].idled + 1 /\ Freed(Idled(vb[v])).copied = FALSE
        BY <2>3 DEF Freed, Blank, Idled, Vblank
      <4> QED
        BY <4>1, <3>1, <2>2, <2>6, <2>9
    <3>3. Stage(vb'[v], at2[v])
      BY <3>1, <3>2 DEF Stage, Shown
    <3>4. OnLists(at2)'
      <4>1. /\ flip_queue' = Without(flip_queue, v) /\ wait_list' = Without(wait_list, v)
            /\ idle_queue' = Without(idle_queue, v) /\ blocked_queue' = blocked_queue
            /\ flip_active' = flip_active
        BY <1>1, <2>1, <2>9 DEF Unlink
      <4>2. ~Has(flip_queue, v) /\ ~Has(wait_list, v)
        BY <3>1, <1>2 DEF OnLists, Is
      <4>3. flip_queue' = flip_queue /\ wait_list' = wait_list
        BY <4>1, <4>2, Zenon DEF Without
      <4>4. /\ Is(wait_list, at2, {"wait"}) /\ Is(flip_queue, at2, {"queue", "pending"})
            /\ Is(blocked_queue, at2, {"blocked"})
        BY <3>1, <2>7, <1>2 DEF OnLists, Is, Moves
      <4>5. Is(Without(idle_queue, v), at2, {"idle"})
        <5>1. idle_queue \in Seq(Ids) /\ Is(idle_queue, at, {"idle"}) /\ at2[v] \notin {"idle"}
          BY <3>1, <1>2 DEF TypeOK, OnLists
        <5> QED
          BY <5>1, <2>7, IsWithout
      <4>6. /\ \A u \in Ids : u = flip_active <=> at2[u] = "active"
            /\ \A u \in Ids : at2[u] = "pending" => First(flip_queue) = u
            /\ OnePending(at2)
        BY <3>1, <2>7, <1>2 DEF OnLists, OnePending, Moves
      <4> QED
        BY <4>1, <4>3, <4>4, <4>5, <4>6 DEF OnLists
    <3>5. vb'[v].idled > 0 /\ Rank(at2[v]) = 3
      BY <3>1, <3>2 DEF Rank
    <3>6. Buffers(at2)'
      BY <3>2, <3>5, <1>1, <2>1, <2>2, <2>6, <2>7, ReleaseBuffers
    <3>7. Arguments'
      BY <3>2, <2>2, <2>6, <1>1, <1>2, ArgumentsMove
    <3>8. Records(at2)'
      BY <3>3, <2>2, <2>7, <1>2, RecordsMove
    <3>9. \A u \in Ids : at2[u] = "pending" => at[u] = "pending" /\ vb'[u].sync_flip = vb[u].sync_flip
      BY <3>1, <2>2, <2>7 DEF Moves, Only
    <3>10. Timely'
      <4>1. wait_list' = wait_list
        <5>1. ~Has(wait_list, v)
          BY <3>1, <1>2 DEF OnLists, Is
        <5> QED
          BY <5>1, <2>1, <2>9, Zenon DEF Unlink, Without
      <4> QED
        BY <4>1, <3>4, <3>8, <3>9, <1>1, LoopTimely
    <3>11. blocking_event # v
      BY <2>4, <1>1, AtRest, IdsNat DEF Blocks
    <3>12. LoopMove(at, at2, v)
      BY <1>1, <1>3, <2>2, <2>7, <3>1, <3>2, <3>3, <3>4, <3>6, <3>7, <3>10, <3>11 DEF LoopMove
    <3> QED
      BY <2>7, <3>12, LoopMoveFits
  <2> QED
    BY <2>8, <2>9
<1> QED
  BY <1>4, <1>5

LEMMA CheckFlipWindowFits ==
  ASSUME NEW at, Good(at), CheckFlipWindow
  PROVE  Fits(at)'
<1> DEFINE s == Call("flips_stop")
           d == Call("drop_flips")
<1>1. /\ stack = <<>>
      /\ UNCHANGED <<lists, flip_active, release_cb, req, pix, acq, held, setup>>
      /\ UNCHANGED <<blocking_event, sync_callback, entered_for_each, frame_timer, timer_armed>>
      /\ blocked_queue' = blocked_queue /\ wait_list' = wait_list
  BY DEF CheckFlipWindow, AtEventLoop, links, timer, lists
<1>2. Same
  <2> SUFFICES ASSUME NEW u \in Ids PROVE Similar(vb[u], vb'[u])
    BY DEF Same
  <2>1. vb[u] \in Vblank /\ vb \in [Ids -> Vblank]
    BY DEF Good, TypeOK
  <2>2. vb'[u] = vb[u] \/ vb'[u] = [vb[u] EXCEPT !.abort_flip = TRUE]
    BY <2>1 DEF CheckFlipWindow
  <2> QED
    BY <2>1, <2>2 DEF Similar, Vblank
<1>3. /\ OnLists(at)' /\ Records(at)' /\ Buffers(at)' /\ Arguments'
      /\ PendingFlip' = PendingFlip /\ SyncFlipPending' = SyncFlipPending
  BY <1>1, <1>2, SameFits
<1>4. /\ s \in Frame /\ s.fn = "flips_stop" /\ d \in Frame /\ d.fn = "drop_flips"
  BY CallTyped, CallFields DEF WindowFns
<1>5. stack' = If(PendingFlip = NoId /\ flip_active # NoId /\ ~CheckFlip(can_flip'), <<s>>) \o <<d>>
  BY DEF CheckFlipWindow
<1> HIDE DEF s, d
<1>6. Sound(stack') /\ \A fn \in {"retry", "flip_notify", "copy"} : ~Running(fn)'
  <2>1. CASE PendingFlip = NoId /\ flip_active # NoId /\ ~CheckFlip(can_flip')
    <3>1. stack' = <<s>> \o <<d>>
      BY <2>1, <1>5 DEF If
    <3>2. <<s, d>> = Append(<<s>>, d) /\ Append(<<s>>, d) = <<s>> \o <<d>>
      <4>1. <<s, d>> = Append(<<s>>, d)
        OBVIOUS
      <4>2. <<s>> \in Seq(Frame)
        BY <1>4, OneElement
      <4>3. Append(<<s>>, d) = <<s>> \o <<d>>
        BY <1>4, <4>2, AppendIsConcat
      <4> QED
        BY <4>1, <4>3
    <3>3. Stacked(s, d)
      BY <1>4 DEF Stacked, Tops, Sealed, Bumps, Owners, Stops
    <3>4. Sound(<<s, d>>) /\ Head(<<s, d>>) = s
      BY <1>4, <3>3, TwoCalls
    <3>5. Sound(stack') /\ Head(stack') = s
      BY <3>1, <3>2, <3>4
    <3> QED
      BY <3>5, <1>4 DEF Running, Top
  <2>2. CASE ~(PendingFlip = NoId /\ flip_active # NoId /\ ~CheckFlip(can_flip'))
    <3>1. stack' = <<d>>
      <4>1. stack' = <<>> \o <<d>>
        BY <2>2, <1>5 DEF If
      <4> QED
        BY <4>1, <1>4, Frames
    <3>2. Sound(stack') /\ Head(stack') = d
      BY <3>1, <1>4, OneCall
    <3> QED
      BY <3>2, <1>4 DEF Running, Top
  <2> QED
    BY <2>1, <2>2
<1>7. \A f \in Elements(stack') : f = d \/ (f = s /\ PendingFlip = NoId)
  <2>1. CASE PendingFlip = NoId /\ flip_active # NoId /\ ~CheckFlip(can_flip')
    <3>1. stack' = <<s>> \o <<d>>
      BY <2>1, <1>5 DEF If
    <3>2. Elements(stack') = {s} \cup Elements(<<d>>)
      BY <3>1, <1>4, OneCall, Pushed
    <3> QED
      BY <2>1, <3>2, <1>4, OneCall
  <2>2. CASE ~(PendingFlip = NoId /\ flip_active # NoId /\ ~CheckFlip(can_flip'))
    <3>1. stack' = <<d>>
      <4>1. stack' = <<>> \o <<d>>
        BY <2>2, <1>5 DEF If
      <4> QED
        BY <4>1, <1>4, Frames
    <3> QED
      BY <3>1, <1>4, OneCall
  <2> QED
    BY <2>1, <2>2
<1>8. /\ \A fn : fn \in Fns(stack') => fn \in {"flips_stop", "drop_flips"}
      /\ "flips_stop" \in Fns(stack') => PendingFlip = NoId
  BY <1>4, <1>7 DEF Fns
<1>9. Calls(at)'
  <2>1. \A f \in Elements(stack') : Knows(f, at[f.v], vb'[f.v])
    BY <1>4, <1>7 DEF Knows, RequestFns, Owners
  <2> QED
    BY <2>1, <1>6 DEF Calls
<1>10. Relies(at)'
  <2>1. StopsAlone(at)'
    <3>1. PendingFlip = NoId => ~Pending(at)
      BY <1>1, PendingIs, AtRest, IdsNat DEF Pending, Good, Fits
    <3> QED
      BY <3>1, <1>8 DEF StopsAlone, Stops
  <2>2. FlushesSettled(at)' /\ Flushing(at)' /\ Entered'
    BY <1>8 DEF FlushesSettled, Flushing, Entered
  <2>3. MayPresent' /\ Acquired'
    BY <1>4, <1>6, <1>7 DEF MayPresent, Acquired
  <2> QED
    BY <2>1, <2>2, <2>3 DEF Relies
<1>11. Attended(at)'
  <2>1. \A u \in Ids : at[u] \notin {"held", "flipping"} /\ (at[u] = "none" <=> vb[u].st # "live")
    BY <1>1, AtRest
  <2> QED
    BY <2>1, <1>2 DEF Attended, Live, Same, Similar
<1>12. Blocker(at)'
  <2>1. /\ blocking_event = NoId => blocked_queue = <<>>
        /\ blocking_event # NoId => /\ blocking_event \in Ids /\ vb[blocking_event].pixmap
                                    /\ Blocks(blocking_event, at)
    BY <1>1, AtRest
  <2> QED
    BY <2>1, <1>1, <1>2 DEF Blocker, Blocks, Live, Same, Similar
<1>13. Timely'
  BY <1>1, <1>3, AtRest DEF Timely
<1>14. Callbacks(at)'
  <2>1. /\ sync_callback # NoId =>
             sync_callback \in Ids /\ at[sync_callback] = "pending" /\ ~vb[sync_callback].sync_flip
        /\ \A u \in Ids : at[u] = "pending" /\ ~vb[u].sync_flip => sync_callback = u
    BY <1>1, AtRest
  <2> QED
    BY <2>1, <1>1, <1>2, <1>6 DEF Callbacks, Same, Similar
<1> QED
  BY <1>3, <1>9, <1>10, <1>11, <1>12, <1>13, <1>14 DEF Fits

\* Nowhere is the place of every request that was answered or not made.
LEMMA NowhereFits ==
  ASSUME NEW at2, at2 = [v \in Ids |-> "none"], TypeOK',
         wait_list' = <<>>, flip_queue' = <<>>, idle_queue' = <<>>, blocked_queue' = <<>>,
         flip_active' = NoId, blocking_event' = NoId, sync_callback' = NoId, frame_timer' = "none",
         timer_armed' = "off", stack' = <<>>, \A p \in Pixmaps : release_cb'[p] = NoId,
         \A v \in Ids : /\ vb'[v].st # "live" /\ vb'[v].done <= 1 /\ vb'[v].idled <= 1
                        /\ vb'[v].evpix = FALSE /\ vb'[v].efd = "none",
         Arguments'
  PROVE  Fits(at2)'
<1>1. \A v \in Ids : at2[v] = "none"
  OBVIOUS
<1>2. OnLists(at2)'
  BY <1>1, HasNone, IdsNat DEF OnLists, Is, OnePending
<1>3. Records(at2)'
  BY <1>1 DEF Records, Stage, Shown
<1>4. Buffers(at2)'
  BY <1>1, IdsNat DEF Buffers, InOrder, Rank, Reused, Uses, Live, Names, Shows
<1>5. Elements(stack') = {} /\ Fns(stack') = {} /\ Sound(stack')
  BY NoCalls
<1>6. \A fn : ~Running(fn)'
  BY DEF Running
<1>7. Calls(at2)' /\ Relies(at2)'
  BY <1>5, <1>6 DEF Calls, Relies, StopsAlone, FlushesSettled, Flushing, MayPresent, Entered, Acquired
<1>8. Attended(at2)' /\ Blocker(at2)' /\ Callbacks(at2)'
  BY <1>1 DEF Attended, Blocker, Callbacks, Live
<1>9. Timely'
  BY DEF Timely, SyncFlipPending, PendingFlip
<1> QED
  BY <1>2, <1>3, <1>4, <1>7, <1>8, <1>9 DEF Fits

LEMMA CleanupFits ==
  ASSUME NEW at, Good(at), TypeOK', Cleanup
  PROVE  \E at2 \in [Ids -> Places] : Fits(at2)'
<1> SUFFICES ASSUME NEW at2, at2 = [v \in Ids |-> "none"]
             PROVE  Fits(at2)' /\ at2 \in [Ids -> Places]
  OBVIOUS
<1>1. at2 \in [Ids -> Places]
  BY DEF Places
<1>2. /\ Records(at) /\ Buffers(at) /\ Arguments /\ TypeOK
  BY DEF Good, Fits
<1>3. \A v \in Ids : IF vb[v].st = "live" THEN vb'[v] = Freed(vb[v]) ELSE vb'[v] = vb[v]
  BY DEF Cleanup, Live
<1>4. \A v \in Ids : /\ vb'[v].st # "live" /\ vb'[v].done <= 1 /\ vb'[v].idled <= 1
                     /\ vb'[v].evpix = FALSE /\ vb'[v].efd = "none"
                     /\ (vb'[v].st # "new" => vb[v].st # "new")
  <2> TAKE v \in Ids
  <2>1. Stage(vb[v], at[v]) /\ vb[v] \in Vblank
    BY <1>2 DEF Records, TypeOK
  <2>2. /\ Freed(vb[v]).st = "freed" /\ Freed(vb[v]).done = vb[v].done /\ Freed(vb[v]).idled = vb[v].idled
        /\ Freed(vb[v]).evpix = FALSE /\ Freed(vb[v]).efd = "none"
    BY DEF Freed, Blank
  <2>3. CASE vb[v].st = "live"
    BY <2>1, <2>2, <2>3, <1>3 DEF Stage
  <2>4. CASE vb[v].st # "live"
    <3>1. at[v] = "none" /\ vb'[v] = vb[v]
      BY <2>1, <2>4, <1>3 DEF Stage
    <3> QED
      BY <2>1, <2>4, <3>1 DEF Stage, Shown, Vblank
  <2> QED
    BY <2>3, <2>4
<1>5. Arguments'
  <2> SUFFICES ASSUME NEW v \in Ids
               PROVE  /\ vb'[v].st # "new" => req[v].sync # "fence"
                      /\ vb'[v].copied /\ HasSyncobj(v) => acq[v] = "sig"
    BY DEF Cleanup, Arguments, HasSyncobj
  <2>1. CASE vb[v].st = "live"
    <3>1. vb'[v].copied = FALSE
      BY <2>1, <1>3 DEF Freed, Blank
    <3> QED
      BY <2>1, <3>1, <1>2 DEF Arguments
  <2>2. CASE vb[v].st # "live"
    BY <2>2, <1>2, <1>3 DEF Arguments
  <2> QED
    BY <2>1, <2>2
<1>6. \A p \in Pixmaps : release_cb'[p] = NoId
  <2> SUFFICES ASSUME NEW p \in Pixmaps, release_cb'[p] # NoId PROVE FALSE
    OBVIOUS
  <2>1. release_cb' = CbWithout({v \in Ids : Live(v)})
    BY DEF Cleanup
  <2>2. /\ release_cb[p] # NoId
        /\ ~\E v \in {u \in Ids : Live(u)} : vb[v].evpix /\ pix[v] = p
    BY <2>1 DEF CbWithout
  <2>3. PICK v \in Ids : v = release_cb[p]
    BY <2>2, <1>2 DEF TypeOK
  <2>4. pix[v] = p /\ vb[v].evpix
    BY <2>3, <1>2 DEF Buffers, Names
  <2>5. Live(v)
    BY <2>4, ShownUnsettled DEF Uses
  <2> QED
    BY <2>2, <2>4, <2>5
<1>7. /\ wait_list' = <<>> /\ flip_queue' = <<>> /\ idle_queue' = <<>> /\ blocked_queue' = <<>>
      /\ flip_active' = NoId /\ blocking_event' = NoId /\ sync_callback' = NoId /\ frame_timer' = "none"
      /\ timer_armed' = "off" /\ stack' = <<>>
  BY DEF Cleanup, AtEventLoop
<1> QED
  BY <1>1, <1>4, <1>5, <1>6, <1>7, NowhereFits

\* A new request, waiting for its msc or executed at once.
Fresh(r, a) ==
  /\ r.st = "live" /\ r.queued = TRUE /\ r.copied = FALSE /\ r.evpix = FALSE /\ r.handed = FALSE
  /\ r.done = 0 /\ r.idled = 0 /\ r.efd = "none" /\ r.pixmap = (a.kind # "notify")

NewRequest(at, v, a, p) ==
  /\ stack = <<>> /\ vb[v].st = "new" /\ at[v] = "none" /\ vb[v].evpix = FALSE
  /\ \A u \in Ids : v < u => vb[u].st = "new"
  /\ \A u \in Ids : Live(u) /\ pix[u] = p => Settled(u)
  /\ a.sync # "fence" /\ req'[v] = a /\ \A u \in Ids : u # v => req'[u] = req[u] /\ acq'[u] = acq[u]
  /\ pix'[v] = (IF a.kind = "notify" THEN NoId ELSE p) /\ \A u \in Ids : u # v => pix'[u] = pix[u]
  /\ UNCHANGED <<blocked_queue, flip_active, blocking_event, sync_callback, frame_timer, timer_armed>>
  /\ UNCHANGED <<release_cb, held, setup, entered_for_each>>
LEMMA PresentKnows ==
  ASSUME NEW at, Good(at), NEW v \in Ids, NEW a \in setup.attrs, NEW p \in Pixmaps, NEW ahead,
         Present(v, a, p, ahead)
  PROVE  NewRequest(at, v, a, p)
<1>1. /\ stack = <<>> /\ (\A u \in Ids : u < v <=> vb[u].st # "new")
      /\ \A u \in Ids : Live(u) /\ pix[u] = p => vb[u].idled > 0 \/ vb[u].handed
  BY DEF Present, AtEventLoop
<1>2. vb[v].st = "new" /\ \A u \in Ids : v < u => vb[u].st = "new"
  BY <1>1, IdsNat
<1>3. vb[v] \in Vblank /\ Stage(vb[v], at[v])
  BY DEF Good, Fits, Records, TypeOK
<1>4. at[v] = "none" /\ vb[v].evpix = FALSE
  BY <1>2, <1>3 DEF Stage, Shown, Vblank
<1>5. a.sync # "fence"
  BY DEF Good, InTime
<1>6. TypeOK
  BY DEF Good
<1>7. /\ req' = [req EXCEPT ![v] = a] /\ pix' = [pix EXCEPT ![v] = IF a.kind = "notify" THEN NoId ELSE p]
      /\ \E s \in IF a.sync = "syncobj" THEN PointStates ELSE {"unsub"} : acq' = [acq EXCEPT ![v] = s]
  BY DEF Present
<1>8. \A u \in Ids : u # v => acq'[u] = acq[u]
  BY <1>6, <1>7 DEF TypeOK
<1>9. /\ req'[v] = a /\ \A u \in Ids : u # v => req'[u] = req[u]
      /\ pix'[v] = (IF a.kind = "notify" THEN NoId ELSE p) /\ \A u \in Ids : u # v => pix'[u] = pix[u]
  BY <1>6, <1>7 DEF TypeOK
<1>10. /\ UNCHANGED <<blocked_queue, flip_active, blocking_event, sync_callback, frame_timer, timer_armed>>
       /\ UNCHANGED <<release_cb, held, setup, entered_for_each>>
  BY DEF Present, timer
<1> QED
  BY <1>1, <1>2, <1>4, <1>5, <1>8, <1>9, <1>10 DEF Settled, NewRequest

LEMMA PresentBuffers ==
  ASSUME NEW at, Good(at), NEW v \in Ids, NEW a \in setup.attrs, NEW p \in Pixmaps, NEW ahead,
         Present(v, a, p, ahead), NEW at2, Moves(at, at2, v), Rank(at2[v]) = 3, Only(v), Fresh(vb'[v], a)
  PROVE  Buffers(at2)' /\ Arguments'
<1>1. InOrder(at) /\ Reused /\ Names /\ Shows /\ Arguments
  BY DEF Good, Fits, Buffers
<1>2. /\ vb[v].st = "new" /\ vb[v].evpix = FALSE
      /\ \A u \in Ids : v < u => vb[u].st = "new"
      /\ \A u \in Ids : Live(u) /\ pix[u] = p => Settled(u)
      /\ a.sync # "fence" /\ req'[v] = a /\ \A u \in Ids : u # v => req'[u] = req[u] /\ acq'[u] = acq[u]
      /\ pix'[v] = (IF a.kind = "notify" THEN NoId ELSE p) /\ \A u \in Ids : u # v => pix'[u] = pix[u]
      /\ UNCHANGED <<release_cb, held, setup>>
  <2>1. NewRequest(at, v, a, p)
    BY PresentKnows
  <2> QED
    BY <2>1 DEF NewRequest
<1>3. \A u \in Ids : u # v => vb'[u] = vb[u]
  BY DEF Only
<1>4. InOrder(at2)'
  <2> SUFFICES ASSUME NEW u \in Ids, NEW w \in Ids, pix'[u] = pix'[w],
                      Rank(at2[u]) < Rank(at2[w]), Rank(at2[w]) < 3
               PROVE  u < w
    BY DEF InOrder
  <2>1. \A q : Rank(q) \in {0, 1, 2, 3}
    BY DEF Rank
  <2>2. u # v /\ w # v
    BY <2>1
  <2> QED
    BY <2>2, <1>1, <1>2 DEF InOrder, Moves
<1>5. Reused'
  <2> SUFFICES ASSUME NEW u \in Ids, NEW w \in Ids, u < w, pix'[u] = pix'[w], Uses(u)', Uses(w)'
               PROVE  Settled(u)'
    BY DEF Reused
  <2>1. CASE u = v
    <3>1. w # v /\ v < w
      <4>1. u \in Nat /\ w \in Nat /\ u < w
        BY IdsNat
      <4> QED
        BY <2>1, <4>1
    <3> QED
      BY <3>1, <1>2, <1>3 DEF Uses, Live
  <2>2. CASE w = v
    <3>1. u # v
      BY <2>2, IdsNat
    <3>2. vb'[v].pixmap
      BY <2>2 DEF Uses
    <3>3. pix'[v] = p
      BY <3>2, <1>2 DEF Fresh
    <3>4. Live(u) /\ pix[u] = p
      BY <2>2, <3>1, <3>3, <1>2, <1>3 DEF Uses, Live
    <3> QED
      BY <3>1, <3>4, <1>2, <1>3 DEF Settled
  <2>3. CASE u # v /\ w # v
    BY <2>3, <1>1, <1>2, <1>3 DEF Reused, Uses, Live, Settled
  <2> QED
    BY <2>1, <2>2, <2>3
<1>6. Names'
  <2> SUFFICES ASSUME NEW q \in Pixmaps, NEW u \in Ids, release_cb'[q] = u
               PROVE  pix'[u] = q /\ vb'[u].evpix /\ ~vb'[u].handed
    BY DEF Names
  <2>1. pix[u] = q /\ vb[u].evpix /\ ~vb[u].handed
    BY <1>1, <1>2 DEF Names
  <2> QED
    BY <2>1, <1>2, <1>3
<1>7. Shows'
  <2> SUFFICES ASSUME NEW u \in Ids, vb'[u].evpix
               PROVE  /\ pix'[u] \in Pixmaps /\ (vb'[u].handed <=> Explicit(u)')
                      /\ ~vb'[u].handed => release_cb'[pix'[u]] = u /\ pix'[u] \in held'
    BY DEF Shows
  <2>1. u # v
    BY DEF Fresh
  <2>2. vb'[u] = vb[u] /\ pix'[u] = pix[u] /\ req'[u] = req[u] /\ setup' = setup
    BY <2>1, <1>2, <1>3
  <2> QED
    BY <2>2, <1>1, <1>2 DEF Shows, Explicit, HasSyncobj
<1>8. Arguments'
  <2> SUFFICES ASSUME NEW u \in Ids
               PROVE  /\ vb'[u].st # "new" => req'[u].sync # "fence"
                      /\ vb'[u].copied /\ HasSyncobj(u)' => acq'[u] = "sig"
    BY DEF Arguments
  <2>1. CASE u = v
    BY <2>1, <1>2 DEF Fresh
  <2>2. CASE u # v
    BY <2>2, <1>1, <1>2, <1>3 DEF Arguments, HasSyncobj
  <2> QED
    BY <2>1, <2>2
<1> QED
  BY <1>4, <1>5, <1>6, <1>7, <1>8 DEF Buffers

LEMMA PresentFits ==
  ASSUME NEW at, Good(at), TypeOK', NEW v \in Ids, NEW a \in setup.attrs, NEW p \in Pixmaps,
         NEW ahead \in 0 .. MaxAhead, Present(v, a, p, ahead)
  PROVE  \E at2 \in [Ids -> Places] : Fits(at2)'
<1> SUFFICES ASSUME NEW rec,
                    \/ QueueVblank(v, rec) /\ stack' = QueueResets
                    \/ /\ vb' = [vb EXCEPT ![v] = rec] /\ stack' = <<CallOn("execute", v, 0)>>
                       /\ rec.due <= 0 /\ UNCHANGED <<wait_list, flip_queue, idle_queue, hooked>>,
                    Fresh(rec, a), rec.flip => rec.queued /\ ~rec.copied
             PROVE  \E at2 \in [Ids -> Places] : Fits(at2)'
  <2> DEFINE flip == a.kind = "flip" /\ CheckFlip(can_flip)
             rec  == [Blank EXCEPT !.st = "live", !.due = ExecDue(a, ahead), !.queued = TRUE,
                                   !.flip = flip, !.sync_flip = flip /\ ahead > 0,
                                   !.pixmap = a.kind # "notify"]
  <2>1. \/ rec.due > 0 /\ QueueVblank(v, rec) /\ stack' = QueueResets
        \/ /\ ~(rec.due > 0) /\ vb' = [vb EXCEPT ![v] = rec] /\ stack' = <<CallOn("execute", v, 0)>>
           /\ UNCHANGED <<wait_list, flip_queue, idle_queue, hooked>>
    BY DEF Present
  <2>2. Fresh(rec, a) /\ rec.due = ExecDue(a, ahead)
    BY DEF Fresh, Blank
  <2>3. ExecDue(a, ahead) \in -1 .. MaxAhead
    BY ExecDueTyped
  <2>4. ~(rec.due > 0) => rec.due <= 0
    BY <2>2, <2>3, PresentAssumption
  <2> HIDE DEF rec
  <2>5. rec.flip => rec.queued /\ ~rec.copied
    BY <2>2 DEF Fresh
  <2> QED
    BY <2>1, <2>2, <2>4, <2>5
<1>1. /\ stack = <<>> /\ vb[v].st = "new" /\ at[v] = "none"
      /\ UNCHANGED <<blocked_queue, flip_active, blocking_event, sync_callback, frame_timer, timer_armed>>
  <2>1. NewRequest(at, v, a, p)
    BY PresentKnows
  <2> QED
    BY <2>1 DEF NewRequest
<1>2. TypeOK /\ OnLists(at) /\ Records(at)
  BY DEF Good, Fits
<1>3. vb' = [vb EXCEPT ![v] = rec]
  BY DEF QueueVblank
<1>4. Only(v) /\ vb'[v] = rec
  BY <1>2, <1>3, OneRecord
<1>5. blocking_event # v
  <2>1. blocking_event # NoId => Blocks(blocking_event, at)
    BY <1>1, AtRest
  <2> QED
    BY <2>1, <1>1, IdsNat DEF Blocks, Live
<1>6. CASE QueueVblank(v, rec) /\ stack' = QueueResets
  <2>1. PICK at2 \in [Ids -> Places] : Moves(at, at2, v) /\ at2[v] = "wait"
    <3>1. "wait" \in Places
      BY DEF Places
    <3> QED
      BY <3>1, Moving
  <2>2. Stage(vb'[v], at2[v]) /\ Rank(at2[v]) = 3
    BY <1>4, <2>1 DEF Stage, Shown, Owed, Fresh, Rank
  <2>3. OnLists(at2)'
    <3>1. blocked_queue' = IF at[v] = "blocked" THEN Without(blocked_queue, v) ELSE blocked_queue
      BY <1>1
    <3>2. at[v] \in {"none", "queue", "held", "blocked"} /\ flip_active' = flip_active
      BY <1>1
    <3> QED
      BY <3>1, <3>2, <2>1, <1>2, <1>6, ListsQueue
  <2>4. Buffers(at2)' /\ Arguments'
    BY <1>4, <2>1, <2>2, PresentBuffers
  <2>5. Records(at2)'
    BY <1>2, <1>4, <2>1, <2>2, RecordsMove
  <2>6. \A u \in Ids : at2[u] = "pending" => at[u] = "pending" /\ vb'[u].sync_flip = vb[u].sync_flip
    BY <1>4, <2>1 DEF Moves, Only
  <2>7. /\ Sound(stack') /\ (stack' # <<>> => Head(stack') \in Elements(stack'))
        /\ \A f \in Elements(stack') : f.fn = "reset_timer" /\ f.v = NoId
        /\ frame_timer = "set" \/ "reset_timer" \in Fns(stack')
    <3> DEFINE r == Call("reset_timer")
    <3>1. r \in Frame /\ r.fn = "reset_timer" /\ r.v = NoId
      BY CallTyped, CallFields DEF WindowFns
    <3>2. CASE frame_callback \/ frame_timer = "none"
      <4>1. stack' = <<r>>
        BY <1>6, <3>2 DEF QueueResets, If
      <4> HIDE DEF r
      <4>2. Sound(stack') /\ Elements(stack') = {r} /\ Fns(stack') = {r.fn} /\ Head(stack') = r
        BY <3>1, <4>1, OneCall
      <4> QED
        BY <3>1, <4>2
    <3>3. CASE ~(frame_callback \/ frame_timer = "none")
      <4>1. stack' = <<>>
        BY <1>6, <3>3 DEF QueueResets, If
      <4>2. Sound(stack') /\ Elements(stack') = {}
        BY <4>1, NoCalls
      <4>3. frame_timer = "set"
        BY <3>3, <1>1, <1>2, AtRest DEF TypeOK
      <4> QED
        BY <4>1, <4>2, <4>3
    <3> QED
      BY <3>2, <3>3
  <2>8. Timely'
    BY <1>1, <2>3, <2>5, <2>6, <2>7, LoopTimely
  <2>9. \A f \in Elements(stack') : f.fn \in Runner /\ f.v \in {NoId, v} /\ Knows(f, at2[f.v], vb'[f.v])
    BY <2>7 DEF Runner, Knows, RequestFns, Owners
  <2>10. LoopMove(at, at2, v)
    BY <1>1, <1>4, <1>5, <2>1, <2>2, <2>3, <2>4, <2>7, <2>8, <2>9 DEF LoopMove
  <2> QED
    BY <2>1, <2>10, LoopMoveFits
<1>7. CASE /\ vb' = [vb EXCEPT ![v] = rec] /\ stack' = <<CallOn("execute", v, 0)>>
           /\ rec.due <= 0 /\ UNCHANGED <<wait_list, flip_queue, idle_queue, hooked>>
  <2> SUFFICES ASSUME NEW f, f = CallOn("execute", v, 0)
               PROVE  \E at2 \in [Ids -> Places] : Fits(at2)'
    OBVIOUS
  <2>1. at \in [Ids -> Places] /\ Moves(at, at, v)
    BY DEF Good, Moves
  <2>2. Stage(vb'[v], at[v]) /\ Rank(at[v]) = 3
    BY <1>1, <1>4 DEF Stage, Shown, Owed, Fresh, Rank
  <2>3. OnLists(at)'
    <3>1. UNCHANGED <<lists, flip_active>>
      BY <1>1, <1>7 DEF lists
    <3> QED
      BY <3>1, <1>2, SameLists
  <2>4. Buffers(at)' /\ Arguments'
    BY <1>4, <2>1, <2>2, PresentBuffers
  <2>5. Records(at)'
    BY <1>2, <1>4, <2>1, <2>2, RecordsMove
  <2>6. \A u \in Ids : at[u] = "pending" => at[u] = "pending" /\ vb'[u].sync_flip = vb[u].sync_flip
    BY <1>1, <1>4 DEF Only
  <2>7. f \in Frame /\ f.fn = "execute" /\ f.v = v /\ f.lag = 0
    BY CallTyped, CallFields DEF RequestFns
  <2>8. Elements(stack') = {f} /\ Sound(stack') /\ Head(stack') = f
    BY <1>7, <2>7, OneCall
  <2>9. Timely'
    BY <1>1, <1>7, <2>3, <2>5, <2>6, LoopTimely
  <2>10. Knows(f, at[f.v], vb'[f.v]) /\ Attends(f, v, at[v])
    BY <1>1, <1>4, <1>7, <2>7 DEF Knows, Owners, Attends, Fresh
  <2>11. LoopMove(at, at, v)
    BY <1>1, <1>4, <1>5, <2>1, <2>2, <2>3, <2>4, <2>7, <2>8, <2>9, <2>10 DEF LoopMove, Runner
  <2> QED
    BY <2>1, <2>11, LoopMoveFits
<1> QED
  BY <1>6, <1>7

-----------------------------------------------------------------------------
(***************************************************************************)
(* The invariant, of every behaviour that starts in time.                  *)
(***************************************************************************)
LEMMA InitFits == ASSUME Init PROVE \E at \in [Ids -> Places] : Fits(at)
<1> SUFFICES ASSUME NEW at, at = [v \in Ids |-> "none"]
             PROVE  Fits(at) /\ at \in [Ids -> Places]
  OBVIOUS
<1>1. at \in [Ids -> Places] /\ \A v \in Ids : at[v] = "none"
  BY DEF Places
<1>2. /\ wait_list = <<>> /\ flip_queue = <<>> /\ idle_queue = <<>> /\ blocked_queue = <<>>
      /\ flip_active = NoId /\ blocking_event = NoId /\ sync_callback = NoId
      /\ frame_timer = "none" /\ timer_armed = "off" /\ stack = <<>>
      /\ \A p \in Pixmaps : release_cb[p] = NoId
  BY DEF Init
<1>3. \A v \in Ids : /\ vb[v].st = "new" /\ vb[v].done = 0 /\ vb[v].idled = 0
                     /\ vb[v].evpix = FALSE /\ vb[v].efd = "none" /\ vb[v].copied = FALSE
  BY DEF Init, Blank
<1>4. OnLists(at)
  BY <1>1, <1>2, HasNone, IdsNat DEF OnLists, Is, OnePending
<1>5. Records(at)
  BY <1>1, <1>3 DEF Records, Stage, Shown
<1>6. Buffers(at)
  BY <1>1, <1>2, <1>3, IdsNat DEF Buffers, InOrder, Rank, Reused, Uses, Live, Names, Shows
<1>7. Elements(stack) = {} /\ Fns(stack) = {} /\ Sound(stack)
  BY <1>2, NoCalls
<1>8. \A fn : ~Running(fn)
  BY <1>2 DEF Running
<1>9. Calls(at) /\ Relies(at)
  BY <1>7, <1>8 DEF Calls, Relies, StopsAlone, FlushesSettled, Flushing, MayPresent, Entered, Acquired
<1>10. Attended(at) /\ Blocker(at) /\ Callbacks(at)
  BY <1>1, <1>2, <1>3 DEF Attended, Blocker, Callbacks, Live
<1>11. Timely
  BY <1>2 DEF Timely, SyncFlipPending, PendingFlip
<1>12. Arguments
  BY <1>3 DEF Arguments
<1> QED
  BY <1>1, <1>4, <1>5, <1>6, <1>9, <1>10, <1>11, <1>12 DEF Fits

LEMMA ReturnsStay == ASSUME Returns PROVE setup' = setup
<1>1. ASSUME NEW v \in Ids, \/ RetryWait(v) \/ RetryQueueFlip(v) \/ RetryFlip(v)
                            \/ RetryFlipFails(v) \/ RetryCopy(v) \/ RetryPost(v)
      PROVE  setup' = setup
  BY <1>1 DEF RetryWait, RetryQueueFlip, RetryFlip, RetryFlipFails, RetryCopy, RetryPost, world
<1>2. CASE \/ ResetTimer \/ MscBump \/ BumpStart \/ BumpLoop \/ FlipNotify
           \/ FlipsStop \/ FlipsStopFree \/ FlipTryReady \/ Execute
  BY <1>2 DEF ResetTimer, MscBump, BumpStart, BumpLoop, FlipNotify, FlipsStop, FlipsStopFree,
              FlipTryReady, Execute, world
<1>3. CASE ReExecute \/ Copy \/ FlushLoop
  BY <1>3 DEF ReExecute, Copy, FlushLoop, world
<1>4. CASE \/ Block \/ AppendFlip \/ FlipDone \/ FlushBlocked
           \/ DropFlips \/ LeaveForEach \/ FrameDone \/ Trigger
  BY <1>4 DEF Block, AppendFlip, FlipDone, FlushBlocked, DropFlips, LeaveForEach, FrameDone,
              Trigger, world
<1> QED
  BY <1>1, <1>2, <1>3, <1>4 DEF Returns

LEMMA DispatchStays == ASSUME Dispatch PROVE setup' = setup
<1>1. ASSUME NEW v, NEW a, NEW p, NEW ahead, Present(v, a, p, ahead) PROVE setup' = setup
  BY <1>1 DEF Present
<1>2. CASE FrameCallback \/ TimerCallback \/ SyncCallback
  BY <1>2 DEF FrameCallback, TimerCallback, SyncCallback, world
<1>3. ASSUME NEW v \in Ids, AcquireFenceAvail(v) \/ TriggerFence(v) PROVE setup' = setup
  BY <1>3 DEF AcquireFenceAvail, TriggerFence, world
<1>4. ASSUME NEW p \in Pixmaps, BufferRelease(p) PROVE setup' = setup
  BY <1>4 DEF BufferRelease
<1>5. CASE CheckFlipWindow \/ CreateFrameCallback \/ Unrealize \/ Cleanup
  BY <1>5 DEF CheckFlipWindow, CreateFrameCallback, Unrealize, Cleanup, world
<1>6. ASSUME NEW w \in {"ok", "held"}, WindowCommits(w) PROVE setup' = setup
  BY <1>6 DEF WindowCommits
<1> QED
  BY <1>1, <1>2, <1>3, <1>4, <1>5, <1>6 DEF Dispatch

LEMMA ReturnsFits ==
  ASSUME NEW at, Good(at), TypeOK', Returns
  PROVE  \E at2 \in [Ids -> Places] : Fits(at2)'
<1>1. at \in [Ids -> Places]
  BY DEF Good
<1>2. ASSUME NEW v \in Ids, RetryWait(v) \/ RetryQueueFlip(v) \/ RetryFlip(v) \/ RetryPost(v)
      PROVE  \E at2 \in [Ids -> Places] : Fits(at2)'
  BY <1>2, RetryWaitFits, RetryQueueFlipFits, RetryFlipFits, RetryPostFits
<1>3. ASSUME NEW v \in Ids, RetryFlipFails(v) \/ RetryCopy(v) PROVE Fits(at)'
  BY <1>3, RetryFlipFailsFits, RetryCopyFits
<1>4. CASE \/ FlipNotify \/ FlipsStopFree \/ ReExecute \/ Execute
           \/ AppendFlip \/ FlipDone \/ Copy \/ FlushLoop
  BY <1>4, FlipNotifyFits, FlipsStopFreeFits, ReExecuteFits, ExecuteFits, AppendFlipFits,
     FlipDoneFits, CopyFits, FlushLoopFits
<1>5. CASE \/ ResetTimer \/ MscBump \/ BumpStart \/ BumpLoop \/ FlipsStop \/ FlipTryReady
           \/ Block \/ FlushBlocked \/ DropFlips \/ LeaveForEach \/ FrameDone
  <2>1. Fits(at)'
    BY <1>5, ResetTimerFits, MscBumpFits, BumpStartFits, BumpLoopFits, FlipsStopFits,
       FlipTryReadyFits, BlockFits, FlushBlockedFits, DropFlipsFits, LeaveForEachFits, FrameDoneFits
  <2> QED
    BY <2>1, <1>1
<1>6. ~Trigger
  BY TriggerFits
<1> QED
  BY <1>1, <1>2, <1>3, <1>4, <1>5, <1>6 DEF Returns

\* Nobody waits for a wait fence.
LEMMA NoFences ==
  ASSUME NEW at, Good(at), NEW v \in Ids, TriggerFence(v)
  PROVE  FALSE
<1>1. Live(v) /\ req[v].sync = "fence"
  BY DEF TriggerFence
<1>2. Arguments
  BY DEF Good, Fits
<1> QED
  BY <1>1, <1>2 DEF Arguments, Live

LEMMA DispatchFits ==
  ASSUME NEW at, Good(at), TypeOK', Dispatch
  PROVE  \E at2 \in [Ids -> Places] : Fits(at2)'
<1>1. at \in [Ids -> Places] /\ TypeOK
  BY DEF Good
<1>2. ASSUME NEW v \in 1 .. setup.requests, NEW a \in setup.attrs, NEW p \in Pixmaps,
             NEW ahead \in 0 .. setup.ahead, Present(v, a, p, ahead)
      PROVE  \E at2 \in [Ids -> Places] : Fits(at2)'
  <2>1. setup \in SetupType
    BY <1>1, PresentAssumption DEF TypeOK
  <2>2. v \in Ids /\ ahead \in 0 .. MaxAhead
    BY <2>1, PresentAssumption DEF SetupType, Ids
  <2> QED
    BY <1>2, <2>2, PresentFits
<1>3. CASE FrameCallback \/ TimerCallback \/ SyncCallback
  BY <1>1, <1>3, FrameCallbackFits, TimerCallbackFits, SyncCallbackFits
<1>4. ASSUME NEW v \in Ids, AcquireFenceAvail(v) \/ TriggerFence(v)
      PROVE  \E at2 \in [Ids -> Places] : Fits(at2)'
  BY <1>4, AcquireFenceAvailFits, NoFences
<1>5. ASSUME NEW p \in Pixmaps, BufferRelease(p) PROVE \E at2 \in [Ids -> Places] : Fits(at2)'
  BY <1>5, BufferReleaseFits
<1>6. CASE CheckFlipWindow \/ CreateFrameCallback \/ Unrealize
  BY <1>1, <1>6, CheckFlipWindowFits, WindowFits
<1>7. CASE Cleanup
  BY <1>7, CleanupFits
<1>8. ASSUME NEW w \in {"ok", "held"}, WindowCommits(w) PROVE Fits(at)'
  BY <1>8, WindowCommitsFits
<1> QED
  BY <1>1, <1>2, <1>3, <1>4, <1>5, <1>6, <1>7, <1>8 DEF Dispatch

LEMMA EnvironmentFits ==
  ASSUME NEW at, Good(at), Environment
  PROVE  Fits(at)' /\ setup' = setup
<1>1. ~TimePasses
  BY DEF TimePasses, Good, InTime
<1>2. PICK v \in Ids : AcquireProgress(v)
  BY <1>1 DEF Environment
<1> QED
  BY <1>2, AcquireProgressFits DEF AcquireProgress

LEMMA StutterFits == ASSUME NEW at, Fits(at), UNCHANGED vars PROVE Fits(at)'
<1>1. /\ UNCHANGED <<vb, req, pix, acq, wait_list, flip_queue, idle_queue, blocked_queue>>
      /\ UNCHANGED <<flip_active, blocking_event, sync_callback, entered_for_each, frame_timer>>
      /\ UNCHANGED <<timer_armed, release_cb, held, setup, stack>>
  BY DEF vars, lists, timer, links, world
<1>2. OnLists(at)' /\ Records(at)'
  BY <1>1 DEF Fits, OnLists, Records
<1>3. Buffers(at)' /\ Arguments'
  BY <1>1 DEF Fits, Buffers, InOrder, Reused, Uses, Live, Settled, Names, Shows, Explicit, HasSyncobj,
              Arguments
<1>4. Top' = Top /\ \A fn : Running(fn)' <=> Running(fn)
  BY <1>1 DEF Top, Running
<1>5. Calls(at)' /\ Attended(at)'
  BY <1>1 DEF Fits, Calls, Attended, Live
<1>6. Relies(at)'
  <2>1. StopsAlone(at)' /\ FlushesSettled(at)' /\ Entered' /\ Acquired'
    BY <1>1 DEF Fits, Relies, StopsAlone, FlushesSettled, Entered, Acquired, HasSyncobj
  <2>2. Flushing(at)' /\ MayPresent'
    BY <1>1, <1>4 DEF Fits, Relies, Flushing, MayPresent, Presents
  <2> QED
    BY <2>1, <2>2 DEF Relies
<1>7. Blocker(at)'
  BY <1>1 DEF Fits, Blocker, Blocks, Live
<1>8. Timely'
  BY <1>1 DEF Fits, Timely, SyncFlipPending, PendingFlip
<1>9. Callbacks(at)'
  BY <1>1, <1>4 DEF Fits, Callbacks
<1> QED
  BY <1>2, <1>3, <1>5, <1>6, <1>7, <1>8, <1>9 DEF Fits

LEMMA StartsPlaced == ASSUME Init, InTime PROVE Placed
  BY InitTyped, InitFits DEF Placed, IInv

LEMMA StaysPlaced == ASSUME Placed, [Next]_vars PROVE Placed'
<1>1. IInv'
  BY ReturnsTyped, DispatchTyped, EnvironmentKeeps, StutterTyped DEF Next, Placed, IInv
<1>2. PICK at \in [Ids -> Places] : Fits(at)
  BY DEF Placed
<1>3. Good(at)
  BY <1>2 DEF Placed, Good
<1>4. setup' = setup
  BY <1>3, ReturnsStay, DispatchStays, EnvironmentFits DEF Next, vars, world
<1>5. InTime'
  BY <1>4 DEF Placed, InTime
<1>6. \E at2 \in [Ids -> Places] : Fits(at2)'
  BY <1>1, <1>2, <1>3, ReturnsFits, DispatchFits, EnvironmentFits, StutterFits DEF Next, IInv
<1> QED
  BY <1>1, <1>5, <1>6 DEF Placed, IInv

THEOREM RequestsPlaced == Spec /\ InTime => []Placed
<1>1. Init /\ InTime => Placed
  BY StartsPlaced
<1>2. Placed /\ [Next]_vars => Placed'
  BY StaysPlaced
<1> QED
  BY <1>1, <1>2, PTL DEF Spec

-----------------------------------------------------------------------------
(***************************************************************************)
(* What the places say of the properties of XwlPresent.                    *)
(***************************************************************************)
LEMMA ListedIs ==
  ASSUME NEW list \in Seq(Ids), NEW at, NEW where, Is(list, at, where), NEW v
  PROVE  v \in Elements(list) <=> v \in Ids /\ at[v] \in where
<1>1. v \in Elements(list) <=> Has(list, v)
  BY DEF Elements, Has
<1> QED
  BY <1>1, HasIn DEF Is

LEMMA PlacesLive == ASSUME NEW at, Good(at) PROVE \A v \in Ids : at[v] # "none" => Live(v)
  BY DEF Good, Fits, Records, Stage, Live

LEMMA LinkedPlaces ==
  ASSUME NEW at, Good(at), NEW v
  PROVE  /\ v \in Linked <=> v \in Ids /\ at[v] \in {"wait", "queue", "pending", "idle", "blocked"}
         /\ v \in Elements(idle_queue) <=> v \in Ids /\ at[v] = "idle"
<1>1. /\ wait_list \in Seq(Ids) /\ Is(wait_list, at, {"wait"})
      /\ flip_queue \in Seq(Ids) /\ Is(flip_queue, at, {"queue", "pending"})
      /\ idle_queue \in Seq(Ids) /\ Is(idle_queue, at, {"idle"})
      /\ blocked_queue \in Seq(Ids) /\ Is(blocked_queue, at, {"blocked"})
  BY DEF Good, TypeOK, Fits, OnLists
<1>2. v \in Elements(wait_list) <=> v \in Ids /\ at[v] \in {"wait"}
  BY <1>1, ListedIs
<1>3. v \in Elements(flip_queue) <=> v \in Ids /\ at[v] \in {"queue", "pending"}
  BY <1>1, ListedIs
<1>4. v \in Elements(idle_queue) <=> v \in Ids /\ at[v] \in {"idle"}
  BY <1>1, ListedIs
<1>5. v \in Elements(blocked_queue) <=> v \in Ids /\ at[v] \in {"blocked"}
  BY <1>1, ListedIs
<1> QED
  BY <1>2, <1>3, <1>4, <1>5 DEF Linked

LEMMA PlacedDangles == ASSUME NEW at, Good(at) PROVE NoDangling
<1>1. \A v \in Ids : at[v] # "none" => Live(v)
  BY PlacesLive
<1>2. /\ OnLists(at) /\ Buffers(at) /\ Callbacks(at) /\ TypeOK
      /\ flip_active \in Ids \cup {NoId} /\ sync_callback \in Ids \cup {NoId}
      /\ release_cb \in [Pixmaps -> Ids \cup {NoId}]
  BY DEF Good, Fits, TypeOK
<1>3. \A v \in Linked \cup ({flip_active, sync_callback} \ {NoId}) : Live(v)
  <2>1. ASSUME NEW v \in Linked PROVE Live(v)
    BY <2>1, <1>1, LinkedPlaces
  <2>2. flip_active # NoId => Live(flip_active)
    BY <1>1, <1>2 DEF OnLists
  <2>3. sync_callback # NoId => Live(sync_callback)
    BY <1>1, <1>2 DEF Callbacks
  <2> QED
    BY <2>1, <2>2, <2>3
<1>4. ASSUME NEW p \in Pixmaps, release_cb[p] # NoId PROVE Live(release_cb[p])
  <2>1. release_cb[p] \in Ids
    BY <1>2, <1>4
  <2>2. vb[release_cb[p]].evpix
    BY <1>2, <2>1 DEF Buffers, Names
  <2> QED
    BY <2>1, <2>2, ShownUnsettled DEF Uses
<1>5. ASSUME NEW i \in DOMAIN stack, stack[i].v # NoId, stack[i].fn # "trigger"
      PROVE  Live(stack[i].v)
  <2>1. stack \in Seq(Frame) /\ Calls(at)
    BY DEF Good, Fits, TypeOK
  <2>2. stack[i] \in Elements(stack) /\ stack[i] \in Frame
    BY <2>1, ElementsOf DEF Elements
  <2>3. stack[i].fn \in RequestFns
    BY <1>5, <2>2 DEF Frame
  <2>4. Knows(stack[i], at[stack[i].v], vb[stack[i].v])
    BY <2>1, <2>2 DEF Calls
  <2> QED
    BY <2>3, <2>4 DEF Knows, Live
<1>6. (Running("bump_loop") => Has(wait_list, Top.v)) /\ (Running("flush_loop") => Has(blocked_queue, Top.v))
  <2> SUFFICES ASSUME stack # <<>>, Top.fn \in {"bump_loop", "flush_loop"}
               PROVE  /\ Top.fn = "bump_loop" => Has(wait_list, Top.v)
                      /\ Top.fn = "flush_loop" => Has(blocked_queue, Top.v)
    BY DEF Running
  <2>1. Top.v \in Ids /\ Knows(Top, at[Top.v], vb[Top.v])
    BY Runs DEF RequestFns
  <2> QED
    BY <1>2, <2>1 DEF Knows, OnLists, Is
<1> QED
  BY <1>3, <1>4, <1>5, <1>6 DEF NoDangling

LEMMA PlacedAsserts == ASSUME NEW at, Good(at) PROVE AssertionsHold
<1>1. NotifyIsHead
  <2> SUFFICES ASSUME stack # <<>>, Top.fn = "flip_notify" PROVE First(flip_queue) = Top.v
    BY DEF NotifyIsHead, Running
  <2>1. Top.v \in Ids /\ Knows(Top, at[Top.v], vb[Top.v])
    BY Runs DEF RequestFns
  <2> QED
    BY <2>1 DEF Knows, Good, Fits, OnLists
<1>2. CopyNotQueued
  <2> SUFFICES ASSUME stack # <<>>, Top.fn = "copy"
               PROVE  ~vb[Top.v].queued /\ ~Requeues(Top.v, Top.lag)
    BY DEF CopyNotQueued, Running
  <2>1. Top.v \in Ids /\ Knows(Top, at[Top.v], vb[Top.v])
    BY Runs DEF RequestFns
  <2>2. ~vb[Top.v].queued /\ vb[Top.v].due <= 0 /\ Top.lag = 0
    BY <2>1 DEF Knows, RequestFns
  <2>3. vb[Top.v].due \in Int
    BY <2>1, PresentAssumption DEF Good, TypeOK, Vblank
  <2> QED
    BY <2>2, <2>3 DEF Requeues, Ahead
<1>3. OneForEach
  <2>1. ASSUME NEW i \in DOMAIN stack, NEW j \in DOMAIN stack, i < j,
               stack[i].fn = "leave_for_each", stack[j].fn = "leave_for_each"
        PROVE  FALSE
    <3>1. stack \in Seq(Frame) /\ DOMAIN stack = 1 .. Len(stack) /\ Len(stack) \in Nat
      BY LenProperties DEF Good, TypeOK
    <3>2. stack # <<>>
      BY <3>1, EmptySeq
    <3>3. /\ Rest \in Seq(Frame) /\ Top = stack[1] /\ Len(Rest) = Len(stack) - 1
          /\ \A k \in 1 .. Len(Rest) : Rest[k] = stack[k + 1]
          /\ Nested(Rest) /\ OnTop(Top, Rest)
      BY <3>1, <3>2, Innermost, Runs DEF Rest, Top
    <3>4. j - 1 \in 1 .. Len(Rest) /\ Rest[j - 1] = stack[j]
      BY <3>1, <3>3, <2>1
    <3>5. DOMAIN Rest = 1 .. Len(Rest)
      BY <3>3, LenProperties
    <3>6. CASE i = 1
      <4>1. Rest[j - 1] \in Elements(Rest)
        BY <3>4, <3>5 DEF Elements
      <4>2. Stacked(stack[1], stack[j])
        BY <4>1, <3>3, <3>4 DEF OnTop
      <4> QED
        BY <4>2, <3>6, <2>1 DEF Stacked
    <3>7. CASE i # 1
      <4>1. i - 1 \in 1 .. Len(Rest) /\ Rest[i - 1] = stack[i] /\ i - 1 < j - 1
        BY <3>1, <3>3, <2>1, <3>7
      <4>2. Stacked(Rest[i - 1], Rest[j - 1])
        BY <4>1, <3>3, <3>4, <3>5 DEF Nested
      <4> QED
        BY <4>1, <4>2, <3>4, <2>1 DEF Stacked
    <3> QED
      BY <3>6, <3>7
  <2>2. \A i, j \in DOMAIN stack : i \in Int /\ j \in Int
    BY LenProperties DEF Good, TypeOK
  <2>3. \A i, j \in DOMAIN stack : i < j \/ j < i \/ i = j
    BY <2>2
  <2> QED
    BY <2>1, <2>3 DEF OneForEach
<1> QED
  BY <1>1, <1>2, <1>3 DEF AssertionsHold

LEMMA PlacedTurns == ASSUME NEW at, Good(at) PROVE FlipsInTurn
<1>1. OneFlipPending
  <2> SUFFICES ASSUME NEW i \in DOMAIN flip_queue, i > 1, ~vb[flip_queue[i]].queued PROVE FALSE
    BY DEF OneFlipPending
  <2>1. flip_queue \in Seq(Ids) /\ Is(flip_queue, at, {"queue", "pending"}) /\ Records(at)
    BY DEF Good, Fits, OnLists, TypeOK
  <2>2. Has(flip_queue, flip_queue[i])
    BY DEF Has
  <2>3. flip_queue[i] \in Ids /\ at[flip_queue[i]] \in {"queue", "pending"} /\ flip_queue # <<>>
    BY <2>1, <2>2, HasIn DEF Is
  <2>4. at[flip_queue[i]] = "pending"
    BY <2>1, <2>3 DEF Records, Stage
  <2>5. flip_queue[1] = flip_queue[i]
    BY <2>3, <2>4 DEF Good, Fits, OnLists, First
  <2>6. 1 \in DOMAIN flip_queue
    BY <2>1, <2>3, FirstTyped, LenProperties
  <2>7. i = 1
    BY <2>1, <2>5, <2>6 DEF Is, Once
  <2> QED
    BY <2>7
<1>2. ASSUME stack = <<>> PROVE SyncCallbackIsPending
  <2>1. /\ sync_callback # NoId =>
              sync_callback \in Ids /\ at[sync_callback] = "pending" /\ ~vb[sync_callback].sync_flip
        /\ \A u \in Ids : at[u] = "pending" /\ ~vb[u].sync_flip => sync_callback = u
    BY <1>2, AtRest
  <2>2. /\ \A v \in Ids : at[v] = "pending" <=> PendingFlip = v
        /\ PendingFlip \in Ids \cup {NoId}
    BY PendingIs DEF Good, Fits
  <2> QED
    BY <2>1, <2>2 DEF SyncCallbackIsPending
<1> QED
  BY <1>1, <1>2 DEF FlipsInTurn

LEMMA PlacedReports == ASSUME NEW at, Good(at) PROVE ReportedOnce
  BY DEF Good, Fits, Records, Stage, ReportedOnce

LEMMA PlacedAwaits == ASSUME NEW at, Good(at) PROVE IdleAwaitsRelease
<1>1. flip_active \in Ids \cup {NoId} /\ Shows
  BY DEF Good, Fits, TypeOK, Buffers
<1>2. \A v \in Elements(idle_queue) : v \in Ids
  BY LinkedPlaces
<1>3. \A v \in Elements(idle_queue) \cup ({flip_active} \ {NoId}) : v \in Ids
  BY <1>1, <1>2
<1> QED
  BY <1>1, <1>3 DEF IdleAwaitsRelease, Shows

\* A list that names nobody twice is as long as the set of those it names.
LEMMA OnceCounts ==
  ASSUME NEW list \in Seq(Ids), Once(list)
  PROVE  IsFiniteSet(Elements(list)) /\ Cardinality(Elements(list)) = Len(list) /\ Len(list) \in Nat
<1>1. DOMAIN list = 1 .. Len(list) /\ Len(list) \in Nat
  BY LenProperties
<1>2. list \in [1 .. Len(list) -> Elements(list)]
  <2>1. list = [i \in 1 .. Len(list) |-> list[i]]
    BY LenProperties
  <2> QED
    BY <1>1, <2>1 DEF Elements
<1>3. list \in Bijection(1 .. Len(list), Elements(list))
  <2>1. list \in Injection(1 .. Len(list), Elements(list))
    BY <1>1, <1>2, Fun_IsInj DEF Once
  <2>2. list \in Surjection(1 .. Len(list), Elements(list))
    BY <1>1, <1>2, Fun_IsSurj DEF Elements
  <2> QED
    BY <2>1, <2>2 DEF Bijection
<1>4. ExistsBijection(1 .. Len(list), Elements(list))
  BY <1>3 DEF ExistsBijection
<1>5. Cardinality(Elements(list)) = Len(list)
  BY <1>1, <1>4, FS_CountingElements
<1>6. IsFiniteSet(Elements(list))
  BY <1>1, <1>4, FS_NatBijection
<1> QED
  BY <1>1, <1>5, <1>6

LEMMA DisjointCount ==
  ASSUME NEW S, NEW T, IsFiniteSet(S), IsFiniteSet(T), S \cap T = {}
  PROVE  /\ IsFiniteSet(S \cup T) /\ Cardinality(S) \in Nat /\ Cardinality(T) \in Nat
         /\ Cardinality(S \cup T) = Cardinality(S) + Cardinality(T)
<1>1. Cardinality(S) \in Nat /\ Cardinality(T) \in Nat
  BY FS_CardinalityType
<1>2. /\ IsFiniteSet(S \cup T)
      /\ Cardinality(S \cup T) = Cardinality(S) + Cardinality(T) - Cardinality(S \cap T)
  BY FS_Union
<1>3. Cardinality(S \cap T) = 0
  BY FS_EmptySet
<1> QED
  BY <1>1, <1>2, <1>3

LEMMA PlacedLinkedOnce == ASSUME NEW at, Good(at) PROVE LinkedOnce
<1>1. /\ wait_list \in Seq(Ids) /\ Is(wait_list, at, {"wait"})
      /\ flip_queue \in Seq(Ids) /\ Is(flip_queue, at, {"queue", "pending"})
      /\ idle_queue \in Seq(Ids) /\ Is(idle_queue, at, {"idle"})
      /\ blocked_queue \in Seq(Ids) /\ Is(blocked_queue, at, {"blocked"})
  BY DEF Good, TypeOK, Fits, OnLists
<1> DEFINE W == Elements(wait_list)
           F == Elements(flip_queue)
           I == Elements(idle_queue)
           B == Elements(blocked_queue)
<1>2. /\ IsFiniteSet(W) /\ Cardinality(W) = Len(wait_list)
      /\ IsFiniteSet(F) /\ Cardinality(F) = Len(flip_queue)
      /\ IsFiniteSet(I) /\ Cardinality(I) = Len(idle_queue)
      /\ IsFiniteSet(B) /\ Cardinality(B) = Len(blocked_queue)
  BY <1>1, OnceCounts DEF Is
<1>3. \A v : /\ v \in W <=> v \in Ids /\ at[v] \in {"wait"}
             /\ v \in F <=> v \in Ids /\ at[v] \in {"queue", "pending"}
             /\ v \in I <=> v \in Ids /\ at[v] \in {"idle"}
             /\ v \in B <=> v \in Ids /\ at[v] \in {"blocked"}
  <2> SUFFICES ASSUME NEW v
               PROVE  /\ v \in W <=> v \in Ids /\ at[v] \in {"wait"}
                      /\ v \in F <=> v \in Ids /\ at[v] \in {"queue", "pending"}
                      /\ v \in I <=> v \in Ids /\ at[v] \in {"idle"}
                      /\ v \in B <=> v \in Ids /\ at[v] \in {"blocked"}
    OBVIOUS
  <2>1. v \in W <=> v \in Ids /\ at[v] \in {"wait"}
    BY <1>1, ListedIs
  <2>2. v \in F <=> v \in Ids /\ at[v] \in {"queue", "pending"}
    BY <1>1, ListedIs
  <2>3. v \in I <=> v \in Ids /\ at[v] \in {"idle"}
    BY <1>1, ListedIs
  <2>4. v \in B <=> v \in Ids /\ at[v] \in {"blocked"}
    BY <1>1, ListedIs
  <2> QED
    BY <2>1, <2>2, <2>3, <2>4
<1>4. flip_active \in Ids \cup {NoId} /\ \A v \in Ids : v = flip_active <=> at[v] = "active"
  BY DEF Good, TypeOK, Fits, OnLists
<1>5. Linked = ((W \cup F) \cup I) \cup B
  BY DEF Linked
<1> HIDE DEF W, F, I, B
<1>6. W \cap F = {} /\ (W \cup F) \cap I = {} /\ ((W \cup F) \cup I) \cap B = {}
  BY <1>3
<1>7. /\ IsFiniteSet(W \cup F) /\ Cardinality(W) \in Nat /\ Cardinality(F) \in Nat
      /\ Cardinality(W \cup F) = Cardinality(W) + Cardinality(F)
  BY <1>2, <1>6, DisjointCount
<1>8. /\ IsFiniteSet((W \cup F) \cup I) /\ Cardinality(I) \in Nat
      /\ Cardinality((W \cup F) \cup I) = Cardinality(W \cup F) + Cardinality(I)
  BY <1>2, <1>6, <1>7, DisjointCount
<1>9. Cardinality(((W \cup F) \cup I) \cup B) = Cardinality((W \cup F) \cup I) + Cardinality(B)
  BY <1>2, <1>6, <1>8, DisjointCount
<1>10. Cardinality(Linked) = Len(wait_list) + Len(flip_queue) + Len(idle_queue) + Len(blocked_queue)
  BY <1>2, <1>5, <1>7, <1>8, <1>9
<1>11. flip_active \notin Linked
  BY <1>3, <1>4, <1>5, IdsNat
<1> QED
  BY <1>10, <1>11 DEF LinkedOnce

LEMMA PlacedAccounts == ASSUME NEW at, Good(at) PROVE AccountedFor
<1>1. /\ \A v \in Ids : at[v] # "none" => Live(v)
      /\ OnLists(at) /\ Records(at) /\ at \in [Ids -> Places]
  BY PlacesLive DEF Good, Fits
<1>2. TimerSet
  BY AtRest DEF TimerSet, AtEventLoop
<1>3. ASSUME stack = <<>> PROVE NoOrphan
  <2> SUFFICES ASSUME NEW v \in Ids, Live(v)
               PROVE  v \in Linked \cup {flip_active} \/ WaitsForFence(v)
    BY DEF NoOrphan
  <2>1. at[v] \notin {"none", "held", "flipping"} /\ at[v] \in Places
    BY <1>1, <1>3, AtRest DEF Live
  <2>2. CASE at[v] = "active"
    BY <1>1, <2>2 DEF OnLists
  <2>3. CASE at[v] = "fence"
    BY <1>1, <2>3 DEF Records, Stage, WaitsForFence
  <2>4. CASE at[v] \notin {"active", "fence"}
    <3>1. at[v] \in {"wait", "queue", "pending", "idle", "blocked"}
      BY <2>1, <2>4 DEF Places
    <3> QED
      BY <3>1, LinkedPlaces
  <2> QED
    BY <2>2, <2>3, <2>4
<1>4. ASSUME stack = <<>> PROVE BlockerSettles
  <2> SUFFICES ASSUME blocking_event # NoId \/ blocked_queue # <<>>
               PROVE  \/ BlockerWaits
                      \/ Has(flip_queue, blocking_event) /\ vb[blocking_event].queued
                      \/ Has(wait_list, blocking_event)
    BY DEF BlockerSettles
  <2>1. blocking_event # NoId /\ blocking_event \in Ids /\ Blocks(blocking_event, at)
    BY <1>4, AtRest
  <2>2. Live(blocking_event) /\ at[blocking_event] \in {"fence", "queue", "wait"}
    <3>1. /\ Live(blocking_event)
          /\ at[blocking_event] \in {"fence", "queue", "wait", "none", "held", "flipping"}
      BY <2>1 DEF Blocks
    <3>2. at[blocking_event] \notin {"none", "held", "flipping"}
      BY <1>4, <2>1, <3>1, AtRest DEF Live
    <3> QED
      BY <3>1, <3>2
  <2>3. CASE at[blocking_event] = "fence"
    BY <1>1, <2>1, <2>2, <2>3 DEF Records, Stage, WaitsForFence, BlockerWaits
  <2>4. CASE at[blocking_event] = "queue"
    BY <1>1, <2>1, <2>4 DEF Records, Stage, OnLists, Is
  <2>5. CASE at[blocking_event] = "wait"
    BY <1>1, <2>1, <2>5 DEF OnLists, Is
  <2> QED
    BY <2>2, <2>3, <2>4, <2>5
<1> QED
  BY <1>2, <1>3, <1>4, PlacedLinkedOnce DEF AccountedFor

-----------------------------------------------------------------------------
(***************************************************************************)
(* What holds of every behaviour that starts in time.                      *)
(***************************************************************************)
\* No freed vblank is reached again: not from a list, the screen, a sync callback or
\* a release callback, and not by a call that was in progress when it was freed.  The
\* walks of wait_list and blocked_queue find the node they saved still on the list.
THEOREM NothingDangles == Spec /\ InTime => []NoDangling
<1>1. Placed => NoDangling
  BY PlacedDangles DEF Placed, Good
<1> QED
  BY <1>1, RequestsPlaced, PTL

\* What xwayland-present.c asserts: a flip that completes is the head of flip_queue,
\* a copied request is off the queue and stays off it, and the walk of the frame
\* callbacks is never entered twice.
THEOREM AssertionsKept == Spec /\ InTime => []AssertionsHold
<1>1. Placed => AssertionsHold
  BY PlacedAsserts DEF Placed, Good
<1> QED
  BY <1>1, RequestsPlaced, PTL

\* One flip is with the compositor at a time, and an asynchronous one has the sync
\* callback that completes it.
THEOREM FlipsTakeTurns == Spec /\ InTime => []FlipsInTurn
<1>1. Placed => FlipsInTurn
  BY PlacedTurns DEF Placed, Good
<1> QED
  BY <1>1, RequestsPlaced, PTL

\* A client is told once that its request completed, and once that its pixmap is
\* idle, however the request got there.
THEOREM ReportsOnce == Spec /\ InTime => []ReportedOnce
<1>1. Placed => ReportedOnce
  BY PlacedReports DEF Placed, Good
<1> QED
  BY <1>1, RequestsPlaced, PTL

\* A flip kept for the compositor's release is the one its pixmap's release callback
\* names, and the compositor does hold the buffer: the release will come.
THEOREM ReleasesAwaited == Spec /\ InTime => []IdleAwaitsRelease
<1>1. Placed => IdleAwaitsRelease
  BY PlacedAwaits DEF Placed, Good
<1> QED
  BY <1>1, RequestsPlaced, PTL

\* No request is lost: each is on one list once, on the screen, or waits for a fence;
\* whoever blocks the others will settle, and the timer runs for those that wait.
THEOREM NobodyIsLost == Spec /\ InTime => []AccountedFor
<1>1. Placed => AccountedFor
  BY PlacedAccounts DEF Placed, Good
<1> QED
  BY <1>1, RequestsPlaced, PTL

-----------------------------------------------------------------------------
(***************************************************************************)
(* A copy completes in a later frame than the one that executed it: once   *)
(* copied, a request is not executed from the start again.                 *)
(***************************************************************************)
NotAgain == Running("re_execute") => ~vb[Top.v].copied
Uncopied == /\ NotAgain
            /\ \A v \in Ids : vb[v].copied => vb[v].st = "live" /\ vb[v].efd = "none"
CompletesLater(v) ==
  vb[v].copied =>
    IF vb'[v].done > vb[v].done THEN vb[v].due <= 0
    ELSE vb'[v].due = vb[v].due \/ ~Live(v)' \/ Running("msc_bump")

\* Calls of which the first is not xwl_present_re_execute.
Quiet(frames) == frames \in Seq(Frame) /\ (frames # <<>> => frames[1].fn # "re_execute")
Harmless(f) == f \in Frame /\ f.fn # "re_execute"

LEMMA QuietCalls ==
  /\ Quiet(<<>>)
  /\ \A a : Harmless(a) => Quiet(<<a>>)
  /\ \A a, b : Harmless(a) /\ b \in Frame => Quiet(<<a, b>>)
  /\ \A a, b, c : Harmless(a) /\ b \in Frame /\ c \in Frame => Quiet(<<a, b, c>>)
  /\ \A a, b, c, d : Harmless(a) /\ b \in Frame /\ c \in Frame /\ d \in Frame => Quiet(<<a, b, c, d>>)
<1>1. Quiet(<<>>)
  BY EmptySeq DEF Quiet
<1>2. ASSUME NEW a, Harmless(a) PROVE Quiet(<<a>>)
  BY <1>2, OneElement DEF Quiet, Harmless
<1>3. ASSUME NEW a, NEW b, Harmless(a), b \in Frame PROVE Quiet(<<a, b>>)
  BY <1>3 DEF Quiet, Harmless
<1>4. ASSUME NEW a, NEW b, NEW c, Harmless(a), b \in Frame, c \in Frame PROVE Quiet(<<a, b, c>>)
  BY <1>4 DEF Quiet, Harmless
<1>5. ASSUME NEW a, NEW b, NEW c, NEW d, Harmless(a), b \in Frame, c \in Frame, d \in Frame
      PROVE  Quiet(<<a, b, c, d>>)
  BY <1>5 DEF Quiet, Harmless
<1> QED
  BY <1>1, <1>2, <1>3, <1>4, <1>5

LEMMA QuietIf == ASSUME NEW c, NEW fs, Quiet(fs) PROVE Quiet(If(c, fs))
  BY QuietCalls DEF If

LEMMA QuietThen == ASSUME NEW fs, NEW gs, Quiet(fs), Quiet(gs) PROVE Quiet(fs \o gs)
<1>1. fs \in Seq(Frame) /\ gs \in Seq(Frame)
  BY DEF Quiet
<1>2. CASE fs = <<>>
  BY <1>1, <1>2, ConcatEmptySeq
<1>3. CASE fs # <<>>
  <2>1. Len(fs) \in Nat \ {0} /\ Len(gs) \in Nat
    BY <1>1, <1>3, EmptySeq
  <2>2. fs \o gs \in Seq(Frame) /\ (fs \o gs)[1] = fs[1]
    BY <1>1, <2>1, ConcatProperties
  <2> QED
    BY <2>2, <1>3 DEF Quiet
<1> QED
  BY <1>2, <1>3

LEMMA QuietHarmless ==
  /\ \A fn \in WindowFns : Harmless(Call(fn))
  /\ \A fn \in RequestFns \ {"re_execute"}, v \in Ids, lag \in Nat : Harmless(CallOn(fn, v, lag))
  /\ \A lag \in Nat : Harmless(CallOn("flush_blocked", NoId, lag))
  /\ Quiet(QueueResets)
<1>1. \A fn \in WindowFns : Harmless(Call(fn))
  BY CallTyped, CallFields DEF Harmless, WindowFns
<1>2. \A fn \in RequestFns \ {"re_execute"}, v \in Ids, lag \in Nat : Harmless(CallOn(fn, v, lag))
  BY CallTyped, CallFields DEF Harmless
<1>3. \A lag \in Nat : Harmless(CallOn("flush_blocked", NoId, lag))
  BY CallTyped, CallFields DEF Harmless
<1>4. Quiet(<<Call("reset_timer")>>)
  BY <1>1, QuietCalls DEF WindowFns
<1>5. Quiet(QueueResets)
  BY <1>4, QuietIf DEF QueueResets
<1> QED
  BY <1>1, <1>2, <1>3, <1>5

LEMMA QuietStep ==
  ASSUME NEW at, Good(at), stack # <<>>, NEW fs, Quiet(fs), Continue(fs)
  PROVE  NotAgain'
<1> SUFFICES ~Running("re_execute")'
  BY DEF NotAgain
<1>1. fs \in Seq(Frame) /\ Tail(stack) \in Seq(Frame)
  BY Runs DEF Quiet, Rest
<1>2. CASE fs = <<>>
  <2>1. Continue(<<>>)
    BY <1>2
  <2> QED
    BY <2>1, GoesPopped DEF Tops
<1>3. CASE fs # <<>>
  <2>1. Len(fs) \in Nat \ {0} /\ Len(Tail(stack)) \in Nat
    BY <1>1, <1>3, EmptySeq
  <2>2. stack' \in Seq(Frame) /\ stack'[1] = fs[1] /\ Len(stack') # 0
    BY <1>1, <2>1, ConcatProperties DEF Continue
  <2>3. Head(stack') = fs[1]
    BY <2>2
  <2> QED
    BY <2>3, <1>3 DEF Quiet, Running, Top
<1> QED
  BY <1>2, <1>3

\* At the event loop.
LEMMA QuietStart == ASSUME NEW fs, Quiet(fs), stack' = fs PROVE NotAgain'
<1>1. stack' # <<>> => Top' = fs[1]
  <2>1. stack' # <<>> => Head(stack') = stack'[1]
    OBVIOUS
  <2> QED
    BY <2>1 DEF Top
<1> QED
  BY <1>1 DEF Quiet, NotAgain, Running

\* What happens to the record of a request.
Kept(v) == /\ vb'[v].due = vb[v].due /\ vb'[v].done = vb[v].done /\ vb'[v].st = vb[v].st
           /\ vb'[v].copied = vb[v].copied /\ vb'[v].efd \in {vb[v].efd, "none"}
Dropped(v) == vb'[v].st # "live" /\ vb'[v].copied = FALSE /\ vb'[v].done = vb[v].done
NeverCopied(v) == vb[v].copied = FALSE /\ vb'[v].copied = FALSE
Recorded(v) == Kept(v) \/ Dropped(v) \/ NeverCopied(v)
StillLater(v) == CompletesLater(v) /\ (vb'[v].copied => vb'[v].st = "live" /\ vb'[v].efd = "none")

LEMMA RecordedLater ==
  ASSUME TypeOK, Uncopied, NEW v \in Ids, Recorded(v)
  PROVE  StillLater(v)
<1>1. vb[v] \in Vblank
  BY DEF TypeOK
<1>2. vb[v].done \in Nat /\ vb[v].copied \in BOOLEAN /\ (vb[v].copied => vb[v].st = "live" /\ vb[v].efd = "none")
  BY <1>1 DEF Vblank, Uncopied
<1> QED
  BY <1>2 DEF Recorded, Kept, Dropped, NeverCopied, StillLater, CompletesLater, Live

LEMMA SameKept == ASSUME vb' = vb PROVE \A v \in Ids : Recorded(v)
  BY DEF Recorded, Kept

Steady == NotAgain' /\ \A u \in Ids : StillLater(u)

LEMMA SteadyCall ==
  ASSUME NEW at, Good(at), Uncopied, stack # <<>>, NEW fs, Quiet(fs), Continue(fs),
         \A u \in Ids : Recorded(u)
  PROVE  Steady
  BY QuietStep, RecordedLater DEF Steady, Good

LEMMA SteadyStart ==
  ASSUME NEW at, Good(at), Uncopied, NEW fs, Quiet(fs), stack' = fs,
         \A u \in Ids : Recorded(u)
  PROVE  Steady
  BY QuietStart, RecordedLater DEF Steady, Good

\* The functions that leave the records alone.
LEMMA CallsSteady ==
  ASSUME NEW at, Good(at), Uncopied,
         \/ ResetTimer \/ BumpStart \/ BumpLoop \/ FlipsStop \/ Execute \/ Block \/ AppendFlip
         \/ FlipDone \/ FlushBlocked \/ LeaveForEach \/ FrameDone
  PROVE  Steady
<1>1. stack # <<>> /\ vb' = vb
  BY DEF ResetTimer, BumpStart, BumpLoop, FlipsStop, Execute, Block, AppendFlip, FlipDone,
         FlushBlocked, LeaveForEach, FrameDone, Running
<1>2. TypeOK /\ Top \in Frame /\ (Top.fn \in RequestFns => Top.v \in Ids) /\ Top.lag \in Nat
  <2>1. Top \in Frame /\ (Top.fn \in RequestFns => Top.v \in Ids)
    BY <1>1, Runs
  <2> QED
    BY <2>1 DEF Good, Frame
<1>3. ResetTimer => Continue(<<>>) \/ Continue(<<Call("msc_bump"), Call("reset_timer")>>)
  BY DEF ResetTimer
<1>4. FlipsStop => Continue(<<Call("reset_timer"), Call("flips_stop_free"), Call("flip_try_ready")>>)
  BY DEF FlipsStop
<1>5. Block \/ AppendFlip \/ LeaveForEach => Continue(<<>>)
  BY DEF Block, AppendFlip, LeaveForEach
<1>6. Quiet(<<>>) /\ Quiet(<<Call("msc_bump"), Call("reset_timer")>>)
      /\ Quiet(<<Call("reset_timer"), Call("flips_stop_free"), Call("flip_try_ready")>>)
      /\ Quiet(<<Call("reset_timer"), Call("leave_for_each")>>)
  BY QuietHarmless, QuietCalls DEF Harmless, WindowFns
<1>7. ASSUME ResetTimer \/ FlipsStop \/ Block \/ AppendFlip \/ LeaveForEach
      PROVE  Steady
  BY <1>1, <1>3, <1>4, <1>5, <1>6, <1>7, SameKept, SteadyCall
<1>8. ASSUME FrameDone PROVE Steady
  <2>1. PICK c : Continue(If(c, <<Call("reset_timer"), Call("leave_for_each")>>))
    BY <1>8 DEF FrameDone
  <2> QED
    BY <2>1, <1>1, <1>6, QuietIf, SameKept, SteadyCall
<1>9. ASSUME NEW c, NEW fn \in {"bump_loop", "flush_loop"}, NEW list \in Seq(Ids), c => list # <<>>,
             Continue(If(c, <<CallOn(fn, First(list), Top.lag)>>))
      PROVE  Steady
  <2>1. c => First(list) \in Ids
    BY <1>9, HasFirst DEF First
  <2>2. c => Quiet(<<CallOn(fn, First(list), Top.lag)>>)
    BY <2>1, <1>2, <1>9, QuietHarmless, QuietCalls DEF RequestFns
  <2>3. Quiet(If(c, <<CallOn(fn, First(list), Top.lag)>>))
    BY <2>2, <1>6 DEF If
  <2> QED
    BY <1>9, <2>3, <1>1, SameKept, SteadyCall
<1>13. ASSUME BumpStart PROVE Steady
  <2>1. Continue(If(wait_list # <<>>, <<CallOn("bump_loop", First(wait_list), Top.lag)>>))
    BY <1>13 DEF BumpStart
  <2> QED
    BY <2>1, <1>2, <1>9 DEF TypeOK
<1>14. ASSUME FlushBlocked PROVE Steady
  <2>1. Continue(If(blocking_event # NoId /\ blocked_queue # <<>>,
                    <<CallOn("flush_loop", First(blocked_queue), Top.lag)>>))
    BY <1>14 DEF FlushBlocked
  <2> QED
    BY <2>1, <1>2, <1>9 DEF TypeOK
<1>10. ASSUME BumpLoop PROVE Steady
  <2> SUFFICES ASSUME NEW v \in Ids, v = Top.v, NEW tmp, tmp = After(wait_list, v)
               PROVE  Steady
    BY <1>2, <1>10 DEF BumpLoop, Running, RequestFns
  <2>1. Continue(If(Reached(v, Top.lag), <<CallOn("execute", v, Top.lag)>>)
                 \o If(tmp # NoId, <<CallOn("bump_loop", tmp, Top.lag)>>))
    BY <1>10 DEF BumpLoop
  <2>2. tmp \in Ids \cup {NoId}
    <3>1. Has(wait_list, v) /\ wait_list \in Seq(Ids)
      BY <1>10, <1>2 DEF BumpLoop, TypeOK
    <3>2. Position(wait_list, v) \in DOMAIN wait_list
      BY <3>1 DEF Has, Position
    <3> QED
      BY <3>1, <3>2 DEF After
  <2>3. Quiet(<<CallOn("execute", v, Top.lag)>>)
    BY <1>2, QuietHarmless, QuietCalls DEF RequestFns
  <2>4. tmp # NoId => Quiet(<<CallOn("bump_loop", tmp, Top.lag)>>)
    BY <1>2, <2>2, QuietHarmless, QuietCalls DEF RequestFns
  <2>5. Quiet(If(tmp # NoId, <<CallOn("bump_loop", tmp, Top.lag)>>))
    BY <2>4, <1>6 DEF If
  <2> QED
    BY <2>1, <2>3, <2>5, <1>1, QuietIf, QuietThen, SameKept, SteadyCall
<1>11. ASSUME Execute PROVE Steady
  <2> SUFFICES ASSUME NEW v \in Ids, v = Top.v PROVE Steady
    BY <1>2, <1>11 DEF Execute, Running, RequestFns
  <2>1. Continue(If(~Blocked(v), <<CallOn("retry", v, Top.lag)>>))
    BY <1>11 DEF Execute
  <2>2. Quiet(<<CallOn("retry", v, Top.lag)>>)
    BY <1>2, QuietHarmless, QuietCalls DEF RequestFns
  <2> QED
    BY <2>1, <2>2, <1>1, QuietIf, SameKept, SteadyCall
<1>12. ASSUME FlipDone PROVE Steady
  <2>1. Continue(<<Call("reset_timer"), CallOn("flush_blocked", NoId, Top.lag)>>)
    BY <1>12 DEF FlipDone
  <2>2. Quiet(<<Call("reset_timer"), CallOn("flush_blocked", NoId, Top.lag)>>)
    BY <1>2, QuietHarmless, QuietCalls DEF Harmless, WindowFns
  <2> QED
    BY <2>1, <2>2, <1>1, SameKept, SteadyCall
<1> QED
  BY <1>7, <1>8, <1>10, <1>11, <1>12, <1>13, <1>14

\* The others: what they do to the records first.
LEMMA Executes ==
  ASSUME NEW at, Good(at), NEW f \in Frame, Running("re_execute")' => Top' = f, ~vb'[f.v].copied
  PROVE  NotAgain'
  BY DEF NotAgain

LEMMA PushedTop ==
  ASSUME NEW at, Good(at), stack # <<>>, NEW f \in Frame, NEW fs \in Seq(Frame),
         Continue(<<f>> \o fs) \/ Continue(<<f>>)
  PROVE  Running("re_execute")' => Top' = f
<1>1. Tail(stack) \in Seq(Frame)
  BY Runs DEF Rest
<1>2. <<f>> \in Seq(Frame) /\ Len(<<f>>) = 1 /\ <<f>>[1] = f
  BY OneElement
<1>3. /\ <<f>> \o fs \in Seq(Frame) /\ (<<f>> \o fs)[1] = f
      /\ Len(<<f>> \o fs) = 1 + Len(fs) /\ Len(fs) \in Nat
  BY <1>2, ConcatProperties
<1>4. \A gs \in Seq(Frame) : Len(gs) >= 1 /\ gs[1] = f => Head(gs \o Tail(stack)) = f
  <2> SUFFICES ASSUME NEW gs \in Seq(Frame), Len(gs) >= 1, gs[1] = f PROVE Head(gs \o Tail(stack)) = f
    OBVIOUS
  <2>1. /\ gs \o Tail(stack) \in Seq(Frame) /\ (gs \o Tail(stack))[1] = gs[1]
        /\ Len(gs \o Tail(stack)) = Len(gs) + Len(Tail(stack)) /\ Len(Tail(stack)) \in Nat
    BY <1>1, ConcatProperties
  <2> QED
    BY <2>1
<1> QED
  BY <1>2, <1>3, <1>4 DEF Continue, Top

LEMMA FlipTryReadySteady ==
  ASSUME NEW at, Good(at), Uncopied, FlipTryReady
  PROVE  Steady
<1>1. stack # <<>> /\ vb' = vb
  BY DEF FlipTryReady, Running
<1>2. \A u \in Ids : StillLater(u)
  BY <1>1, SameKept, RecordedLater DEF Good
<1>3. CASE Continue(<<>>)
  BY <1>1, <1>3, SameKept, SteadyCall, QuietCalls
<1>4. ASSUME NEW i \in DOMAIN flip_queue, FirstQueued(i),
             Continue(<<CallOn("re_execute", flip_queue[i], 0)>>)
      PROVE  Steady
  <2> SUFFICES ASSUME NEW v, v = flip_queue[i] PROVE Steady
    OBVIOUS
  <2>1. v \in Ids /\ Has(flip_queue, v)
    BY DEF Has, Good, TypeOK
  <2>2. at[v] = "queue"
    <3>1. at[v] \in {"queue", "pending"} /\ Stage(vb[v], at[v])
      BY <2>1 DEF Good, Fits, OnLists, Is, Records
    <3> QED
      BY <3>1, <1>4 DEF Stage, Shown, InUse, FirstQueued
  <2>3. ~vb[v].copied
    BY <2>1, <2>2 DEF Good, Fits, Records, Stage
  <2>4. CallOn("re_execute", v, 0) \in Frame /\ CallOn("re_execute", v, 0).v = v
    BY <2>1, CallTyped, CallFields DEF RequestFns
  <2>5. NotAgain'
    BY <1>1, <1>4, <2>3, <2>4, PushedTop, Executes, EmptySeq
  <2> QED
    BY <2>5, <1>2 DEF Steady
<1> QED
  BY <1>3, <1>4 DEF FlipTryReady

LEMMA DropFlipsSteady ==
  ASSUME NEW at, Good(at), Uncopied, DropFlips
  PROVE  Steady
<1>1. stack # <<>> /\ Continue(<<>>)
  BY DEF DropFlips, Running
<1>2. ASSUME NEW u \in Ids PROVE Recorded(u)
  <2>1. vb[u] \in Vblank
    BY DEF Good, TypeOK
  <2>2. vb'[u] = vb[u] \/ vb'[u] = [vb[u] EXCEPT !.flip = FALSE]
    BY DEF DropFlips
  <2>3. Kept(u)
    BY <2>1, <2>2 DEF Kept, Vblank
  <2> QED
    BY <2>3 DEF Recorded
<1> QED
  BY <1>1, <1>2, SteadyCall, QuietCalls

LEMMA FlipsStopFreeSteady ==
  ASSUME NEW at, Good(at), Uncopied, FlipsStopFree
  PROVE  Steady
<1>1. stack # <<>> /\ Continue(<<>>)
  BY DEF FlipsStopFree, Running
<1>2. ASSUME NEW u \in Ids PROVE Recorded(u)
  <2>1. vb[u] \in Vblank
    BY DEF Good, TypeOK
  <2>2. \/ vb'[u] = vb[u] \/ vb'[u] = Freed(vb[u]) \/ vb'[u] = Freed(Idled(vb[u]))
    BY DEF FlipsStopFree
  <2>3. Freed(vb[u]).st # "live" /\ Freed(vb[u]).copied = FALSE /\ Freed(vb[u]).done = vb[u].done
    BY <2>1 DEF Freed, Blank, Vblank
  <2>4. Freed(Idled(vb[u])).st # "live" /\ Freed(Idled(vb[u])).copied = FALSE
        /\ Freed(Idled(vb[u])).done = vb[u].done
    BY <2>1 DEF Freed, Blank, Vblank, Idled
  <2> QED
    BY <2>2, <2>3, <2>4 DEF Recorded, Dropped, Kept
<1> QED
  BY <1>1, <1>2, SteadyCall, QuietCalls

LEMMA RetryFlipFailsSteady ==
  ASSUME NEW at, Good(at), Uncopied, NEW v \in Ids, RetryFlipFails(v)
  PROVE  Steady
<1>1. stack # <<>> /\ Top.v = v /\ Top.lag = 0 /\ vb[v] \in Vblank
  <2>1. Retrying(v)
    BY DEF RetryFlipFails, Ready
  <2> QED
    BY <2>1, RetryKnows
<1>2. Continue(<<CallOn("retry", v, Top.lag)>>) /\ vb' = [vb EXCEPT ![v] = [Started(@) EXCEPT !.flip = FALSE]]
  BY DEF RetryFlipFails
<1>3. Quiet(<<CallOn("retry", v, Top.lag)>>)
  BY <1>1, QuietHarmless, QuietCalls DEF RequestFns
<1>4. ASSUME NEW u \in Ids PROVE Recorded(u)
  <2>1. vb'[u] = IF u # v THEN vb[u] ELSE [Started(vb[v]) EXCEPT !.flip = FALSE]
    BY <1>2 DEF Good, TypeOK
  <2>2. Kept(u)
    BY <2>1, <1>1 DEF Kept, Vblank, Started
  <2> QED
    BY <2>2 DEF Recorded
<1> QED
  BY <1>1, <1>2, <1>3, <1>4, SteadyCall

LEMMA RetryFlipSteady ==
  ASSUME NEW at, Good(at), Uncopied, NEW v \in Ids, RetryFlip(v)
  PROVE  Steady
<1>1. stack # <<>> /\ Top.v = v /\ Top.lag = 0 /\ vb[v] \in Vblank
  <2>1. Retrying(v)
    BY DEF RetryFlip, Ready
  <2> QED
    BY <2>1, RetryKnows
<1>2. PICK explicit, resets :
        /\ vb' = [vb EXCEPT ![v] = [Started(@) EXCEPT !.evpix = TRUE, !.handed = explicit]]
        /\ Continue(If(resets, <<Call("reset_timer"), Call("leave_for_each")>>)
                    \o <<CallOn("flip_done", v, Top.lag)>>)
  BY DEF RetryFlip
<1>3. /\ Quiet(<<CallOn("flip_done", v, Top.lag)>>)
      /\ Quiet(<<Call("reset_timer"), Call("leave_for_each")>>)
  BY <1>1, QuietHarmless, QuietCalls DEF Harmless, RequestFns, WindowFns
<1>4. Quiet(If(resets, <<Call("reset_timer"), Call("leave_for_each")>>) \o <<CallOn("flip_done", v, Top.lag)>>)
  BY <1>3, QuietIf, QuietThen
<1>5. ASSUME NEW u \in Ids PROVE Recorded(u)
  <2>1. vb'[u] = IF u # v THEN vb[u] ELSE [Started(vb[v]) EXCEPT !.evpix = TRUE, !.handed = explicit]
    BY <1>2 DEF Good, TypeOK
  <2>2. Kept(u)
    BY <2>1, <1>1 DEF Kept, Vblank, Started
  <2> QED
    BY <2>2 DEF Recorded
<1> QED
  BY <1>1, <1>2, <1>4, <1>5, SteadyCall

LEMMA RetryCopySteady ==
  ASSUME NEW at, Good(at), Uncopied, NEW v \in Ids, RetryCopy(v)
  PROVE  Steady
<1>1. stack # <<>> /\ Top.v = v /\ Top.lag = 0 /\ vb[v] \in Vblank
  <2>1. Retrying(v)
    BY DEF RetryCopy, Ready
  <2> QED
    BY <2>1, RetryKnows
<1>2. PICK c : Continue(If(c, <<Call("flips_stop")>>) \o <<CallOn("copy", v, Top.lag)>>)
  BY DEF RetryCopy
<1>3. Quiet(<<CallOn("copy", v, Top.lag)>>) /\ Quiet(<<Call("flips_stop")>>)
  BY <1>1, QuietHarmless, QuietCalls DEF RequestFns, WindowFns
<1>4. Quiet(If(c, <<Call("flips_stop")>>) \o <<CallOn("copy", v, Top.lag)>>)
  BY <1>3, QuietIf, QuietThen
<1>5. ASSUME NEW u \in Ids PROVE Recorded(u)
  <2>1. vb[u] \in Vblank
    BY DEF Good, TypeOK
  <2>2. vb'[u] \in {vb[u], Started(vb[u]), [vb[u] EXCEPT !.abort_flip = TRUE]}
    BY DEF RetryCopy
  <2>3. Kept(u)
    BY <2>1, <2>2 DEF Kept, Vblank, Started
  <2> QED
    BY <2>3 DEF Recorded
<1> QED
  BY <1>1, <1>2, <1>4, <1>5, SteadyCall

LEMMA RetryPostSteady ==
  ASSUME NEW at, Good(at), Uncopied, NEW v \in Ids, RetryPost(v)
  PROVE  Steady
<1>1. stack # <<>> /\ Top.v = v /\ vb[v].due <= 0 /\ vb[v] \in Vblank
  <2>1. Retrying(v)
    BY DEF RetryPost, Ready
  <2> QED
    BY <2>1, RetryKnows
<1>2. Continue(<<>>) /\ vb' = [vb EXCEPT ![v] = Freed(Done(@))]
  BY DEF RetryPost
<1>3. NotAgain'
  BY <1>1, <1>2, QuietStep, QuietCalls
<1>4. ASSUME NEW u \in Ids, u # v PROVE StillLater(u)
  <2>1. vb'[u] = vb[u]
    BY <1>2, <1>4 DEF Good, TypeOK
  <2> QED
    BY <2>1, RecordedLater DEF Recorded, Kept, Good
<1>5. StillLater(v)
  <2>1. vb'[v] = Freed(Done(vb[v])) /\ vb[v].done \in Nat /\ Done(vb[v]).done = vb[v].done + 1
    BY <1>1, <1>2 DEF Good, TypeOK, Vblank, Done
  <2>2. Freed(Done(vb[v])).done = Done(vb[v]).done /\ Freed(Done(vb[v])).copied = FALSE
    BY DEF Freed, Blank
  <2> QED
    BY <1>1, <2>1, <2>2 DEF StillLater, CompletesLater
<1> QED
  BY <1>3, <1>4, <1>5 DEF Steady

LEMMA FlipNotifySteady ==
  ASSUME NEW at, Good(at), Uncopied, FlipNotify
  PROVE  Steady
<1> SUFFICES ASSUME NEW v \in Ids, v = Top.v, NEW old, old = flip_active PROVE Steady
  BY Runs DEF FlipNotify, Running, RequestFns
<1>1. stack # <<>> /\ at[v] = "pending"
  <2>1. stack # <<>> /\ Top.fn = "flip_notify"
    BY DEF FlipNotify, Running
  <2> QED
    BY <2>1, Runs DEF Knows, RequestFns
<1>2. \A u \in Ids : u = old => at[u] = "active"
  BY DEF Good, Fits, OnLists
<1>3. PICK c : Continue(If(c, <<Call("flips_stop")>>) \o <<Call("flip_try_ready")>>)
  BY DEF FlipNotify
<1>4. Quiet(<<Call("flips_stop")>>) /\ Quiet(<<Call("flip_try_ready")>>)
  BY QuietHarmless, QuietCalls DEF WindowFns
<1>5. Quiet(If(c, <<Call("flips_stop")>>) \o <<Call("flip_try_ready")>>)
  BY <1>4, QuietIf, QuietThen
<1>6. ASSUME NEW u \in Ids PROVE Recorded(u)
  <2>1. Stage(vb[u], at[u]) /\ vb[u] \in Vblank
    BY DEF Good, Fits, Records, TypeOK
  <2>2. u = v \/ u = old => vb[u].copied = FALSE
    BY <2>1, <1>1, <1>2 DEF Stage, Shown, InUse, Vblank
  <2>3. \/ vb'[u] = vb[u]
        \/ (u = v \/ u = old) /\ vb'[u] \in {Done(vb[u]), Freed(vb[u])}
    BY DEF FlipNotify
  <2>4. Done(vb[u]).copied = vb[u].copied /\ Freed(vb[u]).copied = FALSE
    BY <2>1 DEF Done, Freed, Blank, Vblank
  <2> QED
    BY <2>2, <2>3, <2>4 DEF Recorded, Kept, NeverCopied
<1> QED
  BY <1>1, <1>3, <1>5, <1>6, SteadyCall

LEMMA WaitSteady ==
  ASSUME NEW at, Good(at), Uncopied, stack # <<>>, NEW v \in Ids, NEW lag \in Nat,
         ~vb[v].copied, Wait(v, lag)
  PROVE  Steady
<1>1. vb[v] \in Vblank /\ vb[v].copied = FALSE
  BY DEF Good, TypeOK, Vblank
<1>2. Quiet(<<CallOn("block", v, lag)>>)
  BY QuietHarmless, QuietCalls DEF RequestFns
<1>3. Quiet(QueueResets \o <<CallOn("block", v, lag)>>)
  BY <1>2, QuietHarmless, QuietThen
<1>4. \/ Continue(QueueResets \o <<CallOn("block", v, lag)>>)
      \/ Continue(<<CallOn("block", v, lag)>>)
  BY DEF Wait
<1>5. vb' = [vb EXCEPT ![v] = vb[v]] \/ vb' = [vb EXCEPT ![v] = Waiting(@, v)]
  BY DEF Wait, QueueVblank
<1>6. Waiting(vb[v], v).copied = FALSE
  BY <1>1 DEF Waiting, Vblank
<1>7. ASSUME NEW u \in Ids PROVE Recorded(u)
  <2>1. u # v => vb'[u] = vb[u]
    BY <1>5 DEF Good, TypeOK
  <2>2. vb'[v].copied = FALSE
    BY <1>1, <1>5, <1>6 DEF Good, TypeOK
  <2> QED
    BY <1>1, <2>1, <2>2 DEF Recorded, Kept, NeverCopied
<1> QED
  BY <1>2, <1>3, <1>4, <1>7, SteadyCall

LEMMA RetryWaitSteady ==
  ASSUME NEW at, Good(at), Uncopied, NEW v \in Ids, RetryWait(v)
  PROVE  Steady
<1>1. Retrying(v) /\ MustWait(v, Top.lag) /\ Wait(v, Top.lag)
  BY DEF RetryWait
<1>2. /\ stack # <<>> /\ Top.lag = 0 /\ vb[v] \in Vblank /\ Owed(vb[v]) /\ Unready(v)
      /\ req[v].sync # "fence" /\ (vb[v].copied /\ HasSyncobj(v) => acq[v] = "sig")
  BY <1>1, RetryKnows
<1>3. HasSyncobj(v)
  BY <1>2 DEF Unready, HasSyncobj
<1>4. vb[v].copied => vb[v].flip = FALSE
  BY <1>2 DEF Owed, Vblank
<1>5. ~vb[v].copied
  BY <1>2, <1>3, <1>4 DEF Unready, HasSyncobj
<1> QED
  BY <1>1, <1>2, <1>5, WaitSteady

LEMMA PushesSteady ==
  ASSUME NEW at, Good(at), Uncopied, stack # <<>>, NEW v \in Ids, NEW fs \in Seq(Frame),
         Continue(<<CallOn("re_execute", v, 0)>> \o fs), vb'[v].copied = FALSE,
         \A u \in Ids : Recorded(u)
  PROVE  Steady
<1>1. CallOn("re_execute", v, 0) \in Frame /\ CallOn("re_execute", v, 0).v = v
  BY CallTyped, CallFields DEF RequestFns
<1>2. NotAgain'
  BY <1>1, PushedTop, Executes
<1> QED
  BY <1>2, RecordedLater DEF Steady, Good

LEMMA FlushLoopSteady ==
  ASSUME NEW at, Good(at), Uncopied, FlushLoop
  PROVE  Steady
<1> SUFFICES ASSUME NEW v \in Ids, v = Top.v, NEW tmp, tmp = After(blocked_queue, v) PROVE Steady
  BY Runs DEF FlushLoop, Running, RequestFns
<1>1. stack # <<>> /\ at[v] = "blocked" /\ Top.lag = 0
  <2>1. stack # <<>> /\ Top.fn = "flush_loop"
    BY DEF FlushLoop, Running
  <2> QED
    BY <2>1, Runs DEF Knows, RequestFns
<1>2. vb[v].copied = FALSE
  BY <1>1 DEF Good, Fits, Records, Stage, TypeOK, Vblank
<1>3. CASE MustWait(v, Top.lag)
  <2>1. Wait(v, Top.lag)
    BY <1>3 DEF FlushLoop
  <2> QED
    BY <2>1, <1>1, <1>2, WaitSteady
<1>4. CASE ~MustWait(v, Top.lag)
  <2>1. /\ Continue(<<CallOn("re_execute", v, 0)>> \o If(tmp # NoId, <<CallOn("flush_loop", tmp, Top.lag)>>))
        /\ vb' = vb
    BY <1>4 DEF FlushLoop
  <2>2. tmp \in Ids \cup {NoId}
    <3>1. Has(blocked_queue, v) /\ blocked_queue \in Seq(Ids)
      BY DEF FlushLoop, Good, TypeOK
    <3>2. Position(blocked_queue, v) \in DOMAIN blocked_queue
      BY <3>1 DEF Has, Position
    <3> QED
      BY <3>1, <3>2 DEF After
  <2>3. tmp # NoId => Quiet(<<CallOn("flush_loop", tmp, Top.lag)>>)
    BY <1>1, <2>2, QuietHarmless, QuietCalls DEF RequestFns
  <2>4. If(tmp # NoId, <<CallOn("flush_loop", tmp, Top.lag)>>) \in Seq(Frame)
    BY <2>3, QuietCalls DEF If, Quiet
  <2> QED
    BY <1>1, <1>2, <2>1, <2>4, SameKept, PushesSteady
<1> QED
  BY <1>3, <1>4

LEMMA CopySteady ==
  ASSUME NEW at, Good(at), Uncopied, Copy
  PROVE  Steady
<1> SUFFICES ASSUME NEW v \in Ids, v = Top.v PROVE Steady
  BY Runs DEF Copy, Running, RequestFns
<1>1. stack # <<>> /\ at[v] = "held" /\ vb[v].st = "live" /\ ~vb[v].copied /\ Top.lag = 0
  <2>1. stack # <<>> /\ Top.fn = "copy"
    BY DEF Copy, Running
  <2> QED
    BY <2>1, Runs DEF Knows, RequestFns, Owners
<1>2. vb[v] \in Vblank /\ vb[v].efd = "none"
  BY <1>1 DEF Good, Fits, Records, Stage, TypeOK
<1>3. PICK rec : rec.efd = vb[v].efd /\ rec.st = vb[v].st /\ vb' = [vb EXCEPT ![v] = rec]
  <2>1. PICK now : vb' = [vb EXCEPT ![v] = [vb[v] EXCEPT !.idled = IF now THEN @ + 1 ELSE @, !.queued = ~now,
                                              !.copied = TRUE, !.due = Due(1 - Top.lag)]]
    BY DEF Copy, QueueVblank
  <2> DEFINE rec == [vb[v] EXCEPT !.idled = IF now THEN @ + 1 ELSE @, !.queued = ~now,
                                  !.copied = TRUE, !.due = Due(1 - Top.lag)]
  <2>2. rec.efd = vb[v].efd /\ rec.st = vb[v].st
    BY <1>2 DEF Vblank
  <2> QED
    BY <2>1, <2>2
<1>4. StillLater(v)
  BY <1>1, <1>2, <1>3 DEF StillLater, CompletesLater, Good, TypeOK
<1>5. ASSUME NEW u \in Ids, u # v PROVE StillLater(u)
  <2>1. vb'[u] = vb[u]
    BY <1>3, <1>5 DEF Good, TypeOK
  <2> QED
    BY <2>1, RecordedLater DEF Recorded, Kept, Good
<1>6. Quiet(<<CallOn("flush_blocked", NoId, Top.lag)>>)
  BY <1>1, QuietHarmless, QuietCalls
<1>7. Quiet(QueueResets \o <<CallOn("flush_blocked", NoId, Top.lag)>>)
  BY <1>6, QuietHarmless, QuietThen
<1>8. Continue(QueueResets \o <<CallOn("flush_blocked", NoId, Top.lag)>>)
  BY DEF Copy
<1>9. NotAgain'
  BY <1>1, <1>7, <1>8, QuietStep
<1> QED
  BY <1>4, <1>5, <1>9 DEF Steady

LEMMA ReExecuteSteady ==
  ASSUME NEW at, Good(at), Uncopied, ReExecute
  PROVE  Steady
<1> SUFFICES ASSUME NEW v \in Ids, v = Top.v PROVE Steady
  BY Runs DEF ReExecute, Running, RequestFns
<1>1. stack # <<>> /\ vb[v] \in Vblank /\ vb[v].copied = FALSE
  BY DEF ReExecute, Running, Uncopied, NotAgain, Good, TypeOK, Vblank
<1>2. PICK ahead : LET rec == [vb[v] EXCEPT !.due = ExecDue(req[v], ahead), !.queued = TRUE]
                   IN IF rec.due > 0 THEN QueueVblank(v, rec) /\ Continue(QueueResets)
                      ELSE vb' = [vb EXCEPT ![v] = rec] /\ Continue(<<CallOn("execute", v, 0)>>)
  BY DEF ReExecute
<1>3. vb' = [vb EXCEPT ![v] = [vb[v] EXCEPT !.due = ExecDue(req[v], ahead), !.queued = TRUE]]
  BY <1>2 DEF QueueVblank
<1>4. Continue(QueueResets) \/ Continue(<<CallOn("execute", v, 0)>>)
  BY <1>2
<1>5. Quiet(QueueResets) /\ Quiet(<<CallOn("execute", v, 0)>>)
  BY QuietHarmless, QuietCalls DEF RequestFns
<1>6. ASSUME NEW u \in Ids PROVE Recorded(u)
  <2>1. u # v => vb'[u] = vb[u]
    BY <1>3 DEF Good, TypeOK
  <2>2. vb'[v].copied = FALSE
    BY <1>1, <1>3 DEF Good, TypeOK, Vblank
  <2> QED
    BY <1>1, <2>1, <2>2 DEF Recorded, Kept, NeverCopied
<1> QED
  BY <1>1, <1>4, <1>5, <1>6, SteadyCall

LEMMA RetryQueueFlipSteady ==
  ASSUME NEW at, Good(at), Uncopied, NEW v \in Ids, RetryQueueFlip(v)
  PROVE  Steady
<1>1. stack # <<>> /\ Top.lag = 0 /\ PendingFlip # NoId
  <2>1. Retrying(v) /\ Queues(v)
    BY DEF RetryQueueFlip, Ready
  <2> QED
    BY <2>1, RetryKnows DEF Queues
<1>2. Quiet(<<CallOn("append_flip", v, Top.lag)>>)
  BY <1>1, QuietHarmless, QuietCalls DEF RequestFns
<1>3. \/ vb' = vb /\ Continue(<<>> \o <<CallOn("append_flip", v, Top.lag)>>)
      \/ \E last \in {flip_queue[Len(flip_queue)]} :
           /\ last # PendingFlip
           /\ vb' = [vb EXCEPT ![last] = [Idled(@) EXCEPT !.pixmap = FALSE, !.flip = FALSE]]
           /\ Continue(<<CallOn("re_execute", last, 0)>> \o <<CallOn("append_flip", v, Top.lag)>>)
  BY DEF RetryQueueFlip, If
<1>4. CASE vb' = vb /\ Continue(<<>> \o <<CallOn("append_flip", v, Top.lag)>>)
  <2>1. Quiet(<<>> \o <<CallOn("append_flip", v, Top.lag)>>)
    BY <1>2, QuietCalls, QuietThen
  <2> QED
    BY <1>1, <1>4, <2>1, SameKept, SteadyCall
<1>5. ASSUME NEW last \in {flip_queue[Len(flip_queue)]}, last # PendingFlip,
             vb' = [vb EXCEPT ![last] = [Idled(@) EXCEPT !.pixmap = FALSE, !.flip = FALSE]],
             Continue(<<CallOn("re_execute", last, 0)>> \o <<CallOn("append_flip", v, Top.lag)>>)
      PROVE  Steady
  <2>1. flip_queue \in Seq(Ids) /\ flip_queue # <<>> /\ OnLists(at) /\ Records(at) /\ TypeOK
    BY <1>1 DEF Good, Fits, TypeOK, PendingFlip
  <2>2. Len(flip_queue) \in DOMAIN flip_queue /\ Len(flip_queue) \in 1 .. Len(flip_queue)
    BY <2>1, LenProperties, EmptySeq
  <2>3. Has(flip_queue, last) /\ last \in Ids
    BY <2>1, <2>2, ElementOfSeq DEF Has
  <2>4. at[last] = "queue"
    <3>1. at[last] \in {"queue", "pending"}
      BY <2>1, <2>3 DEF OnLists, Is
    <3>2. at[last] # "pending"
      BY <2>1, <2>3, PendingIs, <1>5
    <3> QED
      BY <3>1, <3>2
  <2>5. vb[last] \in Vblank /\ vb[last].copied = FALSE
    BY <2>1, <2>3, <2>4 DEF Records, Stage, TypeOK, Vblank
  <2>6. \A u \in Ids : u # last => vb'[u] = vb[u]
    BY <1>5, <2>1 DEF TypeOK
  <2>7. vb'[last].copied = FALSE
    <3>1. vb'[last] = [Idled(vb[last]) EXCEPT !.pixmap = FALSE, !.flip = FALSE]
      BY <1>5, <2>1, <2>3 DEF TypeOK
    <3> QED
      BY <2>5, <3>1 DEF Idled, Vblank
  <2>8. \A u \in Ids : Recorded(u)
    BY <2>3, <2>5, <2>6, <2>7 DEF Recorded, Kept, NeverCopied
  <2>9. <<CallOn("append_flip", v, Top.lag)>> \in Seq(Frame)
    BY <1>2 DEF Quiet
  <2> QED
    BY <1>1, <1>5, <2>3, <2>7, <2>8, <2>9, PushesSteady
<1> QED
  BY <1>3, <1>4, <1>5

LEMMA MscBumpSteady ==
  ASSUME NEW at, Good(at), Uncopied, MscBump
  PROVE  Steady
<1>1. stack # <<>> /\ Running("msc_bump") /\ Rest \in Seq(Frame)
  BY Runs DEF MscBump, Running
<1>2. Later(Rest) \in Seq(Frame)
  BY <1>1, LaterTyped
<1> SUFFICES ASSUME NEW fs,
                    fs = If(SyncFlipPending, <<CallOn("flip_notify", PendingFlip, 0)>>) \o <<Call("bump_start")>>
             PROVE  Steady
  OBVIOUS
<1>3. stack' = fs \o Later(Rest)
  BY DEF MscBump, Rest
<1>4. Quiet(<<Call("bump_start")>>) /\ Quiet(<<>>)
  BY QuietHarmless, QuietCalls DEF WindowFns
<1>5. SyncFlipPending => Quiet(<<CallOn("flip_notify", PendingFlip, 0)>>)
  <2>1. SyncFlipPending => PendingFlip \in Ids
    BY PendingIs DEF Good, Fits, SyncFlipPending
  <2> QED
    BY <2>1, QuietHarmless, QuietCalls DEF RequestFns
<1>6. Quiet(If(SyncFlipPending, <<CallOn("flip_notify", PendingFlip, 0)>>))
  BY <1>4, <1>5 DEF If
<1>7. Quiet(fs)
  BY <1>4, <1>6, QuietThen
<1>8. fs # <<>>
  <2>1. fs \in Seq(Frame) /\ Len(fs) >= 1
    <3> DEFINE a == If(SyncFlipPending, <<CallOn("flip_notify", PendingFlip, 0)>>)
    <3>1. a \in Seq(Frame) /\ <<Call("bump_start")>> \in Seq(Frame) /\ Len(<<Call("bump_start")>>) = 1
      BY <1>4, <1>6 DEF Quiet
    <3> HIDE DEF a
    <3>2. Len(a \o <<Call("bump_start")>>) = Len(a) + 1 /\ Len(a) \in Nat
      BY <3>1, ConcatProperties
    <3>3. fs = a \o <<Call("bump_start")>>
      BY DEF a
    <3> QED
      BY <3>2, <3>3, <1>7 DEF Quiet
  <2> QED
    BY <2>1, EmptySeq
<1>9. NotAgain'
  <2>1. fs \in Seq(Frame) /\ fs[1].fn # "re_execute" /\ Len(fs) \in Nat \ {0}
    BY <1>7, <1>8, EmptySeq DEF Quiet
  <2>2. /\ stack' \in Seq(Frame) /\ stack'[1] = fs[1] /\ Len(stack') # 0
    BY <1>2, <1>3, <2>1, ConcatProperties
  <2>3. Head(stack') = fs[1]
    BY <2>2
  <2> QED
    BY <2>1, <2>3 DEF NotAgain, Running, Top
<1>10. ASSUME NEW u \in Ids PROVE StillLater(u)
  <2>1. vb[u] \in Vblank /\ vb'[u] = Sooner(vb[u])
    BY DEF Good, TypeOK, MscBump
  <2>2. /\ vb'[u].done = vb[u].done /\ vb'[u].copied = vb[u].copied /\ vb'[u].st = vb[u].st
        /\ vb'[u].efd = vb[u].efd /\ vb[u].done \in Nat
    BY <2>1 DEF Sooner, Vblank
  <2>3. vb[u].copied => vb[u].st = "live" /\ vb[u].efd = "none"
    BY DEF Uncopied
  <2> QED
    BY <1>1, <2>2, <2>3 DEF StillLater, CompletesLater
<1> QED
  BY <1>9, <1>10 DEF Steady

LEMMA ReturnsSteady ==
  ASSUME NEW at, Good(at), Uncopied, Returns
  PROVE  Steady
<1>1. ASSUME NEW v \in Ids, \/ RetryWait(v) \/ RetryQueueFlip(v) \/ RetryFlip(v)
                            \/ RetryFlipFails(v) \/ RetryCopy(v) \/ RetryPost(v)
      PROVE  Steady
  BY <1>1, RetryWaitSteady, RetryQueueFlipSteady, RetryFlipSteady, RetryFlipFailsSteady,
     RetryCopySteady, RetryPostSteady
<1>2. CASE \/ FlipNotify \/ FlipsStopFree \/ ReExecute \/ Copy \/ FlushLoop \/ MscBump
           \/ FlipTryReady \/ DropFlips
  BY <1>2, FlipNotifySteady, FlipsStopFreeSteady, ReExecuteSteady, CopySteady, FlushLoopSteady,
     MscBumpSteady, FlipTryReadySteady, DropFlipsSteady
<1>3. CASE \/ ResetTimer \/ BumpStart \/ BumpLoop \/ FlipsStop \/ Execute \/ Block \/ AppendFlip
           \/ FlipDone \/ FlushBlocked \/ LeaveForEach \/ FrameDone
  BY <1>3, CallsSteady
<1> QED
  BY <1>1, <1>2, <1>3, TriggerFits DEF Returns

LEMMA PresentSteady ==
  ASSUME NEW at, Good(at), Uncopied, NEW v \in Ids, NEW a, NEW p, NEW ahead, Present(v, a, p, ahead)
  PROVE  Steady
<1>1. vb[v].st = "new"
  <2>1. \A u \in Ids : u < v <=> vb[u].st # "new"
    BY DEF Present
  <2>2. ~(v < v)
    BY IdsNat
  <2> QED
    BY <2>1, <2>2
<1>2. vb[v] \in Vblank /\ vb[v].copied = FALSE
  BY <1>1 DEF Uncopied, Good, TypeOK, Vblank
<1>3. PICK rec : /\ rec.copied = FALSE
                 /\ vb' = [vb EXCEPT ![v] = rec]
                 /\ stack' = QueueResets \/ stack' = <<CallOn("execute", v, 0)>>
  <2> DEFINE flip == a.kind = "flip" /\ CheckFlip(can_flip)
             rec  == [Blank EXCEPT !.st = "live", !.due = ExecDue(a, ahead), !.queued = TRUE,
                                   !.flip = flip, !.sync_flip = flip /\ ahead > 0,
                                   !.pixmap = a.kind # "notify"]
  <2>1. IF rec.due > 0 THEN QueueVblank(v, rec) /\ stack' = QueueResets
        ELSE vb' = [vb EXCEPT ![v] = rec] /\ stack' = <<CallOn("execute", v, 0)>>
    BY DEF Present
  <2>2. rec.copied = FALSE
    BY DEF Blank
  <2> HIDE DEF rec
  <2>3. vb' = [vb EXCEPT ![v] = rec] /\ (stack' = QueueResets \/ stack' = <<CallOn("execute", v, 0)>>)
    BY <2>1 DEF QueueVblank
  <2> QED
    BY <2>2, <2>3
<1>4. Quiet(QueueResets) /\ Quiet(<<CallOn("execute", v, 0)>>)
  BY QuietHarmless, QuietCalls DEF RequestFns
<1>5. ASSUME NEW u \in Ids PROVE Recorded(u)
  <2>1. u # v => vb'[u] = vb[u]
    BY <1>3 DEF Good, TypeOK
  <2>2. vb'[v].copied = FALSE
    BY <1>3 DEF Good, TypeOK
  <2> QED
    BY <1>2, <2>1, <2>2 DEF Recorded, Kept, NeverCopied
<1> QED
  BY <1>3, <1>4, <1>5, SteadyStart

LEMMA SameSteady ==
  ASSUME NEW at, Good(at), Uncopied, vb' = vb, NEW fs, Quiet(fs), stack' = fs
  PROVE  Steady
  BY SameKept, SteadyStart

LEMMA EventsSteady ==
  ASSUME NEW at, Good(at), Uncopied,
         FrameCallback \/ TimerCallback \/ SyncCallback \/ CreateFrameCallback \/ Unrealize
  PROVE  Steady
<1>1. vb' = vb
  BY DEF FrameCallback, TimerCallback, SyncCallback, CreateFrameCallback, Unrealize
<1>2. /\ Quiet(<<Call("msc_bump"), Call("reset_timer")>>)
      /\ Quiet(<<Call("reset_timer"), Call("leave_for_each")>>)
      /\ Quiet(<<Call("msc_bump"), Call("reset_timer"), Call("leave_for_each"), Call("frame_done")>>)
  BY QuietHarmless, QuietCalls DEF Harmless, WindowFns
<1>3. CASE FrameCallback
  <2>1. stack' = If(hooked, <<Call("msc_bump"), Call("reset_timer"), Call("leave_for_each"),
                              Call("frame_done")>>)
    BY <1>3 DEF FrameCallback
  <2> QED
    BY <2>1, <1>1, <1>2, QuietIf, SameSteady
<1>4. CASE TimerCallback
  <2>1. stack' = <<Call("msc_bump"), Call("reset_timer")>>
    BY <1>4 DEF TimerCallback
  <2> QED
    BY <2>1, <1>1, <1>2, SameSteady
<1>5. CASE SyncCallback
  <2>1. stack' = <<CallOn("flip_notify", sync_callback, 0)>> /\ sync_callback \in Ids
    BY <1>5 DEF SyncCallback, Good, TypeOK
  <2>2. Quiet(<<CallOn("flip_notify", sync_callback, 0)>>)
    BY <2>1, QuietHarmless, QuietCalls DEF RequestFns
  <2> QED
    BY <2>1, <2>2, <1>1, SameSteady
<1>6. CASE CreateFrameCallback \/ Unrealize
  <2>1. stack' = If(hooked, <<Call("reset_timer"), Call("leave_for_each")>>)
    BY <1>6 DEF CreateFrameCallback, Unrealize
  <2> QED
    BY <2>1, <1>1, <1>2, QuietIf, SameSteady
<1> QED
  BY <1>3, <1>4, <1>5, <1>6

LEMMA WaitingSteady ==
  ASSUME NEW at, Good(at), Uncopied, Environment \/ \E w : WindowCommits(w)
  PROVE  Steady
<1>1. ~TimePasses
  BY DEF TimePasses, Good, InTime
<1>2. vb' = vb /\ stack' = <<>>
  BY <1>1 DEF Environment, AcquireProgress, WindowCommits, AtEventLoop
<1> QED
  BY <1>2, QuietCalls, SameSteady

LEMMA AcquireFenceAvailSteady ==
  ASSUME NEW at, Good(at), Uncopied, NEW v \in Ids, AcquireFenceAvail(v)
  PROVE  Steady
<1>1. vb[v].efd # "none" /\ vb' = [vb EXCEPT ![v].efd = "none"] /\ stack' = <<CallOn("re_execute", v, 0)>>
  BY DEF AcquireFenceAvail
<1>2. vb[v] \in Vblank /\ vb[v].copied = FALSE
  BY <1>1 DEF Uncopied, Good, TypeOK, Vblank
<1>3. vb'[v].copied = FALSE
  BY <1>1, <1>2 DEF Good, TypeOK, Vblank
<1>4. ASSUME NEW u \in Ids PROVE Recorded(u)
  <2>1. u # v => vb'[u] = vb[u]
    BY <1>1 DEF Good, TypeOK
  <2> QED
    BY <1>2, <1>3, <2>1 DEF Recorded, Kept, NeverCopied
<1>5. CallOn("re_execute", v, 0) \in Frame /\ CallOn("re_execute", v, 0).v = v
  BY CallTyped, CallFields DEF RequestFns
<1>6. Head(stack') = CallOn("re_execute", v, 0)
  BY <1>1
<1>7. NotAgain'
  BY <1>3, <1>5, <1>6, Executes DEF Top
<1> QED
  BY <1>4, <1>7, RecordedLater DEF Steady, Good

LEMMA BufferReleaseSteady ==
  ASSUME NEW at, Good(at), Uncopied, NEW p \in Pixmaps, BufferRelease(p)
  PROVE  Steady
<1>1. stack' = <<>>
  BY DEF BufferRelease, AtEventLoop
<1>2. CASE vb' = vb
  BY <1>1, <1>2, QuietCalls, SameSteady
<1>3. ASSUME NEW v \in Ids,
             \/ vb' = [vb EXCEPT ![v] = [Idled(@) EXCEPT !.evpix = FALSE]]
             \/ vb' = [vb EXCEPT ![v] = Freed(Idled(@))]
      PROVE  Steady
  <2>1. vb[v] \in Vblank
    BY DEF Good, TypeOK
  <2>2. vb'[v] = [Idled(vb[v]) EXCEPT !.evpix = FALSE] \/ vb'[v] = Freed(Idled(vb[v]))
    BY <1>3 DEF Good, TypeOK
  <2>3. Kept(v) \/ Dropped(v)
    BY <2>1, <2>2 DEF Kept, Dropped, Idled, Freed, Blank, Vblank
  <2>4. \A u \in Ids : u # v => vb'[u] = vb[u]
    BY <1>3 DEF Good, TypeOK
  <2>5. \A u \in Ids : Recorded(u)
    BY <2>3, <2>4 DEF Recorded, Kept
  <2> QED
    BY <1>1, <2>5, QuietCalls, SteadyStart
<1>4. \/ vb' = vb
      \/ \E v \in {release_cb[p]} : /\ v # NoId
                      /\ \/ vb' = [vb EXCEPT ![v] = [Idled(@) EXCEPT !.evpix = FALSE]]
                         \/ vb' = [vb EXCEPT ![v] = Freed(Idled(@))]
  BY DEF BufferRelease
<1>5. release_cb[p] \in Ids \cup {NoId}
  BY DEF Good, TypeOK
<1> QED
  BY <1>2, <1>3, <1>4, <1>5

LEMMA CheckFlipWindowSteady ==
  ASSUME NEW at, Good(at), Uncopied, CheckFlipWindow
  PROVE  Steady
<1>1. PICK c : stack' = If(c, <<Call("flips_stop")>>) \o <<Call("drop_flips")>>
  BY DEF CheckFlipWindow
<1>2. Quiet(If(c, <<Call("flips_stop")>>) \o <<Call("drop_flips")>>)
  BY QuietHarmless, QuietCalls, QuietIf, QuietThen DEF WindowFns
<1>3. vb' = vb \/ vb' = [vb EXCEPT ![PendingFlip].abort_flip = TRUE]
  BY DEF CheckFlipWindow
<1>4. ASSUME NEW u \in Ids PROVE Recorded(u)
  <2>1. vb[u] \in Vblank /\ vb'[u] \in {vb[u], [vb[u] EXCEPT !.abort_flip = TRUE]}
    BY <1>3 DEF Good, TypeOK
  <2> QED
    BY <2>1 DEF Recorded, Kept, Vblank
<1> QED
  BY <1>1, <1>2, <1>4, SteadyStart

LEMMA CleanupSteady ==
  ASSUME NEW at, Good(at), Uncopied, Cleanup
  PROVE  Steady
<1>1. stack' = <<>>
  BY DEF Cleanup, AtEventLoop
<1>2. ASSUME NEW u \in Ids PROVE Recorded(u)
  <2>1. vb[u] \in Vblank /\ vb'[u] \in {vb[u], Freed(vb[u])}
    BY DEF Cleanup, Good, TypeOK
  <2>2. Freed(vb[u]).st # "live" /\ Freed(vb[u]).copied = FALSE /\ Freed(vb[u]).done = vb[u].done
    BY <2>1 DEF Freed, Blank, Vblank
  <2> QED
    BY <2>1, <2>2 DEF Recorded, Kept, Dropped
<1> QED
  BY <1>1, <1>2, QuietCalls, SteadyStart

LEMMA DispatchSteady ==
  ASSUME NEW at, Good(at), Uncopied, Dispatch
  PROVE  Steady
<1>1. ASSUME NEW v \in 1 .. setup.requests, NEW a \in setup.attrs, NEW p \in Pixmaps,
             NEW ahead \in 0 .. setup.ahead, Present(v, a, p, ahead)
      PROVE  Steady
  <2>1. setup \in SetupType
    BY PresentAssumption DEF Good, TypeOK
  <2>2. v \in Ids
    BY <2>1, PresentAssumption DEF SetupType, Ids
  <2> QED
    BY <1>1, <2>2, PresentSteady
<1>2. CASE FrameCallback \/ TimerCallback \/ SyncCallback \/ CreateFrameCallback \/ Unrealize
  BY <1>2, EventsSteady
<1>3. ASSUME NEW v \in Ids, AcquireFenceAvail(v) \/ TriggerFence(v) PROVE Steady
  BY <1>3, AcquireFenceAvailSteady, NoFences
<1>4. ASSUME NEW p \in Pixmaps, BufferRelease(p) PROVE Steady
  BY <1>4, BufferReleaseSteady
<1>5. CASE CheckFlipWindow \/ Cleanup
  BY <1>5, CheckFlipWindowSteady, CleanupSteady
<1>6. ASSUME NEW w \in {"ok", "held"}, WindowCommits(w) PROVE Steady
  BY <1>6, WaitingSteady
<1> QED
  BY <1>1, <1>2, <1>3, <1>4, <1>5, <1>6 DEF Dispatch

LEMMA StepsSteady ==
  ASSUME Placed, Uncopied, [Next]_vars
  PROVE  Uncopied' /\ \A v \in Ids : CompletesLater(v)
<1>1. PICK at \in [Ids -> Places] : Good(at)
  BY DEF Placed, Good
<1>2. ASSUME UNCHANGED vars PROVE Steady
  <2>1. vb' = vb /\ stack' = stack
    BY <1>2 DEF vars
  <2>2. NotAgain'
    BY <2>1 DEF Uncopied, NotAgain, Running, Top
  <2> QED
    BY <2>1, <2>2, <1>1, SameKept, RecordedLater DEF Steady, Good
<1>3. Steady
  BY <1>1, <1>2, ReturnsSteady, DispatchSteady, WaitingSteady DEF Next
<1> QED
  BY <1>3 DEF Steady, StillLater, Uncopied

(***************************************************************************)
(* "Synchronous Xwayland presentations always complete (at least) one      *)
(* frame after they are executed": a copy's exec_msc stands from the copy  *)
(* on, through every path that executes the request again, and has been    *)
(* reached when the request completes.                                     *)
(***************************************************************************)
THEOREM CopiesCompleteLater == Spec /\ InTime => CopyCompletesLater
<1>1. Init => Uncopied
  BY DEF Init, Uncopied, NotAgain, Running, Blank
<1>2. Placed /\ Uncopied /\ [Next]_vars => Uncopied'
  BY StepsSteady
<1>3. Placed /\ Uncopied /\ [Next]_vars =>
        [\A v \in Ids : vb[v].copied =>
           IF vb'[v].done > vb[v].done THEN vb[v].due <= 0
           ELSE vb'[v].due = vb[v].due \/ ~Live(v)' \/ Running("msc_bump")]_vars
  BY StepsSteady DEF CompletesLater
<1> QED
  BY <1>1, <1>2, <1>3, RequestsPlaced, PTL DEF Spec, CopyCompletesLater
=============================================================================
