------------------------------ MODULE XwlPresent ------------------------------
(***************************************************************************)
(* Present on one Xwayland window: hw/xwayland/xwayland-present.c with the *)
(* parts of present/ and of hw/xwayland/ that it calls.                    *)
(*                                                                         *)
(* A request is a vblank that moves between the lists of its window: it    *)
(* waits for its MSC in wait_list, for the pending flip in flip_queue, for *)
(* the compositor to release its buffer as flip_active or in idle_queue,   *)
(* and for an acquire fence on no list at all: it is then the window's     *)
(* blocking_event, and later requests pile up in blocked_queue.  Frame     *)
(* callbacks, a fallback timer, wl_display_sync callbacks, buffer releases *)
(* and fence descriptors drive it, each from the server's event loop.      *)
(*                                                                         *)
(* The functions call each other while they walk these lists:              *)
(* xwl_present_execute reaches itself through flips_stop, flip_try_ready,  *)
(* the mailbox, flush_blocked and an overdue timer.  The calls in progress *)
(* are the sequence "stack", its head the innermost: an action runs one    *)
(* function up to its next call and leaves a frame for the rest.           *)
(*                                                                         *)
(* MSCs are relative to the window's: vb[v].due is exec_msc - msc, with -1 *)
(* for every msc that has passed, and a frame's lag is how far the msc its *)
(* function was called with is behind the window's.                        *)
(***************************************************************************)
EXTENDS Integers, Sequences, FiniteSets

CONSTANTS
  MaxRequests,   (* how many requests a client makes at most                   *)
  MaxAhead,      (* how many frames ahead of the window's msc one may target   *)
  Pixmaps,       (* the pixmaps the client presents                            *)
  Setups         (* the surroundings a behaviour may start in, see SetupType   *)

Ids  == 1 .. MaxRequests   \* the event_ids: ++xwl_present_event_id
NoId == 0                  \* NULL, and blocking_event when nothing blocks

\* opt: no async option, PresentOptionAsync or PresentOptionAsyncMayTear.
\* kind: PresentPixmap, the same with PresentOptionCopy, or PresentNotifyMSC.
\* sync: a dri3 syncobj pair (acquire and release), a wait fence, or neither.
AttrType == [opt : {"sync", "async", "tear"}, kind : {"flip", "copy", "notify"},
             sync : {"none", "syncobj", "fence"}, periodic : BOOLEAN]

\* attrs: the arguments the client gives its requests; ahead: how many frames ahead
\* of the window's msc it targets at most.
\* explicit_sync: the compositor has linux-drm-syncobj.
\* held: the xwl_window may withhold commits or go away.
\* reconfigures: the window may stop fitting its pixmaps.
\* overdue: a second may pass before frame_timer fires.
SetupType == [attrs : SUBSET AttrType, requests : 0 .. MaxRequests, ahead : 1 .. MaxAhead,
              explicit_sync : BOOLEAN, held : BOOLEAN, reconfigures : BOOLEAN,
              overdue : BOOLEAN]

ASSUME PresentAssumption ==
  /\ MaxRequests \in Nat /\ MaxAhead \in Nat \ {0}
  /\ Pixmaps # {}
  /\ Setups \subseteq SetupType

VARIABLES
  vb,            (* the vblanks: present_vblank_rec and xwl_present_event      *)
  req, pix,      (* the arguments and the pixmap of each request               *)
  acq,           (* its acquire point or wait fence: "unsub", "sub", "sig"     *)
  wait_list, flip_queue, idle_queue, blocked_queue,
  flip_active, blocking_event, sync_callback,
  hooked,        (* frame_callback_list is linked to the xwl_window's          *)
  frame_callback,(* xwl_window->frame_callback is set                          *)
  entered_for_each,
  frame_timer,   (* NULL: "none"; "set"; "fired": allocated, not set           *)
  timer_armed,   (* "off"; "fresh"; "stale": more than a second ago            *)
  release_cb,    (* the event that each pixmap's release callback names        *)
  held,          (* the pixmaps whose wl_buffer the compositor holds           *)
  window,        (* xwl_window: "ok"; "held" (no commits); "none"; "destroyed" *)
  can_flip,      (* whether xwl_present_check_flip finds that pixmaps fit      *)
  setup,         (* what the client, the compositor and the clock may do       *)
  stack          (* the calls in progress                                      *)

lists == <<wait_list, flip_queue, idle_queue, blocked_queue>>
timer == <<frame_timer, timer_armed>>
links == <<hooked, frame_callback, entered_for_each, sync_callback>>
world == <<req, pix, acq, held, window, can_flip, setup>>
vars  == <<vb, lists, flip_active, blocking_event, links, timer, release_cb, world, stack>>

-----------------------------------------------------------------------------
\* done and idled count the complete and the idle notifications sent (a signal
\* or import into the release point is the idle notification of a syncobj).
\* callback: present_fence_set_callback was called.  handed: the compositor got
\* the release point with the flip and signals it.
Blank == [st |-> "new", due |-> -1, queued |-> FALSE, flip |-> FALSE,
          sync_flip |-> FALSE, abort_flip |-> FALSE, copied |-> FALSE,
          pixmap |-> FALSE, evpix |-> FALSE, efd |-> "none", callback |-> FALSE,
          handed |-> FALSE, done |-> 0, idled |-> 0]
Vblank == [st : {"new", "live", "freed"}, due : -1 .. MaxAhead, queued : BOOLEAN, flip : BOOLEAN,
           sync_flip : BOOLEAN, abort_flip : BOOLEAN, copied : BOOLEAN,
           pixmap : BOOLEAN, evpix : BOOLEAN, efd : {"none", "submitted", "signaled"},
           callback : BOOLEAN, handed : BOOLEAN, done : Nat, idled : Nat]

\* A call in progress: of a function of the window, or of one for a request.
WindowFns == {"reset_timer", "msc_bump", "bump_start", "flips_stop", "flips_stop_free",
              "flip_try_ready", "flush_blocked", "drop_flips", "leave_for_each", "frame_done"}
RequestFns == {"bump_loop", "flip_notify", "re_execute", "execute", "retry", "block",
               "append_flip", "flip_done", "copy", "flush_loop", "trigger"}
Frame == [fn : WindowFns, v : {NoId}, lag : Nat] \cup [fn : RequestFns, v : Ids, lag : Nat]

Call(fn)              == [fn |-> fn, v |-> NoId, lag |-> 0]
CallOn(fn, v, lag)    == [fn |-> fn, v |-> v, lag |-> lag]
Top                   == Head(stack)
Running(fn)           == stack # <<>> /\ Top.fn = fn
\* The innermost call goes on as these frames, or returns if there are none.
Continue(frames)      == stack' = frames \o Tail(stack)
AtEventLoop           == stack = <<>> /\ window # "destroyed"
If(condition, frames) == IF condition THEN frames ELSE <<>>

Has(list, v)     == \E i \in DOMAIN list : list[i] = v
Position(list, v) == CHOOSE i \in DOMAIN list : list[i] = v
\* xorg_list_del; a node on no list is linked to itself.
Without(list, v) ==
  IF Has(list, v)
  THEN SubSeq(list, 1, Position(list, v) - 1) \o SubSeq(list, Position(list, v) + 1, Len(list))
  ELSE list
First(list)      == IF list = <<>> THEN NoId ELSE list[1]
\* The tmp of xorg_list_for_each_entry_safe at v; NoId is the list's head.
After(list, v)   == IF Position(list, v) < Len(list) THEN list[Position(list, v) + 1] ELSE NoId

Live(v)          == vb[v].st = "live"
HasSyncobj(v)    == req[v].sync = "syncobj"
\* exec_msc - crtc_msc, for the crtc_msc of a frame; an exec_msc as a due.
Ahead(v, lag)    == vb[v].due + lag
Due(ahead)       == IF ahead < -1 THEN -1 ELSE ahead

Init ==
  /\ vb = [v \in Ids |-> Blank]
  /\ req = [v \in Ids |-> CHOOSE a \in AttrType : TRUE]
  /\ pix = [v \in Ids |-> NoId]
  /\ acq = [v \in Ids |-> "unsub"]
  /\ wait_list = <<>> /\ flip_queue = <<>> /\ idle_queue = <<>> /\ blocked_queue = <<>>
  /\ flip_active = NoId /\ blocking_event = NoId /\ sync_callback = NoId
  /\ hooked = FALSE /\ frame_callback = FALSE /\ entered_for_each = FALSE
  /\ frame_timer = "none" /\ timer_armed = "off"
  /\ release_cb = [p \in Pixmaps |-> NoId]
  /\ held = {}
  /\ window = "ok" /\ can_flip = TRUE /\ setup \in Setups
  /\ stack = <<>>

-----------------------------------------------------------------------------
(***************************************************************************)
(* What several functions share.                                           *)
(***************************************************************************)
\* xwl_present_get_pending_flip
PendingFlip ==
  IF flip_queue # <<>> /\ ~vb[flip_queue[1]].queued THEN flip_queue[1] ELSE NoId
SyncFlipPending == PendingFlip # NoId /\ vb[PendingFlip].sync_flip

\* xwl_present_has_pending_events
HasPendingEvents == SyncFlipPending \/ wait_list # <<>> \/ blocked_queue # <<>>

\* xwl_present_check_flip, for every pixmap of the window.
CheckFlip(fits) == fits /\ window \in {"ok", "held"}

\* present_execute_wait and xwl_present_wait_acquire_fence_avail: whether v must
\* wait, and the record they leave of it if so.
Requeues(v, lag) == Ahead(v, lag) = 1
Unready(v) ==
  CASE req[v].sync = "fence"   -> acq[v] # "sig"
    [] req[v].sync = "syncobj" -> \/ ~vb[v].flip /\ acq[v] # "sig"
                                  \/ vb[v].flip /\ ~setup.explicit_sync /\ acq[v] = "unsub"
    [] OTHER                   -> FALSE
MustWait(v, lag) == Requeues(v, lag) \/ Unready(v)
Waiting_NoNotifyFd(r, v) == r
Waiting(r, v) == IF HasSyncobj(v)
                 THEN [r EXCEPT !.efd = IF r.flip THEN "submitted" ELSE "signaled"]
                 ELSE [r EXCEPT !.callback = TRUE]

\* xwl_present_free_event and present_vblank_destroy: of the record only what
\* was sent for it is remembered.  xwl_present_free_idle_vblank notifies first.
Freed(r)  == [Blank EXCEPT !.st = "freed", !.handed = r.handed,
                           !.done = r.done, !.idled = r.idled]
Idled(r)  == [r EXCEPT !.idled = @ + 1]
Done(r)   == [r EXCEPT !.done = @ + 1]
\* xwl_present_release_pixmap of the vblanks in S
CbWithout_Never(S) == release_cb
CbWithout_Always(S) == [p \in Pixmaps |->
                          IF \E v \in S : pix[v] = p THEN NoId ELSE release_cb[p]]
CbWithout(S) == [p \in Pixmaps |->
                   IF \E v \in S : vb[v].evpix /\ pix[v] = p THEN NoId ELSE release_cb[p]]

\* xorg_list_del(&vblank->event_queue), whichever list that links it to.
Unlink(v) ==
  /\ wait_list'  = Without(wait_list, v)
  /\ flip_queue' = Without(flip_queue, v)
  /\ idle_queue' = Without(idle_queue, v)
\* A window with an xwl_window listens to its frame callbacks from here on.
HooksUp_Always == TRUE
HooksUp == hooked \/ window \in {"ok", "held"}
\* xwl_present_queue_vblank with the record rec: its lists, then its call.
QueueVblank(v, rec) ==
  /\ vb' = [vb EXCEPT ![v] = rec]
  /\ wait_list' = Append(Without(wait_list, v), v)
  /\ flip_queue' = Without(flip_queue, v)
  /\ idle_queue' = Without(idle_queue, v)
  /\ hooked' = HooksUp
QueueResets_FrameOnly == If(frame_callback, <<Call("reset_timer")>>)
QueueResets ==
  If(frame_callback \/ frame_timer = "none", <<Call("reset_timer")>>)

Wait(v, lag) ==
  IF Requeues(v, lag)
  THEN QueueVblank(v, vb[v]) /\ Continue(QueueResets \o <<CallOn("block", v, lag)>>)
  ELSE /\ vb' = [vb EXCEPT ![v] = Waiting(@, v)]
       /\ Continue(<<CallOn("block", v, lag)>>)
       /\ UNCHANGED <<wait_list, flip_queue, idle_queue, hooked>>

\* How far present_get_target_msc may put the target of a request that names no
\* msc (or one that has passed), and what xwl_present_get_exec_msc makes of it.
TargetAhead(a) ==
  LET soonest == IF a.opt = "sync" THEN 1 ELSE 0
  IN IF a.periodic THEN soonest .. setup.ahead ELSE {soonest}
ExecDue_Later(a, ahead) == IF a.opt = "tear" THEN ahead ELSE ahead + 1
ExecDue(a, ahead) == IF a.opt = "tear" THEN ahead ELSE ahead - 1

-----------------------------------------------------------------------------
(***************************************************************************)
(* The functions of xwayland-present.c.                                    *)
(***************************************************************************)
\* xwl_present_reset_timer calls the callback of an overdue timer itself.
ResetTimer ==
  /\ Running("reset_timer")
  /\ IF ~HasPendingEvents
     THEN /\ frame_timer' = "none" /\ timer_armed' = "off"
          /\ Continue(<<>>) /\ UNCHANGED hooked
     ELSE IF timer_armed = "stale"
     THEN /\ hooked' = FALSE
          /\ Continue(<<Call("msc_bump"), Call("reset_timer")>>)
          /\ UNCHANGED timer
     ELSE /\ frame_timer' = "set" /\ timer_armed' = "fresh"
          /\ Continue(<<>>) /\ UNCHANGED hooked
  /\ UNCHANGED <<vb, lists, flip_active, blocking_event, frame_callback,
                 entered_for_each, sync_callback, release_cb, world>>

\* xwl_present_msc_bump: the msc moves on, under the calls in progress too.
Sooner(r) == [r EXCEPT !.due = Due(@ - 1)]
Later(s)  == [i \in DOMAIN s |-> [s[i] EXCEPT !.lag = @ + 1]]
Disarmed == "off"
MscBump ==
  /\ Running("msc_bump")
  /\ vb' = [v \in Ids |-> Sooner(vb[v])]
  /\ timer_armed' = Disarmed
  /\ stack' = If(SyncFlipPending, <<CallOn("flip_notify", PendingFlip, 0)>>)
              \o <<Call("bump_start")>> \o Later(Tail(stack))
  /\ UNCHANGED <<lists, flip_active, blocking_event, links, frame_timer, release_cb, world>>

\* Its walk of wait_list, which a nested call may have changed: the walk goes on
\* from v only if v is still there (IteratorsValid says that it is).
Reached(v, lag) == Ahead(v, lag) <= 0
BumpStart ==
  /\ Running("bump_start")
  /\ Continue(If(wait_list # <<>>, <<CallOn("bump_loop", First(wait_list), Top.lag)>>))
  /\ UNCHANGED <<vb, lists, flip_active, blocking_event, links, timer, release_cb, world>>
BumpLoop ==
  /\ Running("bump_loop") /\ Has(wait_list, Top.v)
  /\ LET v   == Top.v
         tmp == After(wait_list, v)
     IN Continue(If(Reached(v, Top.lag), <<CallOn("execute", v, Top.lag)>>)
                 \o If(tmp # NoId, <<CallOn("bump_loop", tmp, Top.lag)>>))
  /\ UNCHANGED <<vb, lists, flip_active, blocking_event, links, timer, release_cb, world>>

\* xwl_present_flip_notify_vblank.  It asks the new flip, not the old one,
\* whether no release of the old one's buffer will come.
Released(old, new) == ~vb[old].evpix \/ (setup.explicit_sync /\ HasSyncobj(new))
FlipNotify ==
  /\ Running("flip_notify")
  /\ LET v    == Top.v
         old  == flip_active
         free == old # NoId /\ Released(old, v)
     IN /\ flip_queue' = Without(flip_queue, v)
        /\ flip_active' = v
        /\ vb' = [u \in Ids |-> IF u = v THEN Done(vb[v])
                                ELSE IF free /\ u = old THEN Freed(vb[u]) ELSE vb[u]]
        /\ release_cb' = IF free THEN CbWithout({old}) ELSE release_cb
        /\ idle_queue' = IF old # NoId /\ ~free THEN Append(idle_queue, old) ELSE idle_queue
        /\ Continue(If(vb[v].abort_flip, <<Call("flips_stop")>>)
                    \o <<Call("flip_try_ready")>>)
  /\ UNCHANGED <<wait_list, blocked_queue, blocking_event, links, timer, world>>

\* xwl_present_flips_stop
FlipsStop ==
  /\ Running("flips_stop")
  /\ Continue(<<Call("reset_timer"), Call("flips_stop_free"), Call("flip_try_ready")>>)
  /\ UNCHANGED <<vb, lists, flip_active, blocking_event, links, timer, release_cb, world>>
NotIdleYet_All(v) == TRUE
NotIdleYet(v) == vb[v].evpix
FlipsStopFree ==
  /\ Running("flips_stop_free")
  /\ LET idle == {v \in Ids : Has(idle_queue, v) \/ (v = flip_active /\ NotIdleYet(v))}
         all  == idle \cup ({flip_active} \ {NoId})
     IN /\ vb' = [v \in Ids |-> IF v \in idle THEN Freed(Idled(vb[v]))
                                ELSE IF v \in all THEN Freed(vb[v]) ELSE vb[v]]
        /\ release_cb' = CbWithout(all)
  /\ idle_queue' = <<>> /\ flip_active' = NoId
  /\ Continue(<<>>)
  /\ UNCHANGED <<wait_list, flip_queue, blocked_queue, blocking_event, links, timer, world>>

\* xwl_present_flip_try_ready
\* The flip at i is the first of the queue that waits for the flip before it.
FirstQueued(i) ==
  vb[flip_queue[i]].queued /\ \A j \in 1 .. i - 1 : ~vb[flip_queue[j]].queued
FlipTryReady ==
  /\ Running("flip_try_ready")
  /\ \/ \E i \in DOMAIN flip_queue :
          FirstQueued(i) /\ Continue(<<CallOn("re_execute", flip_queue[i], 0)>>)
     \/ (\A i \in DOMAIN flip_queue : ~FirstQueued(i)) /\ Continue(<<>>)
  /\ UNCHANGED <<vb, lists, flip_active, blocking_event, links, timer, release_cb, world>>

\* xwl_present_re_execute
ReExecute ==
  /\ Running("re_execute")
  /\ \E ahead \in TargetAhead(req[Top.v]) :
       LET v   == Top.v
           rec == [vb[v] EXCEPT !.due = ExecDue(req[v], ahead), !.queued = TRUE]
       IN IF rec.due > 0
          THEN /\ QueueVblank(v, rec)
               /\ Continue(QueueResets)
          ELSE /\ vb' = [vb EXCEPT ![v] = rec]
               /\ Continue(<<CallOn("execute", v, 0)>>)
               /\ UNCHANGED <<wait_list, flip_queue, idle_queue, hooked>>
  /\ UNCHANGED <<blocked_queue, flip_active, blocking_event, frame_callback,
                 entered_for_each, sync_callback, timer, release_cb, world>>

\* xwl_present_execute up to its retry label: an earlier request may block it.
Presents_Again(v) == vb[v].pixmap
Presents(v) == vb[v].pixmap /\ ~vb[v].copied
Blocked(v)  == Presents(v) /\ blocking_event \notin {NoId, v}
Execute ==
  /\ Running("execute")
  /\ LET v == Top.v
     IN /\ Unlink(v)
        /\ blocked_queue' = IF Blocked(v) THEN Append(blocked_queue, v) ELSE blocked_queue
        /\ Continue(If(~Blocked(v), <<CallOn("retry", v, Top.lag)>>))
  /\ UNCHANGED <<vb, flip_active, blocking_event, links, timer, release_cb, world>>

\* From retry on, one action for each way out.  Its branches:
Queues_BehindSync(v) == SyncFlipPending /\ vb[v].flip /\ vb[v].pixmap
Queues(v)   == PendingFlip # NoId /\ vb[v].flip /\ vb[v].pixmap
Retrying(v) == Running("retry") /\ Top.v = v
Ready(v)    == Retrying(v) /\ ~MustWait(v, Top.lag)
Started(r)  == [r EXCEPT !.queued = FALSE]

RetryWait(v) ==
  /\ Retrying(v) /\ MustWait(v, Top.lag)
  /\ Wait(v, Top.lag)
  /\ UNCHANGED <<blocked_queue, flip_active, blocking_event, frame_callback,
                 entered_for_each, sync_callback, timer, release_cb, world>>
Block ==
  /\ Running("block")
  /\ blocking_event' = IF vb[Top.v].pixmap THEN Top.v ELSE blocking_event
  /\ Continue(<<>>)
  /\ UNCHANGED <<vb, lists, flip_active, links, timer, release_cb, world>>

\* A flip is pending: queue this one, in place of the last one queued if that is
\* synchronous or this one brings its own fence (the mailbox).
RetryQueueFlip(v) ==
  /\ Ready(v) /\ Queues(v)
  /\ LET last    == flip_queue[Len(flip_queue)]
         mailbox == last # PendingFlip /\ (vb[last].sync_flip \/ HasSyncobj(v))
     IN /\ flip_queue' = IF mailbox THEN Without(flip_queue, last) ELSE flip_queue
        /\ vb' = IF mailbox
                 THEN [vb EXCEPT ![last] = [Idled(@) EXCEPT !.pixmap = FALSE, !.flip = FALSE]]
                 ELSE vb
        /\ Continue(If(mailbox, <<CallOn("re_execute", last, 0)>>)
                    \o <<CallOn("append_flip", v, Top.lag)>>)
  /\ UNCHANGED <<wait_list, idle_queue, blocked_queue, flip_active, blocking_event, links,
                 timer, release_cb, world>>
AppendFlip ==
  /\ Running("append_flip")
  /\ flip_queue' = Append(flip_queue, Top.v)
  /\ Continue(<<>>)
  /\ UNCHANGED <<vb, wait_list, idle_queue, blocked_queue, flip_active, blocking_event,
                 links, timer, release_cb, world>>

\* xwl_present_flip attaches and commits the buffer, and asks for a frame
\* callback if none is pending (xwl_window_create_frame_callback).
CallbackResets == ~frame_callback /\ ~entered_for_each
RetryFlip(v) ==
  /\ Ready(v) /\ ~Queues(v) /\ Presents(v) /\ vb[v].flip /\ window = "ok"
  /\ LET explicit == setup.explicit_sync /\ HasSyncobj(v)
         resets   == CallbackResets
     IN /\ vb' = [vb EXCEPT ![v] = [Started(@) EXCEPT !.evpix = TRUE, !.handed = explicit]]
        /\ release_cb' = IF explicit THEN release_cb ELSE [release_cb EXCEPT ![pix[v]] = v]
        /\ held' = IF explicit THEN held ELSE held \cup {pix[v]}
        /\ entered_for_each' = (entered_for_each \/ resets)
        /\ Continue(If(resets, <<Call("reset_timer"), Call("leave_for_each")>>)
                    \o <<CallOn("flip_done", v, Top.lag)>>)
  /\ hooked' = TRUE /\ frame_callback' = TRUE
  /\ UNCHANGED <<lists, flip_active, blocking_event, sync_callback, timer,
                 req, pix, acq, window, can_flip, setup>>
WithPending_AtTail(v) == Append(flip_queue, v)
WithPending(v) == <<v>> \o flip_queue
FlipDone ==
  /\ Running("flip_done")
  /\ LET v == Top.v
     IN /\ sync_callback' = IF vb[v].sync_flip THEN sync_callback ELSE v
        /\ flip_queue' = WithPending(v)
        /\ Continue(<<Call("reset_timer"), CallOn("flush_blocked", NoId, Top.lag)>>)
  /\ UNCHANGED <<vb, wait_list, idle_queue, blocked_queue, flip_active, blocking_event,
                 hooked, frame_callback, entered_for_each, timer, release_cb, world>>
RetryFlipFails(v) ==
  /\ Ready(v) /\ ~Queues(v) /\ Presents(v) /\ vb[v].flip /\ window # "ok"
  /\ vb' = [vb EXCEPT ![v] = [Started(@) EXCEPT !.flip = FALSE]]
  /\ Continue(<<CallOn("retry", v, Top.lag)>>)
  /\ UNCHANGED <<lists, flip_active, blocking_event, links, timer, release_cb, world>>

\* The copy goes to the window's own pixmap: stop flipping first.
RetryCopy(v) ==
  /\ Ready(v) /\ Presents(v) /\ ~vb[v].flip
  /\ vb' = [u \in Ids |-> IF u = v THEN Started(vb[u])
                          ELSE IF u = PendingFlip THEN [vb[u] EXCEPT !.abort_flip = TRUE]
                          ELSE vb[u]]
  /\ Continue(If(PendingFlip = NoId /\ flip_active # NoId, <<Call("flips_stop")>>)
              \o <<CallOn("copy", v, Top.lag)>>)
  /\ UNCHANGED <<lists, flip_active, blocking_event, links, timer, release_cb, world>>
\* present_execute_copy, then the wait for the frame that completes it.
Copy ==
  /\ Running("copy")
  /\ LET v   == Top.v
         now == ~Requeues(v, Top.lag)
     IN QueueVblank(v, [vb[v] EXCEPT !.idled = IF now THEN @ + 1 ELSE @, !.queued = ~now,
                                     !.copied = TRUE, !.due = Due(1 - Top.lag)])
  /\ Continue(QueueResets \o <<CallOn("flush_blocked", NoId, Top.lag)>>)
  /\ UNCHANGED <<blocked_queue, flip_active, blocking_event, frame_callback,
                 entered_for_each, sync_callback, timer, release_cb, world>>

\* present_execute_post
RetryPost(v) ==
  /\ Ready(v) /\ ~Queues(v) /\ ~Presents(v)
  /\ vb' = [vb EXCEPT ![v] = Freed(Done(@))]
  /\ Continue(<<>>)
  /\ UNCHANGED <<lists, flip_active, blocking_event, links, timer, release_cb, world>>

\* xwl_present_flush_blocked, and its walk of blocked_queue.
Unblocked == NoId
FlushBlocked ==
  /\ Running("flush_blocked")
  /\ blocking_event' = Unblocked
  /\ Continue(If(blocking_event # NoId /\ blocked_queue # <<>>,
                 <<CallOn("flush_loop", First(blocked_queue), Top.lag)>>))
  /\ UNCHANGED <<vb, lists, flip_active, links, timer, release_cb, world>>
FlushLoop ==
  /\ Running("flush_loop") /\ Has(blocked_queue, Top.v)
  /\ LET v   == Top.v
         tmp == After(blocked_queue, v)
     IN /\ blocked_queue' = Without(blocked_queue, v)
        /\ IF MustWait(v, Top.lag)
           THEN Wait(v, Top.lag)
           ELSE /\ Continue(<<CallOn("re_execute", v, 0)>>
                            \o If(tmp # NoId, <<CallOn("flush_loop", tmp, Top.lag)>>))
                /\ UNCHANGED <<vb, wait_list, flip_queue, idle_queue, hooked>>
  /\ UNCHANGED <<flip_active, blocking_event, frame_callback, entered_for_each,
                 sync_callback, timer, release_cb, world>>

\* xwl_present_check_flip_window's last loop.
DropFlips ==
  /\ Running("drop_flips")
  /\ vb' = [v \in Ids |-> IF vb[v].queued /\ vb[v].flip /\ ~CheckFlip(can_flip)
                          THEN [vb[v] EXCEPT !.flip = FALSE] ELSE vb[v]]
  /\ Continue(<<>>)
  /\ UNCHANGED <<lists, flip_active, blocking_event, links, timer, release_cb, world>>

\* The end of xwl_present_for_each_frame_callback, and of frame_callback, which
\* resets the timers if the frame's requests asked for another callback.
LeaveForEach ==
  /\ Running("leave_for_each")
  /\ entered_for_each' = FALSE
  /\ Continue(<<>>)
  /\ UNCHANGED <<vb, lists, flip_active, blocking_event, hooked, frame_callback,
                 sync_callback, timer, release_cb, world>>
FrameDone ==
  /\ Running("frame_done")
  /\ entered_for_each' = (frame_callback /\ hooked)
  /\ Continue(If(frame_callback /\ hooked, <<Call("reset_timer"), Call("leave_for_each")>>))
  /\ UNCHANGED <<vb, lists, flip_active, blocking_event, hooked, frame_callback,
                 sync_callback, timer, release_cb, world>>

\* miSyncTriggerFence fires triggers as long as one wants to fire; the one of a
\* vblank does once present_fence_set_callback was called, until it is destroyed.
Trigger ==
  /\ Running("trigger")
  /\ Continue(If(vb[Top.v].callback, <<CallOn("re_execute", Top.v, 0), Top>>))
  /\ UNCHANGED <<vb, lists, flip_active, blocking_event, links, timer, release_cb, world>>

-----------------------------------------------------------------------------
(***************************************************************************)
(* What the event loop dispatches: requests, timers, Wayland events, fds.  *)
(***************************************************************************)
\* How far the GPU may be with the work before an acquire point; only without
\* explicit sync does the server ask whether it has been submitted.
PointStates == IF setup.explicit_sync THEN {"sub", "sig"} ELSE {"unsub", "sub", "sig"}
\* PresentPixmap and PresentNotifyMSC, for a target that many frames ahead; the
\* client does not present a pixmap again before it is idle.
Present(v, a, p, ahead) ==
  /\ AtEventLoop
  /\ \A u \in Ids : u < v <=> vb[u].st # "new"
  /\ \A u \in Ids : Live(u) /\ pix[u] = p => vb[u].idled > 0 \/ vb[u].handed
  /\ req' = [req EXCEPT ![v] = a]
  /\ pix' = [pix EXCEPT ![v] = IF a.kind = "notify" THEN NoId ELSE p]
  /\ \E s \in IF a.sync = "syncobj" THEN PointStates ELSE {"unsub"} : acq' = [acq EXCEPT ![v] = s]
  /\ LET flip == a.kind = "flip" /\ CheckFlip(can_flip)
         rec  == [Blank EXCEPT !.st = "live", !.due = ExecDue(a, ahead), !.queued = TRUE,
                               !.flip = flip, !.sync_flip = flip /\ ahead > 0,
                               !.pixmap = a.kind # "notify"]
     IN IF rec.due > 0
        THEN /\ QueueVblank(v, rec)
             /\ stack' = QueueResets
        ELSE /\ vb' = [vb EXCEPT ![v] = rec]
             /\ stack' = <<CallOn("execute", v, 0)>>
             /\ UNCHANGED <<wait_list, flip_queue, idle_queue, hooked>>
  /\ UNCHANGED <<blocked_queue, flip_active, blocking_event, frame_callback,
                 entered_for_each, sync_callback, timer, release_cb, held, window, can_flip,
                 setup>>

\* frame_callback of xwayland-window.c, with xwl_present_frame_callback.
FrameCallback ==
  /\ AtEventLoop /\ frame_callback
  /\ frame_callback' = FALSE /\ hooked' = FALSE
  /\ entered_for_each' = hooked
  /\ stack' = If(hooked, <<Call("msc_bump"), Call("reset_timer"), Call("leave_for_each"),
                           Call("frame_done")>>)
  /\ UNCHANGED <<vb, lists, flip_active, blocking_event, sync_callback, timer, release_cb, world>>

\* xwl_present_timer_callback
TimerCallback ==
  /\ AtEventLoop /\ frame_timer = "set"
  /\ frame_timer' = "fired" /\ hooked' = FALSE
  /\ stack' = <<Call("msc_bump"), Call("reset_timer")>>
  /\ UNCHANGED <<vb, lists, flip_active, blocking_event, frame_callback, entered_for_each,
                 sync_callback, timer_armed, release_cb, world>>

\* xwl_present_sync_callback
SyncCallback ==
  /\ AtEventLoop /\ sync_callback # NoId
  /\ sync_callback' = NoId
  /\ stack' = <<CallOn("flip_notify", sync_callback, 0)>>
  /\ UNCHANGED <<vb, lists, flip_active, blocking_event, hooked, frame_callback,
                 entered_for_each, timer, release_cb, world>>

\* xwl_present_acquire_fence_avail and present_syncobj_triggered
AcquireFenceAvail(v) ==
  /\ AtEventLoop
  /\ \/ vb[v].efd = "submitted" /\ acq[v] # "unsub"
     \/ vb[v].efd = "signaled" /\ acq[v] = "sig"
  /\ vb' = [vb EXCEPT ![v].efd = "none"]
  /\ stack' = <<CallOn("re_execute", v, 0)>>
  /\ UNCHANGED <<lists, flip_active, blocking_event, links, timer, release_cb, world>>

\* The client's TriggerFence request: miSyncTriggerFence.
TriggerFence(v) ==
  /\ AtEventLoop
  /\ Live(v) /\ req[v].sync = "fence" /\ acq[v] # "sig"
  /\ acq' = [acq EXCEPT ![v] = "sig"]
  /\ stack' = <<CallOn("trigger", v, 0)>>
  /\ UNCHANGED <<vb, lists, flip_active, blocking_event, links, timer, release_cb,
                 req, pix, held, window, can_flip, setup>>

\* xwl_pixmap_buffer_release_cb, xwl_present_buffer_release
BufferRelease(p) ==
  /\ AtEventLoop /\ p \in held
  /\ held' = held \ {p}
  /\ LET v     == release_cb[p]
         inUse == v # NoId /\ v \in {flip_active, PendingFlip}
     IN IF v = NoId
        THEN UNCHANGED <<vb, wait_list, flip_queue, idle_queue, release_cb>>
        ELSE /\ vb' = [vb EXCEPT ![v] = IF inUse THEN [Idled(@) EXCEPT !.evpix = FALSE]
                                                 ELSE Freed(Idled(@))]
             /\ release_cb' = CbWithout({v})
             /\ IF inUse THEN UNCHANGED <<wait_list, flip_queue, idle_queue>> ELSE Unlink(v)
  /\ UNCHANGED <<blocked_queue, flip_active, blocking_event, links, timer,
                 req, pix, acq, window, can_flip, setup, stack>>

\* xwl_present_check_flip_window, after the window was reconfigured.
CheckFlipWindow ==
  /\ AtEventLoop /\ setup.reconfigures
  /\ can_flip' = ~can_flip
  /\ vb' = IF PendingFlip # NoId /\ ~CheckFlip(can_flip') THEN [vb EXCEPT ![PendingFlip].abort_flip = TRUE]
                                                ELSE vb
  /\ stack' = If(PendingFlip = NoId /\ flip_active # NoId /\ ~CheckFlip(can_flip'), <<Call("flips_stop")>>)
              \o <<Call("drop_flips")>>
  /\ UNCHANGED <<lists, flip_active, blocking_event, links, timer, release_cb,
                 req, pix, acq, held, window, setup>>

\* A frame callback asked for by a commit of the window's own buffer.
CreateFrameCallback ==
  /\ AtEventLoop /\ window = "ok" /\ ~frame_callback
  /\ frame_callback' = TRUE
  /\ entered_for_each' = hooked
  /\ stack' = If(hooked, <<Call("reset_timer"), Call("leave_for_each")>>)
  /\ UNCHANGED <<vb, lists, flip_active, blocking_event, hooked, sync_callback, timer,
                 release_cb, world>>

\* xwl_window_dispose, with xwl_present_unrealize_window for a hooked window.
Unrealize ==
  /\ AtEventLoop /\ setup.held /\ window \in {"ok", "held"}
  /\ window' = "none" /\ frame_callback' = FALSE /\ hooked' = FALSE
  /\ entered_for_each' = hooked
  /\ timer_armed' = IF hooked THEN "off" ELSE timer_armed
  /\ stack' = If(hooked, <<Call("reset_timer"), Call("leave_for_each")>>)
  /\ UNCHANGED <<vb, lists, flip_active, blocking_event, sync_callback, frame_timer,
                 release_cb, req, pix, acq, held, can_flip, setup>>
\* A new xwl_window, or the window manager allowing or withholding commits.
WindowCommits(w) ==
  /\ AtEventLoop /\ setup.held /\ w # window
  /\ window' = w
  /\ UNCHANGED <<vb, lists, flip_active, blocking_event, links, timer, release_cb,
                 req, pix, acq, held, can_flip, setup, stack>>

\* xwl_present_cleanup, when the window is destroyed.
Cleanup ==
  /\ AtEventLoop
  /\ vb' = [v \in Ids |-> IF Live(v) THEN Freed(vb[v]) ELSE vb[v]]
  /\ release_cb' = CbWithout({v \in Ids : Live(v)})
  /\ wait_list' = <<>> /\ flip_queue' = <<>> /\ idle_queue' = <<>> /\ blocked_queue' = <<>>
  /\ flip_active' = NoId /\ blocking_event' = NoId /\ sync_callback' = NoId
  /\ hooked' = FALSE /\ frame_callback' = FALSE
  /\ frame_timer' = "none" /\ timer_armed' = "off"
  /\ window' = "destroyed"
  /\ UNCHANGED <<entered_for_each, req, pix, acq, held, can_flip, setup, stack>>

-----------------------------------------------------------------------------
(***************************************************************************)
(* The GPU and the clock.                                                  *)
(***************************************************************************)
AcquireProgress(v) ==
  /\ AtEventLoop /\ Live(v) /\ HasSyncobj(v) /\ acq[v] # "sig"
  /\ acq' = [acq EXCEPT ![v] = IF @ = "unsub" THEN "sub" ELSE "sig"]
  /\ UNCHANGED <<vb, lists, flip_active, blocking_event, links, timer, release_cb,
                 req, pix, held, window, can_flip, setup, stack>>
TimePasses ==
  /\ AtEventLoop /\ setup.overdue /\ timer_armed = "fresh"
  /\ timer_armed' = "stale"
  /\ UNCHANGED <<vb, lists, flip_active, blocking_event, links, frame_timer, release_cb,
                 world, stack>>

-----------------------------------------------------------------------------
\* The call in progress runs on: there is at most one way it can.
Returns ==
  \/ ResetTimer \/ MscBump \/ BumpStart \/ BumpLoop \/ FlipNotify
  \/ FlipsStop \/ FlipsStopFree \/ FlipTryReady \/ ReExecute \/ Execute
  \/ \E v \in Ids : \/ RetryWait(v) \/ RetryQueueFlip(v) \/ RetryFlip(v)
                    \/ RetryFlipFails(v) \/ RetryCopy(v) \/ RetryPost(v)
  \/ Block \/ AppendFlip \/ FlipDone \/ Copy \/ FlushBlocked \/ FlushLoop
  \/ DropFlips \/ LeaveForEach \/ FrameDone \/ Trigger
Dispatch ==
  \/ \E v \in 1 .. setup.requests, a \in setup.attrs, p \in Pixmaps, ahead \in 0 .. setup.ahead :
       (a.opt = "sync" => ahead > 0) /\ Present(v, a, p, ahead)
  \/ FrameCallback \/ TimerCallback \/ SyncCallback
  \/ \E v \in Ids : AcquireFenceAvail(v) \/ TriggerFence(v)
  \/ \E p \in Pixmaps : BufferRelease(p)
  \/ CheckFlipWindow \/ CreateFrameCallback \/ Unrealize \/ Cleanup
  \/ \E w \in {"ok", "held"} : WindowCommits(w)
Environment ==
  \/ \E v \in Ids : AcquireProgress(v)
  \/ TimePasses
Next == Returns \/ Dispatch \/ Environment

Spec == Init /\ [][Next]_vars

\* A call in progress runs on.  Back at the event loop, a timer that is set again
\* and again fires (timer_armed sees to it), an answer of the compositor and a
\* readable descriptor are dispatched, and a fence that is waited for signals.
Fairness ==
  /\ WF_vars(Returns)
  /\ SF_vars(TimerCallback) /\ SF_vars(SyncCallback)
  /\ \A v \in Ids : SF_vars(AcquireProgress(v)) /\ SF_vars(AcquireFenceAvail(v))
FairSpec == Spec /\ Fairness

-----------------------------------------------------------------------------
TypeOK ==
  /\ vb \in [Ids -> Vblank] /\ req \in [Ids -> AttrType]
  /\ pix \in [Ids -> Pixmaps \cup {NoId}] /\ acq \in [Ids -> {"unsub", "sub", "sig"}]
  /\ wait_list \in Seq(Ids) /\ flip_queue \in Seq(Ids)
  /\ idle_queue \in Seq(Ids) /\ blocked_queue \in Seq(Ids)
  /\ flip_active \in Ids \cup {NoId} /\ blocking_event \in Ids \cup {NoId}
  /\ sync_callback \in Ids \cup {NoId}
  /\ hooked \in BOOLEAN /\ frame_callback \in BOOLEAN /\ entered_for_each \in BOOLEAN
  /\ frame_timer \in {"none", "set", "fired"} /\ timer_armed \in {"off", "fresh", "stale"}
  /\ release_cb \in [Pixmaps -> Ids \cup {NoId}] /\ held \in SUBSET Pixmaps
  /\ window \in {"ok", "held", "none", "destroyed"} /\ can_flip \in BOOLEAN
  /\ setup \in Setups
  /\ stack \in Seq(Frame)

Elements(list) == {list[i] : i \in DOMAIN list}
Linked == Elements(wait_list) \cup Elements(flip_queue) \cup Elements(idle_queue)
          \cup Elements(blocked_queue)
WaitsForFence(v) == vb[v].efd # "none" \/ (vb[v].callback /\ acq[v] # "sig")
BlockerWaits == blocking_event # NoId /\ Live(blocking_event) /\ WaitsForFence(blocking_event)

\* No freed vblank is reached again: from a list, as the flip on the screen, from
\* a sync callback, from a buffer's release callback or by a call in progress.  The
\* walks of wait_list and blocked_queue save the next node before a body that
\* executes requests: that node is still on the list when the walk gets to it.
NoDangling ==
  /\ \A v \in Linked \cup ({flip_active, sync_callback} \ {NoId}) : Live(v)
  /\ \A p \in Pixmaps : release_cb[p] # NoId => Live(release_cb[p])
  /\ \A i \in DOMAIN stack :
       stack[i].v # NoId /\ stack[i].fn # "trigger" => Live(stack[i].v)
  /\ Running("bump_loop") => Has(wait_list, Top.v)
  /\ Running("flush_loop") => Has(blocked_queue, Top.v)

\* One flip is with the compositor at a time: those behind it are still queued.
OneFlipPending == \A i \in DOMAIN flip_queue : i > 1 => vb[flip_queue[i]].queued
\* An asynchronous flip that is pending has the sync callback that completes it,
\* and a sync callback has such a flip.
SyncCallbackIsPending ==
  sync_callback = IF PendingFlip # NoId /\ ~vb[PendingFlip].sync_flip THEN PendingFlip ELSE NoId
\* Flips take turns with the compositor, and the one whose turn it is completes.
FlipsInTurn == OneFlipPending /\ (stack = <<>> => SyncCallbackIsPending)

\* What the code asserts.  xwl_present_flip_notify_vblank: a flip that completes
\* is the head of flip_queue.  xwl_present_execute: a request that is copied has
\* been taken off the queue and present_execute_copy does not put it back.  The
\* FatalError of xwl_present_for_each_frame_callback: it is never nested.
NotifyIsHead  == Running("flip_notify") => First(flip_queue) = Top.v
CopyNotQueued == Running("copy") => ~vb[Top.v].queued /\ ~Requeues(Top.v, Top.lag)
OneForEach ==
  \A i, j \in DOMAIN stack :
    stack[i].fn = "leave_for_each" /\ stack[j].fn = "leave_for_each" => i = j
AssertionsHold == NotifyIsHead /\ CopyNotQueued /\ OneForEach

\* A vblank has one event_queue and one blocked node: it is on one list, once,
\* and not also the flip on the screen.  And a request the server still owes an
\* answer can be found: it is on a list, on the screen, or an fd or a fence will
\* call for it; and whoever blocks the others will run flush_blocked: it waits
\* for a fence, for its turn to flip, or for its msc once more.  And whatever waits
\* for a frame has the timer running, in case none comes.
LinkedOnce ==
  /\ Cardinality(Linked) = Len(wait_list) + Len(flip_queue) + Len(idle_queue) + Len(blocked_queue)
  /\ flip_active \notin Linked
NoOrphan == \A v \in Ids : Live(v) => v \in Linked \cup {flip_active} \/ WaitsForFence(v)
BlockerSettles ==
  blocking_event # NoId \/ blocked_queue # <<>> =>
    \/ BlockerWaits
    \/ Has(flip_queue, blocking_event) /\ vb[blocking_event].queued
    \/ Has(wait_list, blocking_event)
TimerSet ==
  AtEventLoop /\ (SyncFlipPending \/ wait_list # <<>>) => frame_timer = "set"
AccountedFor == LinkedOnce /\ TimerSet /\ (stack = <<>> => NoOrphan /\ BlockerSettles)

\* Frame callbacks are only listened to while there is an xwl_window to send them.
HookedHasWindow == hooked \/ frame_callback => window \in {"ok", "held"}

\* A request completes once, and the server calls its pixmap idle once.
ReportedOnce == \A v \in Ids : vb[v].done <= 1 /\ vb[v].idled <= 1

\* A request is only forgotten when it has completed and its pixmap is idle, or
\* the compositor will signal its release point; a destroyed window's are dropped.
FreedWasReported ==
  \A v \in Ids : vb[v].st = "freed" /\ window # "destroyed" =>
    /\ vb[v].done = 1
    /\ req[v].kind # "notify" => vb[v].idled = 1 \/ vb[v].handed

\* "Put the previous flip in the idle_queue and wait for further notice from the
\* Wayland compositor": notice will come, the release callback is this flip's.
IdleAwaitsRelease ==
  \A v \in Elements(idle_queue) \cup ({flip_active} \ {NoId}) :
    vb[v].evpix /\ ~vb[v].handed => release_cb[pix[v]] = v /\ pix[v] \in held

\* "Synchronous Xwayland presentations always complete (at least) one frame after
\* they are executed": a copy's exec_msc stands, and is reached before it is posted.
CopyCompletesLater ==
  [][\A v \in Ids : vb[v].copied =>
       IF vb'[v].done > vb[v].done THEN vb[v].due <= 0
       ELSE vb'[v].due = vb[v].due \/ ~Live(v)' \/ Running("msc_bump")]_vars

\* Every request completes, unless the window is destroyed first.
Completes == \A v \in Ids : Live(v) ~> vb[v].done = 1 \/ vb[v].st = "freed"
=============================================================================
