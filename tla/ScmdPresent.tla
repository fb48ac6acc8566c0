----------------------------- MODULE ScmdPresent -----------------------------
(***************************************************************************)
(* Present on a screen that flips (present/present_scmd.c), over the       *)
(* modesetting driver (hw/xfree86/drivers/modesetting/present.c).          *)
(*                                                                         *)
(* A request waits in the exec queue for its vblank or its fence.  Then it *)
(* is copied, or it is flipped: its pixmap becomes the screen's and the    *)
(* windows', until the next flip, or an unflip, replaces it.  One flip or  *)
(* unflip is with the driver at a time; flips that are ready meanwhile     *)
(* wait in the flip queue.  With TearFree a copy completes when the driver *)
(* has flipped it itself: a fake flip.                                     *)
(*                                                                         *)
(* The server is one thread; stack is what it has yet to do, innermost     *)
(* first: the driver may report an unflip, or handle other events, before  *)
(* it returns.  A request has a pixmap of its own, named like the request. *)
(* There is one CRTC, whose msc is the one that every call is given; an    *)
(* msc is kept as its distance to that.                                    *)
(***************************************************************************)
EXTENDS Integers, FiniteSets, SequencesExt

CONSTANTS
  Windows,     (* windows below the root, of its size                        *)
  NoWin, Root, (* no window; the root window                                 *)
  MaxRequests, (* how many requests clients make                             *)
  MaxAhead,    (* how many frames ahead they target                          *)
  Setups       (* what the clients and the surroundings may do               *)

NoId     == 0
Screen   == 0    \* the screen's own pixmap
Ids      == 1 .. MaxRequests
Unflip   == MaxRequests + 1    \* stands for unflip_event_id

\* kind: "flip" may be flipped, "copy" has PresentOptionCopy, "notify" has no
\* pixmap.  fence: a wait fence.  update: an update region.
AttrType == [kind : {"flip", "copy", "notify"}, async : BOOLEAN, fence : BOOLEAN,
             update : BOOLEAN]
\* async_caps: the driver flips asynchronously.  fails: what it is asked may
\* fail.  at_once: it may unflip by setting a mode.  tearfree: it runs TearFree.
\* cursor: software cursors come and go.  modesets: modes are set.  restacks,
\* destroys: of windows.
SetupType == [attrs : SUBSET AttrType, requests : 0 .. MaxRequests, ahead : 1 .. MaxAhead,
              async_caps : BOOLEAN, fails : BOOLEAN, at_once : BOOLEAN,
              tearfree : BOOLEAN, cursor : BOOLEAN, modesets : BOOLEAN,
              restacks : BOOLEAN, destroys : BOOLEAN]

ASSUME PresentAssumption ==
  /\ MaxRequests \in Nat /\ MaxAhead \in Nat \ {0}
  /\ NoWin \notin Windows /\ Root \notin Windows /\ NoWin # Root
  /\ IsFiniteSet(Windows)
  /\ Setups \subseteq SetupType
  /\ NoWin \notin Ids

VARIABLES
  vb,           (* each request's vblank, and what was sent for it            *)
  exec_queue, flip_queue,
  window_list,  (* the vblanks of each window                                 *)
  flip_pending, (* the vblank that is with the driver                         *)
  flip_pixmap, flip_window, (* the current flip                               *)
  unflip,       (* unflip_event_id is set                                     *)
  winpix,       (* the pixmap that each window, and the root, draws to        *)
  full,         (* the window that covers the screen                          *)
  gone,         (* the windows that were destroyed                            *)
  cursor,       (* sprites are visible                                        *)
  events,       (* vblank events queued: whose, and in how many frames        *)
  flips, fakes, (* the flips that the driver will report                      *)
  scanout,      (* the pixmap on display                                      *)
  fences,       (* the wait fences that are triggered                         *)
  setup, stack

queues == <<exec_queue, flip_queue, window_list>>
flip   == <<flip_pending, flip_pixmap, flip_window, unflip>>
world  == <<full, gone, cursor, fences, setup>>
driver == <<events, flips, fakes, scanout>>
vars   == <<vb, queues, flip, winpix, world, driver, stack>>

-----------------------------------------------------------------------------
\* target is target_msc, down to -1: the past; early is target_msc - exec_msc.
\* reason: PRESENT_FLIP_REASON_DRIVER_TEARFREE(_FLIPPING), or another.
\* callback: present_fence_set_callback was called.  asked is the window that
\* the request was for.  done and idled count what was sent.
Blank == [st |-> "new", window |-> NoWin, asked |-> NoWin, pixmap |-> FALSE,
          target |-> -1, early |-> 0, queued |-> FALSE, flip |-> FALSE, sync |-> FALSE,
          flip_ready |-> FALSE, abort |-> FALSE, reason |-> "other", fence |-> FALSE,
          callback |-> FALSE, done |-> 0, idled |-> 0]
Vblank == [st : {"new", "live", "freed"}, window : Windows \cup {NoWin},
           asked : Windows \cup {NoWin}, pixmap : BOOLEAN, target : -1 .. MaxAhead,
           early : 0 .. 2, queued : BOOLEAN, flip : BOOLEAN, sync : BOOLEAN,
           flip_ready : BOOLEAN, abort : BOOLEAN,
           reason : {"other", "tearfree", "tearfree_flipping"}, fence : BOOLEAN,
           callback : BOOLEAN, done : Nat, idled : Nat]

VblankFns == {"scrap", "create", "notify", "execute", "flip", "flip_over", "copy", "post",
              "trigger", "abort"}
WindowFns == {"check", "check_queued", "clear"}
OtherFns  == {"unflip", "unflipped", "try_ready", "checked", "drain"}
Frame == [fn : VblankFns, of : Ids] \cup [fn : WindowFns, of : Windows]
         \cup [fn : OtherFns, of : {NoId}]

Call(fn, of)     == [fn |-> fn, of |-> of]
Top              == Head(stack)
Running(fn)      == stack # <<>> /\ Top.fn = fn
Continue(frames) == stack' = frames \o Tail(stack)
\* Calls for the members of S, one after the other.
Calls(fn, S)     == {[i \in DOMAIN s |-> Call(fn, s[i])] : s \in SetToSeqs(S)}
If(condition, frames) == IF condition THEN frames ELSE <<>>

\* xorg_list_del; a node on no list is linked to itself.
Position(list, r) == CHOOSE i \in DOMAIN list : list[i] = r
Without(list, r) ==
  IF Contains(list, r)
  THEN SubSeq(list, 1, Position(list, r) - 1) \o SubSeq(list, Position(list, r) + 1, Len(list))
  ELSE list

Live(r) == vb[r].st = "live"
\* exec_msc - crtc_msc
Exec(r) == vb[r].target - vb[r].early
Freed(r) == [Blank EXCEPT !.st = "freed", !.asked = r.asked, !.done = r.done,
                          !.idled = r.idled]
\* present_pixmap_idle of the pixmap of the current flip, if there is one.
IdleFlip_AfterTransfer(v) ==
  LET p == IF flip_pending # NoId THEN flip_pending ELSE flip_pixmap
  IN IF p = NoId THEN v ELSE [v EXCEPT ![p].idled = @ + 1]
IdleFlip(v) == IF flip_pixmap = NoId THEN v ELSE [v EXCEPT ![flip_pixmap].idled = @ + 1]

\* present_set_tree_pixmap: the window, and those below it that share its pixmap.
AnyPixmap == -1
SetTreePixmap(pix, w, expected, new) ==
  IF expected \notin {AnyPixmap, pix[w]} THEN pix
  ELSE [x \in DOMAIN pix |->
          IF x = w \/ (w = Root /\ pix[x] = pix[Root]) THEN new ELSE pix[x]]

\* present_restore_screen_pixmap
RestoreScreenPixmap_NotRoot(pix) ==
  LET w == IF flip_pending # NoId THEN vb[flip_pending].window ELSE flip_window
  IN IF w = NoWin THEN pix ELSE SetTreePixmap(pix, w, AnyPixmap, Screen)
RestoreScreenPixmap(pix) ==
  LET w == IF flip_pending # NoId THEN vb[flip_pending].window ELSE flip_window
      p == IF flip_pending # NoId THEN flip_pending ELSE flip_pixmap
      tree == IF w = NoWin THEN pix ELSE SetTreePixmap(pix, w, p, Screen)
  IN SetTreePixmap(tree, Root, AnyPixmap, Screen)

\* present_set_abort_flip
SetAbortFlip ==
  IF vb[flip_pending].abort THEN UNCHANGED <<vb, winpix>>
  ELSE /\ winpix' = RestoreScreenPixmap(winpix)
       /\ vb' = [vb EXCEPT ![flip_pending].abort = TRUE]

\* ms_present_check_flip, and present_check_flip of a pixmap of the window's size.
PendingModeset == \E i \in DOMAIN stack : stack[i].fn = "checked"
DriverFlips == ~cursor /\ ~PendingModeset
CheckFlip(w) ==
  /\ DriverFlips
  /\ winpix[w] \in {Screen, flip_pixmap, flip_pending}
  /\ full = w
\* What it gives as the reason when the driver refuses.
Reasons ==
  IF DriverFlips \/ ~setup.tearfree THEN {"other"} ELSE {"tearfree", "tearfree_flipping"}
IsTearFree(r) == vb[r].reason # "other"

Init ==
  /\ vb = [r \in Ids |-> Blank]
  /\ exec_queue = <<>> /\ flip_queue = <<>>
  /\ window_list = [w \in Windows |-> <<>>]
  /\ flip_pending = NoId /\ flip_pixmap = NoId /\ flip_window = NoWin /\ unflip = FALSE
  /\ winpix = [x \in Windows \cup {Root} |-> Screen]
  /\ full \in Windows \cup {NoWin}
  /\ gone = {}
  /\ cursor = FALSE
  /\ events = {} /\ flips = {} /\ fakes = {}
  /\ scanout = Screen
  /\ fences = {}
  /\ setup \in Setups
  /\ stack = <<>>

-----------------------------------------------------------------------------
(***************************************************************************)
(* present_execute.                                                        *)
(***************************************************************************)
\* queue_vblank may fail.
QueueVblank(r, frames) == events' = events \cup {<<r, frames>>}

\* present_execute_wait
Requeue ==
  /\ Running("execute") /\ Exec(Top.of) = 1
  /\ QueueVblank(Top.of, 1)
  /\ Continue(<<>>)
  /\ UNCHANGED <<vb, queues, flip, winpix, world, flips, fakes, scanout>>

Waits(r) == vb[r].fence /\ r \notin fences
WaitFence ==
  /\ Running("execute") /\ Waits(Top.of)
  /\ Exec(Top.of) = 1 => setup.fails
  /\ vb' = [vb EXCEPT ![Top.of].callback = TRUE]
  /\ Continue(<<>>)
  /\ UNCHANGED <<queues, flip, winpix, world, driver>>

Ready(r) == ~Waits(r) /\ (Exec(r) = 1 => setup.fails)
Flips(r) == vb[r].flip /\ vb[r].pixmap /\ vb[r].window # NoWin
IsFlipping == flip_pending # NoId \/ unflip
WaitFlip ==
  /\ Running("execute")
  /\ LET r == Top.of
     IN /\ Ready(r) /\ Flips(r) /\ IsFlipping
        /\ exec_queue' = Without(exec_queue, r)
        /\ flip_queue' = Append(Without(flip_queue, r), r)
        /\ vb' = [vb EXCEPT ![r].flip_ready = TRUE]
  /\ Continue(<<>>)
  /\ UNCHANGED <<window_list, flip, winpix, world, driver>>

\* Whether there is something to show still: TearFree executes a vblank twice.
Presents(r) == vb[r].pixmap /\ vb[r].window # NoWin /\ (IsTearFree(r) => vb[r].early # 0)
Execute ==
  /\ Running("execute")
  /\ LET r == Top.of
         flipping == Presents(r) /\ vb[r].flip
         next == IF flipping THEN "flip" ELSE IF Presents(r) THEN "flip_over" ELSE "post"
     IN /\ Ready(r) /\ ~(Flips(r) /\ IsFlipping)
        /\ exec_queue' = Without(exec_queue, r)
        /\ flip_queue' = If(flipping, <<r>>) \o Without(flip_queue, r)
        /\ window_list' = [w \in Windows |-> Without(window_list[w], r)]
        /\ vb' = [vb EXCEPT ![r].queued = FALSE]
        /\ flip_pending' = IF flipping THEN r ELSE flip_pending
        /\ Continue(<<Call(next, r)>>)
  /\ UNCHANGED <<flip_pixmap, flip_window, unflip, winpix, world, driver>>

\* ms_present_flip, and the window pixmaps after it.
FlipPixmaps(r) ==
  LET w    == vb[r].window
      prev == IF flip_window \in {NoWin, w} THEN winpix
              ELSE SetTreePixmap(winpix, flip_window, flip_pixmap, Screen)
  IN SetTreePixmap(SetTreePixmap(prev, w, AnyPixmap, r), Root, AnyPixmap, r)
FlipSucceeds ==
  /\ Running("flip") /\ DriverFlips
  /\ flips' = flips \cup {Top.of}
  /\ winpix' = FlipPixmaps(Top.of)
  /\ Continue(<<>>)
  /\ UNCHANGED <<vb, queues, flip, world, events, fakes, scanout>>

FlipFails ==
  /\ Running("flip") /\ (setup.fails \/ ~DriverFlips)
  /\ flip_queue' = Without(flip_queue, Top.of)
  /\ flip_pending' = NoId
  /\ vb' = [vb EXCEPT ![Top.of].flip = FALSE, ![Top.of].early = 0]
  /\ Continue(<<Call("flip_over", Top.of)>>)
  /\ UNCHANGED <<exec_queue, window_list, flip_pixmap, flip_window, unflip, winpix, world,
                 driver>>

\* Whether it is w that the driver flips, or that was flipped and may be unflipped.
Aborts_Current(w) == flip_pending # NoId /\ flip_window = w
Aborts(w)  == flip_pending # NoId /\ vb[flip_pending].window = w
Unflips_Again(w) == flip_pending = NoId /\ flip_window = w
Unflips(w) == flip_pending = NoId /\ ~unflip /\ flip_window = w

\* A copy to the window that flips ends its flip first.
FlipOver ==
  /\ Running("flip_over")
  /\ LET r == Top.of
     IN /\ IF Aborts(vb[r].window) THEN SetAbortFlip ELSE UNCHANGED <<vb, winpix>>
        /\ Continue(If(Unflips(vb[r].window), <<Call("unflip", NoId)>>) \o <<Call("copy", r)>>)
  /\ UNCHANGED <<queues, flip, world, driver>>

\* It goes back to the queue, to be executed again.
BackToQueue_NoWindow(v, r) ==
  /\ vb' = [v EXCEPT ![r].queued = TRUE]
  /\ exec_queue' = <<r>> \o exec_queue
  /\ UNCHANGED window_list
  /\ Continue(<<>>)
BackToQueue(v, r) ==
  /\ vb' = [v EXCEPT ![r].queued = TRUE]
  /\ exec_queue' = <<r>> \o exec_queue
  /\ window_list' = [window_list EXCEPT ![vb[r].window] = Append(@, r)]
  /\ Continue(<<>>)

\* present_execute_copy
CopyLater ==
  /\ Running("copy") /\ Exec(Top.of) = 1
  /\ QueueVblank(Top.of, 1)
  /\ BackToQueue(vb, Top.of)
  /\ UNCHANGED <<flip_queue, flip, winpix, world, flips, fakes, scanout>>

Copied(r) == [vb EXCEPT ![r].idled = @ + 1]
Copies(r) == Exec(r) = 1 => setup.fails
Copy ==
  /\ Running("copy") /\ Copies(Top.of)
  /\ IsTearFree(Top.of) => setup.fails
  /\ vb' = Copied(Top.of)
  /\ Continue(<<Call("post", Top.of)>>)
  /\ UNCHANGED <<queues, flip, winpix, world, driver>>

\* With TearFree the copy is shown by a flip of the driver's, or by a frame.
CopyTearFree ==
  /\ Running("copy")
  /\ LET r == Top.of
         frames == IF vb[r].reason = "tearfree_flipping" /\ Exec(r) < 0 THEN 2 ELSE 1
     IN /\ Copies(r) /\ IsTearFree(r)
        /\ \/ fakes' = fakes \cup {r} /\ UNCHANGED events
           \/ QueueVblank(r, frames) /\ UNCHANGED fakes
        /\ BackToQueue([Copied(r) EXCEPT ![r].early = 0], r)
  /\ UNCHANGED <<flip_queue, flip, winpix, world, flips, scanout>>

\* present_execute_post, and the end of present_flip_notify.
Completed(r) == IF r.window = NoWin THEN r ELSE [r EXCEPT !.done = @ + 1]
Post ==
  /\ Running("post")
  /\ vb' = [vb EXCEPT ![Top.of] = Freed(Completed(@))]
  /\ exec_queue' = Without(exec_queue, Top.of)
  /\ flip_queue' = Without(flip_queue, Top.of)
  /\ window_list' = [w \in Windows |-> Without(window_list[w], Top.of)]
  /\ Continue(<<>>)
  /\ UNCHANGED <<flip, winpix, world, driver>>

-----------------------------------------------------------------------------
(***************************************************************************)
(* Flips end.                                                              *)
(***************************************************************************)
\* present_event_notify of a vblank
Notify ==
  /\ Running("notify")
  /\ LET r == Top.of
         queued == Contains(exec_queue, r) \/ (Contains(flip_queue, r) /\ vb[r].queued)
     IN /\ Contains(flip_queue, r) => vb[r].queued
        /\ Continue(If(queued, <<Call("execute", r)>>))
  /\ UNCHANGED <<vb, queues, flip, winpix, world, driver>>

\* present_flip_notify
FlipNotify ==
  /\ Running("notify")
  /\ LET r == Top.of
     IN /\ Contains(flip_queue, r) /\ ~vb[r].queued
        /\ flip_queue' = Without(flip_queue, r)
        /\ flip_window' = vb[r].window /\ flip_pixmap' = r
        /\ flip_pending' = NoId
        /\ vb' = [IdleFlip(vb) EXCEPT ![r].pixmap = FALSE]
        /\ Continue(If(vb[r].abort, <<Call("unflip", NoId)>>)
                    \o <<Call("post", r), Call("try_ready", NoId)>>)
  /\ UNCHANGED <<exec_queue, window_list, unflip, winpix, world, driver>>

\* present_flip_try_ready, with present_re_execute
FirstReady_Sync(i) ==
  /\ vb[flip_queue[i]].queued /\ vb[flip_queue[i]].sync
  /\ \A j \in 1 .. i - 1 : ~vb[flip_queue[j]].queued
FirstReady(i) == vb[flip_queue[i]].queued /\ \A j \in 1 .. i - 1 : ~vb[flip_queue[j]].queued
TryReady ==
  /\ Running("try_ready")
  /\ \/ \E i \in DOMAIN flip_queue :
          FirstReady(i) /\ Continue(<<Call("execute", flip_queue[i])>>)
     \/ (\A i \in DOMAIN flip_queue : ~FirstReady(i)) /\ Continue(<<>>)
  /\ UNCHANGED <<vb, queues, flip, winpix, world, driver>>

\* present_unflip, and ms_present_unflip: a flip, or a mode that is set at once.
StartUnflip ==
  /\ Running("unflip")
  /\ winpix' = RestoreScreenPixmap(winpix)
  /\ unflip' = TRUE
  /\ \/ /\ flips' = flips \cup {Unflip}
        /\ Continue(<<>>)
        /\ UNCHANGED scanout
     \/ /\ setup.at_once
        /\ scanout' = Screen
        /\ Continue(<<Call("unflipped", NoId)>>)
        /\ UNCHANGED flips
  /\ UNCHANGED <<vb, queues, flip_pending, flip_pixmap, flip_window, world, events, fakes>>

\* present_event_notify of the unflip
UnflipNotify ==
  /\ Running("unflipped")
  /\ unflip' = FALSE
  /\ vb' = IdleFlip(vb)
  /\ flip_pixmap' = NoId /\ flip_window' = NoWin
  /\ Continue(<<Call("try_ready", NoId)>>)
  /\ UNCHANGED <<queues, flip_pending, winpix, world, driver>>

\* present_check_flip_window
CheckFlipWindow ==
  /\ Running("check")
  /\ LET w == Top.of
         stops == ~unflip /\ ~CheckFlip(w)
     IN /\ IF stops /\ Aborts(w) THEN SetAbortFlip ELSE UNCHANGED <<vb, winpix>>
        /\ Continue(If(stops /\ Unflips(w), <<Call("unflip", NoId)>>)
                    \o If(~unflip, <<Call("check_queued", w)>>))
  /\ UNCHANGED <<queues, flip, world, driver>>

NoFlip_KeepsExec(r) == [r EXCEPT !.flip = FALSE]
NoFlip(r) == [r EXCEPT !.flip = FALSE, !.early = IF r.sync THEN 0 ELSE @]
CheckQueued ==
  /\ Running("check_queued")
  /\ LET w == Top.of
         stops(r) == Contains(window_list[w], r) /\ vb[r].queued /\ vb[r].flip /\ ~CheckFlip(w)
     IN vb' = [r \in Ids |-> IF stops(r) THEN NoFlip(vb[r]) ELSE vb[r]]
  /\ Continue(<<>>)
  /\ UNCHANGED <<queues, flip, winpix, world, driver>>

-----------------------------------------------------------------------------
(***************************************************************************)
(* Requests: present_scmd_pixmap.                                          *)
(***************************************************************************)
AtEventLoop == stack = <<>>
TargetAhead(a) == (IF a.async THEN 0 ELSE 1) .. setup.ahead

\* Whether the new request makes r, of its window, pointless.
Overwrites(r, w, target) ==
  /\ Contains(window_list[w], r)
  /\ vb[r].pixmap /\ vb[r].queued /\ vb[r].target = target
  /\ IsTearFree(r) => vb[r].early # 0

\* The new vblank, before present_scmd_pixmap makes exec_msc earlier.
NewVblank(a, w, target) ==
  LET flipped == a.kind = "flip" /\ CheckFlip(w) /\ (target > 0 \/ setup.async_caps)
      asked   == a.kind = "flip" /\ (target > 0 \/ setup.async_caps)
  IN {[Blank EXCEPT !.st = "live", !.window = w, !.asked = w, !.pixmap = (a.kind # "notify"),
                    !.target = target, !.flip = flipped, !.sync = (flipped /\ target > 0),
                    !.reason = reason, !.fence = a.fence]
        : reason \in IF asked THEN Reasons ELSE {"other"}}
Earlier(v) ==
  IF v.reason = "tearfree_flipping" /\ v.target <= 1 THEN 2
  ELSE IF v.reason # "other" \/ (v.flip /\ v.sync) THEN 1 ELSE 0

Present ==
  /\ AtEventLoop
  /\ \E a \in setup.attrs, w \in Windows \ gone :
       \E r \in Ids, target \in TargetAhead(a) :
         /\ vb[r].st = "new" /\ r <= setup.requests
         /\ \A q \in 1 .. r - 1 : vb[q].st # "new"
         /\ \E v \in NewVblank(a, w, target) : vb' = [vb EXCEPT ![r] = v]
         /\ \E scraps \in Calls("scrap", IF a.update \/ a.kind = "notify" THEN {}
                                        ELSE {q \in Ids : Overwrites(q, w, target)}) :
              /\ \A i, j \in DOMAIN scraps :
                   i < j => Position(window_list[w], scraps[i].of)
                              < Position(window_list[w], scraps[j].of)
              /\ stack' = scraps \o <<Call("create", r)>>
  /\ UNCHANGED <<queues, flip, winpix, world, driver>>

\* present_vblank_scrap
Scrap ==
  /\ Running("scrap")
  /\ vb' = [vb EXCEPT ![Top.of].idled = @ + 1, ![Top.of].pixmap = FALSE,
                      ![Top.of].flip = FALSE]
  /\ Continue(If(vb[Top.of].flip_ready, <<Call("execute", Top.of)>>))
  /\ UNCHANGED <<queues, flip, winpix, world, driver>>

Create ==
  /\ Running("create")
  /\ LET r == Top.of
         early == Earlier(vb[r])
         exec  == vb[r].target - early
     IN /\ vb' = [vb EXCEPT ![r].early = early, ![r].queued = TRUE]
        /\ exec_queue' = Append(exec_queue, r)
        /\ window_list' = [window_list EXCEPT ![vb[r].window] = Append(@, r)]
        /\ \/ /\ exec > 0
              /\ QueueVblank(r, exec)
              /\ Continue(<<>>)
           \/ /\ exec > 0 => setup.fails
              /\ Continue(<<Call("execute", r)>>)
              /\ UNCHANGED events
  /\ UNCHANGED <<flip_queue, flip, winpix, world, flips, fakes, scanout>>

\* miSyncTriggerFence fires as long as the callback is set.
Trigger ==
  /\ Running("trigger")
  /\ stack' = IF Live(Top.of) /\ vb[Top.of].callback
              THEN <<Call("execute", Top.of)>> \o stack ELSE Tail(stack)
  /\ UNCHANGED <<vb, queues, flip, winpix, world, driver>>
TriggerFence ==
  /\ AtEventLoop
  /\ \E r \in Ids \ fences :
       /\ Live(r) /\ vb[r].fence
       /\ fences' = fences \cup {r}
       /\ stack' = <<Call("trigger", r)>>
  /\ UNCHANGED <<vb, queues, flip, winpix, driver, full, gone, cursor, setup>>

-----------------------------------------------------------------------------
(***************************************************************************)
(* The driver's events, which it also handles while it sets a mode.        *)
(***************************************************************************)
Drains == Running("drain")
HandlesEvents == AtEventLoop \/ Drains

VblankEvent ==
  /\ HandlesEvents
  /\ \E r \in Ids :
       /\ <<r, 0>> \in events
       /\ events' = events \ {<<r, 0>>}
       /\ stack' = <<Call("notify", r)>> \o stack
  /\ UNCHANGED <<vb, queues, flip, winpix, world, flips, fakes, scanout>>

FlipEvent ==
  /\ HandlesEvents
  /\ \E id \in flips :
       /\ flips' = flips \ {id}
       /\ scanout' = IF id = Unflip THEN Screen ELSE id
       /\ stack' = <<IF id = Unflip THEN Call("unflipped", NoId) ELSE Call("notify", id)>>
                   \o stack
  /\ UNCHANGED <<vb, queues, flip, winpix, world, events, fakes>>

FakeFlipEvent ==
  /\ HandlesEvents
  /\ \E r \in fakes :
       /\ fakes' = fakes \ {r}
       /\ stack' = <<Call("notify", r)>> \o stack
  /\ UNCHANGED <<vb, queues, flip, winpix, world, events, flips, scanout>>

\* A frame: the msc moves on.
Sooner(n, least) == IF n > least THEN n - 1 ELSE least
Tick ==
  /\ AtEventLoop \/ Drains
  /\ vb' = [r \in Ids |-> [vb[r] EXCEPT !.target = Sooner(@, -1)]]
  /\ events' = {<<e[1], Sooner(e[2], 0)>> : e \in events}
  /\ UNCHANGED <<queues, flip, winpix, world, flips, fakes, scanout, stack>>

-----------------------------------------------------------------------------
(***************************************************************************)
(* The surroundings.                                                       *)
(***************************************************************************)
\* The windows are checked in the order of the window tree.
Checks(S) == Calls("check", S)

\* present_clip_notify of the windows whose clip changes.
Restack ==
  /\ AtEventLoop /\ setup.restacks
  /\ \E w \in (Windows \ gone) \cup {NoWin} :
       /\ w # full
       /\ full' = w
       /\ stack' \in Checks({full, w} \ {NoWin})
  /\ UNCHANGED <<vb, queues, flip, winpix, driver, gone, cursor, fences, setup>>

\* present_destroy_window.  A window is unmapped, so checked, before.
DestroyWindow ==
  /\ AtEventLoop /\ setup.destroys
  /\ \E w \in Windows \ gone :
       LET list == window_list[w]
       IN /\ w # full
          /\ gone' = gone \cup {w}
          /\ stack' = [i \in DOMAIN list |-> Call("abort", list[i])] \o <<Call("clear", w)>>
  /\ UNCHANGED <<vb, queues, flip, winpix, driver, full, cursor, fences, setup>>

\* present_scmd_abort_vblank, with present_vblank_destroy
Abort ==
  /\ Running("abort")
  /\ LET r == Top.of
     IN /\ events' = {e \in events : e[1] # r}
        /\ fakes' = fakes \ {r}
        /\ vb' = [vb EXCEPT ![r] = Freed(@)]
        /\ exec_queue' = Without(exec_queue, r)
        /\ flip_queue' = Without(flip_queue, r)
        /\ window_list' = [w \in Windows |-> Without(window_list[w], r)]
  /\ Continue(<<>>)
  /\ UNCHANGED <<flip, winpix, world, flips, scanout>>

\* present_scmd_clear_window_flip
ClearWindowFlip ==
  /\ Running("clear")
  /\ LET w      == Top.of
         aborts == Aborts(w) /\ ~vb[flip_pending].abort
     IN /\ vb' = IF Aborts(w) THEN [vb EXCEPT ![flip_pending].abort = TRUE,
                                             ![flip_pending].window = NoWin]
                ELSE vb
        /\ flip_window' = IF flip_window = w THEN NoWin ELSE flip_window
        /\ winpix' = IF aborts \/ flip_window = w THEN RestoreScreenPixmap(winpix) ELSE winpix
  /\ Continue(<<>>)
  /\ UNCHANGED <<queues, flip_pending, flip_pixmap, unflip, world, driver>>

\* A software cursor comes or goes, which nobody tells Present.
Cursor ==
  /\ AtEventLoop /\ setup.cursor
  /\ cursor' = ~cursor
  /\ UNCHANGED <<vb, queues, flip, winpix, driver, stack, full, gone, fences, setup>>

\* drmmmode_prepare_modeset: no window may flip while they are checked, and what
\* the kernel was asked for happens first.
PrepareModeset ==
  /\ AtEventLoop /\ setup.modesets
  /\ flip_pending # NoId \/ flip_pixmap # NoId
  /\ \E checks \in Checks(Windows \ gone) : stack' = checks \o <<Call("checked", NoId)>>
  /\ UNCHANGED <<vb, queues, flip, winpix, driver, world>>
Checked ==
  /\ Running("checked")
  /\ Continue(<<Call("drain", NoId)>>)
  /\ UNCHANGED <<vb, queues, flip, winpix, driver, world>>
Drained ==
  /\ Drains /\ events = {} /\ flips = {}
  /\ Continue(<<>>)
  /\ UNCHANGED <<vb, queues, flip, winpix, driver, world>>

-----------------------------------------------------------------------------
Server ==
  \/ Requeue \/ WaitFence \/ WaitFlip \/ Execute \/ FlipSucceeds \/ FlipFails \/ FlipOver
  \/ CopyLater \/ Copy \/ CopyTearFree \/ Post \/ Notify \/ FlipNotify \/ TryReady
  \/ StartUnflip \/ UnflipNotify \/ CheckFlipWindow \/ CheckQueued \/ Scrap \/ Create
  \/ Trigger \/ Abort \/ ClearWindowFlip \/ Checked \/ Drained
Kernel == VblankEvent \/ FlipEvent \/ FakeFlipEvent
Next ==
  \/ Server \/ Kernel \/ Tick
  \/ Present \/ TriggerFence \/ Restack \/ DestroyWindow \/ Cursor \/ PrepareModeset
Spec == Init /\ [][Next]_vars

\* Handlers run to their end, frames go by, and the event loop comes to what the
\* kernel reports whatever else it serves; clients trigger their fences.
FairSpec ==
  Spec /\ WF_vars(Server) /\ SF_vars(Kernel \/ Tick) /\ WF_vars(TriggerFence)

-----------------------------------------------------------------------------
\* The type of every variable.
TypeOK ==
  /\ vb \in [Ids -> Vblank]
  /\ exec_queue \in Seq(Ids) /\ flip_queue \in Seq(Ids)
  /\ window_list \in [Windows -> Seq(Ids)]
  /\ flip_pending \in Ids \cup {NoId} /\ flip_pixmap \in Ids \cup {NoId}
  /\ flip_window \in Windows \cup {NoWin} /\ unflip \in BOOLEAN
  /\ winpix \in [Windows \cup {Root} -> Ids \cup {Screen}]
  /\ full \in Windows \cup {NoWin} /\ gone \subseteq Windows /\ cursor \in BOOLEAN
  /\ events \subseteq Ids \X (0 .. MaxAhead + 2)
  /\ flips \subseteq Ids \cup {Unflip} /\ fakes \subseteq Ids
  /\ scanout \in Ids \cup {Screen} /\ fences \subseteq Ids
  /\ setup \in Setups
  /\ stack \in Seq(Frame)

\* The assertions of present_unflip, present_restore_screen_pixmap and
\* present_flip_notify hold wherever they are reached, and the driver is asked to
\* flip or to unflip only when it has done what it was asked before: the kernel
\* has one flip per CRTC.
AssertionsHold ==
  /\ Running("unflip") => ~unflip /\ flip_pending = NoId /\ flip_pixmap # NoId
  /\ Running("notify") /\ Contains(flip_queue, Top.of) /\ ~vb[Top.of].queued
       => Top.of = flip_pending
  /\ flip_window # NoWin => flip_pixmap # NoId
  /\ Running("flip") \/ Running("unflip") => flips = {}

\* Between handlers a request is once on the exec or the flip queue, and on its
\* window's list unless it is with the driver, so that the destruction of its
\* window finds it; at any time what the lists and the calls name is not freed.
Linked ==
  LET on(list, r) == Cardinality({i \in DOMAIN list : list[i] = r})
      queued(r)   == on(exec_queue, r) + on(flip_queue, r)
      listed(r)   == {w \in Windows : on(window_list[w], r) > 0}
  IN TypeOK /\ \A r \in Ids :
       /\ queued(r) > 0 \/ listed(r) # {} \/ r = flip_pending => Live(r)
       /\ \A i \in DOMAIN stack :
            stack[i].fn \in VblankFns \ {"notify", "trigger"} /\ stack[i].of = r => Live(r)
       /\ AtEventLoop /\ Live(r) =>
            /\ queued(r) = 1
            /\ IF vb[r].queued THEN listed(r) = {vb[r].window} /\ on(window_list[vb[r].window], r) = 1
               ELSE flip_pending = r /\ listed(r) = {}

\* The windows draw to the screen's pixmap or to that of a flip that is not idle,
\* and to the screen's from the start of an unflip.
DrawsToHeld ==
  \A x \in (Windows \ gone) \cup {Root} :
    winpix[x] \in {Screen} \cup (IF unflip THEN {} ELSE {flip_pixmap, flip_pending})

\* A copy is drawn to the screen's pixmap, unless another window's flip hides it.
CopiesToScreen ==
  Running("copy") =>
    LET w == vb[Top.of].window
    IN winpix[w] # Screen
         => w # (IF flip_pending # NoId THEN vb[flip_pending].window ELSE flip_window)

\* A copy is shown in the frame that was asked for or later: one that was to be
\* flipped, a frame earlier, must wait for the next.
NotEarly ==
  Running("post") /\ vb[Top.of].idled > 0 /\ vb[Top.of].pixmap
    => vb[Top.of].target <= 0 \/ setup.fails

\* What PresentPromise sees of a request.
Status(r) ==
  IF vb[r].done > 1 THEN "twice"
  ELSE IF vb[r].done = 1 THEN "done"
  ELSE [new |-> "new", live |-> "asked", freed |-> "dropped"][vb[r].st]
Holding(r) == vb[r].pixmap \/ flip_pixmap = r
Pixmap(r) ==
  IF vb[r].idled > 1 THEN "twice"
  ELSE IF vb[r].idled = 1 THEN "idle"
  ELSE IF Holding(r) THEN "held" ELSE "client"
Display == IF scanout = Screen THEN NoWin ELSE scanout

\* The promise of Present to its clients.
Promise == INSTANCE PresentPromise WITH
  Requests <- Ids, None <- NoWin,
  status   <- [r \in Ids |-> Status(r)],
  pixmap   <- [r \in Ids |-> Pixmap(r)],
  window   <- [r \in Ids |-> vb[r].asked],
  display  <- Display
Implements == Promise!Spec

\* Whatever the event loop dispatches comes back to it.
HandlersReturn == stack # <<>> ~> AtEventLoop
\* Another that was tried again is not to be flipped (any more), though it is the
\* turn of r: its frame has come, it waits for the end of a flip, and none is under
\* way.  present_flip_try_ready tries one only, so nobody need come for r.
PassedOver(r) ==
  /\ Running("execute") \/ Running("copy")
  /\ Top.of # r /\ ~vb[Top.of].flip
  /\ Contains(flip_queue, r) /\ vb[r].queued /\ ~IsFlipping
\* Every request completes, unless its window is destroyed first or it is passed over.
Completes == \A r \in Ids : (Live(r) ~> vb[r].st = "freed") \/ <>PassedOver(r)
\* "When the wait fence or previous flip is completed, it's time to re-try the
\* request": whatever waits completes, unless its window is destroyed first.  No run
\* checks it: it fails.
Retried == \A r \in Ids : Live(r) ~> vb[r].st = "freed"
=============================================================================
