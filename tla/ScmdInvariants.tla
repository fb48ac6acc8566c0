--------------------------- MODULE ScmdInvariants ---------------------------
(***************************************************************************)
(* What holds of ScmdPresent between any two steps.  Inv says where each   *)
(* request is (Lists), what each call under way may rely on although the   *)
(* calls above it run first (Calling), what the fields of the flip say of  *)
(* one another (Flipping), and which windows draw to what is on the screen *)
(* (Drawn).  Hidden adds where a copy may be called from, Punctual when    *)
(* each request is due and how many events it waits for, Promised what     *)
(* each request was sent and whose pixmap is on display.                   *)
(***************************************************************************)
EXTENDS ScmdPresent

-----------------------------------------------------------------------------
\* An entry is once on a list.
Once(list)  == \A i, j \in DOMAIN list : list[i] = list[j] => i = j
Elements(s) == {s[i] : i \in DOMAIN s}
Rest        == Tail(stack)

\* The calls that have taken their request off the lists.
OwnerFns == {"create", "flip_over", "copy", "post"}
Owned(r) == \E f \in Elements(stack) : f.fn \in OwnerFns /\ f.of = r

\* A request that waits is on the exec or the flip queue and on its window's list.
\* The one that is with the driver, or about to be, is on the flip queue.
Waiting(r) ==
  /\ Live(r) /\ vb[r].abort = FALSE /\ vb[r].window \in Windows
  /\ Contains(exec_queue, r) \/ Contains(flip_queue, r)
  /\ Contains(window_list[vb[r].window], r)
WithDriver(r) ==
  /\ Live(r) /\ vb[r].queued = FALSE /\ Contains(flip_queue, r)
  /\ vb[r].flip = TRUE /\ vb[r].pixmap = TRUE
Placed(r) ==
  /\ Contains(exec_queue, r) => vb[r].queued = TRUE /\ ~Contains(flip_queue, r)
  /\ Contains(flip_queue, r) => vb[r].queued = TRUE \/ r = flip_pending
  /\ \A w \in Windows : Contains(window_list[w], r) => vb[r].queued = TRUE /\ w = vb[r].window
  /\ vb[r].queued = TRUE => Waiting(r)
  /\ r = flip_pending => WithDriver(r)
  /\ Live(r) => vb[r].queued = TRUE \/ r = flip_pending \/ Owned(r)
Lists ==
  /\ Once(exec_queue) /\ Once(flip_queue)
  /\ \A w \in Windows : Once(window_list[w])
  /\ \A r \in Ids : Placed(r)

\* What a call may rely on.
Sound(f) ==
  /\ f.fn \in {"scrap", "abort"} => vb[f.of].queued = TRUE
  /\ f.fn = "scrap" => vb[f.of].pixmap = TRUE
  /\ f.fn \in OwnerFns => Live(f.of) /\ vb[f.of].queued = FALSE /\ f.of # flip_pending
  /\ f.fn \in OwnerFns \ {"post"} => vb[f.of].window \in Windows /\ vb[f.of].abort = FALSE
  /\ f.fn = "execute" =>
       vb[f.of].queued = TRUE \/ (f.of = flip_pending /\ vb[f.of].window # NoWin)
  /\ f.fn = "flip" =>
       f.of = flip_pending /\ vb[f.of].abort = FALSE /\ vb[f.of].window \in Windows
  /\ f.fn \in {"flip_over", "copy"} => vb[f.of].pixmap = TRUE /\ vb[f.of].flip = FALSE
  /\ f.fn = "unflip" => unflip = FALSE /\ flip_pending = NoId /\ flip_pixmap # NoId
  /\ f.fn = "unflipped" => unflip = TRUE /\ Unflip \notin flips
  /\ f.fn = "trigger" /\ f.of = flip_pending => vb[f.of].window # NoWin

\* What it may say of a call g that it returns to.  TopFns return before they call.
TopFns  == {"notify", "execute", "flip", "flip_over", "unflip", "unflipped"}
HoldFns == OwnerFns \cup {"scrap", "abort"}
Over(f, g) ==
  /\ g.fn \notin TopFns
  /\ g.fn \in {"scrap", "create"} => f.fn \in {"scrap", "execute", "post"}
  /\ f.fn = "scrap" => g.fn \in {"scrap", "create"}
  /\ g.fn \in {"abort", "clear"} => f.fn = "abort"
  /\ f.fn \notin {"create", "clear", "trigger"}
  /\ f.fn \in HoldFns /\ g.fn \in HoldFns => f.of # g.of
Nested(s) == \A i, j \in DOMAIN s : i < j => Over(s[i], s[j])

\* While requests are scrapped, those that have no pixmap any more are executed.
Scrapping(s) == \E f \in Elements(s) : f.fn \in {"scrap", "create"}
Scraps ==
  Scrapping(stack) =>
    \A f \in Elements(stack) : f.fn \in {"execute", "post"} => vb[f.of].pixmap = FALSE
Calling == Nested(stack) /\ (\A f \in Elements(stack) : Sound(f)) /\ Scraps

\* The flip on the screen: the one with the driver, from when it has accepted it.
Accepted == flip_pending # NoId /\ ~Running("flip")
Shown    == IF Accepted THEN flip_pending ELSE flip_pixmap
ShownIn  == IF Accepted THEN vb[flip_pending].window ELSE flip_window
\* Every window and the root draw to it or to the screen's pixmap, and no other
\* window does unless the root does; none does once the flip is to end.
Ending == unflip = TRUE \/ (Accepted /\ vb[flip_pending].abort = TRUE)
Drawable == Windows \cup {Root}
Drawn ==
  /\ \A x \in Drawable : winpix[x] \in {Screen, Shown}
  /\ \A x \in Drawable : x # ShownIn /\ winpix[x] # Screen => winpix[Root] # Screen
  /\ Ending => \A x \in Drawable : winpix[x] = Screen
Flipping ==
  /\ flip_window # NoWin => flip_pixmap # NoId
  /\ unflip = TRUE => flip_pending = NoId /\ flip_pixmap # NoId
  /\ Unflip \in flips => unflip = TRUE
  /\ flip_pending # NoId => ~Waits(flip_pending)

Inv == TypeOK /\ Lists /\ Calling /\ Flipping /\ Drawn

-----------------------------------------------------------------------------
\* Copies: they are called last, and the unflip that they call is not over before
\* they are drawn, unless the driver unflips at once.
NoCopies(s) == \A f \in Elements(s) : f.fn # "copy"
Copying ==
  stack # <<>> => IF Top.fn = "unflip" THEN Rest # <<>> => NoCopies(Tail(Rest))
                  ELSE NoCopies(Rest)
Hidden == Copying /\ CopiesToScreen

-----------------------------------------------------------------------------
(***************************************************************************)
(* Time, when the driver does not fail: what is executed is due, or a      *)
(* frame early if it is to be copied; and a flip has one event under way.  *)
(***************************************************************************)
\* Coming events, in frames.
Coming == 0 .. MaxAhead + 2
Slack(r) == IF vb[r].flip = TRUE THEN 0 ELSE 1
Due(r)   == Exec(r) <= Slack(r)

\* What the record of a request says of its exec_msc.
Shaped(r) ==
  /\ vb[r].flip = TRUE => /\ vb[r].reason = "other" /\ vb[r].early \in {0, 1}
                          /\ vb[r].early # 0 => vb[r].sync = TRUE
  /\ vb[r].reason = "other" /\ vb[r].early # 0 /\ vb[r].pixmap = TRUE => vb[r].flip = TRUE
  /\ vb[r].reason # "other" /\ (vb[r].early = 2 \/ (vb[r].early = 0 /\ vb[r].queued = TRUE))
       => vb[r].target <= 1
\* A request that was executed once, or will be by something other than an event.
Begun(r) ==
  \/ Contains(flip_queue, r) \/ vb[r].callback = TRUE \/ vb[r].flip_ready = TRUE
  \/ r \in fakes \/ r \in flips
\* A flip waits for one event; it is not on the flip queue, nor waits for a fence, meanwhile.
Single(r) ==
  vb[r].flip = TRUE =>
    /\ r \notin fakes
    /\ \A n \in Coming : <<r, n>> \in events =>
         /\ ~Contains(flip_queue, r) /\ vb[r].callback = FALSE
         /\ \A m \in Coming : <<r, m>> \in events => m = n
OnSchedule(r) ==
  /\ Shaped(r) /\ Single(r)
  /\ Begun(r) => Due(r)
  /\ \A n \in Coming : <<r, n>> \in events => Exec(r) <= n + Slack(r)
  /\ vb[r].st = "new" => r \notin fakes /\ \A n \in Coming : <<r, n>> \notin events
  /\ flip_pixmap = r => vb[r].pixmap = FALSE /\ vb[r].st # "new"

\* What the calls know.
DueFns == {"notify", "execute", "flip", "flip_over", "copy"}
Unasked(r) == \A n \in Coming : <<r, n>> \notin events
OnTime(f) ==
  /\ f.fn \in DueFns => Due(f.of)
  /\ f.fn = "post" /\ vb[f.of].idled > 0 /\ vb[f.of].pixmap = TRUE => vb[f.of].target <= 0
  /\ f.fn \in {"flip_over", "copy"} /\ vb[f.of].reason # "other" => vb[f.of].early # 0
  /\ f.fn = "create" => /\ f.of \notin fakes /\ Unasked(f.of) /\ vb[f.of].early = 0
                        /\ vb[f.of].callback = FALSE /\ vb[f.of].flip_ready = FALSE
  /\ f.fn \in {"notify", "execute"} /\ vb[f.of].flip = TRUE => Unasked(f.of)
  /\ f.fn = "notify" => f.of \notin flips

\* The flip with the kernel is the pending one.
Reported == \A r \in Ids : r \in flips => r = flip_pending /\ ~Running("flip")
Punctual ==
  /\ \A r \in Ids : OnSchedule(r)
  /\ \A f \in Elements(stack) : OnTime(f)
  /\ Reported

-----------------------------------------------------------------------------
(***************************************************************************)
(* What was sent for each request, and what is on display.                 *)
(***************************************************************************)
\* TearFree showed its copy, and it waits to be executed once more.
CopiedOnce(r) == vb[r].reason # "other" /\ vb[r].early = 0

\* Of a request's record: its pixmap is not idle before it was copied, nor while it
\* is flipped, and its window is the one it was made for until that is gone.
Kept(r) ==
  /\ vb[r].idled \in {0, 1} /\ vb[r].done \in {0, 1}
  /\ vb[r].st = "new" => vb[r].idled = 0 /\ vb[r].done = 0
  /\ Live(r) => /\ vb[r].done = 0
                /\ vb[r].window # NoWin => vb[r].window = vb[r].asked
                /\ vb[r].window = NoWin => vb[r].asked \in gone
  /\ vb[r].pixmap = TRUE => Live(r)
  /\ flip_pixmap = r => vb[r].idled = 0
  /\ vb[r].pixmap = TRUE /\ (vb[r].queued = TRUE \/ r = flip_pending)
       => vb[r].idled = IF CopiedOnce(r) THEN 1 ELSE 0

\* Of a call.
Knows(f) ==
  /\ f.fn \in {"create", "flip_over", "copy", "scrap"} => vb[f.of].idled = 0
  /\ f.fn = "post" /\ vb[f.of].pixmap = TRUE => vb[f.of].idled = 1
  /\ f.fn = "abort" => vb[f.of].window \in gone
  /\ f.fn = "clear" => f.of \in gone

\* The requests of a window that is gone are being aborted.
Doomed ==
  \A r \in Ids : Live(r) /\ vb[r].window \in gone =>
    \/ Call("abort", r) \in Elements(stack)
    \/ r = flip_pending /\ Call("clear", vb[r].window) \in Elements(stack)

\* The screen's pixmap or the current flip's is on display, but for the time from
\* when the kernel has flipped to when present_flip_notify is told.
Flipped == Running("notify") /\ Top.of = flip_pending
Displayed ==
  /\ Flipped => scanout = flip_pending
  /\ ~Flipped => scanout \in {Screen, flip_pixmap}
  /\ Running("unflipped") => scanout = Screen

Promised ==
  /\ \A r \in Ids : Kept(r)
  /\ \A f \in Elements(stack) : Knows(f)
  /\ Doomed /\ Displayed

-----------------------------------------------------------------------------
(***************************************************************************)
(* What a step does, as far as the invariants are concerned.               *)
(***************************************************************************)
\* What does not concern the calls.
Typed ==
  /\ vb \in [Ids -> Vblank]
  /\ exec_queue \in Seq(Ids) /\ flip_queue \in Seq(Ids)
  /\ window_list \in [Windows -> Seq(Ids)]
  /\ flip_pending \in Ids \cup {NoId} /\ flip_pixmap \in Ids \cup {NoId}
  /\ flip_window \in Windows \cup {NoWin} /\ unflip \in BOOLEAN
  /\ winpix \in [Windows \cup {Root} -> Ids \cup {Screen}]
  /\ full \in Windows \cup {NoWin} /\ gone \subseteq Windows /\ cursor \in BOOLEAN
  /\ events \subseteq Ids \X (0 .. MaxAhead + 2)
  /\ flips \subseteq Ids \cup {Unflip} /\ fakes \subseteq Ids
  /\ scanout \in Ids \cup {Screen} /\ fences \subseteq Ids
  /\ setup \in Setups

\* As far as the lists and the calls go, q's record stays as it is.
Same(q) ==
  /\ vb'[q].st = vb[q].st /\ vb'[q].queued = vb[q].queued /\ vb'[q].abort = vb[q].abort
  /\ vb'[q].window = vb[q].window /\ vb'[q].pixmap = vb[q].pixmap
  /\ vb'[q].fence = vb[q].fence
  /\ vb'[q].flip = vb[q].flip \/ (vb'[q].flip = FALSE /\ vb[q].queued = TRUE)
\* It stays where it is, too.
Stays(q) ==
  /\ Same(q)
  /\ Contains(exec_queue', q) <=> Contains(exec_queue, q)
  /\ Contains(flip_queue', q) <=> Contains(flip_queue, q)
  /\ \A w \in Windows : Contains(window_list'[w], q) <=> Contains(window_list[w], q)
  /\ q = flip_pending' <=> q = flip_pending
  /\ Owned(q) => Owned(q)'

\* t is a stack of nested calls, the members of S.
Leaves(t, S) == t \in Seq(Frame) /\ Nested(t) /\ Elements(t) = S
CallFns(S) == {f.fn : f \in S}
\* The calls of new replace the one that runs.
Replaces(new) ==
  /\ stack # <<>>
  /\ Leaves(stack', new \cup Elements(Rest))
  /\ \A f \in new : Sound(f)' /\ f.fn \notin {"scrap", "create"}
  /\ CallFns(Elements(Rest)) \cap {"scrap", "create"} # {}
       => \A f \in new : f.fn \in {"execute", "post"} => vb'[f.of].pixmap = FALSE
\* Those that wait are about other requests.
Apart ==
  \A g \in Elements(Rest) :
    /\ g.fn \in HoldFns => Same(g.of) /\ (g.of = flip_pending' => g.of = flip_pending)
    /\ g.fn = "trigger" /\ g.of = flip_pending' => vb'[g.of].window # NoWin

\* The requests, the queues and the flips are as they were.
Quiet ==
  /\ UNCHANGED <<queues, flip, winpix>>
  /\ \A q \in Ids : Same(q)
  /\ Unflip \in flips' => Unflip \in flips
  /\ fences \subseteq fences'
  /\ Typed'

\* Nothing that concerns q's time changes.
SameTimes(q) ==
  /\ vb'[q].st = vb[q].st /\ vb'[q].flip = vb[q].flip /\ vb'[q].reason = vb[q].reason
  /\ vb'[q].early = vb[q].early /\ vb'[q].sync = vb[q].sync /\ vb'[q].pixmap = vb[q].pixmap
  /\ vb'[q].queued = vb[q].queued /\ vb'[q].target = vb[q].target
  /\ vb'[q].callback = vb[q].callback /\ vb'[q].flip_ready = vb[q].flip_ready
Calm(q) ==
  /\ SameTimes(q)
  /\ vb'[q].idled = vb[q].idled \/ vb[q].pixmap = FALSE
  /\ \A n \in Coming : <<q, n>> \in events' => <<q, n>> \in events
  /\ q \in fakes' => q \in fakes
  /\ q \in flips' => q \in flips
  /\ Contains(flip_queue', q) => Contains(flip_queue, q)
  /\ flip_pixmap' = q => flip_pixmap = q

\* What the promise says of q stays as it is.
SameStatus(q) == vb'[q].st = vb[q].st /\ vb'[q].done = vb[q].done
SamePixmap(q) == vb'[q].idled = vb[q].idled /\ (Holding(q)' <=> Holding(q))
SameAsked(q)  == vb'[q].asked = vb[q].asked

\* Nor does what Kept says of q.
Alike(a, b) ==
  /\ a.st = b.st /\ a.done = b.done /\ a.idled = b.idled /\ a.asked = b.asked
  /\ a.pixmap = b.pixmap /\ a.window = b.window
  /\ a.reason # "other" /\ a.early = 0 <=> b.reason # "other" /\ b.early = 0
Steady(q) ==
  /\ Alike(vb'[q], vb[q])
  /\ vb'[q].pixmap = TRUE /\ (vb'[q].queued = TRUE \/ q = flip_pending')
       => vb[q].queued = TRUE \/ q = flip_pending
  /\ flip_pixmap' = q => flip_pixmap = q
=============================================================================
