# A TLA+ model of xsonicland

xsonicland is a fork of the X.Org X server whose main back end is Xwayland, with an io_uring
command ring (ssX XAA) beside it. This directory models the parts of the server where the order of
events decides whether the server is right: handlers that call each other while they walk lists,
answers of a compositor, a GPU and a kernel that come in any order, counters that wrap.

* [How to read and run it](#how-to-read-and-run-it)
* [Inventory](#inventory)
* [The modules and the code](#the-modules-and-the-code)
* [The runs](#the-runs)
* [Bounds](#bounds)
* [Fairness](#fairness)
* [What is proved](#what-is-proved)
* [Where the code disagrees with itself](#where-the-code-disagrees-with-itself)
* [What is not modelled](#what-is-not-modelled)
* [Plan](#plan)

## How to read and run it

Each component has a module of its own: `SsxRing`, `XwlPresent`, `ScmdPresent`, `WindowBuffers`, `MiEq`,
`Timers`, `SystemCounter`, `ServerTime`, and `Selections`, which extends it. Read the comment at the head of the module, then `Init` and `Next`, then the
properties at the end. `EventQueue` and `PresentPromise` are abstract: what `MiEq` and `ScmdPresent` are
shown to implement. `MC*.tla` give the constants their values for TLC, `*.cfg` pick a specification and
its properties, `*_proofs.tla` hold the theorems; the invariants that ScmdPresent_proofs proves are stated in `ScmdInvariants.tla`. `PROJECT.json` relates every definition to the lines
of `src/` it stands for, every hazard of the code to the properties about it, and every property to a
slip of the code that breaks it (the operators named `<Definition>_<Slip>` are those slips: no
action uses them).

    tlc -workers 2 -config xwl_safety.cfg MCXwlPresent
    tlapm WindowBuffers_proofs.tla

## Inventory

The server is one thread around an event loop: `Dispatch` (dix/dispatch.c) alternates between
requests of clients and `WaitForSomething` (os/WaitFor.c), which runs timers, block and wakeup
handlers and the callbacks of readable descriptors. A second thread reads input devices. All other
concurrency is with processes outside the server: the Wayland compositor, the GPU, the kernel.

| component | state it keeps | operations | what is hard in it | what makes it right |
|---|---|---|---|---|
| **Xwayland Present** `hw/xwayland/xwayland-present.c`, `present/present_{execute,vblank,fence}.c` | per window: `wait_list`, `flip_queue`, `idle_queue`, `blocked_queue`, `flip_active`, `blocking_event`, frame timer, frame callback link, sync callback; per request: a vblank and an event record | PresentPixmap, PresentNotifyMSC, frame, sync and timer callbacks, buffer release, fence descriptors, window reconfigured, unrealized, destroyed | handlers reach themselves while lists are walked; a compositor may be silent, late or withhold commits; fences signal at any time | every request completes once, its pixmap is called idle once, no freed record is reached again, nobody waits for what cannot come |
| **ssX XAA ring** `hw/xwayland/ssx_xaa/` | `sq_head`, `sq_tail`, command buffer; the io_uring's queues | submit, submit a batch, wait, try to wait, drain | counters modulo 2^32, a ring that is full in the middle of a batch, failing submissions, two calls that consume completions | the counters say how many completions are to come; drain returns |
| **Input queue and thread** `mi/mieq.c`, `os/inputthread.c` | circular queue with growth, device list, pipes, the recursive input mutex | enqueue, process, register, unregister, wake | two threads; the lock is dropped while an event is handled | events arrive in order, once, and the main thread wakes for them |
| **Present, screen mode** `present/present_scmd.c`, `hw/xfree86/drivers/modesetting/present.c` | per screen: flip pending, unflip, flip pixmap and window; `exec_queue`, `flip_queue`; per window its vblanks | present, execute, flip notify, unflip, abort, check flip, destroy window | flips, unflips, vblank events, mode sets and reconfigurations cross; the driver may refuse or answer before it returns | one flip with the driver, nobody draws into a pixmap that was given back, each request completes once and no sooner than asked |
| Present, requests and notifies `present/present_{request,notify,event,fake}.c` | per window: vblanks, notifies, event masks | decode requests, deliver events | notifies of windows that go away | an event for every complete and idle notify |
| **Xwayland windows and buffers** `xwayland-window*.c`, `xwayland-pixmap.c` | buffer pool of a window, reference counts, damage of window and buffers, timer, frame callback | get and recycle a buffer, commit damage, flip to a client's pixmap, realize, dispose | a release after the window was disposed; a buffer that comes back is old; a client's pixmap is the window's | a buffer the compositor holds is not written, what is posted is what was drawn, buffers are freed once and in time |
| Xwayland input `xwayland-input.c` | seats, grabs, emulated pointer warps, tablet state | Wayland events to device events | pointer lock and confinement hand-over | confinement follows X grabs |
| Xwayland outputs, screen, glamor `xwayland-{output,screen,glamor}*.c` | globals, modes, GBM and EGL buffers | set-up, hotplug, mode emulation | mostly set-up | RandR state follows the compositor |
| ssX front end `ssx_accel.c` | pixmap privates, the ring's context | drawing hooks, bridge calls (stubs in this commit) | none of its own yet | falls back to fb |
| **Sync extension** `Xext/sync.c`, `miext/sync/` | counters, alarms, awaits, fences, trigger lists; brackets of system counters | change, create, destroy, await, trigger; block and wakeup handlers | triggers fire while their list is walked and move or free themselves; the value of a system counter moves by itself | no client sleeps on a true condition, the server wakes when one comes true |
| **OS timers and event loop** `os/WaitFor.c`, `os/ospoll.c` | sorted list of timers, poll set | set, cancel, free, run, wait | callbacks change the list; times wrap at 2^32 ms | a timer fires once, not before its time |
| Client input and output `os/io.c`, `os/connection.c` | request and output buffers, ignored and attended clients | read, write, flush, ignore, attend | short reads and writes | no request lost or read twice |
| Dispatch `dix/dispatch.c`, `dix/main.c` | client table, ready and saved-ready lists, server grab, smart scheduler | schedule, sleep, wake, kill, close down | clients that close while others sleep on them | a ready client runs, a grab excludes others |
| Resources `dix/resource.c` | hash tables of XIDs per client | add, free, look up, free all of a client | freeing calls back and frees or adds others | a resource is freed once |
| **Selections** `dix/selection.c`, `xfixes/select.c` | owner, time of each selection; registrations | set owner, convert, watch, client or window gone | requests stamped in another order than they come; windows of other clients; retained clients | the last owner by time wins, and whoever owns or watches knows |
| **Server time** `dix/dispatch.c`, `dix/events.c`, `dix/dixutils.c` | `currentTime`, in months and milliseconds | read the clock, notice an input event, restore a client's time | the clock wraps, clients' times have no month, events come late | the time is one that was |
| Grabs and event delivery `dix/events.c`, `dix/grabs.c`, `dix/enterleave.c` | device grabs, frozen devices, synced event queue, focus | grab, ungrab, AllowEvents, deliver | freezes shared by devices, replay | frozen events are delivered once in order |
| Devices, touch, gestures `dix/{devices,getevents,touch,gestures}.c` | device list, touch points and listeners | enable, disable, attach, accept and reject touches | ownership hand-over | each touch has one owner and ends |
| Windows and properties `dix/{window,property,pixmap}.c` | window tree, clip regions | map, configure, reparent | clip arithmetic | the tree is a tree |
| Other dix; small extensions; Xi and XKB; RandR; DRI3; damage and composite; rendering; Xorg DDX; other servers; configuration | see `PROJECT.json` | | sequential, geometric, or against hardware | |

How the modelled components meet the rest:

* `present_screen` calls `xwl_present_queue_vblank` and `xwl_present_execute`;
  xwayland-present.c calls back into `present_execute_wait`, `present_execute_copy`,
  `present_execute_post`, `present_vblank_destroy`.
* xwayland-window.c runs `xwl_present_for_each_frame_callback` over the windows linked to a frame
  callback; a window is linked when a request is queued or flipped (`xwl_present_queue_vblank`,
  `xwl_present_flip`) and unlinked by each callback, and when it is unrealized or cleaned up.
* the compositor answers with `wl_callback.done` (frame and sync) and `wl_buffer.release`;
  dri3 syncobjs answer through an eventfd; the Sync extension's fences through
  `present_fence_sync_triggered`.
* `xwl_present_execute` gives the window a client's pixmap and empties its damage; the next drawing
  is reported to xwayland-window.c, which swaps the pixmap (`xwl_window_swap_pixmap`) before it happens.
  WindowBuffers has the flip as an action of its own; XwlPresent has its lists.
* the modesetting driver calls `present_event_notify` when a vblank or a flip it was asked for is
  over, present_screen.c `present_check_flips` when the window tree changes.
* `WaitForSomething` runs the timers, then the block handlers of sync.c and of Xwayland, then polls.
* the input thread and the main thread share the event queue, the devices' state and the input
  lock; mipointer.c, xibarriers.c and dix/getevents.c put events in, the event loop, DisableDevice
  and config.c drain it.
* ssx_accel.c submits, links and drains; liburing and the kernel's submission polling thread do
  the rest, and are modelled from what the calls of ssx_xaa.c rely on.

## The modules and the code

### XwlPresent

One window. Its list heads and pointers are the variables of the same names; `vb[v]` is the vblank
and event record of the request with event id `v`, reduced to the fields some branch looks at
(`exec_msc`, `queued`, `flip`, `sync_flip`, `abort_flip`, whether the copy was executed, whether
it still has its pixmap and its release callback, which descriptor or fence it waits on) and two
histories, how often complete and idle were sent.

MSCs are kept relative to the window's: `vb[v].due` is `exec_msc - msc`, cut off at -1 because the
code only asks whether a msc has passed. `xwl_present_msc_bump` lowers them all. A function that
was called with a `crtc_msc` and is still running when the window's msc moves on carries the
difference as the `lag` of its frame. This keeps the state space finite without a bound on how
many frames pass.

The point of the module is that functions of xwayland-present.c call each other in the middle of
their list walks: executing a request may stop flips, which tries the next flip, which executes
another request; resetting a timer that is overdue runs its callback at once; a blocked request
that is let go lets others go. So the calls in progress are state: `stack`. An action of `Returns`
runs the innermost function up to its next call and pushes what is left. Handlers of the event
loop (`Dispatch`) start only on an empty stack, as in the server.

| code | actions |
|---|---|
| `xwl_present_reset_timer`, `_timer_callback`, `_frame_callback`, `_msc_bump` | `ResetTimer`, `TimerCallback`, `FrameCallback`, `MscBump`, `BumpStart`, `BumpLoop` |
| `xwl_present_flip_notify_vblank`, `_flips_stop`, `_flip_try_ready`, `_sync_callback` | `FlipNotify`, `FlipsStop`, `FlipsStopFree`, `FlipTryReady`, `SyncCallback` |
| `xwl_present_execute`, `_re_execute`, `_flush_blocked`, with `present_execute_wait`, `_copy`, `_post` | `Execute`, `ReExecute`, `RetryWait`, `RetryQueueFlip`, `RetryFlip`, `RetryFlipFails`, `RetryCopy`, `RetryPost`, `Block`, `AppendFlip`, `FlipDone`, `Copy`, `FlushBlocked`, `FlushLoop` |
| `xwl_present_buffer_release`, `_acquire_fence_avail`, `present_fence_sync_*`, `miSyncTriggerFence` | `BufferRelease`, `AcquireFenceAvail`, `TriggerFence`, `Trigger` |
| `xwl_present_check_flip_window`, `_unrealize_window`, `_cleanup`, `xwl_present_for_each_frame_callback` | `CheckFlipWindow`, `DropFlips`, `Unrealize`, `Cleanup`, `LeaveForEach`, `FrameDone` |
| `present_pixmap`, `present_notify_msc` up to the queue | `Present` |
| the GPU and the clock | `AcquireProgress`, `TimePasses` |

Abstracted: pixels and regions; the contents of events; `target_msc`, `divisor` and `remainder`
(`Present` takes every target they can give, up to `ahead`); the compositor, which may send any
callback it owes at any time. Left out: windows redirected to another, aborts by
`xwl_present_abort_vblank` other than in `Cleanup`, presenting to windows of another screen.

### WindowBuffers

One window. A buffer is named by its pixmap: `buffer[p]` is `struct xwl_window_buffer` (its age stands
for `time`), `available` is the list in the order of release, `unavailable` the other, `untied` the
buffers whose window was disposed of while the compositor had their pixmaps. Contents are reduced to
where they differ from what was drawn last (`stale`), for the window's pixmap and each buffer's, by
`Tiles`; so that `Copied`, what `xwl_window_swap_pixmap` copies, can be wrong. `with` and `behind` are
the compositor: the pixmaps it reads and where it was not told of changes.

| code | actions |
|---|---|
| `ensure_surface_for_window`, `xwl_window_dispose`, `xwl_window_dmabuf_feedback_done` | `Map`, `Unmap`, `FeedbackDone` (a resized window loses its buffers in the same way) |
| `damage_report` | `Draw`: called when the window's damage was empty, before the drawing |
| `xwl_screen_post_damage`, `xwl_window_post_damage`, `_attach_buffer`, `_swap_pixmap`, `_realloc_pixmap` | `PostDamage` with `Swap`, `Keep`, `Swapped` |
| `xwl_present_execute` of a flip, `xwl_present_buffer_release` | `Flip`, `ReleaseFlip` |
| `xwl_window_buffer_release_callback`, `_timer_callback`, `_maybe_dispose` | `Release`, `TimerCallback` with `Unref`, `Rearm` |
| `frame_callback`; the clock | `FrameCallback`; `Tick` |

What a client may do to its pixmaps is an assumption, written at the head of the module: it does not
touch the window's pixmap, it leaves what is outside its update as the window has it, and it updates
what was not posted yet.

### ScmdPresent and PresentPromise

`ScmdPresent` is one CRTC with the modesetting driver below it. `exec_queue` and `flip_queue` are
`present_exec_queue` and `present_flip_queue`, `window_list[w]` the vblanks of a window, `flip_pending`,
`flip_pixmap`, `flip_window` and `unflip` the fields of `present_screen_priv`, `winpix` the pixmap that each window
draws to. `events`, `flips`, `fakes` and `scanout` are the driver and the kernel. As in XwlPresent calls in
progress are on `stack`, for the driver may answer in the middle of a call and `present_execute` reaches itself
through `present_flip_notify`, and mscs are distances.

| code | actions |
|---|---|
| `present_scmd_pixmap`, `present_vblank_scrap` | `Present`, `Create`, `Scrap` |
| `present_execute`, `_execute_wait`, `_copy`, `_post` | `Execute`, `Presents`, `FlipSucceeds`, `FlipFails`, `FlipOver`, `Copy`, `CopyTearFree`, `Post` |
| `present_event_notify`, `present_flip_notify`, `present_flip_try_ready`, `present_unflip` | `Notify`, `FlipNotify`, `TryReady`, `StartUnflip`, `UnflipNotify` |
| `present_check_flip_window`, `present_clip_notify` | `CheckFlipWindow`, `CheckQueued`, `Restack` |
| `present_destroy_window`, `present_scmd_abort_vblank`, `present_scmd_clear_window_flip` | `DestroyWindow`, which calls `Abort` for each request of the window and `ClearWindowFlip` |
| `drmmode_prepare_modeset`, `drmmode_sprite_do_set_cursor`, `ms_drain_drm_events` | `PrepareModeset`, `Checked`, `Drained`, `Cursor` |
| `miSyncTriggerFence` | `TriggerFence`, `Trigger` |
| the kernel and the clock | `VblankEvent`, `FlipEvent`, `FakeFlipEvent`, `Tick` |

`PresentPromise` is what the protocol promises: a request is completed once or dropped with its window, its
pixmap is idle once, afterwards, and never while it is on display. `Implements` maps `done` and `idled`
counts, the pixmap references and `scanout` to it.

### Timers

`timers` is the list of `os/WaitFor.c`, `loop` where `WaitForSomething` is, `stack` the callbacks that
run and the walk they run in (`check_timers`, `DoTimers`, `CheckAllTimers`, or `TimerForce`). Times are modulo `U32`
and compared by the sign of the difference, as CARD32 and `int` are. A callback may make any of the calls on any timer;
what it returns sets its own again after the walk. So may clients' requests and block handlers (`loop = "block"`), which run
after `check_timers` computed the timeout of the poll. Three variables are histories: `left`, how far in the future the timer's
time is without any modulus; `unseen`, the timers that were set since the timeout was computed; `spent`, how long block handlers
have run since then.

### SystemCounter

`ctr` is the `SyncCounter` of IDLETIME or SERVERTIME: the server's copy of its value, the brackets, the
list of triggers; `trig[t]` an alarm or an await. Time (`now`) moves without it; input sets it back to zero
and marks `reset`. `BlockHandler`, `WakeupHandler` and `Dispatch` take turns as in `WaitForSomething`; requests come in
`Dispatch`. `due` is a history: the triggers that have come true and have not fired since. Values are
bounded by `MaxInt`, so that a step past it is the overflow that `SyncAlarmTriggerFired` looks for.

### ServerTime and Selections

`currentTime` is the server's, with `milliseconds` modulo `U32`; `now` and `looked` are histories, of a clock that does
not wrap. `Systime` and `NoticeTimeMillis` are the two ways by which a month is seen to have gone by,
`ClientTimeToServerTime` the way back from a client's time.

| code | actions |
|---|---|
| `UpdateCurrentTime`, `UpdateCurrentTimeIf`, `NoticeEventTime` | the actions of these names, and `InputIsProcessed`; up to two events at once |
| `ProcSetSelectionOwner` | `SetSelectionOwner`, with `Ignored`, `Cleared`, `SetOwner` |
| `ProcConvertSelection` | changes nothing: `Answerer` is whom it turns to |
| `DeleteWindow`, `DeleteWindowFromAnySelections` | `DestroyWindow` |
| `CloseDownClient`, `DeleteClientFromAnySelections`, `FreeClientResources` | `CloseDownClient`, once or, for a retained client, twice |
| `XFixesSelectSelectionInput`, `SelectionFreeClient`, `SelectionFreeWindow`, `XFixesSelectionCallback` | `SelectInput` (which may be out of memory at any place), `Free`, `Notify` |

What a client was sent says what it believes when it has read it, because a connection keeps the order. So events
are not queued but change `believes` (owners) and a registration's `seen` (watchers) as they are sent. `promised` is the
owner by the rule of the protocol, with times that do not wrap; the code keeps `sel`. One selection is modelled, since
no operation relates two, and a window's id is not used again.

### SsxRing

`sq_head`, `sq_tail` and `cmd_buffer` are the fields of `ssx_xaa_ring_ctx`, the counters modulo
`U32`. The io_uring is four sequences of entries, in order: prepared by the server, published,
running, completed. `PollSq` and `Complete` are the kernel: entries run out of order unless linked
(`SSX_XAA_SUBMIT_BATCH`) or drained (`SSX_XAA_SUBMIT_FENCE`). `RingSubmit*` are
`ssx_xaa_ring_submit` with its flush and second try when the ring is full, `Batch*` are
`ssx_xaa_ring_submit_batch`, `RingWait` is `ssx_xaa_ring_wait` and `_try_wait`, `Drain*` are
`ssx_xaa_ring_drain`. `Faults` lets `io_uring_submit` and `io_uring_wait_cqe` fail. `waited`
remembers, for the ledger, how many completions a wait took.

### EventQueue and MiEq

`EventQueue` is what callers of mieq.c rely on: a sequence of events, of which the last is replaced
by newer motion of the same device, from which the first is taken, and which loses an event only
when memory has no room for one more. `MiEq` is the code: `head`, `tail`, `nevents` and `events` are
miEventQueue's, the lock is `owner` and `depth`, and `calls[t]` is what thread `t` has yet to do.
`Queue == INSTANCE EventQueue WITH queue <- Queued` maps the one to the other: `Queued` reads the
array from `head` to `tail`, so that growth and all locking are stutters.

| code | actions |
|---|---|
| `input_lock`, `input_unlock` | `Lock`, `Unlock`, recursive: the lock is free only when `depth` is 0 again |
| `mieqEnqueue`, `mieqGrowQueue` | `Enqueue` picks the bucket, grows or drops; `Store` fills it and moves the tail. Two steps, so that callers without the lock are seen to interfere |
| `mieqProcessInputEvents`, `mieqProcessDeviceEvent` | `Drain` takes one and lets the lock go (once: held twice it stays held), `Handle` |
| `miPointerMove` | `Move` makes the event, `Post` queues it under the lock |
| `BarrierFreeBarrier` | a `Request`: the event is queued without the lock |
| `EnableDevice`, `DisableDevice`, `RemoveDevice`, `remove_device` | `Enable`, `Disable`, `RemoveDevice`, with the steps `DeviceOn`, `DeviceOff`, `Remove`, `CloseDevice` |
| `Dispatch`, `WaitForSomething`, `InputThreadNotifyPipe` | `PollReturns`, `PollWakes`, `Check`, `Request` |
| `InputThreadDoWork`, `InputReady`, `readInputProc` | `InputPollReturns`, `InputReady`, `Read`, `FillPipe` |
| `GetTimeInMillis` | `Time`: what it returned last, or later |

A pipe is whether bytes wait in it. Left out: screens, the handlers' work but for the pointer it may
move, the thread's own list of devices and its second pipe (a device that is off is not read, which
is what `device_state_running` is for, but registration is taken to be immediate), start and end.

## The runs

| run | question | result |
|---|---|---|
| `ssx_drain` | Do `sq_head` and `sq_tail` say what is outstanding, across wrap-around, full rings and failures, and does a drain return? For a client like ssx_accel.c, one that batches and one that waits but never drains. | holds |
| `xwl_safety` | Synchronous, asynchronous, tearing and periodic presentations, copies and notifies, with implicit and explicit synchronisation and wait fences, on windows that are reconfigured, withheld and disposed of, with timers that fire late: nothing freed is reached, what the code asserts holds, flips take turns and each finds its release, each request is on one list and reported once, and something will come for whatever waits. | holds |
| `xwl_live` | With a silent compositor: every request completes, a copy not in the frame that executes it. | holds |
| `xwl_mixed_sync` | An explicitly synchronised flip after an implicitly synchronised one. | `FreedWasReported` is violated |
| `window_buffers` | Are references to buffers exact, whenever the window goes and the releases come; is what is posted what was drawn; does nobody draw into what the compositor reads; are unused buffers freed in time? | holds |
| `scmd_flips` | Do screen flips keep Present's promise while windows are restacked and destroyed, the driver refuses flips and events, TearFree flips by itself, a software cursor comes, modes are set and fences are waited for; does every request complete but those that are passed over (`PassedOver`: what was tried in its place is no longer a flip)? | holds |
| `scmd_fence` | Does the server return from triggering a fence that a flip waits for? | `HandlersReturn` is violated |
| `eq_queue` | Is the array a queue, for callers that hold the lock: does it implement `EventQueue` across growth, exhaustion, nested locking and drains that let the other thread in; is mieqEnqueue never interrupted; does no event outlive its device; is what is queued always taken? | holds |
| `timers` | Is the list in order whatever callbacks do to it, across the wrap; is no timer early; does the poll not sleep past a timer it knows of, nor for as long as the clock was set back; does each of these run? | holds |
| `sync_counter` | Is whatever comes true on a system counter noticed, once, and do the brackets wake the server for it? | holds |
| `sync_repeat` | A periodic alarm that goes off when it is created. | `SleepsRight` is violated |
| `selections` | Is the owner the last one by time, across wraps, late events and owners that go; do owners and watchers know; does no registration outlive its window or its client's resources? | holds |

Deadlock is checked in `ssx_drain` and `window_buffers`. Elsewhere the system may really stop: clients
have made their requests, no device is left, no timer is set.

## Bounds

* **XwlPresent**: three requests on two pixmaps. Three is what the hazards need: a flip on the
  screen, one pending and one queued or blocked; a blocker and two blocked; a list of which the
  walk saves the next node while its body executes a third. With two pixmaps a pixmap is
  presented again while its buffer is still held. Targets up to two frames ahead separate "next
  frame" from "later". The surroundings (`Setups`) are split so that each enables what interacts:
  `Flipping` (three flips, reconfigurations), `AnyOption` (two requests with every option, two
  frames ahead, a window that withholds commits or goes away), `Late` (three requests and overdue
  timers), `Implicit`, `Explicit` (three requests with acquire points, without and with a
  compositor that takes them), `WaitFence`. Pixmaps are symmetric: no action tells them apart.
  `xwl_live` runs without symmetry, with two requests of the kinds that wait for each other.
* **SsxRing**: two slots, three commands, counters modulo four. The ring fills with two entries,
  the third command meets a full ring, and the counters wrap within two trips around the ring.
  A batch of three is longer than the ring. `U32` is a multiple of `RingSize`, as in the code.
* **WindowBuffers**: four pixmaps of the server and two of clients: the window's, one available, one
  unavailable and one untied at once; a flip may follow a flip whose pixmap is still read. Two tiles
  tell a part that was copied from one that was not. A timeout of two and a timer that is one late
  let two buffers of different age meet an overdue timer. Everything is proved for all values.
* **ScmdPresent**: up to three requests, one frame ahead, two windows. Three: a flip on display, one with
  the driver, one ready behind it. Six setups, as in XwlPresent: `Restacking` (two windows that cover the
  screen in turn and are destroyed, two requests), `Passing` (three flips of windows that cover the screen in turn, which is what it
  takes for one to be passed over), `Failing`, `TearFree` (with the cursor), `Modes` (an unflip may be over
  before it was asked for), `Fencing`. With three requests in `Restacking`, copies and destruction included, the safety properties hold
  as well (TLC, 546,081 states); the run has two there because liveness would take too long.
* **Timers**: two timers and three calls; the modulus is 18 and the clock starts two before it wraps;
  delays of 1 and 3, so that one is in the slack of 1 (the 250 ms) and one beyond; the clock is set back once, by 2, more than the slack;
  the server is late by one when it works, as long as block handlers may run, and by three when it sleeps, which is the longest delay:
  a sleep from the end of a block handler to a timer that it did not know of is not cut off before it is seen. Two timers are enough for an order and for a callback that disturbs the walk's other entry.
* **SystemCounter**: an alarm and an await, values up to 2, deltas -1, 0 and 2, a range up to 4 (so that a
  step of 2 leaves it), time up to 3: beyond the largest value asked for it makes no difference.
* **Selections**: two clients and a window each, of which one is below the other, so that a client's close
  destroys another's window; each may own through either window. Times wrap at 8, half of which is what a client's time may be off
  by; the clock goes from 6 to 9, so that a time of the last month is compared with one of this. Events are late by
  one, which is the slop; the server looks at the clock every two.
* **MiEq**: four events, an array that starts with two buckets and may grow to four (one bucket is
  always empty): it is full at one event, grows, is full at three and loses the fourth; head and
  tail wrap in both sizes. One physical device and the master pointer are two sources, which
  is what merging tells apart. Time stands still in `eq_queue`, where nothing looks at it.
* No state constraint is used: the bounds are constants and guards.

## Fairness

* **XwlPresent** (`FairSpec`): a function that was called runs on (`WF` on `Returns`: the server
  is one thread and does not block there). The rest are strong, because calls that are in
  progress disable the event loop's handlers again and again while the loop always gets back to
  them: a timer that is set fires (`check_timers` runs before every poll; where a block handler sets Present's, it moves one that
  was set before, so that poll wakes up at its old time at the latest), an answer to a
  `wl_display_sync` comes and is dispatched (`wl_display` guarantees it), a descriptor that is
  readable is dispatched (level-triggered poll), and an acquire point that is waited for is
  submitted and signalled. Nothing is assumed of frame callbacks and buffer releases: a hidden
  surface gets none, and the requests still complete because the timer stands in.
* **SsxRing**: the poller and the device go on (`IORING_SETUP_SQPOLL`, woken by
  `io_uring_submit`), and the server thread inside drain takes what is there. No fairness for
  clients.
* **ScmdPresent** (`FairSpec`): calls run on (`WF` on `Server`), the kernel reports what it was asked for or a
  frame goes by (`SF`, since a call in progress disables both), clients trigger their fences (`WF`).
* **Timers** (`FairSpec`): the loop goes on (`WF` on `Server`), time passes (`SF`, since a poll that
  is over disables it). Nothing else need ever wake the server.
* **WindowBuffers, SystemCounter, Selections**: none; only safety is checked. That a timer is not later than `MaxLate`, and that the
  poll returns when its timeout is over, are guards of `Tick`: bounds on time, not fairness.
* **MiEq** (`FairSpec`): both threads run on (`WF`: nothing but the lock stops them), a poll on a
  readable pipe returns, and the main thread gets the lock in the end although the input thread
  takes it again and again (`SF`: that one thread is starved for ever is not what pthread mutexes
  do, though POSIX does not exclude it; the input thread lets go of it in every poll). Nothing is
  assumed of devices or requests: input need not come, and no request need follow.

## What is proved

TLAPS checks the following for every value of the constants that the named assumptions allow.

* **`SsxRing_proofs!LedgerHolds`**: `Spec => []LedgerExact`, under `RingAssumption` (the counters'
  modulus is a multiple of the ring's size and larger than the number of commands; any ring size,
  any set of commands, any faults). The invariant is inductive together with `LInv`: the types of
  the counters and queues, and `NoBatchInv`, that a client without batches is never in one. Each
  step changes one side of `(sq_head + Outstanding + waited) % U32 = sq_tail` as much as the other;
  the lemmas about `%` at the head of the module say so once, for the wrap-around too.
* **`XwlPresent_proofs!TypesHold`**: `Spec => []TypeOK`, for any number of requests, pixmaps and
  setups and stacks of any depth. `TypeOK` bounds more than it seems to: `due` stays within the
  frames a client may target although msc moves under running calls, and `held` only has
  pixmaps. It is not inductive: a flip adds its request's `pix` to `held`, which is a pixmap only
  if the request still has one. The strengthening is `IInv == TypeOK /\ PixmapsNamed` (a request
  that holds a pixmap names one); that no step gives a request a pixmap back after it was
  released is `GivesUp`, one lemma per group of actions.
* **`XwlPresent_proofs!ListensToWindow`**: `Spec => []HookedHasWindow`: frame callbacks are only
  listened to while there is an xwl_window to send them. It is inductive by itself, because every
  action that links the window asks for the xwl_window first, and disposal unlinks it before
  anything else runs.

* **`WindowBuffers_proofs!CountsHold`**, **`ShowsWhatWasDrawn`**, **`FreesUnused`**:
  `Spec => [](TypeOK /\ Counted)`, `Spec => []Faithful`, `Spec => []Reclaimed`, for any set of pixmaps,
  clients' pixmaps and tiles, any timeout and lateness. One invariant carries the three:
  `IInv == TypeOK /\ Counted /\ Faithful /\ Aging /\ HasPixmap`. `Aging` (available buffers are ordered by age, and the
  timer is set to what the oldest has left) is why a timer for the first buffer is enough for all;
  `HasPixmap` (a window that exists has a pixmap, one that does not has none) is why a swap never
  takes the place of nothing. `Counted` and `Faithful` need each other: that a buffer which comes
  back is no one else's is a fact about references, that the compositor's pixmap is not the window's
  one about contents. What a release, the timer and a disposal do to the counts is `UnrefFacts`, `Disposed`;
  what a swap does to contents and order is `SwappedFacts`, `SwapAges`; there is one lemma per action.

* **`WindowBuffers_proofs!TypesHold`**: `Spec => []TypeOK`, from the same invariant.
* **`MiEq_proofs!Invariant`**, **`TypesHold`**, **`StaleFree`**, **`NotInterrupted`**, **`IsQueue`**: the input
  event queue, for any devices, any number of events and any memory. What has to be known of the
  lock is a fact about what each thread has *yet to do*: `Path(calls, x, y)` says that its frames lead from one state
  of the lock (how often the thread holds it, whether it has emptied the queue since) to another,
  each `Guarded` frame running while the lock is held, each device removed and closed after a drain; a thread
  always has a path to "released". With it goes what the array is: ends within it, what is between them
  filled, the events in hand those of devices that exist. `IsQueue` is the refinement: Init implies EventQueue's,
  and of each step, a step of EventQueue or a stutter; growth maps to a stutter because `Queued` reads the same
  sequence from the copied array. All but types assume `LockedCallers`, that no request is a barrier's: the code asks it
  of callers (config.c:86, mieq.c:212), Xi/xibarriers.c does not keep it (see the findings below). `QueueAssumption` says of memory that the
  array doubles from its first size to exactly `MaxBuckets`.
* **`Selections_proofs!Invariant`**, **`WatchesFresh`**, **`WatchersAreTold`**, **`OwnersAreTold`**: for any clients, windows
  and trees, whatever the clock does, no registration outlives its window or its client's resources, and watchers and owners know.
  Each follows from a conjunct of `IInv`, which says the same of what one step of a multi-step handler leaves
  (`Sound`, `Watched`, `Owned`). The proof found a slip of an earlier version of the model: by the precedence of `=>`, a client whose resources were already
  freed could become a retained one.
* **`Selections_proofs!TimeKept`**, **`LastOwnerIs`**: `TimeSpec => []TimeHolds` and `Spec => []LastOwnerWins`, under `~MixedMonths`: no
  event of last month is processed together with one of this, or after the clock was looked at in this one (the finding
  below is what happens otherwise). Half of the proof is arithmetic: the months of `now` and of a time that is late by less than half a month, and that
  `ClientTimeToServerTime` restores a time from 32 of its bits if it is less than half a month away.
  Months are a CARD32 and wrap too; `ServerTimeAssumption` has time end before they come round (`MaxTime + U32 <= U32 * U32`, some 500 million years).
* **`Timers_proofs!Invariant`**, **`ListKept`**, **`RunInTime`**, **`WakesInTime`**: for any timers, delays, lateness and clock. The
  proof never speaks of times, but of `Off`, how far an entry's time is from the clock: the lemmas
  `Ahead`, `Moved`, `FarChain` turn the signed comparisons of wrapped times into comparisons of these. `Decent` bounds `Off`, relates it to `left` (what is
  left of the delay in truth) and makes them equal until the clock is set back; `Good` adds the order and
  that a timer is on the list once. The proof found an assumption the code makes silently: times are compared over less than
  half of their range, so no delay, with what the clock was set back by and how late the server is, may reach 24 days
  (the last conjunct of `TimersAssumption`). `WakesInTime` is about the timeout from when it is computed: `Asleep` says, through the block handlers
  and the sleep, that it is not longer than a delay that is asked for (`Delays`: each timer on the list was set for one), and that
  each timer of the list was either set since (`unseen`) or has at least as long to wait, without what the block
  handlers have spent (`Covers`). It needs no assumption on block handlers: they may set any timer at any time, and what they set is `unseen`.

* **`XwlRequests_proofs!RequestsPlaced`**, and from it **`NothingDangles`**, **`AssertionsKept`**, **`FlipsTakeTurns`**,
  **`ReportsOnce`**, **`ReleasesAwaited`**, **`NobodyIsLost`**: the six safety invariants of XwlPresent, for any number of
  requests and pixmaps, frames ahead, and calls in progress. The invariant (`Placed`) gives every request one *place*: a list, the
  screen, with the compositor as the pending flip, waiting for its fence, in the hands of one call in progress (`held`, `flipping`),
  or nowhere, because it was answered or goes from one call to the next. `OnLists` says that
  the lists agree with the places, `Records` what the place says of the record, `Buffers` in which order the requests of one
  pixmap stand on the way to idle and whose release callback it has, `Attended` that a request on no list has its
  call. `Calls` is the heart: which function may be in progress under which (`Stacked`, `Buried`), and what
  each knows of its request when it goes on (`Knows`). `flush_blocked`'s walk may be entered again under a flip but not under a
  walk; a saved next node is safe because everybody who could unlink it would have to be on the stack above the walk.
  There is one lemma per action, with the new place of the one or two requests it moves.
  **`CopiesCompleteLater`** is the action property `CopyCompletesLater`. It needs one more invariant, `Uncopied`: a copied request
  waits for no fence, and `xwl_present_re_execute`, the one function that would give it a new exec_msc, is never called for it. Each place
  that calls it is shown to know: the flip queue and blocked_queue hold no copies, nor does a descriptor.
  The theorems assume `InTime` of the setup: no overdue timers, and no wait fences. With either the code does reach states outside of
  the invariant (below, under XwlPresent); TLC checks the properties on the setups of that kind in which they hold
  (`Late`, `WaitFence`).

* **`ScmdPresent_proofs!Holds`**, and from it **`TypesHold`**, **`StaysLinked`** and **`DrawsHeld`**: for any windows and requests, any number of
  frames ahead and every setup, driver failures included; nothing is assumed but `PresentAssumption`. The invariant (`Inv` in ScmdInvariants) has four parts
  beside the types. `Lists` places each request: on the exec or the flip queue and on the list of its window (`Waiting`), with the
  driver (`WithDriver`), or with one call that has taken it off the lists (`Owned`). `Calling` is what a function may find when
  it goes on after the functions it called: `Sound` says what each call under way relies on, `Over` which may run above which, for
  instance that two calls never hold the same request, and that `present_execute`, which is reached from itself through
  `present_flip_notify`, has nothing left to do when it is. `Scraps` is the one fact that concerns the whole stack: while the requests that
  a new one replaces are scrapped, nothing that is executed has a pixmap, so nothing is flipped or copied
  under the scrapping loop. `Flipping` relates `flip_pending`, `unflip` and the current flip; `Drawn` says that all windows draw to what is on the
  screen or to the screen's pixmap, and that no other window does unless the root does, which is what makes `RestoreScreenPixmap` find them all.
  `DrawsToHeld` speaks of `flip_pixmap` and `flip_pending` only, and is not inductive: a window must also have left the pixmap
  before `flip_pending` becomes the current flip and before an abort makes it an unflip.
* **`ScmdPresent_proofs!CopiesDrawn`**: `CopiesToScreen`, for a driver that does not unflip at once (`~setup.at_once`). It adds `Hidden` to
  the invariant: `present_execute_copy` is the last thing its caller does, so a copy is on top of the stack or directly under the
  unflip that it asked for, and where its window is that of the flip on the screen the unflip is still to come. The hypothesis is needed: with a
  driver that unflips by setting a mode the property fails (below, under ScmdPresent).
* **`ScmdPresent_proofs!InTime`**, and from it **`Asserts`** and **`CopiesInTime`**: `AssertionsHold` and `NotEarly`, unless driver calls fail
  (`~setup.fails`; `NotEarly` says so itself). They are about time, not about the lists. The invariant `Punctual` has three parts: `OnSchedule`,
  that a flip which is still to be executed waits for at most one vblank event, and for none while it is on the flip queue or waits for
  its fence, and that a request was not executed before it is due; `OnTime`, what each call knows of the time of its request; and
  `Reported`, that a flip with the driver is `flip_pending`.
  When the driver fails a request can have two events under one id (below, under ScmdPresent), and
  then only the last conjunct of `AssertionsHold` is lost: the lemma `AssertionsReached` has the other three for every setup.
* **`ScmdPresent_proofs!FulfilsPromise`**: ScmdPresent implements `PresentPromise` (`Implements`), unless driver calls fail. `PresentPromise` sees a
  request through `Status` and `Pixmap`, which count what was sent for it; that they stay right takes the invariant `Promised`.
  `Kept` says of each request that it was not completed while it lives, what it was asked for and whether its pixmap was already
  idle: one that waits or is with the driver was copied only when TearFree is to complete it (`CopiedOnce`). `Knows` is what each
  call relies on: a request that is to be copied, created or scrapped still has its pixmap, one that is posted with a pixmap has had it
  idle, and those that are aborted are for a window that is gone. `Doomed` is why a request is never lost with its window without the
  promise knowing it: one that lives on when its window is gone has its abort under way, or is the pending flip, which the rest of
  `present_destroy_window` will take from the window. `Displayed` is why no pixmap is idle while it is on display: the current flip or the
  screen is, except between the kernel's flip and `present_flip_notify`, when the pending flip is. There is one lemma per
  action, which names the step of the promise that it is, or shows that the promise does not see it.
  The hypothesis is needed: the flip whose vblank event is taken for its completion is made current, and the pixmap of the flip before it idle,
  while that one is still on display (below, under ScmdPresent).

Only model-checked: XwlPresent with overdue timers or wait fences; of ScmdPresent `CopiesToScreen` when the driver unflips
at once, and `Implements` and the last conjunct of `AssertionsHold` when it fails; the invariants of SystemCounter; and all liveness.
Liveness under fairness and anything about `ENABLED` is beyond the prover, as is induction over
data where the library's induction theorems would need a predicate for a parameter. What can be had is the least
element of a set of naturals (`Least` in Timers_proofs, from `WFMin`), which is how the timers' `Min` is reasoned about.
SystemCounter is not proved for that reason: `SyncChangeCounter` folds a step that itself changes the counter and its
triggers over the list of triggers, and all its invariants are about what is left after the last of them.
The models declare no recursive operator.

## Where the code disagrees with itself

Each of these is a run that ends in a counterexample to something a comment of the source says.

1. `xwl_present_flip_notify_vblank` (xwayland-present.c:431) asks the flip that completes, not the
   one it replaces, whether no release event will come; after a mix of the two kinds of
   synchronisation the old flip is freed without an idle event. Run `xwl_mixed_sync`.
2. `miSyncTriggerFence` (misync.c:140) calls triggers until none fires, and
   `present_fence_sync_check_trigger` (present_fence.c:49) stays true while the callback is set (present_execute.c:77): a
   flip that waited for its fence is executed by its trigger without end. Run `scmd_fence`.
3. `ProcSyncCreateAlarm` and `ProcSyncChangeAlarm` (sync.c:1768, 1813) let an alarm go off after its
   brackets were computed; the next test value of a periodic alarm is in no bracket. Run `sync_repeat`.

Seen while modelling. These have no run of their own; where a passing run leaves a setup or a kind of
client out because of one, or a property a case, that is said.

XwlPresent:

* The same loop in `miSyncTriggerFence` executes a copy that waited for its fence a second time, in the
  same call, and posts it a frame early. `xwl_live` has no wait fences.
* `xwl_present_flush_blocked` (xwayland-present.c:1021-1032) goes on letting requests go after one
  has become the blocking event again, when its flip failed and it must wait as a copy (:1069); the next
  one overwrites `blocking_event`. The setups with acquire points have no flips that fail.
* `xwl_present_flip` asks for a frame callback, which resets the timer (:940, :595); if that is overdue it bumps the msc in the middle of a flip that a walk
  of `blocked_queue` executes, another request waits for its fence and blocks, and the flip's own `flush_blocked` then lets it and
  everybody else go, under the outer walk, whose saved node is gone. "Block execution of subsequent requests until
  this request is ready" says :1069. With acquire points and overdue timers in one setup TLC refutes `NoDangling`.
* `xwl_present_flip_try_ready` (:309) retries one flip. If that one is copied instead because commits are withheld, nothing is
  pending, and a flip queued behind it waits until something else is flipped. "Queued flips have a
  pending one" is refuted with four asynchronous flips and `held`, so no property says it.
* With two further requests that must wait behind one that becomes the blocker again,
  it appends each to the list it walks and does not end (:1021, :1061). The
  setups withhold no commits while fences are waited for.
* An overdue timer that finds a synchronous flip while asynchronous requests two frames ahead wait
  executes those in the middle of a flip: two flips are pending (:940, :1155).
  The setup with overdue timers has no asynchronous requests.
* A pixmap that is presented again before it is idle overwrites its release callback
  (:923): only the later flip hears of the release. The clients of the model wait.

WindowBuffers:

* If the pixmap has no wl_buffer, `xwl_window_post_damage` returns early (xwayland-window.c:2122) and its caller takes
  the window off the list of damaged ones all the same; its damage is not empty, so the next drawing is not reported
  either. Not modelled.
* A flip tells the compositor only of its update's extents, but empties the window's whole
  damage (xwayland-present.c:941, :1152): what was drawn elsewhere and not yet posted is never posted. The model's clients
  update what was drawn.
* When a client's pixmap is replaced by the last available buffer the timer stays set (xwayland-window-buffers.c:449);
  it finds nothing to do.

ScmdPresent:

* `present_flip_try_ready` (present_scmd.c:261) tries the first ready entry of the flip queue only. If that may no longer flip,
  because its window was restacked (:476), it is copied, or dropped if another has replaced it; nothing flips any more, and the ready flip
  behind it waits until another request flips. present_scmd.c:241 says "When the wait fence or previous flip is completed, it's
  time to re-try the request". A driver that refuses the flip (:623) has the same effect with four requests.
  With `Setups <- Stuck` TLC refutes `Retried`. The run checks `Completes`, which leaves out the requests to which that happens
  (`PassedOver`) and no others; its setup `Passing` is `Stuck`, so it does happen there.
* A flip whose vblank event could not be queued is executed at once and waits in the flip queue; requeued for a vblank
  and then flipped by `present_flip_try_ready` before that vblank comes, it has two events under way with the one id, and
  `present_event_notify` takes the vblank's for the flip's completion. An unflip may then be asked for while
  the flip is with the kernel, and the pixmap that is still on display is idle. With two frames ahead, three flips and a
  driver that fails TLC refutes the last conjunct of `AssertionsHold`, and `Implements`; the setups in which the driver fails are one frame ahead.
* Where the driver unflips by setting a mode (`at_once`) the unflip that a copy asks for ends before the copy is drawn,
  and `present_flip_try_ready` (present_scmd.c:261) flips the next ready flip of the same window from there: the copy is then drawn to a window whose
  pixmap is that flip's. With `Setups` all of restacking and a driver that unflips at once, and four requests, TLC refutes `CopiesToScreen`; the
  passing run has at most three there, and the theorem leaves these drivers out.
* Flips that are requeued go to the end of the exec queue, so frames may be shown in another order than they were asked for.
* `present_re_execute` passes a msc of 0 for a vblank on the fake CRTC. There is none in the model.

Timers:

* `WaitForSomething` computes the timeout of the poll (WaitFor.c:195) before the block handlers run (:201). A timer that they
  set is not seen until poll returns for another reason. Xwayland's (xwayland-screen.c:715) leaves its timeout argument alone, and
  dispatches Wayland events, where a buffer's release sets the timer of the unused buffers (xwayland-window-buffers.c:242), and posts
  damage, which sets Present's timers anew (xwayland-window.c:2042). Xserver-spec.xml:863 says "A callback function will be called when the timer
  fires", and :754 that block handlers may adjust the timeout. With the constants of the run TLC refutes `CallbackCalled`. The run checks `Fires`,
  which leaves out a timer while the poll sleeps and does not know of it, and no other; block handlers set timers there.
* A delay of 2^31 ms or more has expired at once (WaitFor.c:340); Xext/security.c:267 sets such timers
  for long-lived authorizations. `Millis` is below `Half`.
* Exactly at the slack of 250 ms `check_timers` and `CheckAllTimers` disagree, and the loop spins for a
  millisecond. `check_timers` looks at the first timer only for a clock that was set back.
* `TimerSet` with an absolute time that happens to be 0 cancels the timer.

SystemCounter:

* A request that reads the value of IDLETIME between a crossing and the wakeup handler moves the server's copy past the
  test value, and a transition is lost (sync.c:339-346, 1668-1672; the comment at 712 asks for the
  opposite). In the passing run such requests come only when no crossing is pending (`MayQuery`, `Noticed`).
* `IdleTimeBlockHandler` sleeps past an upper threshold when the idle time is below its lower bracket after input,
  and when a positive transition's test is just the value (sync.c:2666-2711); `WakesInTime` leaves those out.
* Positive transitions on SERVERTIME are in no bracket: the guard takes it for a counter that only decreases (around
  sync.c:1102). The run has none.
* A ChangeAlarm that fails keeps the new type and delta with the old test (sync.c:889-894).

ServerTime:

* `NoticeTimeMillis` (events.c:1100) compares milliseconds only. An event from just before the wrap of the clock that
  is processed after the server saw it wrap, in a request that calls `UpdateCurrentTimeIf`, is not earlier by that
  comparison: the server's time is set to the end of the new month, 49.7 days ahead, and the next reading of the clock
  counts another month. With `MixedMonths = TRUE` TLC refutes `LastOwnerWins` by `TimeIsDecent`. The run has it `FALSE`.
* A client's time of 0, which is what the clock shows for a millisecond at the wrap, is CurrentTime.
* A server that does not look at the clock for a month misses that it went by: `MaxIdle`.

SsxRing:

* `ssx_xaa_ring_drain` (ssx_xaa.c:320) counts only completions it took itself; a wait takes
  completions without moving `sq_head` (:276, :299), and a later drain waits for one that was already seen. A client
  with `Apis = {{"submit", "wait", "drain"}}` refutes `DrainReturns`; no client of the run does both.
* A batch that a full ring cuts short leaves commands in flight that `sq_tail` does not count
  (:218): drain returns before they complete.
* A slot of the command buffer is free for reuse when the poller has consumed its entry, not when
  the command has completed (:168).
* `ssx_xaa_ring_available` (ssx_xaa_io_uring.h:231) computes the number of commands pending, modulo
  the ring's size: 0 both when the ring is empty and when it is full.

MiEq:

* `mieqEnqueue` (mieq.c:268-280) corrects the time of the caller's event after it has copied the
  event into the queue; the queue's times go backwards when the input thread is faster than
  `miPointerMove`, which makes its event before it takes the lock. No property is about times.
* `BarrierFreeBarrier` (Xi/xibarriers.c:706) calls `mieqEnqueue` without the input lock that
  mieq.c:212 asks for; so does the removal of a master at line 777. The run's slip `Post_Unlocked` is that.
* `QUEUE_MAXIMUM_SIZE` (mieq.c:83) is not used: only memory bounds the queue.
* The drain in `remove_device` (config.c:90) is followed by one in `DisableDevice`, by way of
  `TouchEndPhysicallyActiveTouches`, under the same lock. What keeps an event from outliving its device is
  the lock; the run's slip is the removal without it.
* `InputThreadUnregisterDev` (inputthread.c:256) takes the first entry of a descriptor, which may be one
  that is already removed and waits for the thread, when the descriptor was used again.
* When `mieqGrowQueue` runs out of memory in the middle of its new lists it frees all of its array up to
  there, the lists in use included (mieq.c:160).

## What is not modelled

`PROJECT.json` lists every component with the reason. In short: rendering, regions and clipping
(data, out of a model checker's reach at a useful size), request decoding and byte swapping
(sequential, tested), drivers and other window systems (against hardware), configuration and
logging (input and output). They are most of the repository's lines. What has control worth modelling and is not modelled
yet is the plan. Of the modelled components:

* XwlPresent: windows redirected to another, unredirect timers, aborts by `xwl_present_abort_vblank` other than in
  `Cleanup`, allocation failures.
* WindowBuffers: a change of the surface window (xwayland-window.c:1491, which disposes of the buffers
  when the depth differs), allocation failures, a missing wl_buffer. With explicit
  synchronisation a buffer comes back when its release fence signals, not with the release event: the
  model has one release for both.
* ScmdPresent: fake vblanks, several CRTCs and their msc offsets, composite redirection, notifies,
  CloseScreen, divisors, the reasons for which a format cannot be flipped, kernel events handled while a flip is being queued (`do_queue_flip_on_crtc`).
* Timers: `TimerForceOld` (unused), the screen saver, the scheduler's timer, the poll set.
* SystemCounter: clients' counters, awaits with several conditions, selection of events, value types, destroyed counters,
  DEVICEIDLETIME.
* Selections: the security hooks, the server's reset, a failure to allocate the selection itself.
* ServerTime: the devices' last event times; events that are replayed, which do not move the time.
* MiEq: see its section.

## Plan

In this order; each module with its runs, and proofs where they say more than TLC can. Runs stay
few: one per question.

1. Proofs: XwlPresent's places with overdue timers, for the requests for which they hold; SystemCounter's
   invariants, by the least place in the list where the fold would break them.
2. `SyncedEvents` (AllowSomeEvents and frozen devices in dix/events.c), `Scheduler` (ready clients and
   server grabs in dix/dispatch.c).
3. XwlPresent as a second implementation of `PresentPromise`; XwlPresent composed with WindowBuffers, which share the
   frame callback and the window's pixmap.
4. The input thread's registration list beside MiEq (a descriptor that is used again, the hotplug pipe, its end).
