--------------------------------- MODULE MiEq ---------------------------------
(***************************************************************************)
(* The input event queue (mi/mieq.c) between the input thread              *)
(* (os/inputthread.c) and the main thread.                                 *)
(*                                                                         *)
(* The queue is a circular array that doubles when it is full.  Both       *)
(* threads put events in: the input thread what it reads from devices, the *)
(* main thread when it moves a pointer (mi/mipointer.c) or a barrier goes  *)
(* away (Xi/xibarriers.c).  The main thread takes them out, in the event   *)
(* loop and before a device is switched off or removed, and lets go of the *)
(* input lock, a recursive mutex, while it handles one.  A byte in a pipe  *)
(* wakes it when it polls.                                                 *)
(*                                                                         *)
(* What a thread has yet to do is a sequence of frames, its next step the  *)
(* head.  mieqEnqueue is two steps, so that callers without the lock can   *)
(* be seen to interfere.  dropped counts for log messages only, and is     *)
(* left out, as are screens and the handlers' work.                        *)
(***************************************************************************)
EXTENDS Naturals, Sequences, FiniteSets

CONSTANTS
  Devices,    (* the physical devices                                         *)
  Master,     (* the master pointer, which is never switched off              *)
  NoDevice, NoEvent, (* no device, and what a bucket holds at first           *)
  InitialSize, (* QUEUE_INITIAL_SIZE                                          *)
  MaxBuckets, (* the largest array memory allows; QUEUE_MAXIMUM_SIZE is not   *)
              (* used                                                        *)
  MaxEvents,  (* how many events are made                                     *)
  MaxTime,    (* how far GetTimeInMillis goes                                 *)
  Requests    (* what the main thread does between polls, of RequestKinds     *)

Threads      == {"main", "input"}
RequestKinds == {"move", "barrier", "switch", "remove"}
Sources      == Devices \cup {Master}
Ids          == 1 .. MaxEvents
Event        == [id : Ids, dev : Sources, motion : BOOLEAN, time : 0 .. MaxTime]

\* Sizes that the array goes through as it doubles, up to the largest.
Doubling(sizes) ==
  /\ {InitialSize, MaxBuckets} \subseteq sizes
  /\ \A n \in sizes : n < MaxBuckets => 2 * n \in sizes

ASSUME QueueAssumption ==
  /\ InitialSize \in Nat /\ InitialSize > 1
  /\ MaxBuckets \in Nat /\ MaxBuckets >= InitialSize
  /\ \E sizes \in SUBSET (InitialSize .. MaxBuckets) : Doubling(sizes)
  /\ MaxEvents \in Nat /\ MaxTime \in Nat
  /\ Master \notin Devices
  /\ NoDevice \notin Sources
  /\ NoEvent \notin Event
  /\ Requests \subseteq RequestKinds

VARIABLES
  head, tail, nevents, events, lastMotion, lastEventTime,  (* miEventQueue *)
  owner, depth,  (* input_mutex: who holds it and how often                  *)
  wake,          (* bytes wait in the pipe the main thread polls             *)
  device,        (* "on", "off", or "gone": freed                            *)
  calls,         (* what each thread has yet to do                           *)
  made, now,     (* how many events were made; the time read last            *)
  entered, taken (* history: the events mieqEnqueue is done with, and the one
                    mieqProcessInputEvents took last                         *)

eq    == <<head, tail, nevents, events, lastMotion, lastEventTime>>
lock  == <<owner, depth>>
clock == <<made, now>>
vars  == <<eq, lock, wake, device, calls, clock, entered, taken>>

-----------------------------------------------------------------------------
Functions == {"lock", "unlock", "check", "drain", "handle", "request", "move", "enqueue",
              "store", "off", "on", "remove", "close", "ready", "read"}
Frame == [fn : Functions, dev : Sources \cup {NoDevice}, ev : Event \cup {NoEvent}, slot : Nat,
          devs : SUBSET Devices]

Call(fn)        == [fn |-> fn, dev |-> NoDevice, ev |-> NoEvent, slot |-> 0,
                    devs |-> {}]
CallFor(fn, d)  == [Call(fn) EXCEPT !.dev = d]
CallWith(fn, e) == [Call(fn) EXCEPT !.ev = e]
Top(t)          == Head(calls[t])
At(t, fn)       == calls[t] # <<>> /\ Top(t).fn = fn
\* The step is done, and these come next.
Continue(t, frames) == calls' = [calls EXCEPT ![t] = frames \o Tail(@)]
Becomes(t, frames)  == calls' = [calls EXCEPT ![t] = frames]

\* mieqProcessInputEvents; DisableDevice, which processes events in
\* TouchEndPhysicallyActiveTouches.
ProcessInputEvents == <<Call("lock"), Call("drain"), Call("unlock")>>
Disable(d) ==
  <<Call("lock")>> \o ProcessInputEvents \o
  <<Call("unlock"), Call("lock"), CallFor("off", d), Call("unlock")>>
\* remove_device of config/config.c, with DeleteInputDeviceRequest.
RemoveDevice_Unlocked(d) == ProcessInputEvents \o <<CallFor("remove", d)>>
RemoveDevice(d) ==
  <<Call("lock")>> \o ProcessInputEvents \o
  <<Call("lock"), CallFor("remove", d), Call("unlock"), Call("unlock")>>
\* What follows the lock in EnableDevice, and in miPointerMove with its event.
Enable(d)  == <<Call("lock"), CallFor("on", d), Call("unlock")>>
Post_Unlocked(e) == <<CallWith("enqueue", e)>>
Post(e)    == <<Call("lock"), CallWith("enqueue", e), Call("unlock")>>

\* GetTimeInMillis returns what it returned last, or a later time.
Time == now .. MaxTime
Makes(t) == made < MaxEvents /\ made' = made + 1 /\ now' = t
NewEvent(d, motion, t) == [id |-> made + 1, dev |-> d, motion |-> motion, time |-> t]

Init ==
  /\ head = 0 /\ tail = 0 /\ nevents = InitialSize
  /\ events = [i \in 0 .. InitialSize - 1 |-> NoEvent]
  /\ lastMotion = NoDevice /\ lastEventTime = 0
  /\ owner = "none" /\ depth = 0
  /\ wake = FALSE
  /\ device = [d \in Devices |-> "on"]
  /\ calls = [t \in Threads |-> <<>>]
  /\ made = 0 /\ now = 0
  /\ entered = {} /\ taken = NoEvent

-----------------------------------------------------------------------------
(***************************************************************************)
(* input_lock and input_unlock.                                            *)
(***************************************************************************)
Lock(t) ==
  /\ At(t, "lock") /\ owner \in {"none", t}
  /\ owner' = t /\ depth' = depth + 1
  /\ Continue(t, <<>>)
  /\ UNCHANGED <<eq, wake, device, clock, entered, taken>>

Unlock(t) ==
  /\ At(t, "unlock")
  /\ depth' = depth - 1
  /\ owner' = IF depth = 1 THEN "none" ELSE owner
  /\ Continue(t, <<>>)
  /\ UNCHANGED <<eq, wake, device, clock, entered, taken>>

(***************************************************************************)
(* mieqEnqueue.                                                            *)
(***************************************************************************)
NextBucket_NoWrap(i) == i + 1
NextBucket(i) == (i + 1) % nevents
NumEnqueued ==
  LET n == tail + nevents - head IN IF n >= nevents THEN n - nevents ELSE n

\* mieqGrowQueue: the events from head to the end of the array go first.
Grown_OneHunk ==
  [i \in 0 .. 2 * nevents - 1 |-> IF i < nevents THEN events[i] ELSE NoEvent]
Grown ==
  LET first_hunk == nevents - head
  IN [i \in 0 .. 2 * nevents - 1 |-> IF i < first_hunk THEN events[head + i]
                                     ELSE IF i < nevents THEN events[i - first_hunk]
                                     ELSE NoEvent]

Merges(e) == e.motion /\ lastMotion = e.dev /\ tail # head
Full      == NumEnqueued + 1 = nevents
StoreAt(t, slot) == Continue(t, <<[CallWith("store", Top(t).ev) EXCEPT !.slot = slot]>>)

Enqueue(t) ==
  /\ At(t, "enqueue")
  /\ LET merges == Merges(Top(t).ev)
     IN \/ /\ merges \/ ~Full
           /\ StoreAt(t, IF merges THEN (tail + nevents - 1) % nevents ELSE tail)
           /\ UNCHANGED <<eq, entered>>
        \/ /\ ~merges /\ Full /\ 2 * nevents <= MaxBuckets
           /\ events' = Grown /\ nevents' = 2 * nevents
           /\ head' = 0 /\ tail' = NumEnqueued
           /\ StoreAt(t, NumEnqueued)
           /\ UNCHANGED <<lastMotion, lastEventTime, entered>>
        \/ /\ ~merges /\ Full /\ 2 * nevents > MaxBuckets
           /\ entered' = entered \cup {Top(t).ev.id}
           /\ Continue(t, <<>>)
           /\ UNCHANGED eq
  /\ UNCHANGED <<lock, wake, device, clock, taken>>

\* The time it corrects is that of the caller's event, already copied.
Store(t) ==
  /\ At(t, "store")
  /\ LET e == Top(t).ev
     IN /\ events' = [events EXCEPT ![Top(t).slot] = e]
        /\ lastEventTime' = e.time
        /\ lastMotion' = IF e.motion THEN e.dev ELSE NoDevice
        /\ tail' = NextBucket(Top(t).slot)
        /\ entered' = entered \cup {e.id}
  /\ Continue(t, <<>>)
  /\ UNCHANGED <<head, nevents, lock, wake, device, clock, taken>>

(***************************************************************************)
(* mieqProcessInputEvents.  A disabled device's event is refused; handling *)
(* one may move the pointer.                                               *)
(***************************************************************************)
Drain ==
  /\ At("main", "drain")
  /\ IF head = tail
     THEN Continue("main", <<>>) /\ UNCHANGED <<head, taken>>
     ELSE /\ taken' = events[head]
          /\ head' = NextBucket(head)
          /\ Continue("main", <<Call("unlock"), CallWith("handle", events[head]),
                                Call("lock"), Call("drain")>>)
  /\ UNCHANGED <<tail, nevents, events, lastMotion, lastEventTime, lock, wake, device,
                 clock, entered>>

Delivers(e) == e.dev \in Devices => device[e.dev] = "on"
Handle ==
  /\ At("main", "handle")
  /\ \/ Continue("main", <<>>)
     \/ Delivers(Top("main").ev) /\ "move" \in Requests /\ Continue("main", <<Call("move")>>)
  /\ UNCHANGED <<eq, lock, wake, device, clock, entered, taken>>

\* miPointerMove makes its event before it takes the lock.
Move ==
  /\ At("main", "move")
  /\ \/ \E t \in Time : Makes(t) /\ Continue("main", Post(NewEvent(Master, TRUE, t)))
     \/ made = MaxEvents /\ Continue("main", <<>>) /\ UNCHANGED clock
  /\ UNCHANGED <<eq, lock, wake, device, entered, taken>>

(***************************************************************************)
(* The main thread's loop: Dispatch and WaitForSomething.  It looks at     *)
(* head and tail without the lock.                                         *)
(***************************************************************************)
Check ==
  /\ At("main", "check")
  /\ Continue("main", IF head # tail THEN ProcessInputEvents ELSE <<>>)
  /\ UNCHANGED <<eq, lock, wake, device, clock, entered, taken>>

\* ospoll_wait returns: InputThreadNotifyPipe empties the pipe.
PollWakes ==
  /\ calls["main"] = <<>> /\ wake
  /\ wake' = FALSE
  /\ Becomes("main", <<Call("check")>>)
  /\ UNCHANGED <<eq, lock, device, clock, entered, taken>>

\* Or a client's request, or a change of the devices, is next.
PollReturns ==
  /\ calls["main"] = <<>>
  /\ Becomes("main", <<Call("check"), Call("request"), Call("check")>>)
  /\ UNCHANGED <<eq, lock, wake, device, clock, entered, taken>>

Request ==
  /\ At("main", "request")
  /\ \/ Continue("main", <<>>) /\ UNCHANGED clock
     \/ "move" \in Requests /\ Continue("main", <<Call("move")>>) /\ UNCHANGED clock
     \/ \E d \in Devices :
          /\ \/ "switch" \in Requests /\ device[d] = "on" /\ Continue("main", Disable(d))
             \/ "switch" \in Requests /\ device[d] = "off" /\ Continue("main", Enable(d))
             \/ "remove" \in Requests /\ device[d] # "gone" /\ Continue("main", RemoveDevice(d))
          /\ UNCHANGED clock
     \/ \E t \in Time :
          /\ "barrier" \in Requests /\ Makes(t)
          /\ Continue("main", <<CallWith("enqueue", NewEvent(Master, FALSE, t))>>)
  /\ UNCHANGED <<eq, lock, wake, device, entered, taken>>

(***************************************************************************)
(* dix/devices.c, under the lock.                                          *)
(***************************************************************************)
Switches(fn, state) ==
  /\ At("main", fn)
  /\ device' = [device EXCEPT ![Top("main").dev] = state]
  /\ Continue("main", <<>>)
  /\ UNCHANGED <<eq, lock, wake, clock, entered, taken>>
DeviceOff   == Switches("off", "off")
DeviceOn    == Switches("on", "on")
CloseDevice == Switches("close", "gone")

Remove ==
  /\ At("main", "remove")
  /\ LET d == Top("main").dev
     IN Continue("main", (IF device[d] = "on" THEN Disable(d) ELSE <<>>)
                         \o <<Call("lock"), CallFor("close", d), Call("unlock")>>)
  /\ UNCHANGED <<eq, lock, wake, device, clock, entered, taken>>

(***************************************************************************)
(* The input thread: ospoll_wait calls InputReady for each device that has *)
(* input, then a byte goes into the main thread's pipe.                    *)
(***************************************************************************)
Ready(devs) == [Call("ready") EXCEPT !.devs = devs]

InputPollReturns(devs) ==
  /\ calls["input"] = <<>> /\ made < MaxEvents
  /\ devs # {} /\ \A d \in devs : device[d] = "on"
  /\ Becomes("input", <<Ready(devs)>>)
  /\ UNCHANGED <<eq, lock, wake, device, clock, entered, taken>>

InputReady(d) ==
  /\ At("input", "ready") /\ d \in Top("input").devs
  /\ Continue("input", <<Call("lock"), CallFor("read", d), Call("unlock"),
                         Ready(Top("input").devs \ {d})>>)
  /\ UNCHANGED <<eq, lock, wake, device, clock, entered, taken>>

\* readInputProc posts what it finds, if the device is still running.
Read ==
  /\ At("input", "read")
  /\ LET d == Top("input").dev
     IN \/ Continue("input", <<>>) /\ UNCHANGED clock
        \/ \E t \in Time, motion \in BOOLEAN :
             /\ device[d] = "on" /\ Makes(t)
             /\ Continue("input",
                  <<CallWith("enqueue", NewEvent(d, motion, t)), CallFor("read", d)>>)
  /\ UNCHANGED <<eq, lock, wake, device, entered, taken>>

Filled_Not == wake
Filled == TRUE
FillPipe ==
  /\ At("input", "ready") /\ Top("input").devs = {}
  /\ wake' = Filled
  /\ Continue("input", <<>>)
  /\ UNCHANGED <<eq, lock, device, clock, entered, taken>>

-----------------------------------------------------------------------------
Runs(t) == Lock(t) \/ Unlock(t) \/ Enqueue(t) \/ Store(t)
MainRuns  == Runs("main") \/ Drain \/ Handle \/ Move \/ Check \/ Request
             \/ DeviceOff \/ DeviceOn \/ CloseDevice \/ Remove
InputRuns == Runs("input") \/ Read \/ FillPipe \/ \E d \in Devices : InputReady(d)
Next ==
  \/ MainRuns \/ PollWakes \/ PollReturns
  \/ InputRuns \/ \E devs \in SUBSET Devices : InputPollReturns(devs)

Spec == Init /\ [][Next]_vars

\* Both threads run on, poll wakes, and the main thread gets a lock that is free
\* again and again.
Fairness ==
  /\ WF_vars(MainRuns) /\ SF_vars(Lock("main")) /\ WF_vars(PollWakes)
  /\ WF_vars(InputRuns)
FairSpec == Spec /\ Fairness

-----------------------------------------------------------------------------
TypeOK ==
  /\ nevents \in Nat /\ head \in 0 .. nevents - 1 /\ tail \in 0 .. nevents - 1
  /\ events \in [0 .. nevents - 1 -> Event \cup {NoEvent}]
  /\ lastMotion \in Sources \cup {NoDevice} /\ lastEventTime \in 0 .. MaxTime
  /\ owner \in Threads \cup {"none"} /\ depth \in Nat
  /\ wake \in BOOLEAN
  /\ device \in [Devices -> {"on", "off", "gone"}]
  /\ calls \in [Threads -> Seq(Frame)]
  /\ made \in 0 .. MaxEvents /\ now \in 0 .. MaxTime
  /\ entered \subseteq Ids /\ taken \in Event \cup {NoEvent}

\* The events in the array, oldest first.
Queued == [i \in 1 .. NumEnqueued |-> events[(head + i - 1) % nevents]]

\* The array, its growth and the lock make a queue: nothing is lost but for want of
\* memory, nothing comes twice or out of order, and only motion of the same device
\* that is still last is replaced (mieqEnqueue, mieqGrowQueue, mieqProcessInputEvents).
Queue == INSTANCE EventQueue WITH queue <- Queued, Capacity <- MaxBuckets - 1
Implements == Queue!Spec

\* "mieqEnqueue will never be interrupted": while a thread has chosen the bucket of its
\* event, no other moves the tail or the array (mieq.c:212).
Uninterrupted ==
  [][\A t \in Threads : At(t, "store") /\ calls'[t] = calls[t] =>
       UNCHANGED <<tail, nevents, events>>]_vars

\* "Call PIE here so we don't try to dereference a device that's already been removed":
\* no event outlives its device (config.c:86).
NoStaleDevice ==
  /\ \A i \in DOMAIN Queued : Queued[i].dev \in Devices => device[Queued[i].dev] # "gone"
  /\ At("main", "handle") /\ Top("main").ev.dev \in Devices =>
       device[Top("main").ev.dev] # "gone"

\* "Make sure that event times don't go backwards" (mieq.c:274).
TimesForward ==
  \A i, j \in DOMAIN Queued : i < j => Queued[i].time <= Queued[j].time

\* What is in the queue is taken, whoever put it there and whatever the main thread did
\* when it came: the pipe is filled after the event is in.
Handled == head # tail ~> head = tail
=============================================================================
