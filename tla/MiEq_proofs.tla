----------------------------- MODULE MiEq_proofs -----------------------------
(***************************************************************************)
(* The input event queue, for any number of devices and events and any     *)
(* memory: the array is a queue (it implements EventQueue), mieqEnqueue is *)
(* not interrupted, and no event outlives its device, for callers that     *)
(* hold the lock, as mieq.c asks of them.                                  *)
(*                                                                         *)
(* That the lock is held where it must be is a fact about what each thread *)
(* has yet to do: there is a Path through its frames that ends with the    *)
(* lock released.                                                          *)
(***************************************************************************)
EXTENDS MiEq, Integers, TLAPS, SequenceTheorems

\* Nobody queues an event without the lock, as Xi/xibarriers.c does when a
\* barrier goes away.
LockedCallers == "barrier" \notin Requests

-----------------------------------------------------------------------------
(*****************************************************************************)
(* What is known before each frame of a thread: how often it holds the       *)
(* lock then, and whether it has emptied the queue since it took it.         *)
(*****************************************************************************)

States == {x \in [held : Nat, clean : BOOLEAN] : x.clean => x.held > 0}
State(held, clean) == [held |-> held, clean |-> clean]
Free == State(0, FALSE)

\* The frames that run under the lock, and how one leads from x to y.  A device is
\* removed and closed after the queue was emptied.
Guarded == {"drain", "off", "on", "close", "read", "remove"}
             \cup (IF LockedCallers THEN {"enqueue", "store"} ELSE {})
Delta(fr) == IF fr.fn = "lock" THEN 1 ELSE IF fr.fn = "unlock" THEN -1 ELSE 0
Step(x, fr, y) ==
  /\ y.held = x.held + Delta(fr)
  /\ y.clean => x.clean \/ fr.fn = "drain"
  /\ fr.fn \in Guarded => x.held > 0
  /\ fr.fn \in {"remove", "close"} => x.clean

\* The frames s lead from x to y.
Less(x, y) == x.held = y.held /\ (x.clean => y.clean)
Path(s, x, y) ==
  \E f \in [1 .. Len(s) + 1 -> States] :
    /\ Less(f[1], x) /\ f[Len(s) + 1] = y
    /\ \A i \in 1 .. Len(s) : Step(f[i], s[i], f[i + 1])

\* Frames with an event, those that name a device, and those that do what they say
\* with the event or device they need.
Posts(fr) == fr.fn \in {"enqueue", "store"}
Loud(fr)  == Posts(fr) \/ fr.fn = "handle"
OnDevice == {"off", "on", "close", "read", "remove"}
WellFormed == {fr \in Frame : /\ Posts(fr) => fr.ev \in Event
                              /\ fr.fn \in OnDevice => fr.dev \in Devices}
Quiet == {fr \in WellFormed : ~Loud(fr)}

\* Frames that leave the lock as it was.
Neutral(frames) ==
  /\ frames \in Seq(WellFormed)
  /\ \A x, y \in States : Less(y, x) => Path(frames, x, y)

\* The locks a thread holds are those its frames will release.  While the main
\* thread removes a device, no device's event is in the queue.
Holds(t) == IF owner = t THEN depth ELSE 0
NoDeviceEvents == \A i \in 1 .. Len(Queued) : Queued[i].dev \notin Devices
ThreadPath(t, clean) == Path(calls[t], State(Holds(t), clean), Free)
Locking ==
  /\ owner = "none" <=> depth = 0
  /\ ThreadPath("input", FALSE)
  /\ \E c \in BOOLEAN : /\ ThreadPath("main", c)
                        /\ c => Holds("main") > 0 /\ (LockedCallers => NoDeviceEvents)

Types == TypeOK /\ calls \in [Threads -> Seq(WellFormed)]

-----------------------------------------------------------------------------
(*****************************************************************************)
(* The events on their way into the queue and out of it.                     *)
(*****************************************************************************)

\* The frames of s that have an event in hand.  It is the next one, or the one after the
\* lock or unlock that is next.
Loads(s) == {s[i] : i \in {j \in 1 .. Len(s) : Loud(s[j])}}
Shape(t, s) ==
  s # <<>> =>
    \/ Tail(s) \in Seq(Quiet)
    \/ /\ t = "main" /\ Tail(s) # <<>> /\ Tail(Tail(s)) \in Seq(Quiet)
       /\ \/ Head(s).fn = "lock" /\ Head(Tail(s)).fn = "enqueue"
          \/ Head(s).fn = "unlock" /\ Head(Tail(s)).fn = "handle"

\* An event that a thread has made and not queued yet, or has taken out.
NotGone(e) == e.dev \in Devices => device[e.dev] # "gone"
Posted(t, e) ==
  /\ e \in Event /\ e.id <= made /\ e.id \notin entered
  /\ IF t = "main" THEN e.dev = Master ELSE NotGone(e)
Fits(t, fr) ==
  IF fr.fn = "handle" THEN t = "main" /\ fr.ev \in Event /\ NotGone(fr.ev)
                      ELSE Posted(t, fr.ev)
InHand(t) == Shape(t, calls[t]) /\ \A fr \in Loads(calls[t]) : Fits(t, fr)

\* No two threads have the same event, or one that was queued already.
Apart(s, t) == \A a \in Loads(s), b \in Loads(t) : Posts(a) /\ Posts(b) => a.ev.id # b.ev.id
Hands ==
  /\ entered \subseteq 1 .. made
  /\ \A t \in Threads : InHand(t)
  /\ Apart(calls["main"], calls["input"])

-----------------------------------------------------------------------------
(*****************************************************************************)
(* The array, and the invariant.                                             *)
(*****************************************************************************)

\* lastMotion is the device of the last event, if that is motion.
LastKnown ==
  Queued # <<>> =>
    lastMotion = LET last == Queued[Len(Queued)]
                 IN IF last.motion THEN last.dev ELSE NoDevice

\* The array has a size that doubling leads to.
Sized == nevents > 1 /\ \A sizes \in SUBSET (InitialSize .. MaxBuckets) :
                          Doubling(sizes) => nevents \in sizes
QueuedFit == \A i \in 1 .. Len(Queued) : Queued[i] \in Event /\ NotGone(Queued[i])

\* The bucket that mieqEnqueue chose is the one it would choose now.
Bucket(e) == IF Merges(e) THEN (tail + nevents - 1) % nevents ELSE tail
Chosen(t) ==
  At(t, "store") =>
    Top(t).slot = Bucket(Top(t).ev) /\ (Merges(Top(t).ev) \/ ~Full)
Array == Sized /\ LastKnown /\ QueuedFit /\ \A t \in Threads : Chosen(t)

QueueInv == Hands /\ Array
IInv == Types /\ Locking /\ (LockedCallers => QueueInv)

-----------------------------------------------------------------------------
(*****************************************************************************)
(* Paths.                                                                    *)
(*****************************************************************************)

LEMMA PathEmpty ==
  ASSUME NEW x, NEW y \in States, Less(y, x)
  PROVE  Path(<<>>, x, y)
<1> DEFINE f == [i \in 1 .. 1 |-> y]
<1>1. f \in [1 .. Len(<<>>) + 1 -> States] /\ f[1] = y /\ Len(<<>>) = 0
  OBVIOUS
<1> HIDE DEF f
<1> QED
  BY <1>1 DEF Path

LEMMA PathEnd ==
  ASSUME NEW x, NEW y, Path(<<>>, x, y)
  PROVE  y \in States /\ Less(y, x)
<1>1. Len(<<>>) = 0
  OBVIOUS
<1> QED
  BY <1>1 DEF Path

LEMMA PathTail ==
  ASSUME NEW s \in Seq(WellFormed), s # <<>>, NEW x, NEW z, Path(s, x, z)
  PROVE  \E y \in States : Step(x, Head(s), y) /\ Path(Tail(s), y, z)
<1>1. PICK f \in [1 .. Len(s) + 1 -> States] :
        /\ Less(f[1], x) /\ f[Len(s) + 1] = z
        /\ \A i \in 1 .. Len(s) : Step(f[i], s[i], f[i + 1])
  BY DEF Path
<1>2. Len(s) \in Nat \ {0} /\ Head(s) = s[1]
  BY EmptySeq, LenProperties
<1>3. /\ Tail(s) \in Seq(WellFormed) /\ Len(Tail(s)) = Len(s) - 1
      /\ \A i \in 1 .. Len(Tail(s)) : Tail(s)[i] = s[i + 1]
  BY HeadTailProperties
<1> DEFINE g == [i \in 1 .. Len(s) |-> f[i + 1]]
<1>4. g \in [1 .. Len(Tail(s)) + 1 -> States]
  BY <1>1, <1>2, <1>3
<1>5. g[1] = f[2] /\ g[Len(Tail(s)) + 1] = z
  BY <1>1, <1>2, <1>3
<1>6. \A i \in 1 .. Len(Tail(s)) : Step(g[i], Tail(s)[i], g[i + 1])
  <2> TAKE i \in 1 .. Len(Tail(s))
  <2>1. i + 1 \in 1 .. Len(s) /\ g[i] = f[i + 1] /\ g[i + 1] = f[i + 1 + 1]
    BY <1>2, <1>3
  <2>2. Step(f[i + 1], s[i + 1], f[i + 1 + 1])
    BY <1>1, <2>1
  <2> QED
    BY <1>3, <2>1, <2>2
<1>7. Path(Tail(s), f[2], z)
  <2> HIDE DEF g
  <2> QED
    BY <1>4, <1>5, <1>6 DEF Path, Less
<1>8. Step(f[1], Head(s), f[2]) /\ f[2] \in States
  BY <1>1, <1>2
<1>9. Step(x, Head(s), f[2])
  BY <1>1, <1>8 DEF Step, Less
<1> QED
  BY <1>7, <1>8, <1>9

LEMMA PathConcat ==
  ASSUME NEW s \in Seq(WellFormed), NEW t \in Seq(WellFormed), NEW x, NEW y, NEW z,
         Path(s, x, y), Path(t, y, z)
  PROVE  Path(s \o t, x, z)
<1>1. PICK f \in [1 .. Len(s) + 1 -> States] :
        /\ Less(f[1], x) /\ f[Len(s) + 1] = y
        /\ \A i \in 1 .. Len(s) : Step(f[i], s[i], f[i + 1])
  BY DEF Path
<1>2. PICK g \in [1 .. Len(t) + 1 -> States] :
        /\ Less(g[1], y) /\ g[Len(t) + 1] = z
        /\ \A i \in 1 .. Len(t) : Step(g[i], t[i], g[i + 1])
  BY DEF Path
<1>3. /\ Len(s \o t) = Len(s) + Len(t) /\ Len(s) \in Nat /\ Len(t) \in Nat
      /\ \A i \in 1 .. Len(s) + Len(t) :
           (s \o t)[i] = IF i <= Len(s) THEN s[i] ELSE t[i - Len(s)]
  BY ConcatProperties, LenProperties
<1> DEFINE h == [i \in 1 .. Len(s) + Len(t) + 1 |->
                   IF i <= Len(s) THEN f[i] ELSE g[i - Len(s)]]
<1>4. h \in [1 .. Len(s \o t) + 1 -> States]
  <2>1. ASSUME NEW i \in 1 .. Len(s) + Len(t) + 1
        PROVE  (IF i <= Len(s) THEN f[i] ELSE g[i - Len(s)]) \in States
    <3>1. CASE i <= Len(s)
      <4>1. i \in 1 .. Len(s) + 1
        BY <1>3, <3>1
      <4> QED BY <1>1, <3>1, <4>1
    <3>2. CASE ~(i <= Len(s))
      <4>1. i - Len(s) \in 1 .. Len(t) + 1
        BY <1>3, <3>2
      <4> QED BY <1>2, <3>2, <4>1
    <3> QED BY <3>1, <3>2
  <2> QED BY <1>3, <2>1
<1>5. Less(h[1], x) /\ h[Len(s \o t) + 1] = z
  <2>1. h[Len(s \o t) + 1] = z
    BY <1>2, <1>3
  <2>2. CASE Len(s) = 0
    <3>1. h[1] = g[1] /\ y = f[1]
      BY <1>1, <1>3, <2>2
    <3> QED
      BY <1>1, <1>2, <2>1, <3>1 DEF Less
  <2>3. CASE Len(s) # 0
    BY <1>1, <1>3, <2>1, <2>3
  <2> QED
    BY <2>2, <2>3
<1>6. \A i \in 1 .. Len(s \o t) : Step(h[i], (s \o t)[i], h[i + 1])
  <2> TAKE i \in 1 .. Len(s \o t)
  <2>1. CASE i < Len(s)
    <3>1. i \in 1 .. Len(s) /\ h[i] = f[i] /\ h[i + 1] = f[i + 1] /\ (s \o t)[i] = s[i]
      BY <1>3, <2>1
    <3>2. Step(f[i], s[i], f[i + 1])
      BY <1>1, <3>1
    <3> QED BY <3>1, <3>2
  <2>2. CASE i = Len(s)
    <3>1. i \in 1 .. Len(s) /\ h[i] = f[i] /\ h[i + 1] = g[1] /\ (s \o t)[i] = s[i]
      BY <1>3, <2>2
    <3>2. Step(f[i], s[i], y)
      BY <1>1, <2>2, <3>1
    <3> QED BY <1>2, <3>1, <3>2 DEF Step, Less
  <2>3. CASE i > Len(s)
    <3> DEFINE j == i - Len(s)
    <3>1. j \in 1 .. Len(t) /\ (s \o t)[i] = t[j]
      BY <1>3, <2>3
    <3>2. h[i] = g[j]
      BY <1>1, <1>2, <1>3, <2>3
    <3>3. h[i + 1] = g[j + 1]
      BY <1>3, <2>3
    <3>4. Step(g[j], t[j], g[j + 1])
      BY <1>2, <3>1
    <3> QED BY <3>1, <3>2, <3>3, <3>4
  <2> QED BY <1>3, <2>1, <2>2, <2>3
<1> QED
  <2> HIDE DEF h
  <2> QED
    BY <1>4, <1>5, <1>6 DEF Path

LEMMA PathOne ==
  ASSUME NEW a, NEW x \in States, NEW y \in States, Step(x, a, y)
  PROVE  Path(<<a>>, x, y)
<1> DEFINE f == [i \in 1 .. 2 |-> IF i = 1 THEN x ELSE y]
<1>1. Len(<<a>>) = 1 /\ <<a>>[1] = a
  OBVIOUS
<1>2. f \in [1 .. Len(<<a>>) + 1 -> States] /\ f[1] = x /\ f[2] = y
  BY <1>1
<1> HIDE DEF f
<1> QED
  BY <1>1, <1>2 DEF Path, Less

LEMMA GlueTwo ==
  ASSUME NEW S, NEW a \in S, NEW b \in S
  PROVE  <<a>> \o <<b>> = <<a, b>>
<1>1. <<a>> \in Seq(S) /\ <<a, b>> = Append(<<a>>, b)
  OBVIOUS
<1> QED
  BY <1>1, AppendIsConcat

LEMMA GlueThree ==
  ASSUME NEW S, NEW a \in S, NEW b \in S, NEW c \in S
  PROVE  <<a, b>> \o <<c>> = <<a, b, c>>
<1>1. <<a, b>> \in Seq(S) /\ <<a, b, c>> = Append(<<a, b>>, c)
  OBVIOUS
<1> QED
  BY <1>1, AppendIsConcat

LEMMA GlueFour ==
  ASSUME NEW S, NEW a \in S, NEW b \in S, NEW c \in S, NEW d \in S
  PROVE  <<a, b, c>> \o <<d>> = <<a, b, c, d>>
<1>1. <<a, b, c>> \in Seq(S) /\ <<a, b, c, d>> = Append(<<a, b, c>>, d)
  OBVIOUS
<1> QED
  BY <1>1, AppendIsConcat

LEMMA PathTwo ==
  ASSUME NEW a \in WellFormed, NEW b \in WellFormed,
         NEW x \in States, NEW y \in States, NEW z \in States,
         Step(x, a, y), Step(y, b, z)
  PROVE  <<a, b>> \in Seq(WellFormed) /\ Path(<<a, b>>, x, z)
<1>1. /\ <<a>> \in Seq(WellFormed) /\ <<b>> \in Seq(WellFormed)
      /\ <<a, b>> \in Seq(WellFormed)
  OBVIOUS
<1>2. Path(<<a>>, x, y) /\ Path(<<b>>, y, z)
  BY PathOne
<1>3. Path(<<a>> \o <<b>>, x, z)
  BY <1>1, <1>2, PathConcat
<1>4. <<a>> \o <<b>> = <<a, b>>
  BY GlueTwo
<1> QED
  BY <1>1, <1>3, <1>4

LEMMA PathThree ==
  ASSUME NEW a \in WellFormed, NEW b \in WellFormed, NEW c \in WellFormed,
         NEW x \in States, NEW y \in States, NEW z \in States, NEW w \in States,
         Step(x, a, y), Step(y, b, z), Step(z, c, w)
  PROVE  <<a, b, c>> \in Seq(WellFormed) /\ Path(<<a, b, c>>, x, w)
<1>1. /\ <<c>> \in Seq(WellFormed) /\ <<a, b, c>> \in Seq(WellFormed)
  OBVIOUS
<1>2. <<a, b>> \in Seq(WellFormed) /\ Path(<<a, b>>, x, z) /\ Path(<<c>>, z, w)
  BY PathOne, PathTwo
<1>3. Path(<<a, b>> \o <<c>>, x, w)
  BY <1>1, <1>2, PathConcat
<1>4. <<a, b>> \o <<c>> = <<a, b, c>>
  BY GlueThree
<1> QED
  BY <1>1, <1>3, <1>4

LEMMA PathFour ==
  ASSUME NEW a \in WellFormed, NEW b \in WellFormed, NEW c \in WellFormed,
         NEW d \in WellFormed, NEW x \in States, NEW y \in States, NEW z \in States,
         NEW w \in States, NEW v \in States,
         Step(x, a, y), Step(y, b, z), Step(z, c, w), Step(w, d, v)
  PROVE  <<a, b, c, d>> \in Seq(WellFormed) /\ Path(<<a, b, c, d>>, x, v)
<1>1. /\ <<d>> \in Seq(WellFormed) /\ <<a, b, c, d>> \in Seq(WellFormed)
  OBVIOUS
<1>2. <<a, b, c>> \in Seq(WellFormed) /\ Path(<<a, b, c>>, x, w) /\ Path(<<d>>, w, v)
  BY PathOne, PathThree
<1>3. Path(<<a, b, c>> \o <<d>>, x, v)
  BY <1>1, <1>2, PathConcat
<1>4. <<a, b, c>> \o <<d>> = <<a, b, c, d>>
  BY GlueFour
<1> QED
  BY <1>1, <1>3, <1>4

LEMMA StateType ==
  ASSUME NEW n \in Nat, NEW c \in BOOLEAN, c => n > 0
  PROVE  State(n, c) \in States /\ State(n, c).held = n /\ State(n, c).clean = c
BY DEF State, States

\* The step that is next gives way to others that do at least as much.
LEMMA PathReplace ==
  ASSUME NEW s \in Seq(WellFormed), s # <<>>, NEW frames \in Seq(WellFormed),
         NEW x, NEW w, NEW z, Path(s, x, z),
         \A y \in States : Step(x, Head(s), y) => Path(frames, w, y)
  PROVE  /\ frames \o Tail(s) \in Seq(WellFormed)
         /\ Path(frames \o Tail(s), w, z)
<1>1. PICK y \in States : Step(x, Head(s), y) /\ Path(Tail(s), y, z)
  BY PathTail
<1>2. Tail(s) \in Seq(WellFormed)
  BY HeadTailProperties
<1> QED
  BY <1>1, <1>2, PathConcat, ConcatProperties
-----------------------------------------------------------------------------
(*****************************************************************************)
(* The frames that the steps leave behind are well-formed.                   *)
(*****************************************************************************)

\* What StoreAt leaves to be done.
Storing(e, slot) == [CallWith("store", e) EXCEPT !.slot = slot]

LEMMA CallType ==
  ASSUME NEW fn \in Functions \ ({"enqueue", "store"} \cup OnDevice)
  PROVE  /\ Call(fn) \in WellFormed /\ Call(fn).fn = fn
         /\ fn # "handle" => Call(fn) \in Quiet
<1>1. Call(fn) \in Frame /\ Call(fn).fn = fn
  BY DEF Call, Frame
<1> QED
  BY <1>1 DEF WellFormed, OnDevice, Quiet, Posts, Loud

LEMMA CallForType ==
  ASSUME NEW fn \in Functions \ {"enqueue", "store", "handle"}, NEW d \in Devices
  PROVE  CallFor(fn, d) \in Quiet /\ CallFor(fn, d).fn = fn /\ CallFor(fn, d).dev = d
<1>1. CallFor(fn, d) \in Frame /\ CallFor(fn, d).fn = fn /\ CallFor(fn, d).dev = d
  BY DEF CallFor, Call, Frame, Sources
<1> QED
  BY <1>1 DEF WellFormed, OnDevice, Quiet, Posts, Loud

LEMMA CallWithType ==
  ASSUME NEW fn \in {"enqueue", "store"}, NEW e \in Event
  PROVE  CallWith(fn, e) \in WellFormed /\ CallWith(fn, e).fn = fn /\ CallWith(fn, e).ev = e
<1>1. CallWith(fn, e) \in Frame /\ CallWith(fn, e).fn = fn /\ CallWith(fn, e).ev = e
  BY DEF CallWith, Call, Frame, Functions
<1> QED
  BY <1>1 DEF WellFormed, OnDevice, Posts

LEMMA HandleType ==
  ASSUME NEW e \in Event \cup {NoEvent}
  PROVE  CallWith("handle", e) \in WellFormed /\ CallWith("handle", e).fn = "handle"
         /\ CallWith("handle", e).ev = e
<1>1. /\ CallWith("handle", e) \in Frame /\ CallWith("handle", e).fn = "handle"
      /\ CallWith("handle", e).ev = e
  BY DEF CallWith, Call, Frame, Functions
<1> QED
  BY <1>1 DEF WellFormed, OnDevice, Posts

LEMMA StoreType ==
  ASSUME NEW e \in Event, NEW slot \in Nat
  PROVE  /\ Storing(e, slot) \in WellFormed /\ Storing(e, slot).fn = "store"
         /\ Storing(e, slot).ev = e /\ Storing(e, slot).slot = slot
<1> DEFINE fr == Storing(e, slot)
<1>1. fr \in Frame /\ fr.fn = "store" /\ fr.ev = e /\ fr.slot = slot
  BY DEF Storing, CallWith, Call, Frame, Functions
<1> HIDE DEF fr
<1>2. fr \in WellFormed
  BY <1>1 DEF WellFormed, OnDevice, Posts
<1> QED
  BY <1>1, <1>2 DEF fr

LEMMA ReadyType ==
  ASSUME NEW devs \in SUBSET Devices
  PROVE  Ready(devs) \in Quiet /\ Ready(devs).fn = "ready" /\ Ready(devs).devs = devs
<1>1. Ready(devs) \in Frame /\ Ready(devs).fn = "ready" /\ Ready(devs).devs = devs
  BY DEF Ready, Call, Frame, Functions
<1> QED
  BY <1>1 DEF WellFormed, OnDevice, Quiet, Posts, Loud

\* A sequence of quiet frames is a sequence of well-formed ones.
LEMMA QuietSeq ==
  ASSUME NEW s \in Seq(Quiet)
  PROVE  s \in Seq(WellFormed)
BY DEF Quiet

\* Events are processed under the lock, whoever holds it.
LEMMA PathProcess ==
  ASSUME NEW x \in States, NEW y \in States, y.held = x.held
  PROVE  /\ ProcessInputEvents \in Seq(Quiet)
         /\ Path(ProcessInputEvents, x, y)
<1> DEFINE v == State(x.held + 1, FALSE)
           w == State(x.held + 1, TRUE)
<1>1. x.held \in Nat /\ v \in States /\ w \in States
      /\ v.held = x.held + 1 /\ ~v.clean /\ w.held = x.held + 1 /\ w.clean
  BY StateType DEF States, State
<1> HIDE DEF v, w
<1>2. /\ Call("lock") \in Quiet /\ Call("drain") \in Quiet /\ Call("unlock") \in Quiet
      /\ Call("lock").fn = "lock" /\ Call("drain").fn = "drain" /\ Call("unlock").fn = "unlock"
  BY CallType DEF Functions, OnDevice
<1>3. Step(x, Call("lock"), v) /\ Step(v, Call("drain"), w)
  BY <1>1, <1>2 DEF Step, Delta, Guarded
<1>4. Step(w, Call("unlock"), y)
  BY <1>1, <1>2 DEF Step, Delta, Guarded, States
<1>5. Path(<<Call("lock"), Call("drain"), Call("unlock")>>, x, y)
  BY <1>1, <1>2, <1>3, <1>4, PathThree DEF Quiet
<1> QED
  BY <1>2, <1>5 DEF ProcessInputEvents
-----------------------------------------------------------------------------
(*****************************************************************************)
(* The paths through what the functions of the server leave to be done.      *)
(*****************************************************************************)

\* What runs under a lock that is taken and let go again.
LEMMA PathBracket ==
  ASSUME NEW a \in Quiet, Delta(a) = 0, a.fn \notin {"remove", "close"},
         NEW x \in States, NEW y \in States, Less(y, x)
  PROVE  /\ <<Call("lock"), a, Call("unlock")>> \in Seq(Quiet)
         /\ Path(<<Call("lock"), a, Call("unlock")>>, x, y)
<1> DEFINE v == State(x.held + 1, x.clean)
<1>1. x.held \in Nat /\ v \in States /\ v.held = x.held + 1 /\ v.clean = x.clean
  BY StateType DEF States, State
<1> HIDE DEF v
<1>2. /\ Call("lock") \in Quiet /\ Call("unlock") \in Quiet
      /\ Call("lock").fn = "lock" /\ Call("unlock").fn = "unlock"
  BY CallType DEF Functions, OnDevice
<1>3. Step(x, Call("lock"), v) /\ Step(v, a, v)
  BY <1>1, <1>2 DEF Step, Delta, Guarded
<1>4. Step(v, Call("unlock"), y)
  BY <1>1, <1>2 DEF Step, Delta, Guarded, Less
<1>5. Path(<<Call("lock"), a, Call("unlock")>>, x, y)
  BY <1>1, <1>2, <1>3, <1>4, PathThree DEF Quiet
<1> QED
  BY <1>2, <1>5

LEMMA PathEnable ==
  ASSUME NEW d \in Devices, NEW x \in States, NEW y \in States, Less(y, x)
  PROVE  Enable(d) \in Seq(Quiet) /\ Path(Enable(d), x, y)
<1>1. CallFor("on", d) \in Quiet /\ CallFor("on", d).fn = "on"
  BY CallForType DEF Functions
<1> QED
  BY <1>1, PathBracket DEF Enable, Delta

LEMMA PathClose ==
  ASSUME NEW d \in Devices, NEW x \in States, x.clean, NEW y \in States, Less(y, x)
  PROVE  /\ <<Call("lock"), CallFor("close", d), Call("unlock")>> \in Seq(Quiet)
         /\ Path(<<Call("lock"), CallFor("close", d), Call("unlock")>>, x, y)
<1> DEFINE v == State(x.held + 1, TRUE)
           a == CallFor("close", d)
<1>1. x.held \in Nat /\ v \in States /\ v.held = x.held + 1 /\ v.clean
  BY StateType DEF States, State
<1> HIDE DEF v
<1>2. /\ Call("lock") \in Quiet /\ Call("unlock") \in Quiet /\ a \in Quiet
      /\ Call("lock").fn = "lock" /\ Call("unlock").fn = "unlock" /\ a.fn = "close"
  BY CallType, CallForType DEF Functions, OnDevice
<1> HIDE DEF a
<1>3. Step(x, Call("lock"), v) /\ Step(v, a, v)
  BY <1>1, <1>2 DEF Step, Delta, Guarded
<1>4. Step(v, Call("unlock"), y)
  BY <1>1, <1>2 DEF Step, Delta, Guarded, Less
<1>5. Path(<<Call("lock"), a, Call("unlock")>>, x, y)
  BY <1>1, <1>2, <1>3, <1>4, PathThree DEF Quiet
<1>6. <<Call("lock"), a, Call("unlock")>> \in Seq(Quiet)
  BY <1>2
<1> QED
  BY <1>5, <1>6 DEF a

LEMMA PathDisable ==
  ASSUME NEW d \in Devices, NEW x \in States, NEW y \in States, Less(y, x)
  PROVE  Disable(d) \in Seq(Quiet) /\ Path(Disable(d), x, y)
<1> DEFINE v == State(x.held + 1, x.clean)
           a == CallFor("off", d)
           l == <<Call("lock")>>
           u == <<Call("unlock"), Call("lock"), a, Call("unlock")>>
<1>1. x.held \in Nat /\ v \in States /\ v.held = x.held + 1 /\ v.clean = x.clean
  BY StateType DEF States, State
<1> HIDE DEF v
<1>2. /\ Call("lock") \in Quiet /\ Call("unlock") \in Quiet /\ a \in Quiet
      /\ Call("lock").fn = "lock" /\ Call("unlock").fn = "unlock" /\ a.fn = "off"
  BY CallType, CallForType DEF Functions, OnDevice
<1> HIDE DEF a
<1>3. Step(x, Call("lock"), v) /\ Step(v, Call("unlock"), x) /\ Step(v, a, v)
  BY <1>1, <1>2 DEF Step, Delta, Guarded
<1>4. Step(v, Call("unlock"), y)
  BY <1>1, <1>2 DEF Step, Delta, Guarded, Less
<1>5. l \in Seq(Quiet) /\ u \in Seq(Quiet)
  BY <1>2
<1>6. Path(l, x, v)
  BY <1>1, <1>3, PathOne
<1>7. ProcessInputEvents \in Seq(Quiet) /\ Path(ProcessInputEvents, v, v)
  BY <1>1, PathProcess
<1>8. Path(u, v, y)
  BY <1>1, <1>2, <1>3, <1>4, PathFour DEF Quiet
<1> HIDE DEF l, u
<1>9. l \o ProcessInputEvents \in Seq(Quiet)
  BY <1>5, <1>7, ConcatProperties
<1>10. Path(l \o ProcessInputEvents, x, v)
  BY <1>5, <1>6, <1>7, QuietSeq, PathConcat
<1>11. l \o ProcessInputEvents \o u \in Seq(Quiet)
  BY <1>5, <1>9, ConcatProperties
<1>12. Path(l \o ProcessInputEvents \o u, x, y)
  BY <1>5, <1>8, <1>9, <1>10, QuietSeq, PathConcat
<1> QED
  BY <1>11, <1>12 DEF l, u, a, Disable

LEMMA PathRemoveDevice ==
  ASSUME NEW d \in Devices, NEW x \in States, NEW y \in States, Less(y, x)
  PROVE  RemoveDevice(d) \in Seq(Quiet) /\ Path(RemoveDevice(d), x, y)
<1> DEFINE v == State(x.held + 1, x.clean)
           w == State(x.held + 1, TRUE)
           z == State(x.held + 2, TRUE)
           a == CallFor("remove", d)
           l == <<Call("lock")>>
           u == <<Call("lock"), a, Call("unlock"), Call("unlock")>>
<1>1. /\ x.held \in Nat /\ v \in States /\ v.held = x.held + 1 /\ v.clean = x.clean
      /\ w \in States /\ w.held = x.held + 1 /\ w.clean
      /\ z \in States /\ z.held = x.held + 2 /\ z.clean
  BY StateType DEF States, State
<1> HIDE DEF v, w, z
<1>2. /\ Call("lock") \in Quiet /\ Call("unlock") \in Quiet /\ a \in Quiet
      /\ Call("lock").fn = "lock" /\ Call("unlock").fn = "unlock" /\ a.fn = "remove"
  BY CallType, CallForType DEF Functions, OnDevice
<1> HIDE DEF a
<1>3. /\ Step(x, Call("lock"), v) /\ Step(w, Call("lock"), z) /\ Step(z, a, z)
      /\ Step(z, Call("unlock"), w)
  BY <1>1, <1>2 DEF Step, Delta, Guarded
<1>4. Step(w, Call("unlock"), y)
  BY <1>1, <1>2 DEF Step, Delta, Guarded, Less
<1>5. l \in Seq(Quiet) /\ u \in Seq(Quiet)
  BY <1>2
<1>6. Path(l, x, v)
  BY <1>1, <1>3, PathOne
<1>7. ProcessInputEvents \in Seq(Quiet) /\ Path(ProcessInputEvents, v, w)
  BY <1>1, PathProcess
<1>8. Path(u, w, y)
  BY <1>1, <1>2, <1>3, <1>4, PathFour DEF Quiet
<1> HIDE DEF l, u
<1>9. l \o ProcessInputEvents \in Seq(Quiet)
  BY <1>5, <1>7, ConcatProperties
<1>10. Path(l \o ProcessInputEvents, x, w)
  BY <1>5, <1>6, <1>7, QuietSeq, PathConcat
<1>11. l \o ProcessInputEvents \o u \in Seq(Quiet)
  BY <1>5, <1>9, ConcatProperties
<1>12. Path(l \o ProcessInputEvents \o u, x, y)
  BY <1>5, <1>8, <1>9, <1>10, QuietSeq, PathConcat
<1> QED
  BY <1>11, <1>12 DEF l, u, a, RemoveDevice

LEMMA PathPost ==
  ASSUME NEW e \in Event, NEW x \in States, NEW y \in States, Less(y, x)
  PROVE  Post(e) \in Seq(WellFormed) /\ Path(Post(e), x, y)
<1> DEFINE v == State(x.held + 1, x.clean)
           a == CallWith("enqueue", e)
<1>1. x.held \in Nat /\ v \in States /\ v.held = x.held + 1 /\ v.clean = x.clean
  BY StateType DEF States, State
<1> HIDE DEF v
<1>2. /\ Call("lock") \in WellFormed /\ Call("unlock") \in WellFormed /\ a \in WellFormed
      /\ Call("lock").fn = "lock" /\ Call("unlock").fn = "unlock" /\ a.fn = "enqueue"
  BY CallType, CallWithType DEF Functions, OnDevice
<1> HIDE DEF a
<1>3. Step(x, Call("lock"), v) /\ Step(v, a, v)
  BY <1>1, <1>2 DEF Step, Delta, Guarded
<1>4. Step(v, Call("unlock"), y)
  BY <1>1, <1>2 DEF Step, Delta, Guarded, Less
<1>5. Path(<<Call("lock"), a, Call("unlock")>>, x, y)
  BY <1>1, <1>2, <1>3, <1>4, PathThree
<1>6. <<Call("lock"), a, Call("unlock")>> \in Seq(WellFormed)
  BY <1>2
<1> QED
  BY <1>5, <1>6 DEF a, Post

\* An event is handled without the lock, and the drain goes on.
LEMMA PathHandle ==
  ASSUME NEW e \in Event \cup {NoEvent}, NEW x \in States, NEW y \in States,
         Step(x, Call("drain"), y),
         NEW s, s = <<Call("unlock"), CallWith("handle", e), Call("lock"), Call("drain")>>
  PROVE  s \in Seq(WellFormed) /\ Path(s, x, y)
<1> DEFINE v == State(x.held - 1, FALSE)
           w == State(x.held, FALSE)
           a == CallWith("handle", e)
<1>1. /\ Call("lock") \in WellFormed /\ Call("unlock") \in WellFormed /\ a \in WellFormed
      /\ Call("drain") \in WellFormed
      /\ Call("lock").fn = "lock" /\ Call("unlock").fn = "unlock" /\ a.fn = "handle"
      /\ Call("drain").fn = "drain"
  BY CallType, HandleType DEF Functions, OnDevice
<1>2. x.held \in Nat /\ x.held > 0 /\ y.held = x.held
  BY <1>1 DEF Step, Delta, Guarded, States
<1>3. /\ v \in States /\ v.held = x.held - 1 /\ ~v.clean
      /\ w \in States /\ w.held = x.held /\ ~w.clean
  BY <1>2 DEF State, States
<1> HIDE DEF v, w, a
<1>4. Step(x, Call("unlock"), v) /\ Step(v, Call("lock"), w)
  BY <1>1, <1>2, <1>3 DEF Step, Delta, Guarded
<1>7. Step(v, a, v)
  BY <1>1, <1>2, <1>3 DEF Step, Delta, Guarded
<1>5. Step(w, Call("drain"), y)
  BY <1>1, <1>2, <1>3 DEF Step, Delta, Guarded
<1>6. Path(<<Call("unlock"), a, Call("lock"), Call("drain")>>, x, y)
  BY <1>1, <1>3, <1>4, <1>5, <1>7, PathFour
<1>8. <<Call("unlock"), a, Call("lock"), Call("drain")>> \in Seq(WellFormed)
  BY <1>1
<1> QED
  BY <1>6, <1>8 DEF a
-----------------------------------------------------------------------------
(*****************************************************************************)
(* The lock: who is at a guarded step has it.                                *)
(*****************************************************************************)

LEMMA NeutralEmpty == Neutral(<<>>)
BY PathEmpty DEF Neutral

LEMMA NeutralOne ==
  ASSUME NEW a \in WellFormed, Delta(a) = 0, a.fn \notin Guarded
  PROVE  Neutral(<<a>>)
<1>1. a.fn \notin {"remove", "close"}
  BY DEF Guarded
<1>2. ASSUME NEW x \in States, NEW y \in States, Less(y, x)
      PROVE  Path(<<a>>, x, y)
  <2>1. Step(x, a, y)
    BY <1>1, <1>2 DEF Step, Less, States
  <2> QED
    BY <2>1, PathOne
<1> QED
  BY <1>2 DEF Neutral

LEMMA NeutralCall ==
  ASSUME NEW fn \in {"check", "handle", "request", "move", "ready"}
  PROVE  Neutral(<<Call(fn)>>)
<1>1. Call(fn) \in WellFormed /\ Call(fn).fn = fn
  BY CallType DEF Functions, OnDevice
<1>2. Delta(Call(fn)) = 0 /\ fn \notin Guarded
  BY <1>1 DEF Delta, Guarded
<1> QED
  BY <1>1, <1>2, NeutralOne

LEMMA NeutralConcat ==
  ASSUME NEW s, NEW t, Neutral(s), Neutral(t)
  PROVE  Neutral(s \o t)
<1>1. s \o t \in Seq(WellFormed)
  BY ConcatProperties DEF Neutral
<1>2. ASSUME NEW x \in States, NEW y \in States, Less(y, x)
      PROVE  Path(s \o t, x, y)
  <2>1. Path(s, x, x) /\ Path(t, x, y)
    BY <1>2 DEF Neutral, Less
  <2> QED
    BY <2>1, PathConcat DEF Neutral
<1> QED
  BY <1>1, <1>2 DEF Neutral

LEMMA NeutralRequest ==
  /\ Neutral(<<Call("check"), Call("request"), Call("check")>>)
  /\ <<Call("check"), Call("request"), Call("check")>> \in Seq(Quiet)
<1>1. Call("check") \in Quiet /\ Call("request") \in Quiet
  BY CallType DEF Functions, OnDevice
<1>2. /\ <<Call("check"), Call("request"), Call("check")>>
           = <<Call("check"), Call("request")>> \o <<Call("check")>>
      /\ <<Call("check"), Call("request")>> = <<Call("check")>> \o <<Call("request")>>
  BY <1>1, GlueTwo, GlueThree DEF Quiet
<1>3. Neutral(<<Call("check")>>) /\ Neutral(<<Call("request")>>)
  BY NeutralCall
<1>4. Neutral(<<Call("check"), Call("request")>>)
  BY <1>2, <1>3, NeutralConcat
<1>5. <<Call("check"), Call("request"), Call("check")>> \in Seq(Quiet)
  BY <1>1
<1> QED
  BY <1>2, <1>3, <1>4, <1>5, NeutralConcat

LEMMA NeutralFrames ==
  /\ Neutral(ProcessInputEvents)
  /\ \A d \in Devices : Neutral(Disable(d)) /\ Neutral(Enable(d)) /\ Neutral(RemoveDevice(d))
  /\ \A e \in Event : Neutral(Post(e))
<1>1. Neutral(ProcessInputEvents)
  <2>1. Free \in States /\ Less(Free, Free)
    BY DEF Free, State, States, Less
  <2>2. ProcessInputEvents \in Seq(Quiet)
    BY <2>1, PathProcess
  <2> QED
    BY <2>2, QuietSeq, PathProcess DEF Neutral, Less
<1>2. ASSUME NEW d \in Devices
      PROVE  Neutral(Disable(d)) /\ Neutral(Enable(d)) /\ Neutral(RemoveDevice(d))
  <2>1. Free \in States /\ Less(Free, Free)
    BY DEF Free, State, States, Less
  <2>2. Disable(d) \in Seq(Quiet) /\ Enable(d) \in Seq(Quiet) /\ RemoveDevice(d) \in Seq(Quiet)
    BY <2>1, PathDisable, PathEnable, PathRemoveDevice
  <2> QED
    BY <2>2, QuietSeq, PathDisable, PathEnable, PathRemoveDevice DEF Neutral
<1>3. ASSUME NEW e \in Event
      PROVE  Neutral(Post(e))
  <2>1. Free \in States /\ Less(Free, Free)
    BY DEF Free, State, States, Less
  <2>2. Post(e) \in Seq(WellFormed)
    BY <2>1, PathPost
  <2> QED
    BY <2>2, PathPost DEF Neutral
<1> QED
  BY <1>1, <1>2, <1>3

\* Who holds the lock can hold it.
LEMMA HoldsType ==
  ASSUME Types, NEW t \in Threads
  PROVE  Holds(t) \in Nat
BY DEF Types, TypeOK, Holds

\* A thread's next step gives way to frames, and the lock stays as it is.
LEMMA Turn ==
  ASSUME Types, Locking, NEW t \in Threads, calls[t] # <<>>,
         NEW frames \in Seq(WellFormed), Continue(t, frames), UNCHANGED lock,
         \A x, y \in States : Step(x, Top(t), y) => Path(frames, x, y),
         LockedCallers /\ NoDeviceEvents /\ Holds("main") > 0 => NoDeviceEvents'
  PROVE  calls' \in [Threads -> Seq(WellFormed)] /\ Locking'
<1> DEFINE s == calls[t]
           new == frames \o Tail(calls[t])
<1>1. /\ calls \in [Threads -> Seq(WellFormed)] /\ s \in Seq(WellFormed) /\ s # <<>>
      /\ Top(t) = Head(s) /\ Holds(t) \in Nat
  BY HoldsType DEF Types, Top
<1>2. calls' = [calls EXCEPT ![t] = new]
  BY <1>1 DEF Continue
<1>3. \A u \in Threads : Holds(u)' = Holds(u)
  BY DEF lock, Holds
<1>4. new \in Seq(WellFormed)
  BY <1>1, ConcatProperties, HeadTailProperties
<1>5. ASSUME NEW c \in BOOLEAN, ThreadPath(t, c), c => Holds(t) > 0
      PROVE  ThreadPath(t, c)'
  <2>1. State(Holds(t), c) \in States
    BY <1>1, <1>5, StateType
  <2>2. Path(new, State(Holds(t), c), Free)
    BY <1>1, <1>5, <2>1, PathReplace DEF ThreadPath
  <2>3. calls'[t] = new
    BY <1>1, <1>2
  <2> QED
    BY <1>3, <2>2, <2>3 DEF ThreadPath
<1>6. ASSUME NEW u \in Threads, u # t, NEW c, ThreadPath(u, c)
      PROVE  ThreadPath(u, c)'
  BY <1>1, <1>2, <1>3, <1>6 DEF ThreadPath
<1>7. (owner = "none" <=> depth = 0)'
  BY DEF Locking, lock
<1>8. ThreadPath("input", FALSE)'
  BY <1>5, <1>6 DEF Locking, Threads
<1>9. PICK c \in BOOLEAN : /\ ThreadPath("main", c)
                           /\ c => Holds("main") > 0 /\ (LockedCallers => NoDeviceEvents)
  BY DEF Locking
<1>10. ThreadPath("main", c)'
  BY <1>5, <1>6, <1>9 DEF Threads
<1>11. (c => Holds("main") > 0 /\ (LockedCallers => NoDeviceEvents))'
  BY <1>3, <1>9 DEF Threads, LockedCallers
<1> HIDE DEF new
<1> QED
  BY <1>1, <1>2, <1>4, <1>7, <1>8, <1>9, <1>10, <1>11 DEF Locking

\* Neither does a step that is no lock, unlock or drain, when neutral frames follow.
LEMMA TurnNeutral ==
  ASSUME Types, Locking, NEW t \in Threads, calls[t] # <<>>,
         Top(t).fn \notin {"lock", "unlock", "drain"},
         NEW frames, Neutral(frames), Continue(t, frames), UNCHANGED lock,
         LockedCallers /\ NoDeviceEvents /\ Holds("main") > 0 => NoDeviceEvents'
  PROVE  calls' \in [Threads -> Seq(WellFormed)] /\ Locking'
<1>1. ASSUME NEW x \in States, NEW y \in States, Step(x, Top(t), y)
      PROVE  Path(frames, x, y)
  <2>1. Less(y, x)
    BY <1>1 DEF Step, Less, Delta, States
  <2> QED
    BY <2>1 DEF Neutral
<1> QED
  BY <1>1, Turn DEF Neutral

\* A thread that polls holds no lock, and begins with neutral frames.
LEMMA Begin ==
  ASSUME Types, Locking, NEW t \in Threads, calls[t] = <<>>,
         NEW frames, Neutral(frames), Becomes(t, frames), UNCHANGED <<lock, eq>>
  PROVE  calls' \in [Threads -> Seq(WellFormed)] /\ Locking'
<1>1. calls \in [Threads -> Seq(WellFormed)]
  BY DEF Types
<1>2. calls' = [calls EXCEPT ![t] = frames] /\ calls'[t] = frames
  BY <1>1 DEF Becomes
<1>3. \A u \in Threads : Holds(u)' = Holds(u)
  BY DEF lock, Holds
<1>4. frames \in Seq(WellFormed)
  BY DEF Neutral
<1>5. ASSUME NEW c \in BOOLEAN, ThreadPath(t, c)
      PROVE  ThreadPath(t, c)'
  <2>1. Free \in States /\ Less(Free, State(Holds(t), c))
    BY <1>5, PathEnd DEF ThreadPath
  <2>2. Free.held = 0 /\ Free.clean = FALSE /\ State(Holds(t), c).held = Holds(t)
    BY DEF Free, State
  <2>3. Holds(t) = 0
    BY <2>1, <2>2 DEF Less
  <2>4. Path(frames, Free, Free)
    BY <2>1 DEF Neutral, Less
  <2>5. Path(frames, State(Holds(t), c), Free)
    BY <2>1, <2>2, <2>3, <2>4 DEF Path, Less
  <2> QED
    BY <1>2, <1>3, <2>5 DEF ThreadPath
<1>6. ASSUME NEW u \in Threads, u # t, NEW c, ThreadPath(u, c)
      PROVE  ThreadPath(u, c)'
  BY <1>1, <1>2, <1>3, <1>6 DEF ThreadPath
<1>7. (owner = "none" <=> depth = 0)'
  BY DEF Locking, lock
<1>8. ThreadPath("input", FALSE)'
  BY <1>5, <1>6 DEF Locking, Threads
<1>9. PICK c \in BOOLEAN : /\ ThreadPath("main", c)
                           /\ c => Holds("main") > 0 /\ (LockedCallers => NoDeviceEvents)
  BY DEF Locking
<1>10. ThreadPath("main", c)'
  BY <1>5, <1>6, <1>9 DEF Threads
<1>11. NoDeviceEvents' = NoDeviceEvents
  BY DEF eq, NoDeviceEvents, Queued, NumEnqueued
<1>12. (c => Holds("main") > 0 /\ (LockedCallers => NoDeviceEvents))'
  BY <1>3, <1>9, <1>11 DEF Threads, LockedCallers
<1> QED
  BY <1>1, <1>2, <1>4, <1>7, <1>8, <1>9, <1>10, <1>12 DEF Locking

\* What a step of a thread leaves of its path.
LEMMA Pop ==
  ASSUME Types, NEW t \in Threads, calls[t] # <<>>, Continue(t, <<>>)
  PROVE  /\ calls' \in [Threads -> Seq(WellFormed)]
         /\ calls[t] \in Seq(WellFormed) /\ calls'[t] = Tail(calls[t])
         /\ \A u \in Threads \ {t} : calls'[u] = calls[u]
<1>1. calls \in [Threads -> Seq(WellFormed)]
  BY DEF Types
<1>2. Tail(calls[t]) \in Seq(WellFormed)
  BY <1>1, HeadTailProperties
<1>3. <<>> \o Tail(calls[t]) = Tail(calls[t])
  BY <1>2, ConcatEmptySeq
<1>4. calls' = [calls EXCEPT ![t] = Tail(calls[t])]
  BY <1>1, <1>3 DEF Continue
<1> QED
  BY <1>1, <1>2, <1>4

LEMMA LockingLock ==
  ASSUME Types, Locking, NEW t \in Threads, Lock(t)
  PROVE  calls' \in [Threads -> Seq(WellFormed)] /\ Locking'
<1>1. /\ calls[t] # <<>> /\ Top(t).fn = "lock" /\ owner \in {"none", t}
      /\ owner' = t /\ depth' = depth + 1 /\ Continue(t, <<>>) /\ UNCHANGED eq
  BY DEF Lock, At
<1>2. /\ calls' \in [Threads -> Seq(WellFormed)]
      /\ calls[t] \in Seq(WellFormed) /\ calls'[t] = Tail(calls[t])
      /\ \A u \in Threads \ {t} : calls'[u] = calls[u]
  BY <1>1, Pop
<1>3. depth \in Nat /\ "none" \notin Threads
  BY DEF Types, TypeOK, Threads
<1>4. (owner = "none" <=> depth = 0)'
  BY <1>1, <1>3
<1>5. /\ Holds(t)' = Holds(t) + 1 /\ Holds(t) \in Nat
      /\ \A u \in Threads \ {t} : Holds(u) = 0 /\ Holds(u)' = 0
  BY <1>1, <1>3 DEF Holds, Locking
<1>6. ASSUME NEW c \in BOOLEAN, ThreadPath(t, c)
      PROVE  \E k \in BOOLEAN : ThreadPath(t, k)' /\ (k => c)
  <2>1. PICK y \in States : /\ Step(State(Holds(t), c), Head(calls[t]), y)
                            /\ Path(Tail(calls[t]), y, Free)
    BY <1>1, <1>2, <1>6, PathTail DEF ThreadPath
  <2>2. y.held = Holds(t) + 1 /\ (y.clean => c) /\ y.clean \in BOOLEAN
    BY <1>1, <2>1 DEF Step, Delta, Top, State, States
  <2>3. y = State(Holds(t) + 1, y.clean)
    BY <2>2 DEF State, States
  <2>4. ThreadPath(t, y.clean)'
    BY <1>2, <1>5, <2>1, <2>3 DEF ThreadPath
  <2> QED
    BY <2>2, <2>4
<1>7. ASSUME NEW u \in Threads, u # t, NEW c, ThreadPath(u, c)
      PROVE  ThreadPath(u, c)'
  BY <1>2, <1>5, <1>7 DEF ThreadPath
<1>8. ThreadPath("input", FALSE)'
  BY <1>6, <1>7 DEF Locking, Threads
<1>9. PICK c \in BOOLEAN : /\ ThreadPath("main", c)
                           /\ c => Holds("main") > 0 /\ (LockedCallers => NoDeviceEvents)
  BY DEF Locking
<1>10. PICK k \in BOOLEAN : ThreadPath("main", k)' /\ (k => c)
  BY <1>6, <1>7, <1>9 DEF Threads
<1>11. NoDeviceEvents' = NoDeviceEvents
  BY <1>1 DEF eq, NoDeviceEvents, Queued, NumEnqueued
<1>12. (k => Holds("main") > 0 /\ (LockedCallers => NoDeviceEvents))'
  <2>1. CASE t = "main"
    BY <1>5, <1>9, <1>10, <1>11, <2>1 DEF LockedCallers
  <2>2. CASE t # "main"
    BY <1>5, <1>9, <1>10, <1>11, <2>2 DEF LockedCallers, Threads
  <2> QED
    BY <2>1, <2>2
<1> QED
  BY <1>2, <1>4, <1>8, <1>10, <1>12 DEF Locking

LEMMA LockingUnlock ==
  ASSUME Types, Locking, NEW t \in Threads, Unlock(t)
  PROVE  calls' \in [Threads -> Seq(WellFormed)] /\ Locking' /\ owner = t /\ depth > 0
<1>1. /\ calls[t] # <<>> /\ Top(t).fn = "unlock"
      /\ owner' = (IF depth = 1 THEN "none" ELSE owner)
      /\ depth' = depth - 1 /\ Continue(t, <<>>) /\ UNCHANGED eq
  BY DEF Unlock, At
<1>2. /\ calls' \in [Threads -> Seq(WellFormed)]
      /\ calls[t] \in Seq(WellFormed) /\ calls'[t] = Tail(calls[t])
      /\ \A u \in Threads \ {t} : calls'[u] = calls[u]
  BY <1>1, Pop
<1>3. depth \in Nat /\ "none" \notin Threads
  BY DEF Types, TypeOK, Threads
<1>4. ASSUME NEW c \in BOOLEAN, ThreadPath(t, c)
      PROVE  /\ owner = t /\ depth > 0
             /\ \E k \in BOOLEAN : /\ k => c /\ depth > 1
                                   /\ Path(Tail(calls[t]), State(depth - 1, k), Free)
  <2>1. PICK y \in States : /\ Step(State(Holds(t), c), Head(calls[t]), y)
                            /\ Path(Tail(calls[t]), y, Free)
    BY <1>1, <1>2, <1>4, PathTail DEF ThreadPath
  <2>2. /\ y.held = Holds(t) - 1 /\ (y.clean => c) /\ y.clean \in BOOLEAN /\ y.held \in Nat
        /\ y.clean => y.held > 0
    BY <1>1, <2>1 DEF Step, Delta, Top, State, States
  <2>3. owner = t /\ depth > 0 /\ Holds(t) = depth
    BY <1>3, <2>2 DEF Holds
  <2>4. y = State(depth - 1, y.clean)
    BY <2>2, <2>3 DEF State, States
  <2>5. y.clean => c /\ depth > 1
    BY <1>3, <2>2, <2>3
  <2> QED
    BY <2>1, <2>2, <2>3, <2>4, <2>5
<1>5. PICK c \in BOOLEAN : /\ ThreadPath("main", c)
                           /\ c => Holds("main") > 0 /\ (LockedCallers => NoDeviceEvents)
  BY DEF Locking
<1>6. owner = t /\ depth > 0
  BY <1>4, <1>5 DEF Locking, Threads
<1>7. (owner = "none" <=> depth = 0)'
  BY <1>1, <1>3, <1>6
<1>8. /\ Holds(t)' = depth - 1
      /\ \A u \in Threads \ {t} : Holds(u) = 0 /\ Holds(u)' = 0
  BY <1>1, <1>3, <1>6 DEF Holds
<1>9. ASSUME NEW d \in BOOLEAN, ThreadPath(t, d)
      PROVE  \E k \in BOOLEAN : ThreadPath(t, k)' /\ (k => d /\ depth > 1)
  BY <1>2, <1>4, <1>8, <1>9 DEF ThreadPath
<1>10. ASSUME NEW u \in Threads, u # t, NEW d, ThreadPath(u, d)
      PROVE  ThreadPath(u, d)'
  BY <1>2, <1>8, <1>10 DEF ThreadPath
<1>11. ThreadPath("input", FALSE)'
  BY <1>9, <1>10 DEF Locking, Threads
<1>12. PICK k \in BOOLEAN : ThreadPath("main", k)' /\ (k => c) /\ (t = "main" /\ k => depth > 1)
  BY <1>5, <1>9, <1>10 DEF Threads
<1>13. NoDeviceEvents' = NoDeviceEvents
  BY <1>1 DEF eq, NoDeviceEvents, Queued, NumEnqueued
<1>14. (k => Holds("main") > 0 /\ (LockedCallers => NoDeviceEvents))'
  <2>1. CASE t = "main"
    BY <1>3, <1>5, <1>8, <1>12, <1>13, <2>1 DEF LockedCallers
  <2>2. CASE t # "main"
    BY <1>5, <1>8, <1>12, <1>13, <2>2 DEF LockedCallers, Threads
  <2> QED
    BY <2>1, <2>2
<1> QED
  BY <1>2, <1>6, <1>7, <1>11, <1>12, <1>14 DEF Locking
-----------------------------------------------------------------------------
(*****************************************************************************)
(* A circular array of n buckets that holds the events between h and t.      *)
(*****************************************************************************)

Wrap(x, n) == IF x < n THEN x ELSE x - n
Num(h, t, n) == LET k == t + n - h IN IF k >= n THEN k - n ELSE k
Contents(ev, h, t, n) == [i \in 1 .. Num(h, t, n) |-> ev[(h + i - 1) % n]]

\* c is what lies between the ends; arrays that differ in bucket k at most; c with e at its
\* end; the bucket before t; and the array that grows.
Lies(c, ev, h, t, n) ==
  /\ Len(c) = Num(h, t, n)
  /\ \A i \in 1 .. Num(h, t, n) : c[i] = ev[Wrap(h + i - 1, n)]
OnlyAt(k, ev, ew, n) == \A i \in 0 .. n - 1 : i # k => ew[i] = ev[i]
LastReplaced(c, e) == [c EXCEPT ![Len(c)] = e]
IsBefore(l, t, n) == l \in 0 .. n - 1 /\ l = Wrap(t + n - 1, n)
Unrolled(ev, h, n, None) ==
  [i \in 0 .. 2 * n - 1 |-> IF i < n - h THEN ev[h + i]
                            ELSE IF i < n THEN ev[i - (n - h)] ELSE None]

LEMMA WrapIsMod ==
  ASSUME NEW n \in Nat \ {0}, NEW x \in 0 .. 2 * n - 1
  PROVE  x % n = Wrap(x, n)
<1>1. CASE x < n
  BY <1>1, SMT DEF Wrap
<1>2. CASE x >= n
  <2>1. x = 1 * n + (x - n) /\ x - n \in 0 .. n - 1
    BY <1>2
  <2> QED
    BY <1>2, <2>1, SMT DEF Wrap
<1> QED
  BY <1>1, <1>2

LEMMA NumFacts ==
  ASSUME NEW n \in Nat \ {0}, NEW h \in 0 .. n - 1, NEW t \in 0 .. n - 1
  PROVE  /\ Num(h, t, n) \in 0 .. n - 1
         /\ Num(h, t, n) = IF t >= h THEN t - h ELSE t + n - h
         /\ Num(h, t, n) = 0 <=> t = h
  BY DEF Num

LEMMA ContentsFacts ==
  ASSUME NEW n \in Nat \ {0}, NEW h \in 0 .. n - 1, NEW t \in 0 .. n - 1,
         NEW S, NEW ev \in [0 .. n - 1 -> S]
  PROVE  /\ Contents(ev, h, t, n) \in Seq(S)
         /\ Len(Contents(ev, h, t, n)) = Num(h, t, n)
         /\ \A i \in 1 .. Num(h, t, n) :
              Contents(ev, h, t, n)[i] = ev[Wrap(h + i - 1, n)]
<1> DEFINE m == Num(h, t, n)
           c == Contents(ev, h, t, n)
<1>1. m \in 0 .. n - 1
  BY NumFacts
<1>2. ASSUME NEW i \in 1 .. m
      PROVE  /\ h + i - 1 \in 0 .. 2 * n - 1
             /\ (h + i - 1) % n = Wrap(h + i - 1, n)
             /\ Wrap(h + i - 1, n) \in 0 .. n - 1
  <2>1. h + i - 1 \in 0 .. 2 * n - 1
    BY <1>1
  <2>2. (h + i - 1) % n = Wrap(h + i - 1, n)
    BY <2>1, WrapIsMod
  <2>3. Wrap(h + i - 1, n) \in 0 .. n - 1
    BY <2>1 DEF Wrap
  <2> QED
    BY <2>1, <2>2, <2>3
<1>3. c = [i \in 1 .. m |-> ev[(h + i - 1) % n]]
  BY DEF Contents
<1> HIDE DEF c, m
<1>4. c \in [1 .. m -> S]
  BY <1>2, <1>3
<1>5. c \in Seq(S) /\ Len(c) = m
  BY <1>1, <1>4
<1>6. \A i \in 1 .. m : c[i] = ev[Wrap(h + i - 1, n)]
  BY <1>2, <1>3
<1> QED
  BY <1>2, <1>5, <1>6 DEF c, m

LEMMA ContentsLie ==
  ASSUME NEW n \in Nat \ {0}, NEW h \in 0 .. n - 1, NEW t \in 0 .. n - 1,
         NEW S, NEW ev \in [0 .. n - 1 -> S]
  PROVE  /\ Contents(ev, h, t, n) \in Seq(S)
         /\ Lies(Contents(ev, h, t, n), ev, h, t, n)
  BY ContentsFacts DEF Lies

LEMMA ContentsTake ==
  ASSUME NEW n \in Nat \ {0}, NEW h \in 0 .. n - 1, NEW t \in 0 .. n - 1, h # t,
         NEW S, NEW ev \in [0 .. n - 1 -> S]
  PROVE  /\ Contents(ev, h, t, n) # <<>> /\ Head(Contents(ev, h, t, n)) = ev[h]
         /\ Contents(ev, (h + 1) % n, t, n) = Tail(Contents(ev, h, t, n))
<1> DEFINE g == Wrap(h + 1, n)
           c == Contents(ev, h, t, n)
           d == Contents(ev, g, t, n)
           m == Num(h, t, n)
<1>1. (h + 1) % n = g /\ g \in 0 .. n - 1
  <2>1. h + 1 \in 0 .. 2 * n - 1
    OBVIOUS
  <2>2. (h + 1) % n = Wrap(h + 1, n)
    BY <2>1, WrapIsMod
  <2> QED
    BY <2>1, <2>2 DEF Wrap
<1>2. m \in 1 .. n - 1 /\ Num(g, t, n) = m - 1
  BY <1>1 DEF Num, Wrap
<1>3. /\ c \in Seq(S) /\ Len(c) = m
      /\ \A i \in 1 .. m : c[i] = ev[Wrap(h + i - 1, n)]
  BY ContentsFacts, Zenon
<1> HIDE DEF c
<1>4. /\ d \in Seq(S) /\ Len(d) = m - 1
      /\ \A i \in 1 .. m - 1 : d[i] = ev[Wrap(g + i - 1, n)]
  <2> HIDE DEF g
  <2>1. /\ d \in Seq(S) /\ Len(d) = Num(g, t, n)
        /\ \A i \in 1 .. Num(g, t, n) : d[i] = ev[Wrap(g + i - 1, n)]
    BY <1>1, ContentsFacts
  <2> QED
    BY <1>2, <2>1
<1> HIDE DEF d
<1>5. c # <<>> /\ Head(c) = ev[h]
  BY <1>2, <1>3 DEF Wrap
<1>6. /\ Tail(c) \in Seq(S) /\ Len(Tail(c)) = m - 1
      /\ \A i \in 1 .. m - 1 : Tail(c)[i] = c[i + 1]
  BY <1>2, <1>3, <1>5, HeadTailProperties
<1>7. \A i \in 1 .. m - 1 : d[i] = Tail(c)[i]
  <2> TAKE i \in 1 .. m - 1
  <2>1. i + 1 \in 1 .. m
    BY <1>2
  <2>2. Wrap(g + i - 1, n) = Wrap(h + (i + 1) - 1, n)
    BY <1>2 DEF Wrap
  <2> QED
    BY <1>3, <1>4, <1>6, <2>1, <2>2
<1> HIDE DEF m
<1>8. d = Tail(c)
  BY <1>2, <1>4, <1>6, <1>7, SeqEqual
<1> QED
  BY <1>1, <1>5, <1>8 DEF c, d

LEMMA ContentsAppend ==
  ASSUME NEW n \in Nat \ {0}, NEW h \in 0 .. n - 1, NEW t \in 0 .. n - 1,
         Num(h, t, n) + 1 < n, NEW u, u = (t + 1) % n,
         NEW S, NEW ev, NEW ew, NEW e \in S, ew[t] = e,
         OnlyAt(t, ev, ew, n),
         NEW c \in Seq(S), Lies(c, ev, h, t, n), NEW d \in Seq(S), Lies(d, ew, h, u, n)
  PROVE  d = Append(c, e)
<1> DEFINE m == Num(h, t, n)
<1>1. u = Wrap(t + 1, n) /\ u \in 0 .. n - 1
  <2>1. t + 1 \in 0 .. 2 * n - 1
    OBVIOUS
  <2>2. (t + 1) % n = Wrap(t + 1, n)
    BY <2>1, WrapIsMod
  <2> QED
    BY <2>1, <2>2 DEF Wrap
<1>2. m \in 0 .. n - 2 /\ Num(h, u, n) = m + 1
  BY <1>1 DEF Num, Wrap
<1>3. Len(c) = m /\ \A i \in 1 .. m : c[i] = ev[Wrap(h + i - 1, n)]
  BY DEF Lies
<1>4. Len(d) = m + 1 /\ \A i \in 1 .. m + 1 : d[i] = ew[Wrap(h + i - 1, n)]
  <2> HIDE DEF m
  <2> QED
    BY <1>2 DEF Lies
<1>5. /\ Append(c, e) \in Seq(S) /\ Len(Append(c, e)) = m + 1
      /\ \A i \in 1 .. m : Append(c, e)[i] = c[i]
      /\ Append(c, e)[m + 1] = e
  <2> HIDE DEF m
  <2> QED
    BY <1>3, AppendProperties
<1>6. \A i \in 1 .. m + 1 : d[i] = Append(c, e)[i]
  <2> TAKE i \in 1 .. m + 1
  <2>1. CASE i = m + 1
    <3>1. Wrap(h + i - 1, n) = t
      BY <2>1, SMT DEF Num, Wrap
    <3> QED
      BY <1>2, <1>4, <1>5, <2>1, <3>1
  <2>2. CASE i # m + 1
    <3>1. i \in 1 .. m /\ Wrap(h + i - 1, n) # t /\ Wrap(h + i - 1, n) \in 0 .. n - 1
      BY <1>2, <2>2, SMT DEF Num, Wrap
    <3> QED
      BY <1>3, <1>4, <1>5, <3>1 DEF OnlyAt
  <2> QED
    BY <2>1, <2>2
<1> HIDE DEF m
<1> QED
  BY <1>2, <1>4, <1>5, <1>6, SeqEqual

LEMMA BeforeIsNext ==
  ASSUME NEW n \in Nat \ {0}, NEW t \in 0 .. n - 1, NEW l, l = (t + n - 1) % n
  PROVE  IsBefore(l, t, n) /\ l \in 0 .. n - 1 /\ (l + 1) % n = t
<1>1. l = Wrap(t + n - 1, n) /\ l \in 0 .. n - 1
  <2>1. t + n - 1 \in 0 .. 2 * n - 1
    OBVIOUS
  <2>2. (t + n - 1) % n = Wrap(t + n - 1, n)
    BY <2>1, WrapIsMod
  <2> QED
    BY <2>1, <2>2 DEF Wrap
<1>2. (l + 1) % n = t
  <2>1. l + 1 \in 0 .. 2 * n - 1
    BY <1>1
  <2>2. (l + 1) % n = Wrap(l + 1, n)
    BY <2>1, WrapIsMod
  <2> QED
    BY <1>1, <2>2 DEF Wrap
<1> QED
  BY <1>1, <1>2 DEF IsBefore

LEMMA AfterIsOther ==
  ASSUME NEW n \in Nat \ {0}, NEW h \in 0 .. n - 1, NEW t \in 0 .. n - 1,
         Num(h, t, n) + 1 < n, NEW u, u = (t + 1) % n
  PROVE  u \in 0 .. n - 1 /\ u # h
<1>1. t + 1 \in 0 .. 2 * n - 1
  OBVIOUS
<1>2. (t + 1) % n = Wrap(t + 1, n)
  BY <1>1, WrapIsMod
<1> QED
  BY <1>2 DEF Wrap, Num

LEMMA ContentsReplace ==
  ASSUME NEW n \in Nat \ {0}, NEW h \in 0 .. n - 1, NEW t \in 0 .. n - 1, h # t,
         NEW l, IsBefore(l, t, n),
         NEW S, NEW ev, NEW ew, NEW e \in S, ew[l] = e,
         OnlyAt(l, ev, ew, n),
         NEW c \in Seq(S), Lies(c, ev, h, t, n), NEW d \in Seq(S), Lies(d, ew, h, t, n)
  PROVE  d = LastReplaced(c, e)
<1> DEFINE m == Num(h, t, n)
           r == [c EXCEPT ![m] = e]
<1>1. l = Wrap(t + n - 1, n) /\ l \in 0 .. n - 1
  BY DEF IsBefore
<1>2. m \in 1 .. n - 1
  BY DEF Num
<1>3. Len(c) = m /\ \A i \in 1 .. m : c[i] = ev[Wrap(h + i - 1, n)]
  BY DEF Lies
<1>4. Len(d) = m /\ \A i \in 1 .. m : d[i] = ew[Wrap(h + i - 1, n)]
  BY DEF Lies
<1>5. /\ r \in Seq(S) /\ Len(r) = m
      /\ \A i \in 1 .. m : r[i] = IF i = m THEN e ELSE c[i]
  <2> HIDE DEF m
  <2> QED
    BY <1>2, <1>3, ExceptSeq
<1>6. \A i \in 1 .. m : d[i] = r[i]
  <2> TAKE i \in 1 .. m
  <2>1. Wrap(h + i - 1, n) \in 0 .. n - 1 /\ (Wrap(h + i - 1, n) = l <=> i = m)
    BY <1>1, <1>2, SMT DEF Num, Wrap
  <2> QED
    BY <1>1, <1>3, <1>4, <1>5, <2>1 DEF OnlyAt
<1> HIDE DEF m
<1>7. d = r
  <2> HIDE DEF r
  <2> QED
    BY <1>2, <1>4, <1>5, <1>6, SeqEqual
<1> QED
  BY <1>3, <1>7 DEF LastReplaced

LEMMA ContentsGrow ==
  ASSUME NEW n \in Nat \ {0}, NEW h \in 0 .. n - 1, NEW t \in 0 .. n - 1,
         NEW S, NEW ev \in [0 .. n - 1 -> S], NEW None \in S
  PROVE  /\ Unrolled(ev, h, n, None) \in [0 .. 2 * n - 1 -> S]
         /\ Contents(Unrolled(ev, h, n, None), 0, Num(h, t, n), 2 * n) = Contents(ev, h, t, n)
         /\ Num(0, Num(h, t, n), 2 * n) = Num(h, t, n)
<1> DEFINE c == Contents(ev, h, t, n)
           ew == Unrolled(ev, h, n, None)
           m == Num(h, t, n)
           d == Contents(ew, 0, m, 2 * n)
<1>1. m \in 0 .. n - 1
  BY NumFacts
<1>2. \A i \in 0 .. 2 * n - 1 : ew[i] = IF i < n - h THEN ev[h + i]
                            ELSE IF i < n THEN ev[i - (n - h)] ELSE None
  BY DEF Unrolled
<1>3. ew \in [0 .. 2 * n - 1 -> S]
  <2>1. ASSUME NEW i \in 0 .. 2 * n - 1 PROVE ew[i] \in S
    <3>1. i < n - h => h + i \in 0 .. n - 1
      OBVIOUS
    <3>2. ~(i < n - h) /\ i < n => i - (n - h) \in 0 .. n - 1
      OBVIOUS
    <3> QED
      BY <1>2, <3>1, <3>2
  <2> QED
    BY <2>1 DEF Unrolled
<1>4. Num(0, m, 2 * n) = m /\ 2 * n \in Nat \ {0} /\ m \in 0 .. 2 * n - 1 /\ 0 \in 0 .. 2 * n - 1
  BY <1>1 DEF Num
<1>5. /\ c \in Seq(S) /\ Len(c) = m
      /\ \A i \in 1 .. m : c[i] = ev[Wrap(h + i - 1, n)]
  BY ContentsFacts, Zenon
<1> HIDE DEF c
<1>6. /\ d \in Seq(S) /\ Len(d) = m
      /\ \A i \in 1 .. m : d[i] = ew[Wrap(0 + i - 1, 2 * n)]
  <2> HIDE DEF m, ew
  <2>1. ASSUME NEW k \in Nat \ {0}, NEW l \in 0 .. k - 1, NEW w \in [0 .. k - 1 -> S]
        PROVE  /\ Contents(w, 0, l, k) \in Seq(S)
               /\ Len(Contents(w, 0, l, k)) = Num(0, l, k)
               /\ \A i \in 1 .. Num(0, l, k) :
                    Contents(w, 0, l, k)[i] = w[Wrap(0 + i - 1, k)]
    <3>1. 0 \in 0 .. k - 1
      OBVIOUS
    <3> QED
      BY <3>1, ContentsFacts
  <2> QED
    BY <1>3, <1>4, <2>1
<1> HIDE DEF d
<1>7. \A i \in 1 .. m : d[i] = c[i]
  <2> TAKE i \in 1 .. m
  <2>1. Wrap(0 + i - 1, 2 * n) = i - 1 /\ i - 1 \in 0 .. n - 1
    BY <1>1 DEF Wrap
  <2>2. ew[i - 1] = ev[Wrap(h + i - 1, n)]
    <3>1. i - 1 < n - h => h + (i - 1) = Wrap(h + i - 1, n)
      BY <2>1 DEF Wrap
    <3>2. ~(i - 1 < n - h) => (i - 1) - (n - h) = Wrap(h + i - 1, n)
      BY <2>1 DEF Wrap
    <3> QED
      BY <1>2, <2>1, <3>1, <3>2
  <2> QED
    BY <1>5, <1>6, <2>1, <2>2
<1> HIDE DEF m, ew
<1>8. d = c
  BY <1>1, <1>5, <1>6, <1>7, SeqEqual
<1> QED
  BY <1>3, <1>4, <1>8 DEF c, d, ew, m
-----------------------------------------------------------------------------
(*****************************************************************************)
(* What is queued, as the array changes.                                     *)
(*****************************************************************************)

Buckets == Event \cup {NoEvent}

LEMMA ModType ==
  ASSUME NEW n \in Nat \ {0}, NEW x \in Nat
  PROVE  x % n \in 0 .. n - 1
OBVIOUS

LEMMA QueuedLies ==
  ASSUME NEW n \in Nat \ {0}, nevents = n, head \in 0 .. n - 1, tail \in 0 .. n - 1,
         events \in [0 .. n - 1 -> Buckets]
  PROVE  Queued \in Seq(Buckets) /\ Lies(Queued, events, head, tail, n)
<1>1. Queued = Contents(events, head, tail, n)
  BY DEF Queued, Contents, NumEnqueued, Num
<1> QED
  BY <1>1, ContentsLie

LEMMA QueuedLiesNext ==
  ASSUME NEW n \in Nat \ {0}, nevents' = n, head' \in 0 .. n - 1, tail' \in 0 .. n - 1,
         events' \in [0 .. n - 1 -> Buckets]
  PROVE  Queued' \in Seq(Buckets) /\ Lies(Queued', events', head', tail', n)
<1>1. Queued' = Contents(events', head', tail', n)
  BY DEF Queued, Contents, NumEnqueued, Num
<1> QED
  BY <1>1, ContentsLie

LEMMA QueuedIs ==
  ASSUME TypeOK
  PROVE  /\ Queued = Contents(events, head, tail, nevents)
         /\ NumEnqueued = Num(head, tail, nevents)
         /\ NumEnqueued \in 0 .. nevents - 1 /\ nevents \in Nat \ {0}
         /\ Queued \in Seq(Buckets) /\ Len(Queued) = NumEnqueued
         /\ Queued = <<>> <=> head = tail
<1>1. /\ nevents \in Nat \ {0} /\ head \in 0 .. nevents - 1 /\ tail \in 0 .. nevents - 1
      /\ events \in [0 .. nevents - 1 -> Buckets]
  BY DEF TypeOK, Buckets
<1>2. NumEnqueued = Num(head, tail, nevents)
  BY DEF NumEnqueued, Num
<1>3. Queued = Contents(events, head, tail, nevents)
  BY <1>2 DEF Queued, Contents
<1>4. /\ NumEnqueued \in 0 .. nevents - 1
      /\ NumEnqueued = 0 <=> tail = head
  <2>1. /\ Num(head, tail, nevents) \in 0 .. nevents - 1
        /\ Num(head, tail, nevents) = 0 <=> tail = head
    BY <1>1, NumFacts
  <2> QED
    BY <1>2, <2>1
<1>5. Queued \in Seq(Buckets) /\ Len(Queued) = NumEnqueued
  <2>1. /\ Contents(events, head, tail, nevents) \in Seq(Buckets)
        /\ Len(Contents(events, head, tail, nevents)) = Num(head, tail, nevents)
    BY <1>1, ContentsFacts
  <2> QED
    BY <1>2, <1>3, <2>1
<1>6. Queued = <<>> <=> head = tail
  BY <1>4, <1>5, EmptySeq
<1> QED
  BY <1>1, <1>2, <1>3, <1>4, <1>5, <1>6

\* The array grows and holds what it held.
LEMMA QueuedGrow ==
  ASSUME TypeOK, events' = Grown, nevents' = 2 * nevents, head' = 0, tail' = NumEnqueued
  PROVE  /\ Queued' = Queued
         /\ nevents' \in Nat /\ head' \in 0 .. nevents' - 1 /\ tail' \in 0 .. nevents' - 1
         /\ events' \in [0 .. nevents' - 1 -> Buckets]
         /\ NumEnqueued' = NumEnqueued /\ NumEnqueued' + 1 < nevents'
<1>1. /\ nevents \in Nat \ {0} /\ head \in 0 .. nevents - 1 /\ tail \in 0 .. nevents - 1
      /\ events \in [0 .. nevents - 1 -> Buckets] /\ NoEvent \in Buckets
  BY DEF TypeOK, Buckets
<1>2. Grown = Unrolled(events, head, nevents, NoEvent)
  BY DEF Grown, Unrolled
<1>3. /\ Queued = Contents(events, head, tail, nevents)
      /\ NumEnqueued = Num(head, tail, nevents) /\ NumEnqueued \in 0 .. nevents - 1
  BY QueuedIs
<1>4. /\ Grown \in [0 .. 2 * nevents - 1 -> Buckets]
      /\ Contents(Grown, 0, NumEnqueued, 2 * nevents) = Queued
      /\ Num(0, NumEnqueued, 2 * nevents) = NumEnqueued
  <2>1. /\ Unrolled(events, head, nevents, NoEvent) \in [0 .. 2 * nevents - 1 -> Buckets]
        /\ Contents(Unrolled(events, head, nevents, NoEvent), 0, Num(head, tail, nevents),
                    2 * nevents) = Contents(events, head, tail, nevents)
        /\ Num(0, Num(head, tail, nevents), 2 * nevents) = Num(head, tail, nevents)
    BY <1>1, ContentsGrow
  <2> QED
    BY <1>2, <1>3, <2>1
<1>5. /\ nevents' \in Nat /\ head' \in 0 .. nevents' - 1 /\ tail' \in 0 .. nevents' - 1
      /\ events' \in [0 .. nevents' - 1 -> Buckets]
  BY <1>1, <1>3, <1>4
<1>6. NumEnqueued' = Num(head', tail', nevents')
  BY DEF NumEnqueued, Num
<1>7. Queued' = Contents(events', head', tail', nevents')
  BY <1>6 DEF Queued, Contents
<1>8. NumEnqueued' = NumEnqueued
  BY <1>4, <1>6
<1>9. NumEnqueued' + 1 < nevents'
  BY <1>1, <1>3, <1>8
<1> QED
  BY <1>4, <1>5, <1>7, <1>8, <1>9

LEMMA QueuedTake ==
  ASSUME TypeOK, head # tail, head' = NextBucket(head), UNCHANGED <<tail, nevents, events>>
  PROVE  /\ Queued # <<>> /\ Head(Queued) = events[head] /\ Queued' = Tail(Queued)
         /\ head' \in 0 .. nevents - 1
<1>1. /\ nevents \in Nat \ {0} /\ head \in 0 .. nevents - 1 /\ tail \in 0 .. nevents - 1
      /\ events \in [0 .. nevents - 1 -> Buckets]
  BY DEF TypeOK, Buckets
<1>2. Queued = Contents(events, head, tail, nevents)
  BY QueuedIs
<1>3. head' = (head + 1) % nevents /\ head' \in 0 .. nevents - 1
  BY <1>1, ModType DEF NextBucket
<1>4. /\ Queued # <<>> /\ Head(Queued) = events[head]
      /\ Contents(events, (head + 1) % nevents, tail, nevents) = Tail(Queued)
  BY <1>1, <1>2, ContentsTake
<1>5. NumEnqueued' = Num(head', tail, nevents)
  BY DEF NumEnqueued, Num
<1>6. Queued' = Contents(events, head', tail, nevents)
  BY <1>5 DEF Queued, Contents
<1> QED
  BY <1>3, <1>4, <1>6

LEMMA QueuedAppend ==
  ASSUME TypeOK, ~Full, NEW e \in Event, events' \in [0 .. nevents - 1 -> Buckets],
         events'[tail] = e, OnlyAt(tail, events, events', nevents),
         tail' = NextBucket(tail), UNCHANGED <<head, nevents>>
  PROVE  Queued' = Append(Queued, e) /\ head # tail' /\ tail' \in 0 .. nevents - 1
<1>1. /\ nevents \in Nat \ {0} /\ head \in 0 .. nevents - 1 /\ tail \in 0 .. nevents - 1
      /\ events \in [0 .. nevents - 1 -> Buckets] /\ e \in Buckets
  BY DEF TypeOK, Buckets
<1>2. NumEnqueued = Num(head, tail, nevents) /\ NumEnqueued \in 0 .. nevents - 1
  BY QueuedIs
<1>3. Num(head, tail, nevents) + 1 < nevents
  BY <1>1, <1>2 DEF Full
<1>4. tail' = (tail + 1) % nevents
  BY DEF NextBucket
<1>5. tail' \in 0 .. nevents - 1 /\ tail' # head
  BY <1>1, <1>3, <1>4, AfterIsOther
<1>7. Queued \in Seq(Buckets) /\ Lies(Queued, events, head, tail, nevents)
  BY <1>1, QueuedLies
<1>8. Queued' \in Seq(Buckets) /\ Lies(Queued', events', head, tail', nevents)
  BY <1>1, <1>5, QueuedLiesNext
<1> QED
  BY <1>1, <1>3, <1>4, <1>5, <1>7, <1>8, ContentsAppend

LEMMA QueuedReplace ==
  ASSUME TypeOK, head # tail, NEW e \in Event, NEW slot \in 0 .. nevents - 1,
         IsBefore(slot, tail, nevents),
         events' \in [0 .. nevents - 1 -> Buckets], events'[slot] = e,
         OnlyAt(slot, events, events', nevents), UNCHANGED <<head, tail, nevents>>
  PROVE  Queued' = LastReplaced(Queued, e)
<1>1. /\ nevents \in Nat \ {0} /\ head \in 0 .. nevents - 1 /\ tail \in 0 .. nevents - 1
      /\ events \in [0 .. nevents - 1 -> Buckets] /\ e \in Buckets
  BY DEF TypeOK, Buckets
<1>7. Queued \in Seq(Buckets) /\ Lies(Queued, events, head, tail, nevents)
  BY <1>1, QueuedLies
<1>8. Queued' \in Seq(Buckets) /\ Lies(Queued', events', head, tail, nevents)
  BY <1>1, QueuedLiesNext
<1> QED
  BY <1>1, <1>7, <1>8, ContentsReplace, SMTT(60)
-----------------------------------------------------------------------------
(*****************************************************************************)
(* The frames that have an event in hand.                                    *)
(*****************************************************************************)

LEMMA ConcatParts ==
  ASSUME NEW p \in Seq(WellFormed), p # <<>>, NEW q \in Seq(WellFormed)
  PROVE  /\ p \o q \in Seq(WellFormed) /\ p \o q # <<>>
         /\ Head(p \o q) = Head(p) /\ Tail(p \o q) = Tail(p) \o q
<1>1. /\ p \o q \in Seq(WellFormed) /\ Len(p \o q) = Len(p) + Len(q)
      /\ \A i \in 1 .. Len(p) + Len(q) :
           (p \o q)[i] = IF i <= Len(p) THEN p[i] ELSE q[i - Len(p)]
  BY ConcatProperties
<1>2. Len(p) \in Nat \ {0} /\ Len(q) \in Nat
  BY EmptySeq, LenProperties
<1>3. p \o q # <<>>
  BY <1>1, <1>2, EmptySeq
<1>4. /\ Tail(p) \in Seq(WellFormed) /\ Len(Tail(p)) = Len(p) - 1
      /\ \A i \in 1 .. Len(Tail(p)) : Tail(p)[i] = p[i + 1]
  BY HeadTailProperties
<1>5. /\ Tail(p \o q) \in Seq(WellFormed) /\ Len(Tail(p \o q)) = Len(p) + Len(q) - 1
      /\ \A i \in 1 .. Len(Tail(p \o q)) : Tail(p \o q)[i] = (p \o q)[i + 1]
  BY <1>1, <1>3, HeadTailProperties
<1>6. /\ Tail(p) \o q \in Seq(WellFormed) /\ Len(Tail(p) \o q) = Len(p) - 1 + Len(q)
      /\ \A i \in 1 .. Len(p) - 1 + Len(q) :
           (Tail(p) \o q)[i] = IF i <= Len(p) - 1 THEN Tail(p)[i] ELSE q[i - (Len(p) - 1)]
  BY <1>4, ConcatProperties
<1>7. \A i \in 1 .. Len(p) - 1 + Len(q) : Tail(p \o q)[i] = (Tail(p) \o q)[i]
  <2> TAKE i \in 1 .. Len(p) - 1 + Len(q)
  <2>1. i + 1 \in 1 .. Len(p) + Len(q) /\ i \in 1 .. Len(Tail(p \o q))
    BY <1>2, <1>5
  <2>2. Tail(p \o q)[i] = IF i + 1 <= Len(p) THEN p[i + 1] ELSE q[i + 1 - Len(p)]
    BY <1>1, <1>5, <2>1
  <2>3. CASE i + 1 <= Len(p)
    <3>1. i \in 1 .. Len(Tail(p)) /\ i <= Len(p) - 1
      BY <1>2, <1>4, <2>3
    <3> QED
      BY <1>4, <1>6, <2>2, <2>3, <3>1
  <2>4. CASE ~(i + 1 <= Len(p))
    <3>1. i + 1 - Len(p) = i - (Len(p) - 1) /\ ~(i <= Len(p) - 1)
      BY <1>2, <2>4
    <3> QED
      BY <1>6, <2>2, <2>4, <3>1
  <2> QED
    BY <2>3, <2>4
<1>8. Len(Tail(p \o q)) = Len(Tail(p) \o q)
  BY <1>2, <1>5, <1>6
<1>9. Tail(p \o q) = Tail(p) \o q
  BY <1>5, <1>6, <1>7, <1>8, SeqEqual
<1>10. Head(p \o q) = Head(p)
  BY <1>1, <1>2, <1>3
<1> QED
  BY <1>1, <1>3, <1>9, <1>10

LEMMA QuietTail ==
  ASSUME NEW s \in Seq(Quiet), s # <<>>
  PROVE  Tail(s) \in Seq(Quiet) /\ Head(s) \in Quiet
BY HeadTailProperties

LEMMA LoadsQuiet ==
  ASSUME NEW s \in Seq(Quiet)
  PROVE  Loads(s) = {}
<1>1. \A i \in 1 .. Len(s) : s[i] \in Quiet
  BY ElementOfSeq
<1> QED
  BY <1>1 DEF Loads, Quiet

LEMMA LoadsPart ==
  ASSUME NEW s \in Seq(WellFormed), s # <<>>
  PROVE  /\ Loads(s) \subseteq {Head(s)} \cup Loads(Tail(s))
         /\ Loads(Tail(s)) \subseteq Loads(s)
         /\ Loud(Head(s)) => Head(s) \in Loads(s)
         /\ ~Loud(Head(s)) => Loads(s) = Loads(Tail(s))
<1>1. /\ Len(s) \in Nat \ {0} /\ Head(s) = s[1] /\ Len(Tail(s)) = Len(s) - 1
      /\ \A i \in 1 .. Len(Tail(s)) : Tail(s)[i] = s[i + 1]
  BY EmptySeq, LenProperties, HeadTailProperties
<1>2. ASSUME NEW fr \in Loads(s)
      PROVE  fr \in Loads(Tail(s)) \/ (fr = Head(s) /\ Loud(Head(s)))
  <2>1. PICK i \in 1 .. Len(s) : Loud(s[i]) /\ fr = s[i]
    BY DEF Loads
  <2>2. CASE i = 1
    BY <1>1, <2>1, <2>2
  <2>3. CASE i # 1
    <3>1. i - 1 \in 1 .. Len(Tail(s)) /\ Tail(s)[i - 1] = s[i]
      BY <1>1, <2>3
    <3> QED
      BY <2>1, <3>1 DEF Loads
  <2> QED
    BY <2>2, <2>3
<1>3. ASSUME NEW fr \in Loads(Tail(s))
      PROVE  fr \in Loads(s)
  <2>1. PICK i \in 1 .. Len(Tail(s)) : Loud(Tail(s)[i]) /\ fr = Tail(s)[i]
    BY DEF Loads
  <2>2. i + 1 \in 1 .. Len(s) /\ Tail(s)[i] = s[i + 1]
    BY <1>1
  <2> QED
    BY <2>1, <2>2 DEF Loads
<1>4. Loud(Head(s)) => Head(s) \in Loads(s)
  BY <1>1 DEF Loads
<1> QED
  BY <1>2, <1>3, <1>4

\* Only the frames that are put before quiet ones are loud.
LEMMA LoadsBefore ==
  ASSUME NEW p \in Seq(WellFormed), NEW q \in Seq(Quiet)
  PROVE  Loads(p \o q) \subseteq Loads(p)
<1>1. /\ Len(p) \in Nat /\ Len(q) \in Nat /\ Len(p \o q) = Len(p) + Len(q)
      /\ \A i \in 1 .. Len(p) + Len(q) :
           (p \o q)[i] = IF i <= Len(p) THEN p[i] ELSE q[i - Len(p)]
  BY ConcatProperties, LenProperties
<1>2. ASSUME NEW fr \in Loads(p \o q)
      PROVE  fr \in Loads(p)
  <2>1. PICK i \in 1 .. Len(p) + Len(q) : Loud((p \o q)[i]) /\ fr = (p \o q)[i]
    BY <1>1 DEF Loads
  <2>2. CASE i <= Len(p)
    <3>1. i \in 1 .. Len(p) /\ fr = p[i]
      BY <1>1, <2>1, <2>2
    <3> QED
      BY <2>1, <3>1 DEF Loads
  <2>3. CASE ~(i <= Len(p))
    <3>1. i - Len(p) \in 1 .. Len(q) /\ (p \o q)[i] = q[i - Len(p)]
      BY <1>1, <2>3
    <3>2. q[i - Len(p)] \in Quiet
      BY <3>1, ElementOfSeq
    <3> QED
      BY <2>1, <3>1, <3>2 DEF Quiet
  <2> QED
    BY <2>2, <2>3
<1> QED
  BY <1>2

LEMMA ShapeQuiet ==
  ASSUME NEW s \in Seq(Quiet), NEW t
  PROVE  Shape(t, s)
BY QuietTail DEF Shape

LEMMA ShapeTail ==
  ASSUME NEW s \in Seq(WellFormed), s # <<>>, NEW t, Shape(t, s)
  PROVE  /\ Shape(t, Tail(s))
         /\ Head(s).fn \notin {"lock", "unlock"} => Tail(s) \in Seq(Quiet)
BY QuietTail, ShapeQuiet DEF Shape

\* One frame that may be loud, and quiet ones.
LEMMA ShapeOne ==
  ASSUME NEW p \in Seq(WellFormed), p # <<>>, Tail(p) \in Seq(Quiet), NEW q \in Seq(Quiet), NEW t
  PROVE  Shape(t, p \o q)
<1>1. Tail(p \o q) = Tail(p) \o q
  BY QuietSeq, ConcatParts
<1>2. Tail(p) \o q \in Seq(Quiet)
  BY ConcatProperties
<1> QED
  BY <1>1, <1>2 DEF Shape

LEMMA ShapeTwo ==
  ASSUME NEW p \in Seq(WellFormed), p # <<>>, Tail(p) # <<>>, Tail(Tail(p)) \in Seq(Quiet),
         \/ Head(p).fn = "lock" /\ Head(Tail(p)).fn = "enqueue"
         \/ Head(p).fn = "unlock" /\ Head(Tail(p)).fn = "handle",
         NEW q \in Seq(Quiet)
  PROVE  Shape("main", p \o q)
<1>1. Tail(p) \in Seq(WellFormed) /\ q \in Seq(WellFormed)
  BY HeadTailProperties, QuietSeq
<1>2. Head(p \o q) = Head(p) /\ Tail(p \o q) = Tail(p) \o q
  BY <1>1, ConcatParts
<1>3. /\ Tail(p) \o q # <<>> /\ Head(Tail(p) \o q) = Head(Tail(p))
      /\ Tail(Tail(p) \o q) = Tail(Tail(p)) \o q
  BY <1>1, ConcatParts
<1>4. Tail(Tail(p)) \o q \in Seq(Quiet)
  BY ConcatProperties
<1> QED
  BY <1>2, <1>3, <1>4 DEF Shape
-----------------------------------------------------------------------------
(*****************************************************************************)
(* What a step that leaves the queue alone preserves.                        *)
(*****************************************************************************)

LEMMA GuardHolds ==
  ASSUME Types, Locking, NEW t \in Threads, calls[t] # <<>>, Top(t).fn \in Guarded
  PROVE  owner = t /\ depth > 0 /\ Holds(t) > 0
<1>1. calls[t] \in Seq(WellFormed) /\ depth \in Nat /\ "main" \in Threads /\ "input" \in Threads
  BY DEF Types, TypeOK, Threads
<1>2. PICK c : ThreadPath(t, c)
  BY DEF Locking, Threads
<1>3. PICK y \in States : Step(State(Holds(t), c), Head(calls[t]), y)
  BY <1>1, <1>2, PathTail DEF ThreadPath
<1>4. Holds(t) > 0
  BY <1>3 DEF Step, Top, State
<1> QED
  BY <1>1, <1>4 DEF Holds

LEMMA InputLoads ==
  ASSUME Types, InHand("input"), NEW fr \in Loads(calls["input"])
  PROVE  calls["input"] # <<>> /\ fr = Top("input") /\ Posts(fr)
<1> DEFINE s == calls["input"]
<1>1. s \in Seq(WellFormed)
  BY DEF Types, Threads
<1>2. s # <<>>
  <2>1. <<>> \in Seq(Quiet)
    BY EmptySeq
  <2> QED
    BY <2>1, LoadsQuiet
<1>3. Tail(s) \in Seq(Quiet)
  BY <1>2 DEF InHand, Shape
<1>4. fr = Head(s)
  BY <1>1, <1>2, <1>3, LoadsPart, LoadsQuiet
<1>5. Loud(fr)
  BY DEF Loads
<1>6. fr.fn # "handle"
  BY DEF InHand, Fits
<1> QED
  BY <1>2, <1>4, <1>5, <1>6 DEF Top, Loud

\* One thread's frames change.
LEMMA HandsChange ==
  ASSUME Types, Hands, NEW t \in Threads, NEW new, calls' = [calls EXCEPT ![t] = new],
         Shape(t, new), (entered \subseteq 1 .. made)',
         \A fr \in Loads(new) : Fits(t, fr)',
         \A u \in Threads \ {t} : \A fr \in Loads(calls[u]) : Fits(u, fr) => Fits(u, fr)',
         \A u \in Threads \ {t} : Apart(new, calls[u])
  PROVE  Hands'
<1>1. calls'[t] = new /\ \A u \in Threads \ {t} : calls'[u] = calls[u]
  BY DEF Types
<1>2. InHand(t)'
  BY <1>1 DEF InHand
<1>3. ASSUME NEW u \in Threads \ {t}
      PROVE  InHand(u)'
  <2>1. calls'[u] = calls[u] /\ InHand(u)
    BY <1>1 DEF Hands
  <2>2. Shape(u, calls'[u])
    BY <2>1 DEF InHand
  <2>3. \A fr \in Loads(calls'[u]) : Fits(u, fr)'
    BY <2>1 DEF InHand
  <2> QED
    BY <2>2, <2>3 DEF InHand
<1>4. Apart(calls["main"], calls["input"])'
  <2>1. CASE t = "main"
    BY <1>1, <2>1 DEF Threads
  <2>2. CASE t = "input"
    <3>1. Apart(calls'["input"], calls'["main"])
      BY <1>1, <2>2 DEF Threads
    <3> QED
      BY <3>1 DEF Apart
  <2> QED
    BY <2>1, <2>2 DEF Threads
<1> QED
  BY <1>2, <1>3, <1>4 DEF Hands

\* ... to frames none of which has an event in hand.
LEMMA HandsQuiet ==
  ASSUME Types, Hands, NEW t \in Threads, NEW new \in Seq(Quiet),
         calls' = [calls EXCEPT ![t] = new], (entered \subseteq 1 .. made)',
         \A u \in Threads \ {t} : \A fr \in Loads(calls[u]) : Fits(u, fr) => Fits(u, fr)'
  PROVE  Hands'
<1>1. Shape(t, new) /\ Loads(new) = {}
  BY ShapeQuiet, LoadsQuiet
<1>2. \A u : Apart(new, calls[u])
  BY <1>1 DEF Apart
<1> QED
  BY <1>1, <1>2, HandsChange

LEMMA FitsStays ==
  ASSUME NEW t, NEW fr, Fits(t, fr), UNCHANGED <<device, entered>>, made \in Nat, made' \in Nat,
         made' >= made
  PROVE  Fits(t, fr)'
BY DEF Fits, Posted, NotGone, Event, Ids

\* The array stays as it is.
LEMMA ArrayStays ==
  ASSUME Types, Array, UNCHANGED eq, NEW t \in Threads,
         \A u \in Threads \ {t} : calls'[u] = calls[u],
         calls'[t] # <<>> => Head(calls'[t]).fn # "store",
         \A i \in 1 .. Len(Queued) : NotGone(Queued[i]) => NotGone(Queued[i])'
  PROVE  Array'
<1>1. Queued' = Queued
  BY DEF eq, Queued, NumEnqueued
<1>2. Sized' /\ LastKnown'
  BY <1>1 DEF Array, Sized, LastKnown, eq, Doubling
<1>3. QueuedFit'
  BY <1>1 DEF Array, QueuedFit, NotGone
<1>4. ASSUME NEW u \in Threads
      PROVE  Chosen(u)'
  <2>1. CASE u = t
    BY <2>1 DEF Chosen, At, Top
  <2>2. CASE u # t
    <3>1. calls'[u] = calls[u] /\ Chosen(u)
      BY <2>2 DEF Array
    <3> QED
      BY <3>1 DEF Chosen, At, Top, Bucket, Merges, Full, NumEnqueued, eq
  <2> QED
    BY <2>1, <2>2
<1> QED
  BY <1>2, <1>3, <1>4 DEF Array

LEMMA TypesStay ==
  ASSUME Types, calls' \in [Threads -> Seq(WellFormed)], UNCHANGED <<eq, lock, taken>>,
         device' \in [Devices -> {"on", "off", "gone"}], wake' \in BOOLEAN,
         made' \in 0 .. MaxEvents, now' \in 0 .. MaxTime, entered' \subseteq Ids
  PROVE  Types'
<1>1. Seq(WellFormed) \subseteq Seq(Frame)
  BY DEF WellFormed
<1>2. calls' \in [Threads -> Seq(Frame)]
  BY <1>1
<1> QED
  BY <1>2 DEF Types, TypeOK, eq, lock

LEMMA QuietHead ==
  ASSUME NEW s \in Seq(Quiet), s # <<>>
  PROVE  Head(s).fn # "store"
BY QuietTail DEF Quiet, Loud, Posts

LEMMA QuietNext ==
  ASSUME Types, NEW t \in Threads, calls[t] # <<>>, InHand(t),
         Top(t).fn \notin {"lock", "unlock"}, NEW frames \in Seq(Quiet), Continue(t, frames)
  PROVE  \E new \in Seq(Quiet) : calls' = [calls EXCEPT ![t] = new] /\ calls'[t] = new
<1>1. calls[t] \in Seq(WellFormed) /\ calls \in [Threads -> Seq(WellFormed)]
  BY DEF Types
<1>2. Tail(calls[t]) \in Seq(Quiet)
  BY <1>1, ShapeTail DEF InHand, Top
<1>3. frames \o Tail(calls[t]) \in Seq(Quiet)
  BY <1>2, ConcatProperties
<1> QED
  BY <1>1, <1>3 DEF Continue

\* What a step leaves for later, when it touches nothing else.
LEMMA Talk ==
  ASSUME IInv, NEW t \in Threads, calls[t] # <<>>,
         Top(t).fn \notin {"lock", "unlock"},
         NEW frames \in Seq(Quiet), Continue(t, frames),
         \A x, y \in States : Step(x, Top(t), y) => Path(frames, x, y),
         UNCHANGED <<eq, lock, device, clock, entered, taken>>, wake' \in BOOLEAN
  PROVE  IInv'
<1>1. Types /\ Locking
  BY DEF IInv
<1>2. NoDeviceEvents' = NoDeviceEvents
  BY DEF eq, NoDeviceEvents, Queued, NumEnqueued
<1>3. calls' \in [Threads -> Seq(WellFormed)] /\ Locking'
  BY <1>1, <1>2, QuietSeq, Turn
<1>4. Types'
  BY <1>1, <1>3, TypesStay DEF Types, TypeOK, clock
<1>5. ASSUME LockedCallers
      PROVE  QueueInv'
  <2>1. Hands /\ Array
    BY <1>5 DEF IInv, QueueInv
  <2>2. PICK new \in Seq(Quiet) : calls' = [calls EXCEPT ![t] = new] /\ calls'[t] = new
    BY <1>1, <2>1, QuietNext DEF Hands
  <2>3. made' = made /\ made \in Nat
    BY <1>1 DEF Types, TypeOK, clock
  <2>4. Hands'
    <3>1. (entered \subseteq 1 .. made)'
      BY <2>1, <2>3 DEF Hands
    <3>2. \A u \in Threads \ {t} : \A fr \in Loads(calls[u]) : Fits(u, fr) => Fits(u, fr)'
      BY <2>3, FitsStays
    <3> QED
      BY <1>1, <2>1, <2>2, <3>1, <3>2, HandsQuiet
  <2>5. Array'
    <3>1. \A u \in Threads \ {t} : calls'[u] = calls[u]
      BY <1>1, <2>2 DEF Types
    <3>2. calls'[t] # <<>> => Head(calls'[t]).fn # "store"
      BY <2>2, QuietHead
    <3>3. \A i \in 1 .. Len(Queued) : NotGone(Queued[i]) => NotGone(Queued[i])'
      BY DEF eq, Queued, NumEnqueued, NotGone
    <3> QED
      BY <1>1, <2>1, <3>1, <3>2, <3>3, ArrayStays
  <2> QED
    BY <2>4, <2>5 DEF QueueInv
<1> QED
  BY <1>3, <1>4, <1>5 DEF IInv, LockedCallers

LEMMA TalkNeutral ==
  ASSUME IInv, NEW t \in Threads, calls[t] # <<>>,
         Top(t).fn \notin {"lock", "unlock", "drain"},
         NEW frames \in Seq(Quiet), Neutral(frames), Continue(t, frames),
         UNCHANGED <<eq, lock, device, clock, entered, taken>>, wake' \in BOOLEAN
  PROVE  IInv'
<1>1. ASSUME NEW x \in States, NEW y \in States, Step(x, Top(t), y)
      PROVE  Path(frames, x, y)
  <2>1. Less(y, x)
    BY <1>1 DEF Step, Less, Delta, States
  <2> QED
    BY <2>1 DEF Neutral
<1> QED
  BY <1>1, Talk

LEMMA Start ==
  ASSUME IInv, NEW t \in Threads, calls[t] = <<>>,
         NEW frames \in Seq(Quiet), Neutral(frames), Becomes(t, frames),
         UNCHANGED <<eq, lock, device, clock, entered, taken>>, wake' \in BOOLEAN
  PROVE  IInv'
<1>1. Types /\ Locking
  BY DEF IInv
<1>2. calls' \in [Threads -> Seq(WellFormed)] /\ Locking'
  BY <1>1, Begin
<1>3. Types'
  BY <1>1, <1>2, TypesStay DEF Types, TypeOK, clock
<1>4. ASSUME LockedCallers
      PROVE  QueueInv'
  <2>1. Hands /\ Array
    BY <1>4 DEF IInv, QueueInv
  <2>2. calls' = [calls EXCEPT ![t] = frames] /\ calls'[t] = frames
    BY <1>1 DEF Types, Becomes
  <2>3. made' = made /\ made \in Nat
    BY <1>1 DEF Types, TypeOK, clock
  <2>4. Hands'
    <3>1. (entered \subseteq 1 .. made)'
      BY <2>1, <2>3 DEF Hands
    <3>2. \A u \in Threads \ {t} : \A fr \in Loads(calls[u]) : Fits(u, fr) => Fits(u, fr)'
      BY <2>3, FitsStays
    <3> QED
      BY <1>1, <2>1, <2>2, <3>1, <3>2, HandsQuiet
  <2>5. Array'
    <3>1. \A u \in Threads \ {t} : calls'[u] = calls[u]
      BY <1>1, <2>2 DEF Types
    <3>2. calls'[t] # <<>> => Head(calls'[t]).fn # "store"
      BY <2>2, QuietHead
    <3>3. \A i \in 1 .. Len(Queued) : NotGone(Queued[i]) => NotGone(Queued[i])'
      BY DEF eq, Queued, NumEnqueued, NotGone
    <3> QED
      BY <1>1, <2>1, <3>1, <3>2, <3>3, ArrayStays
  <2> QED
    BY <2>4, <2>5 DEF QueueInv
<1> QED
  BY <1>2, <1>3, <1>4 DEF IInv, LockedCallers
-----------------------------------------------------------------------------
(*****************************************************************************)
(* The steps that leave the queue alone.                                     *)
(*****************************************************************************)

LEMMA EmptyQuiet == <<>> \in Seq(Quiet)
BY EmptySeq

LEMMA StepHandleQuiet ==
  ASSUME IInv, Handle
  PROVE  IInv'
<1>1. /\ calls["main"] # <<>> /\ Top("main").fn = "handle" /\ "main" \in Threads
      /\ UNCHANGED <<eq, lock, wake, device, clock, entered, taken>> /\ wake' \in BOOLEAN
  BY DEF Handle, At, Threads, IInv, Types, TypeOK
<1>2. CASE Continue("main", <<>>)
  BY <1>1, <1>2, EmptyQuiet, NeutralEmpty, TalkNeutral
<1>3. CASE Continue("main", <<Call("move")>>)
  <2>1. <<Call("move")>> \in Seq(Quiet) /\ Neutral(<<Call("move")>>)
    BY CallType, NeutralCall DEF Functions, OnDevice
  <2> QED
    BY <1>1, <1>3, <2>1, TalkNeutral
<1> QED
  BY <1>2, <1>3 DEF Handle

LEMMA StepCheck ==
  ASSUME IInv, Check
  PROVE  IInv'
<1>1. /\ calls["main"] # <<>> /\ Top("main").fn = "check" /\ "main" \in Threads
      /\ UNCHANGED <<eq, lock, wake, device, clock, entered, taken>> /\ wake' \in BOOLEAN
  BY DEF Check, At, Threads, IInv, Types, TypeOK
<1>2. CASE Continue("main", <<>>)
  BY <1>1, <1>2, EmptyQuiet, NeutralEmpty, TalkNeutral
<1>3. CASE Continue("main", ProcessInputEvents)
  <2>1. Free \in States
    BY DEF Free, State, States
  <2>2. ProcessInputEvents \in Seq(Quiet)
    BY <2>1, PathProcess
  <2> QED
    BY <1>1, <1>3, <2>2, NeutralFrames, TalkNeutral
<1> QED
  BY <1>2, <1>3 DEF Check

LEMMA StepPoll ==
  ASSUME IInv, PollWakes \/ PollReturns
  PROVE  IInv'
<1>1. "main" \in Threads /\ calls["main"] = <<>> /\ wake' \in BOOLEAN
      /\ UNCHANGED <<eq, lock, device, clock, entered, taken>>
  BY DEF PollWakes, PollReturns, Threads, IInv, Types, TypeOK
<1>2. CASE Becomes("main", <<Call("check")>>)
  <2>1. <<Call("check")>> \in Seq(Quiet) /\ Neutral(<<Call("check")>>)
    BY CallType, NeutralCall DEF Functions, OnDevice
  <2> QED
    BY <1>1, <1>2, <2>1, Start
<1>3. CASE Becomes("main", <<Call("check"), Call("request"), Call("check")>>)
  BY <1>1, <1>3, NeutralRequest, Start
<1> QED
  BY <1>2, <1>3 DEF PollWakes, PollReturns

LEMMA StepInputPoll ==
  ASSUME IInv, NEW devs \in SUBSET Devices, InputPollReturns(devs)
  PROVE  IInv'
<1>1. /\ "input" \in Threads /\ calls["input"] = <<>> /\ wake' \in BOOLEAN
      /\ UNCHANGED <<eq, lock, device, clock, entered, taken>>
      /\ Becomes("input", <<Ready(devs)>>)
  BY DEF InputPollReturns, Threads, IInv, Types, TypeOK
<1>2. /\ Ready(devs) \in Quiet /\ Delta(Ready(devs)) = 0 /\ Ready(devs).fn \notin Guarded
  BY ReadyType DEF Delta, Guarded
<1>3. Neutral(<<Ready(devs)>>) /\ <<Ready(devs)>> \in Seq(Quiet)
  BY <1>2, NeutralOne DEF Quiet
<1> QED
  BY <1>1, <1>3, Start

LEMMA StepFillPipe ==
  ASSUME IInv, FillPipe
  PROVE  IInv'
<1>1. /\ "input" \in Threads /\ calls["input"] # <<>> /\ Top("input").fn = "ready"
      /\ wake' \in BOOLEAN /\ UNCHANGED <<eq, lock, device, clock, entered, taken>>
      /\ Continue("input", <<>>)
  BY DEF FillPipe, Filled, At, Threads
<1> QED
  BY <1>1, EmptyQuiet, NeutralEmpty, TalkNeutral

LEMMA StepInputReady ==
  ASSUME IInv, NEW d \in Devices, InputReady(d)
  PROVE  IInv'
<1> DEFINE rest == Ready(Top("input").devs \ {d})
           r == CallFor("read", d)
<1>1. /\ "input" \in Threads /\ calls["input"] # <<>> /\ Top("input").fn = "ready"
      /\ wake' \in BOOLEAN /\ UNCHANGED <<eq, lock, device, clock, entered, taken>>
      /\ Continue("input", <<Call("lock"), r, Call("unlock"), rest>>)
  BY DEF InputReady, At, Threads, IInv, Types, TypeOK
<1>2. Top("input").devs \in SUBSET Devices
  <2>1. calls["input"] \in Seq(WellFormed)
    BY DEF IInv, Types, Threads
  <2>2. Top("input") \in Frame
    BY <1>1, <2>1, HeadTailProperties DEF Top, WellFormed
  <2> QED
    BY <2>2 DEF Frame
<1>3. rest \in Quiet /\ rest.fn = "ready"
  BY <1>2, ReadyType
<1>4. r \in Quiet /\ r.fn = "read"
  BY CallForType DEF Functions
<1>5. Call("lock") \in Quiet /\ Call("unlock") \in Quiet
  BY CallType DEF Functions, OnDevice
<1> HIDE DEF rest, r
<1>6. Neutral(<<Call("lock"), r, Call("unlock")>>)
  <2>1. Delta(r) = 0 /\ r.fn \notin {"remove", "close"}
    BY <1>4 DEF Delta
  <2>2. <<Call("lock"), r, Call("unlock")>> \in Seq(Quiet)
    BY <1>4, <1>5
  <2> QED
    BY <1>4, <2>1, <2>2, QuietSeq, PathBracket DEF Neutral
<1>7. Neutral(<<rest>>)
  <2>1. Delta(rest) = 0 /\ rest.fn \notin Guarded
    BY <1>3 DEF Delta, Guarded
  <2> QED
    BY <1>3, <2>1, NeutralOne DEF Quiet
<1>8. <<Call("lock"), r, Call("unlock")>> \o <<rest>> = <<Call("lock"), r, Call("unlock"), rest>>
  BY <1>3, <1>4, <1>5, GlueFour
<1>9. Neutral(<<Call("lock"), r, Call("unlock"), rest>>)
  BY <1>6, <1>7, <1>8, NeutralConcat
<1>10. <<Call("lock"), r, Call("unlock"), rest>> \in Seq(Quiet)
  BY <1>3, <1>4, <1>5
<1> QED
  BY <1>1, <1>9, <1>10, TalkNeutral

LEMMA StepRemove ==
  ASSUME IInv, Remove
  PROVE  IInv'
<1> DEFINE d == Top("main").dev
           first == IF device[d] = "on" THEN Disable(d) ELSE <<>>
           last == <<Call("lock"), CallFor("close", d), Call("unlock")>>
<1>1. /\ "main" \in Threads /\ calls["main"] # <<>> /\ Top("main").fn = "remove"
      /\ wake' \in BOOLEAN /\ UNCHANGED <<eq, lock, device, clock, entered, taken>>
      /\ Continue("main", first \o last)
  BY DEF Remove, At, Threads, IInv, Types, TypeOK
<1>2. d \in Devices
  <2>1. calls["main"] \in Seq(WellFormed)
    BY DEF IInv, Types, Threads
  <2>2. Top("main") \in WellFormed
    BY <1>1, <2>1, HeadTailProperties DEF Top
  <2> QED
    BY <1>1, <2>2 DEF WellFormed, OnDevice
<1> HIDE DEF d
<1>3. Free \in States /\ Less(Free, Free)
  BY DEF Free, State, States, Less
<1>4. first \in Seq(Quiet) /\ Neutral(first)
  <2>1. Disable(d) \in Seq(Quiet) /\ Neutral(Disable(d))
    BY <1>2, <1>3, PathDisable, NeutralFrames
  <2> QED
    BY <2>1, EmptyQuiet, NeutralEmpty
<1>5. last \in Seq(Quiet)
  BY <1>2, CallType, CallForType DEF Functions, OnDevice
<1> HIDE DEF first
<1>6. first \o last \in Seq(Quiet)
  BY <1>4, <1>5, ConcatProperties
<1>7. ASSUME NEW x \in States, NEW y \in States, Step(x, Top("main"), y)
      PROVE  Path(first \o last, x, y)
  <2>1. x.clean /\ Less(y, x) /\ Less(x, x)
    BY <1>1, <1>7 DEF Step, Less, Delta, States
  <2>2. Path(first, x, x)
    BY <1>4, <2>1 DEF Neutral
  <2>3. Path(last, x, y)
    BY <1>2, <2>1, PathClose
  <2> HIDE DEF last
  <2> QED
    BY <1>4, <1>5, <2>2, <2>3, QuietSeq, PathConcat
<1> HIDE DEF last
<1> QED
  BY <1>1, <1>6, <1>7, Talk

LEMMA MakesEvent ==
  ASSUME Types, NEW t \in Time, Makes(t), NEW d \in Sources, NEW motion \in BOOLEAN,
         NEW e, e = NewEvent(d, motion, t)
  PROVE  /\ made \in Nat /\ made' = made + 1 /\ made' \in 0 .. MaxEvents /\ now' \in 0 .. MaxTime
         /\ e \in Event /\ e.id = made + 1 /\ e.dev = d
<1>1. made \in 0 .. MaxEvents /\ now \in 0 .. MaxTime /\ MaxEvents \in Nat /\ MaxTime \in Nat
  BY QueueAssumption DEF Types, TypeOK
<1>2. /\ made \in Nat /\ made' = made + 1 /\ made' \in 0 .. MaxEvents
      /\ now' \in 0 .. MaxTime /\ made + 1 \in Ids /\ t \in 0 .. MaxTime
  BY <1>1 DEF Makes, Time, Ids
<1> QED
  BY <1>2 DEF NewEvent, Event

\* A thread has made an event that it is to queue.
LEMMA Make ==
  ASSUME IInv, NEW t \in Threads, calls[t] # <<>>,
         Top(t).fn \notin {"lock", "unlock"}, NEW e \in Event, e.id = made + 1,
         NEW frames \in Seq(WellFormed), frames # <<>>, Head(frames).fn # "store",
         Continue(t, frames), \A x, y \in States : Step(x, Top(t), y) => Path(frames, x, y),
         LockedCallers => /\ \A q \in Seq(Quiet) : Shape(t, frames \o q)
                          /\ \A fr \in Loads(frames) : fr.fn = "enqueue" /\ fr.ev = e
                          /\ IF t = "main" THEN e.dev = Master ELSE NotGone(e),
         UNCHANGED <<eq, lock, wake, device, entered, taken>>,
         made' = made + 1, made' \in 0 .. MaxEvents, now' \in 0 .. MaxTime
  PROVE  IInv'
<1>1. Types /\ Locking
  BY DEF IInv
<1>2. NoDeviceEvents' = NoDeviceEvents
  BY DEF eq, NoDeviceEvents, Queued, NumEnqueued
<1>3. calls' \in [Threads -> Seq(WellFormed)] /\ Locking'
  BY <1>1, <1>2, Turn
<1>4. Types'
  BY <1>1, <1>3, TypesStay DEF Types, TypeOK
<1>5. ASSUME LockedCallers
      PROVE  QueueInv'
  <2>1. Hands /\ Array
    BY <1>5 DEF IInv, QueueInv
  <2> DEFINE new == frames \o Tail(calls[t])
  <2>2. calls[t] \in Seq(WellFormed) /\ calls \in [Threads -> Seq(WellFormed)]
    BY <1>1 DEF Types
  <2>3. Tail(calls[t]) \in Seq(Quiet)
    BY <2>1, <2>2, ShapeTail DEF Hands, InHand, Top
  <2>4. /\ Shape(t, new) /\ Loads(new) \subseteq Loads(frames)
        /\ new # <<>> /\ Head(new) = Head(frames)
    BY <1>5, <2>3, LoadsBefore, ConcatParts, QuietSeq
  <2>5. calls' = [calls EXCEPT ![t] = new] /\ calls'[t] = new
    BY <2>2 DEF Continue
  <2> HIDE DEF new
  <2>6. made \in Nat
    BY <1>1 DEF Types, TypeOK
  <2>7. Hands'
    <3>1. (entered \subseteq 1 .. made)'
      BY <2>1, <2>6 DEF Hands
    <3>2. \A fr \in Loads(new) : Fits(t, fr)'
      <4>1. e.id \notin entered
        BY <2>1, <2>6 DEF Hands
      <4>2. Posted(t, e)'
        BY <1>5, <2>6, <4>1 DEF Posted, NotGone
      <4> QED
        BY <1>5, <2>4, <4>2 DEF Fits
    <3>3. \A u \in Threads \ {t} : \A fr \in Loads(calls[u]) : Fits(u, fr) => Fits(u, fr)'
      BY <2>6, FitsStays
    <3>4. \A u \in Threads \ {t} : Apart(new, calls[u])
      <4>1. SUFFICES ASSUME NEW u \in Threads \ {t}, NEW a \in Loads(new),
                            NEW b \in Loads(calls[u]),
                            Posts(b)
                     PROVE  a.ev.id # b.ev.id
        BY DEF Apart
      <4>2. a.ev.id = made + 1
        BY <1>5, <2>4
      <4>3. b.ev.id <= made /\ b.ev.id \in Nat
        <5>1. Posted(u, b.ev)
          BY <2>1, <4>1 DEF Hands, InHand, Fits, Posts
        <5> QED
          BY <5>1 DEF Posted, Event, Ids
      <4> QED
        BY <2>6, <4>2, <4>3
    <3> QED
      BY <1>1, <2>1, <2>4, <2>5, <3>1, <3>2, <3>3, <3>4, HandsChange
  <2>8. Array'
    <3>1. \A u \in Threads \ {t} : calls'[u] = calls[u]
      BY <2>2, <2>5
    <3>2. \A i \in 1 .. Len(Queued) : NotGone(Queued[i]) => NotGone(Queued[i])'
      BY DEF eq, Queued, NumEnqueued, NotGone
    <3> QED
      BY <1>1, <2>1, <2>4, <2>5, <3>1, <3>2, ArrayStays
  <2> QED
    BY <2>7, <2>8 DEF QueueInv
<1> QED
  BY <1>3, <1>4, <1>5 DEF IInv, LockedCallers

LEMMA StepMove ==
  ASSUME IInv, Move
  PROVE  IInv'
<1>1. /\ "main" \in Threads /\ calls["main"] # <<>> /\ Top("main").fn = "move"
      /\ wake' \in BOOLEAN /\ UNCHANGED <<eq, lock, wake, device, entered, taken>>
  BY DEF Move, At, Threads, IInv, Types, TypeOK
<1>2. CASE Continue("main", <<>>) /\ UNCHANGED clock
  BY <1>1, <1>2, EmptyQuiet, NeutralEmpty, TalkNeutral
<1>3. ASSUME NEW t \in Time, Makes(t), Continue("main", Post(NewEvent(Master, TRUE, t)))
      PROVE  IInv'
  <2> DEFINE e == NewEvent(Master, TRUE, t)
             a == CallWith("enqueue", e)
             p == <<Call("lock"), a, Call("unlock")>>
  <2>1. /\ made' = made + 1 /\ made' \in 0 .. MaxEvents /\ now' \in 0 .. MaxTime
        /\ e \in Event /\ e.id = made + 1 /\ e.dev = Master
    BY <1>3, MakesEvent DEF IInv, Sources
  <2> HIDE DEF e
  <2>2. /\ a \in WellFormed /\ a.fn = "enqueue" /\ a.ev = e
        /\ Call("lock") \in Quiet /\ Call("lock").fn = "lock"
        /\ Call("unlock") \in Quiet
    BY <2>1, CallWithType, CallType DEF Functions, OnDevice
  <2>3. p = Post(e)
    BY DEF Post
  <2> HIDE DEF a
  <2>4. /\ p \in Seq(WellFormed) /\ p # <<>> /\ Head(p) = Call("lock")
        /\ Tail(p) = <<a, Call("unlock")>> /\ Tail(p) # <<>> /\ Head(Tail(p)) = a
        /\ Tail(Tail(p)) = <<Call("unlock")>> /\ Tail(Tail(p)) \in Seq(Quiet)
    BY <2>2 DEF Quiet
  <2> HIDE DEF p
  <2>5. \A q \in Seq(Quiet) : Shape("main", p \o q)
    BY <2>2, <2>4, ShapeTwo DEF Posts
  <2>6. \A fr \in Loads(p) : fr = a
    <3>1. Loads(Tail(Tail(p))) = {}
      BY <2>4, LoadsQuiet
    <3>2. Tail(p) \in Seq(WellFormed)
      BY <2>4, HeadTailProperties
    <3>3. Loads(Tail(p)) \subseteq {a}
      BY <2>4, <3>1, <3>2, LoadsPart
    <3>4. ~Loud(Head(p))
      BY <2>2, <2>4 DEF Quiet
    <3> QED
      BY <2>4, <3>3, <3>4, LoadsPart
  <2>7. Neutral(p)
    BY <2>1, <2>3, NeutralFrames
  <2>8. ASSUME NEW x \in States, NEW y \in States, Step(x, Top("main"), y)
        PROVE  Path(p, x, y)
    <3>1. Less(y, x)
      BY <1>1, <2>8 DEF Step, Less, Delta, States
    <3> QED
      BY <2>7, <3>1 DEF Neutral
  <2>9. Continue("main", p)
    BY <1>3, <2>3 DEF e
  <2> QED
    BY <1>1, <2>1, <2>2, <2>4, <2>5, <2>6, <2>8, <2>9, Make
<1> QED
  BY <1>2, <1>3 DEF Move

LEMMA StepRead ==
  ASSUME IInv, Read
  PROVE  IInv'
<1> DEFINE d == Top("input").dev
<1>1. /\ "input" \in Threads /\ calls["input"] # <<>> /\ Top("input").fn = "read"
      /\ wake' \in BOOLEAN /\ UNCHANGED <<eq, lock, wake, device, entered, taken>>
  BY DEF Read, At, Threads, IInv, Types, TypeOK
<1>2. CASE Continue("input", <<>>) /\ UNCHANGED clock
  BY <1>1, <1>2, EmptyQuiet, NeutralEmpty, TalkNeutral
<1>3. d \in Devices
  <2>1. calls["input"] \in Seq(WellFormed)
    BY DEF IInv, Types, Threads
  <2>2. Top("input") \in WellFormed
    BY <1>1, <2>1, HeadTailProperties DEF Top
  <2> QED
    BY <1>1, <2>2 DEF WellFormed, OnDevice
<1> HIDE DEF d
<1>4. ASSUME NEW t \in Time, NEW motion \in BOOLEAN, device[d] = "on", Makes(t),
             Continue("input", <<CallWith("enqueue", NewEvent(d, motion, t)), CallFor("read", d)>>)
      PROVE  IInv'
  <2> DEFINE e == NewEvent(d, motion, t)
             a == CallWith("enqueue", e)
             b == CallFor("read", d)
             p == <<a, b>>
  <2>1. /\ made' = made + 1 /\ made' \in 0 .. MaxEvents /\ now' \in 0 .. MaxTime
        /\ e \in Event /\ e.id = made + 1 /\ e.dev = d
    BY <1>3, <1>4, MakesEvent DEF IInv, Sources
  <2>2. Continue("input", p)
    BY <1>4
  <2> HIDE DEF e
  <2>3. /\ a \in WellFormed /\ a.fn = "enqueue" /\ a.ev = e /\ b \in Quiet /\ b.fn = "read"
    BY <1>3, <2>1, CallWithType, CallForType DEF Functions
  <2> HIDE DEF a, b
  <2>4. /\ p \in Seq(WellFormed) /\ p # <<>> /\ Head(p) = a
        /\ Tail(p) = <<b>> /\ Tail(p) \in Seq(Quiet)
    BY <2>3 DEF Quiet
  <2>5. ASSUME NEW x \in States, NEW y \in States, Step(x, Top("input"), y)
        PROVE  Path(p, x, y)
    <3>1. Less(y, x) /\ x.held > 0 /\ x.held \in Nat
      BY <1>1, <2>5 DEF Step, Less, Delta, Guarded, States
    <3>2. Step(x, a, x)
      BY <2>3, <3>1 DEF Step, Delta
    <3>3. Step(x, b, y)
      BY <2>3, <3>1 DEF Step, Delta, Less
    <3> QED
      BY <2>3, <3>2, <3>3, PathTwo DEF Quiet
  <2> HIDE DEF p
  <2>6. \A q \in Seq(Quiet) : Shape("input", p \o q)
    BY <2>4, ShapeOne
  <2>7. \A fr \in Loads(p) : fr = a
    BY <2>4, LoadsQuiet, LoadsPart
  <2>8. NotGone(e)
    BY <1>4, <2>1 DEF NotGone
  <2> QED
    BY <1>1, <2>1, <2>2, <2>3, <2>4, <2>5, <2>6, <2>7, <2>8, Make
<1> QED
  BY <1>2, <1>4 DEF Read, d

LEMMA StepRequest ==
  ASSUME IInv, Request
  PROVE  IInv'
<1>1. /\ "main" \in Threads /\ calls["main"] # <<>> /\ Top("main").fn = "request"
      /\ wake' \in BOOLEAN /\ UNCHANGED <<eq, lock, wake, device, entered, taken>>
  BY DEF Request, At, Threads, IInv, Types, TypeOK
<1>2. CASE Continue("main", <<>>) /\ UNCHANGED clock
  BY <1>1, <1>2, EmptyQuiet, NeutralEmpty, TalkNeutral
<1>3. CASE Continue("main", <<Call("move")>>) /\ UNCHANGED clock
  <2>1. <<Call("move")>> \in Seq(Quiet) /\ Neutral(<<Call("move")>>)
    BY CallType, NeutralCall DEF Functions, OnDevice
  <2> QED
    BY <1>1, <1>3, <2>1, TalkNeutral
<1>4. ASSUME NEW d \in Devices, UNCHANGED clock,
             \/ Continue("main", Disable(d)) \/ Continue("main", Enable(d))
             \/ Continue("main", RemoveDevice(d))
      PROVE  IInv'
  <2>1. Free \in States /\ Less(Free, Free)
    BY DEF Free, State, States, Less
  <2>2. Disable(d) \in Seq(Quiet) /\ Enable(d) \in Seq(Quiet) /\ RemoveDevice(d) \in Seq(Quiet)
    BY <2>1, PathDisable, PathEnable, PathRemoveDevice
  <2>3. Neutral(Disable(d)) /\ Neutral(Enable(d)) /\ Neutral(RemoveDevice(d))
    BY NeutralFrames
  <2> QED
    BY <1>1, <1>4, <2>2, <2>3, TalkNeutral
<1>5. ASSUME NEW t \in Time, "barrier" \in Requests, Makes(t),
             Continue("main", <<CallWith("enqueue", NewEvent(Master, FALSE, t))>>)
      PROVE  IInv'
  <2> DEFINE e == NewEvent(Master, FALSE, t)
             a == CallWith("enqueue", e)
             p == <<a>>
  <2>1. /\ made' = made + 1 /\ made' \in 0 .. MaxEvents /\ now' \in 0 .. MaxTime
        /\ e \in Event /\ e.id = made + 1
    BY <1>5, MakesEvent DEF IInv, Sources
  <2>2. Continue("main", p)
    BY <1>5
  <2> HIDE DEF e
  <2>3. a \in WellFormed /\ a.fn = "enqueue"
    BY <2>1, CallWithType
  <2>4. ~LockedCallers
    BY <1>5 DEF LockedCallers
  <2> HIDE DEF a
  <2>5. p \in Seq(WellFormed) /\ p # <<>> /\ Head(p) = a
    BY <2>3
  <2>6. Neutral(p)
    <3>1. Delta(a) = 0 /\ a.fn \notin Guarded
      BY <2>3, <2>4 DEF Delta, Guarded
    <3> QED
      BY <2>3, <3>1, NeutralOne
  <2> HIDE DEF p
  <2>7. ASSUME NEW x \in States, NEW y \in States, Step(x, Top("main"), y)
        PROVE  Path(p, x, y)
    <3>1. Less(y, x)
      BY <1>1, <2>7 DEF Step, Less, Delta, States
    <3> QED
      BY <2>6, <3>1 DEF Neutral
  <2> QED
    BY <1>1, <2>1, <2>2, <2>3, <2>4, <2>5, <2>7, Make
<1> QED
  BY <1>2, <1>3, <1>4, <1>5 DEF Request

\* The main thread holds the lock, so the input thread has no event in hand.
LEMMA InputIdle ==
  ASSUME IInv, LockedCallers, owner = "main"
  PROVE  Loads(calls["input"]) = {}
<1>1. SUFFICES ASSUME NEW fr \in Loads(calls["input"])
               PROVE  FALSE
  OBVIOUS
<1>2. Types /\ Locking /\ InHand("input")
  BY DEF IInv, QueueInv, Hands, Threads
<1>3. calls["input"] # <<>> /\ Top("input").fn \in Guarded
  BY <1>2, InputLoads DEF Posts, Guarded
<1> QED
  BY <1>2, <1>3, GuardHolds DEF Threads

LEMMA StepSwitch ==
  ASSUME IInv, NEW fn \in {"off", "on", "close"}, NEW state \in {"on", "off", "gone"},
         Switches(fn, state), state = "gone" => fn = "close"
  PROVE  IInv'
<1> DEFINE d == Top("main").dev
<1>1. /\ "main" \in Threads /\ calls["main"] # <<>> /\ Top("main").fn = fn
      /\ device' = [device EXCEPT ![d] = state] /\ Continue("main", <<>>)
      /\ UNCHANGED <<eq, lock, wake, clock, entered, taken>>
  BY DEF Switches, At, Threads
<1>2. Types /\ Locking
  BY DEF IInv
<1>3. NoDeviceEvents' = NoDeviceEvents
  BY <1>1 DEF eq, NoDeviceEvents, Queued, NumEnqueued
<1>4. calls' \in [Threads -> Seq(WellFormed)] /\ Locking'
  <2>1. Top("main").fn \notin {"lock", "unlock", "drain"}
    BY <1>1
  <2> QED
    BY <1>1, <1>2, <1>3, <2>1, NeutralEmpty, TurnNeutral
<1>5. device \in [Devices -> {"on", "off", "gone"}] /\ wake \in BOOLEAN
      /\ made \in 0 .. MaxEvents /\ now \in 0 .. MaxTime /\ entered \subseteq Ids
  BY <1>2 DEF Types, TypeOK
<1>6. Types'
  <2>1. device' \in [Devices -> {"on", "off", "gone"}]
    BY <1>1, <1>5
  <2> QED
    BY <1>1, <1>2, <1>4, <1>5, <2>1, TypesStay DEF clock
<1>7. ASSUME LockedCallers
      PROVE  QueueInv'
  <2>1. Hands /\ Array
    BY <1>7 DEF IInv, QueueInv
  <2>2. PICK new \in Seq(Quiet) : calls' = [calls EXCEPT !["main"] = new] /\ calls'["main"] = new
    BY <1>1, <1>2, <2>1, EmptyQuiet, QuietNext DEF Hands
  <2>3. made' = made /\ made \in Nat
    BY <1>1, <1>5 DEF clock
  <2>4. owner = "main"
    BY <1>1, <1>2, GuardHolds DEF Guarded
  <2>5. Loads(calls["input"]) = {}
    BY <1>7, <2>4, InputIdle
  <2>6. Hands'
    <3>1. (entered \subseteq 1 .. made)'
      BY <1>1, <2>1, <2>3 DEF Hands
    <3>2. \A u \in Threads \ {"main"} : \A fr \in Loads(calls[u]) : Fits(u, fr) => Fits(u, fr)'
      BY <2>5 DEF Threads
    <3> QED
      BY <1>1, <1>2, <2>1, <2>2, <3>1, <3>2, HandsQuiet
  <2>7. ASSUME NEW i \in 1 .. Len(Queued), NotGone(Queued[i])
        PROVE  NotGone(Queued[i])'
    <3>1. Queued' = Queued
      BY <1>1 DEF eq, Queued, NumEnqueued
    <3>2. CASE state = "gone"
      <4>1. NoDeviceEvents
        <5>1. PICK c \in BOOLEAN :
                /\ ThreadPath("main", c)
                /\ c => Holds("main") > 0 /\ (LockedCallers => NoDeviceEvents)
          BY <1>2 DEF Locking
        <5>2. calls["main"] \in Seq(WellFormed)
          BY <1>1, <1>2 DEF Types
        <5>3. PICK y \in States : Step(State(Holds("main"), c), Head(calls["main"]), y)
          BY <1>1, <5>1, <5>2, PathTail DEF ThreadPath
        <5>4. c
          BY <1>1, <3>2, <5>3 DEF Step, Top, State
        <5> QED
          BY <1>7, <5>1, <5>4
      <4> QED
        BY <3>1, <4>1 DEF NoDeviceEvents, NotGone
    <3>3. CASE state # "gone"
      <4>1. \A c \in Devices : device[c] # "gone" => device'[c] # "gone"
        BY <1>1, <1>5, <3>3
      <4> QED
        BY <2>7, <3>1, <4>1 DEF NotGone
    <3> QED
      BY <3>2, <3>3
  <2>8. Array'
    <3>1. \A u \in Threads \ {"main"} : calls'[u] = calls[u]
      BY <1>2, <2>2 DEF Types
    <3>2. calls'["main"] # <<>> => Head(calls'["main"]).fn # "store"
      BY <2>2, QuietHead
    <3> QED
      BY <1>1, <1>2, <2>1, <2>7, <3>1, <3>2, ArrayStays
  <2> QED
    BY <2>6, <2>8 DEF QueueInv
<1> QED
  BY <1>4, <1>6, <1>7 DEF IInv, LockedCallers

LEMMA StepLock ==
  ASSUME IInv, NEW t \in Threads, Lock(t) \/ Unlock(t)
  PROVE  IInv'
<1>1. /\ calls[t] # <<>> /\ Top(t).fn \in {"lock", "unlock"} /\ Continue(t, <<>>)
      /\ UNCHANGED <<eq, wake, device, clock, entered, taken>>
  BY DEF Lock, Unlock, At
<1>2. Types /\ Locking
  BY DEF IInv
<1>3. calls' \in [Threads -> Seq(WellFormed)] /\ Locking'
  BY <1>2, LockingLock, LockingUnlock
<1>4. /\ calls[t] \in Seq(WellFormed) /\ calls'[t] = Tail(calls[t])
      /\ calls \in [Threads -> Seq(WellFormed)]
      /\ \A u \in Threads \ {t} : calls'[u] = calls[u]
  BY <1>1, <1>2, Pop DEF Types
<1>5. Types'
  <2>1. owner' \in Threads \cup {"none"} /\ depth' \in Nat
    <3>1. depth \in Nat /\ owner \in Threads \cup {"none"}
      BY <1>2 DEF Types, TypeOK
    <3>2. CASE Lock(t)
      BY <3>1, <3>2 DEF Lock
    <3>3. CASE Unlock(t)
      <4>1. depth > 0
        BY <1>2, <3>3, LockingUnlock
      <4> QED
        BY <3>1, <3>3, <4>1 DEF Unlock
    <3> QED
      BY <3>2, <3>3
  <2>2. calls' \in [Threads -> Seq(Frame)]
    <3>1. Seq(WellFormed) \subseteq Seq(Frame)
      BY DEF WellFormed
    <3> QED
      BY <1>3, <3>1
  <2> QED
    BY <1>1, <1>2, <1>3, <2>1, <2>2 DEF Types, TypeOK, eq, clock
<1>6. ASSUME LockedCallers
      PROVE  QueueInv'
  <2>1. Hands /\ Array
    BY <1>6 DEF IInv, QueueInv
  <2> DEFINE new == Tail(calls[t])
  <2>2. calls' = [calls EXCEPT ![t] = new]
    BY <1>3, <1>4
  <2>3. Shape(t, new) /\ Loads(new) \subseteq Loads(calls[t])
    BY <1>1, <1>4, <2>1, ShapeTail, LoadsPart DEF Hands, InHand
  <2>4. made' = made /\ made \in Nat
    BY <1>1, <1>2 DEF clock, Types, TypeOK
  <2> HIDE DEF new
  <2>5. Hands'
    <3>1. (entered \subseteq 1 .. made)'
      BY <1>1, <2>1, <2>4 DEF Hands
    <3>2. \A u \in Threads : \A fr \in Loads(calls[u]) : Fits(u, fr) => Fits(u, fr)'
      BY <1>1, <2>4, FitsStays
    <3>3. \A fr \in Loads(new) : Fits(t, fr)'
      BY <2>1, <2>3, <3>2 DEF Hands, InHand
    <3>4. \A u \in Threads \ {t} : Apart(new, calls[u])
      BY <2>1, <2>3 DEF Hands, Apart, Threads
    <3> QED
      BY <1>2, <2>1, <2>2, <2>3, <3>1, <3>2, <3>3, <3>4, HandsChange
  <2>6. calls'[t] # <<>> => Head(calls'[t]).fn # "store"
    BY <1>1, <1>4, <2>1, QuietHead DEF Hands, InHand, Shape
  <2>7. Array'
    <3>1. \A i \in 1 .. Len(Queued) : NotGone(Queued[i]) => NotGone(Queued[i])'
      BY <1>1 DEF eq, Queued, NumEnqueued, NotGone
    <3> QED
      BY <1>1, <1>2, <1>4, <2>1, <2>6, <3>1, ArrayStays
  <2> QED
    BY <2>5, <2>7 DEF QueueInv
<1> QED
  BY <1>3, <1>5, <1>6 DEF IInv, LockedCallers

-----------------------------------------------------------------------------
(*****************************************************************************)
(* The main thread takes an event out.                                       *)
(*****************************************************************************)

LEMMA TypesQueue ==
  ASSUME Types, calls' \in [Threads -> Seq(WellFormed)], UNCHANGED <<lock, wake, device, clock>>,
         nevents' \in Nat, head' \in 0 .. nevents' - 1, tail' \in 0 .. nevents' - 1,
         events' \in [0 .. nevents' - 1 -> Buckets],
         lastMotion' \in Sources \cup {NoDevice}, lastEventTime' \in 0 .. MaxTime,
         entered' \subseteq Ids, taken' \in Buckets
  PROVE  Types'
<1>1. Seq(WellFormed) \subseteq Seq(Frame)
  BY DEF WellFormed
<1>2. calls' \in [Threads -> Seq(Frame)]
  BY <1>1
<1> QED
  BY <1>2 DEF Types, TypeOK, lock, clock, Buckets

LEMMA TopType ==
  ASSUME Types, NEW t \in Threads, calls[t] # <<>>
  PROVE  /\ calls[t] \in Seq(WellFormed) /\ calls \in [Threads -> Seq(WellFormed)]
         /\ Tail(calls[t]) \in Seq(WellFormed)
         /\ Top(t) = Head(calls[t]) /\ Top(t) \in WellFormed
         /\ Posts(Top(t)) => Top(t).ev \in Event
BY HeadTailProperties DEF Types, Top, WellFormed

LEMMA DrainEmpty ==
  ASSUME IInv, Drain, head = tail
  PROVE  IInv'
<1>1. /\ "main" \in Threads /\ calls["main"] # <<>> /\ Top("main").fn = "drain"
      /\ Continue("main", <<>>)
      /\ UNCHANGED <<eq, lock, wake, device, clock, entered, taken>>
  BY DEF Drain, At, Threads, eq
<1>2. Types /\ Locking /\ TypeOK
  BY DEF IInv, Types
<1>3. /\ calls' \in [Threads -> Seq(WellFormed)]
      /\ calls["main"] \in Seq(WellFormed) /\ calls'["main"] = Tail(calls["main"])
      /\ \A u \in Threads \ {"main"} : calls'[u] = calls[u]
  BY <1>1, <1>2, Pop
<1>4. Holds("main") > 0 /\ Holds("main") \in Nat
  BY <1>1, <1>2, GuardHolds, HoldsType DEF Guarded
<1>5. \A u \in Threads : Holds(u)' = Holds(u)
  BY <1>1 DEF lock, Holds
<1>6. ThreadPath("main", TRUE)'
  <2>1. PICK c \in BOOLEAN : ThreadPath("main", c)
    BY <1>2 DEF Locking
  <2>2. PICK y \in States : /\ Step(State(Holds("main"), c), Head(calls["main"]), y)
                            /\ Path(Tail(calls["main"]), y, Free)
    BY <1>1, <1>3, <2>1, PathTail DEF ThreadPath
  <2>3. y.held = Holds("main")
    BY <1>1, <1>4, <2>2 DEF Step, Delta, Top, State
  <2>4. Path(<<>>, State(Holds("main"), TRUE), y)
    BY <2>2, <2>3, PathEmpty DEF Less, State, States
  <2>5. <<>> \in Seq(WellFormed) /\ Tail(calls["main"]) \in Seq(WellFormed)
    BY <1>1, <1>3, EmptySeq, HeadTailProperties
  <2>6. Path(<<>> \o Tail(calls["main"]), State(Holds("main"), TRUE), Free)
    BY <2>2, <2>4, <2>5, PathConcat
  <2>7. <<>> \o Tail(calls["main"]) = Tail(calls["main"])
    BY <2>5, ConcatEmptySeq
  <2> QED
    BY <1>1, <1>3, <1>5, <2>6, <2>7 DEF ThreadPath
<1>7. NoDeviceEvents'
  <2>1. Queued' = Queued
    BY <1>1 DEF eq, Queued, NumEnqueued
  <2>2. Len(Queued) = 0
    BY <1>2, QueuedIs, EmptySeq
  <2> QED
    BY <2>1, <2>2 DEF NoDeviceEvents
<1>8. Locking'
  <2>1. (owner = "none" <=> depth = 0)'
    BY <1>1, <1>2 DEF Locking, lock
  <2>2. ThreadPath("input", FALSE)'
    BY <1>2, <1>3, <1>5 DEF Locking, ThreadPath, Threads
  <2> QED
    BY <1>1, <1>4, <1>5, <1>6, <1>7, <2>1, <2>2 DEF Locking
<1>9. Types'
  BY <1>1, <1>2, <1>3, TypesStay DEF Types, TypeOK, clock
<1>10. ASSUME LockedCallers
       PROVE  QueueInv'
  <2>1. Hands /\ Array
    BY <1>10 DEF IInv, QueueInv
  <2>2. PICK new \in Seq(Quiet) : calls' = [calls EXCEPT !["main"] = new] /\ calls'["main"] = new
    BY <1>1, <1>2, <2>1, EmptyQuiet, QuietNext DEF Hands
  <2>3. made' = made /\ made \in Nat
    BY <1>1, <1>2 DEF clock, TypeOK
  <2>4. Hands'
    <3>1. (entered \subseteq 1 .. made)'
      BY <1>1, <2>1, <2>3 DEF Hands
    <3>2. \A u \in Threads \ {"main"} : \A fr \in Loads(calls[u]) : Fits(u, fr) => Fits(u, fr)'
      BY <1>1, <2>3, FitsStays
    <3> QED
      BY <1>1, <1>2, <2>1, <2>2, <3>1, <3>2, HandsQuiet
  <2>5. Array'
    <3>1. calls'["main"] # <<>> => Head(calls'["main"]).fn # "store"
      BY <2>2, QuietHead
    <3>2. \A i \in 1 .. Len(Queued) : NotGone(Queued[i]) => NotGone(Queued[i])'
      BY <1>1 DEF eq, Queued, NumEnqueued, NotGone
    <3> QED
      BY <1>1, <1>2, <1>3, <2>1, <3>1, <3>2, ArrayStays
  <2> QED
    BY <2>4, <2>5 DEF QueueInv
<1> QED
  BY <1>8, <1>9, <1>10 DEF IInv, LockedCallers

\* Who has the lock stores alone.
LEMMA OnlyOneStores ==
  ASSUME IInv, LockedCallers, NEW t \in Threads, owner = t, NEW u \in Threads \ {t}
  PROVE  ~At(u, "store")
<1>1. SUFFICES ASSUME At(u, "store")
               PROVE  FALSE
  OBVIOUS
<1>2. calls[u] # <<>> /\ Top(u).fn \in Guarded
  BY <1>1 DEF At, Guarded
<1> QED
  BY <1>2, GuardHolds DEF IInv

LEMMA QueuedTail ==
  ASSUME NEW S, NEW s \in Seq(S), s # <<>>
  PROVE  /\ \A i \in 1 .. Len(Tail(s)) : \E j \in 1 .. Len(s) : Tail(s)[i] = s[j]
         /\ Tail(s) # <<>> => Tail(s)[Len(Tail(s))] = s[Len(s)]
         /\ Head(s) = s[1] /\ 1 \in 1 .. Len(s)
<1>1. /\ Len(s) \in Nat \ {0} /\ Tail(s) \in Seq(S) /\ Len(Tail(s)) = Len(s) - 1
      /\ \A i \in 1 .. Len(Tail(s)) : Tail(s)[i] = s[i + 1]
  BY EmptySeq, LenProperties, HeadTailProperties
<1>2. \A i \in 1 .. Len(Tail(s)) : i + 1 \in 1 .. Len(s)
  BY <1>1
<1>3. ASSUME Tail(s) # <<>>
      PROVE  Tail(s)[Len(Tail(s))] = s[Len(s)]
  <2>1. Len(Tail(s)) \in 1 .. Len(Tail(s))
    BY <1>1, <1>3, EmptySeq
  <2>2. Tail(s)[Len(Tail(s))] = s[Len(Tail(s)) + 1]
    BY <1>1, <2>1
  <2>3. Len(Tail(s)) + 1 = Len(s)
    BY <1>1
  <2> QED
    BY <2>2, <2>3
<1> QED
  BY <1>1, <1>2, <1>3

LEMMA DrainTake ==
  ASSUME IInv, Drain, head # tail
  PROVE  /\ IInv'
         /\ Queued # <<>> /\ taken' = Head(Queued) /\ Queued' = Tail(Queued)
         /\ UNCHANGED entered
<1> DEFINE e == events[head]
           a == CallWith("handle", e)
           p == <<Call("unlock"), a, Call("lock"), Call("drain")>>
<1>1. /\ "main" \in Threads /\ calls["main"] # <<>> /\ Top("main").fn = "drain"
      /\ Continue("main", p) /\ taken' = e /\ head' = NextBucket(head)
      /\ UNCHANGED <<tail, nevents, events, lastMotion, lastEventTime, lock, wake, device,
                     clock, entered>>
  BY DEF Drain, At, Threads
<1>2. Types /\ Locking /\ TypeOK
  BY DEF IInv, Types
<1>3. Queued # <<>> /\ Head(Queued) = e /\ Queued' = Tail(Queued) /\ head' \in 0 .. nevents - 1
  BY <1>1, <1>2, QueuedTake
<1>4. /\ Queued \in Seq(Buckets)
      /\ \A i \in 1 .. Len(Queued') : \E j \in 1 .. Len(Queued) : Queued'[i] = Queued[j]
      /\ Queued' # <<>> => Queued'[Len(Queued')] = Queued[Len(Queued)]
      /\ e = Queued[1] /\ 1 \in 1 .. Len(Queued)
  BY <1>2, <1>3, QueuedIs, QueuedTail
<1>5. e \in Buckets
  BY <1>2 DEF TypeOK, Buckets
<1> HIDE DEF e
<1>6. /\ a \in WellFormed /\ a.fn = "handle" /\ a.ev = e
      /\ Call("lock") \in Quiet /\ Call("unlock") \in Quiet /\ Call("drain") \in Quiet
      /\ Call("unlock").fn = "unlock" /\ Call("drain").fn = "drain"
  BY <1>5, CallType, HandleType DEF Functions, OnDevice, Buckets
<1>7. p \in Seq(WellFormed)
  BY <1>6 DEF Quiet
<1>8. ASSUME NEW x \in States, NEW y \in States, Step(x, Top("main"), y)
      PROVE  Path(p, x, y)
  <2>1. Step(x, Call("drain"), y)
    BY <1>1, <1>6, <1>8 DEF Step, Delta
  <2> QED
    BY <1>5, <2>1, PathHandle DEF Buckets
<1>9. calls' \in [Threads -> Seq(WellFormed)] /\ Locking'
  <2>1. NoDeviceEvents => NoDeviceEvents'
    BY <1>4 DEF NoDeviceEvents
  <2> HIDE DEF p
  <2> QED
    BY <1>1, <1>2, <1>7, <1>8, <2>1, Turn
<1>10. Types'
  <2>1. /\ nevents' \in Nat /\ head' \in 0 .. nevents' - 1 /\ tail' \in 0 .. nevents' - 1
        /\ events' \in [0 .. nevents' - 1 -> Buckets]
        /\ lastMotion' \in Sources \cup {NoDevice} /\ lastEventTime' \in 0 .. MaxTime
        /\ entered' \subseteq Ids /\ taken' \in Buckets
    BY <1>1, <1>2, <1>3, <1>5 DEF TypeOK, Buckets
  <2> QED
    BY <1>1, <1>2, <1>9, <2>1, TypesQueue
<1>11. ASSUME LockedCallers
       PROVE  QueueInv'
  <2>1. Hands /\ Array
    BY <1>11 DEF IInv, QueueInv
  <2> DEFINE new == p \o Tail(calls["main"])
  <2>2. calls["main"] \in Seq(WellFormed) /\ calls \in [Threads -> Seq(WellFormed)]
    BY <1>1, <1>2 DEF Types
  <2>3. Tail(calls["main"]) \in Seq(Quiet)
    BY <1>1, <2>1, <2>2, ShapeTail DEF Hands, InHand, Top
  <2>4. /\ p # <<>> /\ Head(p) = Call("unlock")
        /\ Tail(p) = <<a, Call("lock"), Call("drain")>> /\ Tail(p) # <<>> /\ Head(Tail(p)) = a
        /\ Tail(Tail(p)) = <<Call("lock"), Call("drain")>> /\ Tail(Tail(p)) \in Seq(Quiet)
    BY <1>6
  <2> HIDE DEF p, a
  <2>5. Shape("main", new)
    BY <1>6, <1>7, <2>3, <2>4, ShapeTwo
  <2>6. new # <<>> /\ Head(new) = Call("unlock")
    BY <1>7, <2>3, <2>4, ConcatParts, QuietSeq
  <2>7. Loads(new) \subseteq {a}
    <3>1. Tail(p) \in Seq(WellFormed)
      BY <1>7, <2>4, HeadTailProperties
    <3>2. Loads(Tail(Tail(p))) = {}
      BY <2>4, LoadsQuiet
    <3>3. Loads(Tail(p)) \subseteq {a}
      BY <2>4, <3>1, <3>2, LoadsPart
    <3>4. ~Loud(Head(p))
      BY <1>6, <2>4 DEF Quiet
    <3>5. Loads(p) \subseteq {a}
      BY <1>7, <2>4, <3>3, <3>4, LoadsPart
    <3> QED
      BY <1>7, <2>3, <3>5, LoadsBefore
  <2>8. calls' = [calls EXCEPT !["main"] = new] /\ calls'["main"] = new
        /\ \A u \in Threads \ {"main"} : calls'[u] = calls[u]
    BY <1>1, <2>2 DEF Continue
  <2> HIDE DEF new
  <2>9. made' = made /\ made \in Nat
    BY <1>1, <1>2 DEF clock, TypeOK
  <2>10. e \in Event /\ NotGone(e)
    BY <1>4, <2>1 DEF Array, QueuedFit
  <2>11. Hands'
    <3>1. (entered \subseteq 1 .. made)'
      BY <1>1, <2>1, <2>9 DEF Hands
    <3>2. \A fr \in Loads(new) : Fits("main", fr)'
      BY <1>1, <1>6, <2>7, <2>10 DEF Fits, NotGone
    <3>3. \A u \in Threads \ {"main"} : \A fr \in Loads(calls[u]) : Fits(u, fr) => Fits(u, fr)'
      BY <1>1, <2>9, FitsStays
    <3>4. \A u : Apart(new, calls[u])
      BY <1>6, <2>7 DEF Apart, Posts
    <3> QED
      BY <1>1, <1>2, <2>1, <2>5, <2>8, <3>1, <3>2, <3>3, <3>4, HandsChange
  <2>12. Array'
    <3>1. Sized'
      BY <1>1, <2>1 DEF Array, Sized, Doubling
    <3>2. LastKnown'
      BY <1>1, <1>3, <1>4, <2>1 DEF Array, LastKnown
    <3>3. QueuedFit'
      <4>1. ASSUME NEW i \in 1 .. Len(Queued')
            PROVE  Queued'[i] \in Event /\ NotGone(Queued[i])'
        <5>1. PICK j \in 1 .. Len(Queued) : Queued'[i] = Queued[j]
          BY <1>4
        <5> QED
          BY <1>1, <2>1, <5>1 DEF Array, QueuedFit, NotGone
      <4> QED
        BY <4>1 DEF QueuedFit
    <3>4. ASSUME NEW u \in Threads
          PROVE  Chosen(u)'
      <4>1. CASE u = "main"
        BY <1>6, <2>6, <2>8, <4>1 DEF Chosen, At, Top
      <4>2. CASE u # "main"
        <5>1. owner = "main"
          BY <1>1, <1>2, GuardHolds DEF Guarded
        <5>2. ~At(u, "store") /\ calls'[u] = calls[u]
          BY <1>1, <1>11, <2>8, <4>2, <5>1, OnlyOneStores
        <5> QED
          BY <5>2 DEF Chosen, At, Top
      <4> QED
        BY <4>1, <4>2
    <3> QED
      BY <3>1, <3>2, <3>3, <3>4 DEF Array
  <2> QED
    BY <2>11, <2>12 DEF QueueInv
<1> QED
  BY <1>1, <1>3, <1>9, <1>10, <1>11 DEF IInv, LockedCallers
-----------------------------------------------------------------------------
(*****************************************************************************)
(* mieqEnqueue.                                                              *)
(*****************************************************************************)

\* A thread that is about to queue its event has the lock, and nobody else its event.
LEMMA Poster ==
  ASSUME IInv, LockedCallers, NEW t \in Threads, calls[t] # <<>>, Posts(Top(t))
  PROVE  /\ owner = t /\ Posted(t, Top(t).ev)
         /\ Tail(calls[t]) \in Seq(Quiet)
         /\ \A u \in Threads \ {t} :
              /\ ~At(u, "store")
              /\ \A fr \in Loads(calls[u]) : Posts(fr) => fr.ev.id # Top(t).ev.id
<1>1. Types /\ Locking /\ Hands /\ InHand(t)
  BY DEF IInv, QueueInv, Hands
<1>2. owner = t
  BY <1>1, GuardHolds DEF Guarded, Posts
<1>3. calls[t] \in Seq(WellFormed) /\ Top(t) = Head(calls[t])
  BY <1>1, TopType
<1>4. Top(t) \in Loads(calls[t])
  BY <1>3, LoadsPart DEF Loud
<1>5. Posted(t, Top(t).ev)
  BY <1>1, <1>4 DEF InHand, Fits, Posts
<1>6. Tail(calls[t]) \in Seq(Quiet)
  BY <1>1, <1>3, ShapeTail DEF InHand, Posts
<1>7. ASSUME NEW u \in Threads \ {t}
      PROVE  /\ ~At(u, "store")
             /\ \A fr \in Loads(calls[u]) : Posts(fr) => fr.ev.id # Top(t).ev.id
  <2>1. ~At(u, "store")
    BY <1>2, OnlyOneStores
  <2>2. ASSUME NEW fr \in Loads(calls[u]), Posts(fr)
        PROVE  fr.ev.id # Top(t).ev.id
    BY <1>1, <1>4, <2>2 DEF Hands, Apart, Threads
  <2> QED
    BY <2>1, <2>2
<1> QED
  BY <1>2, <1>5, <1>6, <1>7

LEMMA FitsEnters ==
  ASSUME NEW t, NEW fr, Fits(t, fr), NEW id, Posts(fr) => fr.ev.id # id, Loud(fr),
         entered' = entered \cup {id}, UNCHANGED <<device, made>>
  PROVE  Fits(t, fr)'
BY DEF Fits, Posted, NotGone, Loud

\* The events in hand, when one has entered the queue.
LEMMA HandsEnters ==
  ASSUME IInv, LockedCallers, NEW t \in Threads, calls[t] # <<>>, Posts(Top(t)),
         Continue(t, <<>>), entered' = entered \cup {Top(t).ev.id}, UNCHANGED <<device, made>>
  PROVE  Hands'
<1>1. Types /\ Hands /\ made \in Nat
  BY DEF IInv, QueueInv, Types, TypeOK
<1>2. /\ Posted(t, Top(t).ev) /\ Tail(calls[t]) \in Seq(Quiet)
      /\ \A u \in Threads \ {t} :
           \A fr \in Loads(calls[u]) : Posts(fr) => fr.ev.id # Top(t).ev.id
  BY Poster
<1> DEFINE new == Tail(calls[t])
<1>3. calls' = [calls EXCEPT ![t] = new]
  <2>1. calls[t] \in Seq(WellFormed) /\ calls'[t] = new /\ calls' \in [Threads -> Seq(WellFormed)]
        /\ \A u \in Threads \ {t} : calls'[u] = calls[u]
    BY <1>1, Pop
  <2>2. calls \in [Threads -> Seq(WellFormed)]
    BY <1>1 DEF Types
  <2> QED
    BY <2>1, <2>2
<1> HIDE DEF new
<1>4. (entered \subseteq 1 .. made)'
  <2>1. Top(t).ev.id \in 1 .. made
    BY <1>1, <1>2 DEF Posted, Event, Ids
  <2> QED
    BY <1>1, <2>1 DEF Hands
<1>5. ASSUME NEW u \in Threads \ {t}, NEW fr \in Loads(calls[u]), Fits(u, fr)
      PROVE  Fits(u, fr)'
  <2>1. Loud(fr)
    BY DEF Loads
  <2> QED
    BY <1>2, <1>5, <2>1, FitsEnters
<1>6. new \in Seq(Quiet)
  BY <1>2 DEF new
<1> QED
  BY <1>1, <1>3, <1>4, <1>5, <1>6, HandsQuiet

\* A thread leaves a frame that is as quiet to the lock, or nothing.
LEMMA LockingPosts ==
  ASSUME Types, Locking, NEW t \in Threads, calls[t] # <<>>, Posts(Top(t)),
         NEW frames \in Seq(WellFormed), Continue(t, frames), UNCHANGED lock,
         frames # <<>> => /\ frames = <<Head(frames)>> /\ Posts(Head(frames)),
         LockedCallers /\ NoDeviceEvents /\ Holds("main") > 0 => NoDeviceEvents'
  PROVE  calls' \in [Threads -> Seq(WellFormed)] /\ Locking'
<1>1. ASSUME NEW x \in States, NEW y \in States, Step(x, Top(t), y)
      PROVE  Path(frames, x, y)
  <2>1. y.held = x.held /\ (y.clean => x.clean)
    BY <1>1 DEF Step, Delta, Posts, States
  <2>2. CASE frames = <<>>
    BY <2>1, <2>2, PathEmpty DEF Less
  <2>3. CASE frames # <<>>
    <3>1. Step(x, Head(frames), y)
      BY <1>1, <2>1, <2>3 DEF Step, Delta, Posts, Guarded, States
    <3>2. Path(<<Head(frames)>>, x, y)
      BY <3>1, PathOne
    <3> QED
      BY <2>3, <3>2
  <2> QED
    BY <2>2, <2>3
<1> QED
  BY <1>1, Turn

\* The bucket is chosen: mieqEnqueue is about to store the event.
LEMMA EnqueueStores ==
  ASSUME IInv, NEW t \in Threads, At(t, "enqueue"), NEW slot \in Nat, StoreAt(t, slot),
         Queued' = Queued, UNCHANGED <<lock, device, clock, entered>>
  PROVE  /\ calls' \in [Threads -> Seq(WellFormed)] /\ Locking'
         /\ calls'[t] # <<>> /\ Head(calls'[t]).fn = "store"
         /\ Head(calls'[t]).ev = Top(t).ev /\ Head(calls'[t]).slot = slot
         /\ \A u \in Threads \ {t} : calls'[u] = calls[u]
         /\ LockedCallers => Hands'
<1> DEFINE fr == Storing(Top(t).ev, slot)
           new == <<fr>> \o Tail(calls[t])
<1>1. /\ Types /\ Locking /\ calls[t] # <<>> /\ Posts(Top(t)) /\ Continue(t, <<fr>>)
      /\ made' = made /\ made \in Nat
  BY DEF IInv, At, Posts, StoreAt, Storing, clock, Types, TypeOK
<1>2. /\ Top(t).ev \in Event /\ Tail(calls[t]) \in Seq(WellFormed)
      /\ calls \in [Threads -> Seq(WellFormed)]
  BY <1>1, TopType
<1>3. fr \in WellFormed /\ fr.fn = "store" /\ fr.ev = Top(t).ev /\ fr.slot = slot
  BY <1>2, StoreType
<1>4. /\ calls' = [calls EXCEPT ![t] = new] /\ calls'[t] = new
      /\ \A u \in Threads \ {t} : calls'[u] = calls[u]
  BY <1>1, <1>2 DEF Continue
<1> HIDE DEF fr
<1>5. <<fr>> \in Seq(WellFormed) /\ <<fr>> # <<>> /\ Head(<<fr>>) = fr /\ Tail(<<fr>>) = <<>>
  BY <1>3
<1>6. new # <<>> /\ Head(new) = fr
  BY <1>2, <1>5, ConcatParts
<1>7. calls' \in [Threads -> Seq(WellFormed)] /\ Locking'
  <2>1. NoDeviceEvents => NoDeviceEvents'
    BY DEF NoDeviceEvents
  <2> QED
    BY <1>1, <1>3, <1>5, <2>1, LockingPosts DEF Posts
<1>8. ASSUME LockedCallers
      PROVE  Hands'
  <2>1. Hands
    BY <1>8 DEF IInv, QueueInv
  <2>2. /\ Posted(t, Top(t).ev) /\ Tail(calls[t]) \in Seq(Quiet)
        /\ \A u \in Threads \ {t} :
             \A b \in Loads(calls[u]) : Posts(b) => b.ev.id # Top(t).ev.id
    BY <1>1, <1>8, Poster
  <2>3. Shape(t, new)
    BY <1>5, <2>2, ShapeOne, EmptyQuiet
  <2>4. Loads(new) \subseteq {fr}
    <3>1. Loads(Tail(<<fr>>)) = {}
      BY <1>5, EmptyQuiet, LoadsQuiet
    <3>2. Loads(<<fr>>) \subseteq {fr}
      BY <1>5, <3>1, LoadsPart
    <3> QED
      BY <1>5, <2>2, <3>2, LoadsBefore
  <2> HIDE DEF new
  <2>5. (entered \subseteq 1 .. made)'
    BY <1>1, <2>1 DEF Hands
  <2>6. \A b \in Loads(new) : Fits(t, b)'
    BY <1>1, <1>3, <2>2, <2>4 DEF Fits, Posted, NotGone
  <2>7. \A u \in Threads \ {t} : \A b \in Loads(calls[u]) : Fits(u, b) => Fits(u, b)'
    BY <1>1, FitsStays
  <2>8. \A u \in Threads \ {t} : Apart(new, calls[u])
    BY <1>3, <2>2, <2>4 DEF Apart
  <2> QED
    BY <1>1, <1>4, <2>1, <2>3, <2>5, <2>6, <2>7, <2>8, HandsChange
<1> QED
  BY <1>3, <1>4, <1>6, <1>7, <1>8

LEMMA EnqueueKeeps ==
  ASSUME IInv, NEW t \in Threads, At(t, "enqueue"), Merges(Top(t).ev) \/ ~Full,
         StoreAt(t, IF Merges(Top(t).ev) THEN (tail + nevents - 1) % nevents ELSE tail),
         UNCHANGED <<eq, lock, wake, device, clock, entered, taken>>
  PROVE  IInv'
<1>1. /\ Types /\ Locking /\ tail \in 0 .. nevents - 1 /\ nevents \in Nat \ {0}
      /\ Queued' = Queued
  BY DEF IInv, Types, TypeOK, eq, Queued, NumEnqueued
<1> DEFINE slot == Bucket(Top(t).ev)
<1>2. slot \in Nat
  <2>1. tail + nevents - 1 \in Nat
    BY <1>1
  <2>2. (tail + nevents - 1) % nevents \in Nat
    BY <1>1, <2>1, ModType
  <2> QED
    BY <1>1, <2>2 DEF Bucket
<1>3. StoreAt(t, slot)
  BY DEF Bucket
<1> HIDE DEF slot
<1>4. /\ calls' \in [Threads -> Seq(WellFormed)] /\ Locking'
      /\ calls'[t] # <<>> /\ Head(calls'[t]).fn = "store"
      /\ Head(calls'[t]).ev = Top(t).ev /\ Head(calls'[t]).slot = slot
      /\ \A u \in Threads \ {t} : calls'[u] = calls[u]
      /\ LockedCallers => Hands'
  BY <1>1, <1>2, <1>3, EnqueueStores
<1>5. Types'
  BY <1>1, <1>4, TypesStay DEF Types, TypeOK, clock
<1>6. ASSUME LockedCallers
      PROVE  Array'
  <2>1. Array
    BY <1>6 DEF IInv, QueueInv
  <2>2. Sized' /\ LastKnown'
    BY <1>1, <2>1 DEF Array, Sized, LastKnown, eq, Doubling
  <2>3. QueuedFit'
    BY <1>1, <2>1 DEF Array, QueuedFit, NotGone
  <2>4. ASSUME NEW u \in Threads
        PROVE  Chosen(u)'
    <3>1. CASE u = t
      BY <1>4, <3>1 DEF Chosen, At, Top, slot, Bucket, Merges, Full, NumEnqueued, eq
    <3>2. CASE u # t
      <4>1. calls[t] # <<>> /\ Posts(Top(t))
        BY DEF At, Posts
      <4>2. ~At(u, "store")
        BY <1>6, <3>2, <4>1, Poster
      <4> QED
        BY <1>4, <3>2, <4>2 DEF Chosen, At, Top
    <3> QED
      BY <3>1, <3>2
  <2> QED
    BY <2>2, <2>3, <2>4 DEF Array
<1> QED
  BY <1>4, <1>5, <1>6 DEF IInv, QueueInv, LockedCallers

LEMMA EnqueueGrows ==
  ASSUME IInv, NEW t \in Threads, At(t, "enqueue"), ~Merges(Top(t).ev), Full,
         2 * nevents <= MaxBuckets, events' = Grown, nevents' = 2 * nevents,
         head' = 0, tail' = NumEnqueued, StoreAt(t, NumEnqueued),
         UNCHANGED <<lastMotion, lastEventTime, lock, wake, device, clock, entered, taken>>
  PROVE  IInv' /\ Queued' = Queued
<1>1. /\ Types /\ Locking /\ TypeOK
  BY DEF IInv, Types
<1>2. /\ Queued' = Queued
      /\ nevents' \in Nat /\ head' \in 0 .. nevents' - 1 /\ tail' \in 0 .. nevents' - 1
      /\ events' \in [0 .. nevents' - 1 -> Buckets]
      /\ NumEnqueued' = NumEnqueued /\ NumEnqueued' + 1 < nevents'
  BY <1>1, QueuedGrow
<1>3. /\ NumEnqueued \in Nat /\ nevents \in Nat \ {0}
      /\ Queued = <<>> <=> head = tail
      /\ Len(Queued) = NumEnqueued /\ Queued \in Seq(Buckets)
  BY <1>1, QueuedIs
<1>4. /\ calls' \in [Threads -> Seq(WellFormed)] /\ Locking'
      /\ calls'[t] # <<>> /\ Head(calls'[t]).fn = "store"
      /\ Head(calls'[t]).ev = Top(t).ev /\ Head(calls'[t]).slot = NumEnqueued
      /\ \A u \in Threads \ {t} : calls'[u] = calls[u]
      /\ LockedCallers => Hands'
  BY <1>1, <1>2, <1>3, EnqueueStores
<1>5. Types'
  <2>1. /\ lastMotion' \in Sources \cup {NoDevice} /\ lastEventTime' \in 0 .. MaxTime
        /\ entered' \subseteq Ids /\ taken' \in Buckets
    BY <1>1 DEF TypeOK, Buckets
  <2> QED
    BY <1>1, <1>2, <1>4, <2>1, TypesQueue
<1>6. ASSUME LockedCallers
      PROVE  Array'
  <2>1. Array
    BY <1>6 DEF IInv, QueueInv
  <2>2. LastKnown'
    BY <1>2, <2>1 DEF Array, LastKnown
  <2>3. QueuedFit'
    BY <1>2, <2>1 DEF Array, QueuedFit, NotGone
  <2>4. Sized'
    <3>1. nevents > 1 /\ nevents' > 1 /\ nevents < MaxBuckets
      BY <1>3, <2>1, QueueAssumption DEF Array, Sized
    <3>2. ASSUME NEW sizes \in SUBSET (InitialSize .. MaxBuckets), Doubling(sizes)
          PROVE  nevents' \in sizes
      BY <2>1, <3>1, <3>2 DEF Array, Sized, Doubling
    <3> QED
      BY <3>1, <3>2 DEF Sized, Doubling
  <2>5. Chosen(t)'
    <3>1. tail # head
      BY <1>3, <2>1 DEF Array, Sized, Full
    <3>2. ~Merges(Top(t).ev)'
      BY <1>4, <3>1 DEF Merges, Top
    <3>3. Bucket(Top(t).ev)' = NumEnqueued /\ ~Full'
      BY <1>2, <1>3, <3>2 DEF Bucket, Full
    <3> QED
      BY <1>4, <3>3 DEF Chosen, Top
  <2>6. ASSUME NEW u \in Threads \ {t}
        PROVE  Chosen(u)'
    <3>1. calls[t] # <<>> /\ Posts(Top(t))
      BY DEF At, Posts
    <3>2. ~At(u, "store")
      BY <1>6, <3>1, Poster
    <3> QED
      BY <1>4, <3>2 DEF Chosen, At, Top
  <2> QED
    BY <2>2, <2>3, <2>4, <2>5, <2>6 DEF Array
<1> QED
  BY <1>2, <1>4, <1>5, <1>6 DEF IInv, QueueInv, LockedCallers

LEMMA EnqueueDrops ==
  ASSUME IInv, NEW t \in Threads, At(t, "enqueue"), Continue(t, <<>>),
         entered' = entered \cup {Top(t).ev.id},
         UNCHANGED <<eq, lock, wake, device, clock, taken>>
  PROVE  IInv'
<1>1. /\ Types /\ Locking /\ calls[t] # <<>> /\ Posts(Top(t))
      /\ Queued' = Queued /\ made' = made
  BY DEF IInv, At, Posts, eq, Queued, NumEnqueued, clock
<1>2. /\ calls[t] \in Seq(WellFormed) /\ calls'[t] = Tail(calls[t])
      /\ \A u \in Threads \ {t} : calls'[u] = calls[u]
  BY <1>1, Pop
<1>3. calls' \in [Threads -> Seq(WellFormed)] /\ Locking'
  <2>1. <<>> \in Seq(WellFormed)
    BY EmptySeq
  <2>2. NoDeviceEvents => NoDeviceEvents'
    BY <1>1 DEF NoDeviceEvents
  <2> QED
    BY <1>1, <2>1, <2>2, LockingPosts
<1>4. Types'
  <2>1. entered' \subseteq Ids
    BY <1>1, TopType DEF Types, TypeOK, Event
  <2> QED
    BY <1>1, <1>3, <2>1, TypesStay DEF Types, TypeOK, clock
<1>5. ASSUME LockedCallers
      PROVE  QueueInv'
  <2>1. Hands'
    BY <1>1, <1>5, HandsEnters
  <2>2. Array /\ Tail(calls[t]) \in Seq(Quiet)
    BY <1>1, <1>5, Poster DEF IInv, QueueInv
  <2>3. Array'
    <3>1. calls'[t] # <<>> => Head(calls'[t]).fn # "store"
      BY <1>2, <2>2, QuietHead
    <3>2. \A i \in 1 .. Len(Queued) : NotGone(Queued[i]) => NotGone(Queued[i])'
      BY <1>1 DEF NotGone
    <3> QED
      BY <1>1, <1>2, <2>2, <3>1, <3>2, ArrayStays
  <2> QED
    BY <2>1, <2>3 DEF QueueInv
<1> QED
  BY <1>3, <1>4, <1>5 DEF IInv, LockedCallers

LEMMA StepEnqueue ==
  ASSUME IInv, NEW t \in Threads, Enqueue(t)
  PROVE  IInv'
<1>1. At(t, "enqueue") /\ UNCHANGED <<lock, wake, device, clock, taken>>
  BY DEF Enqueue
<1>2. CASE /\ Merges(Top(t).ev) \/ ~Full
           /\ StoreAt(t, IF Merges(Top(t).ev) THEN (tail + nevents - 1) % nevents ELSE tail)
           /\ UNCHANGED <<eq, entered>>
  BY <1>1, <1>2, EnqueueKeeps
<1>3. CASE /\ ~Merges(Top(t).ev) /\ Full /\ 2 * nevents <= MaxBuckets
           /\ events' = Grown /\ nevents' = 2 * nevents
           /\ head' = 0 /\ tail' = NumEnqueued
           /\ StoreAt(t, NumEnqueued)
           /\ UNCHANGED <<lastMotion, lastEventTime, entered>>
  BY <1>1, <1>3, EnqueueGrows
<1>4. CASE /\ ~Merges(Top(t).ev) /\ Full /\ 2 * nevents > MaxBuckets
           /\ entered' = entered \cup {Top(t).ev.id}
           /\ Continue(t, <<>>)
           /\ UNCHANGED eq
  BY <1>1, <1>4, EnqueueDrops
<1> QED
  BY <1>2, <1>3, <1>4 DEF Enqueue

\* d ends in e and has otherwise what c has.
EndsIn(d, c, e) ==
  /\ d # <<>> /\ d[Len(d)] = e
  /\ \A i \in 1 .. Len(d) : d[i] = e \/ \E j \in 1 .. Len(c) : d[i] = c[j]

LEMMA AppendEnds ==
  ASSUME NEW S, NEW c \in Seq(S), NEW e \in S
  PROVE  EndsIn(Append(c, e), c, e)
<1>1. /\ Append(c, e) \in Seq(S) /\ Append(c, e) # <<>> /\ Len(Append(c, e)) = Len(c) + 1
      /\ \A i \in 1 .. Len(c) : Append(c, e)[i] = c[i]
      /\ Append(c, e)[Len(c) + 1] = e /\ Len(c) \in Nat
  BY AppendProperties
<1>2. \A i \in 1 .. Len(c) + 1 : i = Len(c) + 1 \/ i \in 1 .. Len(c)
  BY <1>1
<1> QED
  BY <1>1, <1>2 DEF EndsIn

LEMMA ReplacedEnds ==
  ASSUME NEW S, NEW c \in Seq(S), c # <<>>, NEW e \in S
  PROVE  EndsIn(LastReplaced(c, e), c, e)
<1>1. Len(c) \in Nat \ {0} /\ DOMAIN c = 1 .. Len(c)
  BY EmptySeq, LenProperties
<1>2. /\ LastReplaced(c, e) \in Seq(S) /\ Len(LastReplaced(c, e)) = Len(c)
      /\ \A i \in 1 .. Len(c) : LastReplaced(c, e)[i] = IF i = Len(c) THEN e ELSE c[i]
  <2>1. Len(c) \in 1 .. Len(c)
    BY <1>1
  <2>2. [c EXCEPT ![Len(c)] = e] \in Seq(S) /\ Len([c EXCEPT ![Len(c)] = e]) = Len(c)
    BY <2>1, ExceptSeq
  <2>3. \A i \in 1 .. Len(c) : [c EXCEPT ![Len(c)] = e][i] = IF i = Len(c) THEN e ELSE c[i]
    BY <2>1, ExceptSeq
  <2> QED
    BY <2>2, <2>3 DEF LastReplaced
<1>3. Len(c) # 0 /\ Len(c) \in 1 .. Len(c)
  BY <1>1
<1>4. LastReplaced(c, e) # <<>>
  <2>1. Len(LastReplaced(c, e)) # 0
    BY <1>2, <1>3, Zenon
  <2> QED
    BY <2>1, EmptySeq
<1> QED
  BY <1>2, <1>3, <1>4 DEF EndsIn

\* The event goes where mieqEnqueue chose to put it.
LEMMA StoreQueued ==
  ASSUME IInv, LockedCallers, NEW t \in Threads, Store(t), NEW e, e = Top(t).ev
  PROVE  /\ e \in Event /\ Queued \in Seq(Buckets)
         /\ IF Merges(e) THEN Queued # <<>> /\ Queued' = LastReplaced(Queued, e)
                         ELSE ~Full /\ Queued' = Append(Queued, e)
<1>1. /\ TypeOK /\ Types /\ calls[t] # <<>> /\ Posts(Top(t)) /\ Chosen(t)
  BY DEF IInv, QueueInv, Array, Types, Store, At, Posts
<1>2. /\ nevents \in Nat \ {0} /\ tail \in 0 .. nevents - 1 /\ head \in 0 .. nevents - 1
      /\ events \in [0 .. nevents - 1 -> Buckets]
      /\ Queued \in Seq(Buckets) /\ (Queued = <<>> <=> head = tail)
  BY <1>1, QueuedIs DEF TypeOK, Buckets
<1>3. e \in Event
  BY <1>1, TopType
<1> DEFINE slot == Top(t).slot
<1>4. /\ slot = Bucket(e) /\ (Merges(e) \/ ~Full)
      /\ events' = [events EXCEPT ![slot] = e] /\ tail' = NextBucket(slot)
      /\ UNCHANGED <<head, nevents>>
  BY <1>1 DEF Chosen, Store
<1> HIDE DEF slot
<1>5. ASSUME slot \in 0 .. nevents - 1
      PROVE  /\ events' \in [0 .. nevents - 1 -> Buckets] /\ events'[slot] = e
             /\ OnlyAt(slot, events, events', nevents)
  BY <1>2, <1>3, <1>4, <1>5 DEF OnlyAt, Buckets
<1>6. CASE Merges(e)
  <2>1. slot = (tail + nevents - 1) % nevents /\ head # tail
    BY <1>4, <1>6 DEF Bucket, Merges
  <2>2. /\ IsBefore(slot, tail, nevents) /\ slot \in 0 .. nevents - 1
        /\ (slot + 1) % nevents = tail
    BY <1>2, <2>1, BeforeIsNext
  <2>3. UNCHANGED <<head, tail, nevents>>
    BY <1>4, <2>2 DEF NextBucket
  <2>4. /\ events' \in [0 .. nevents - 1 -> Buckets] /\ events'[slot] = e
        /\ OnlyAt(slot, events, events', nevents)
    BY <1>5, <2>2
  <2>5. Queued' = LastReplaced(Queued, e)
    BY <1>1, <1>3, <2>1, <2>2, <2>3, <2>4, QueuedReplace
  <2> QED
    BY <1>2, <1>3, <1>6, <2>1, <2>5
<1>7. CASE ~Merges(e)
  <2>1. slot = tail /\ ~Full
    BY <1>4, <1>7 DEF Bucket
  <2>2. /\ events' \in [0 .. nevents - 1 -> Buckets] /\ events'[tail] = e
        /\ OnlyAt(tail, events, events', nevents)
    BY <1>2, <1>5, <2>1
  <2>3. tail' = NextBucket(tail) /\ UNCHANGED <<head, nevents>>
    BY <1>4, <2>1
  <2>4. Queued' = Append(Queued, e)
    BY <1>1, <1>3, <2>1, <2>2, <2>3, QueuedAppend
  <2> QED
    BY <1>2, <1>3, <1>7, <2>1, <2>4
<1> QED
  BY <1>6, <1>7

LEMMA StoreEnds ==
  ASSUME IInv, LockedCallers, NEW t \in Threads, Store(t), NEW e, e = Top(t).ev
  PROVE  EndsIn(Queued', Queued, e)
<1>1. e \in Buckets /\ Queued \in Seq(Buckets)
  BY StoreQueued DEF Buckets
<1>2. CASE Merges(e)
  <2>1. Queued # <<>> /\ Queued' = LastReplaced(Queued, e)
    BY <1>2, StoreQueued
  <2> QED
    BY <1>1, <2>1, ReplacedEnds
<1>3. CASE ~Merges(e)
  <2>1. Queued' = Append(Queued, e)
    BY <1>3, StoreQueued
  <2> QED
    BY <1>1, <2>1, AppendEnds
<1> QED
  BY <1>2, <1>3

LEMMA StepStore ==
  ASSUME IInv, NEW t \in Threads, Store(t)
  PROVE  IInv'
<1> DEFINE e == Top(t).ev
<1>1. /\ Types /\ Locking /\ TypeOK /\ calls[t] # <<>> /\ Posts(Top(t)) /\ Continue(t, <<>>)
      /\ UNCHANGED <<head, nevents, lock, wake, device, clock, taken>>
      /\ tail' = NextBucket(Top(t).slot) /\ events' = [events EXCEPT ![Top(t).slot] = e]
      /\ lastEventTime' = e.time /\ lastMotion' = IF e.motion THEN e.dev ELSE NoDevice
      /\ entered' = entered \cup {e.id}
  BY DEF IInv, Types, Store, At, Posts
<1>2. /\ calls[t] \in Seq(WellFormed) /\ calls'[t] = Tail(calls[t])
      /\ \A u \in Threads \ {t} : calls'[u] = calls[u]
  BY <1>1, Pop
<1>3. e \in Event /\ Top(t).slot \in Nat
  BY <1>1, TopType DEF WellFormed, Frame
<1> HIDE DEF e
<1>4. ASSUME LockedCallers
      PROVE  /\ EndsIn(Queued', Queued, e) /\ Posted(t, e) /\ owner = t
             /\ Tail(calls[t]) \in Seq(Quiet)
             /\ \A u \in Threads \ {t} : ~At(u, "store")
  BY <1>1, <1>4, StoreEnds, Poster DEF e
<1>5. calls' \in [Threads -> Seq(WellFormed)] /\ Locking'
  <2>1. <<>> \in Seq(WellFormed)
    BY EmptySeq
  <2>2. ASSUME LockedCallers, NoDeviceEvents, Holds("main") > 0
        PROVE  NoDeviceEvents'
    <3>1. t = "main"
      BY <1>4, <2>2 DEF Holds
    <3>2. e.dev \notin Devices
      BY <1>4, <2>2, <3>1, QueueAssumption DEF Posted
    <3> QED
      BY <1>4, <2>2, <3>2 DEF NoDeviceEvents, EndsIn
  <2> QED
    BY <1>1, <2>1, <2>2, LockingPosts
<1>6. Types'
  <2>1. nevents \in Nat \ {0} /\ tail' \in 0 .. nevents - 1
    <3>1. nevents \in Nat \ {0}
      BY <1>1 DEF TypeOK
    <3>2. Top(t).slot + 1 \in Nat
      BY <1>3
    <3> QED
      BY <1>1, <3>1, <3>2, ModType DEF NextBucket
  <2>2. events' \in [0 .. nevents - 1 -> Buckets] /\ nevents' = nevents
    BY <1>1, <1>3 DEF TypeOK, Buckets
  <2>3. /\ lastMotion' \in Sources \cup {NoDevice} /\ lastEventTime' \in 0 .. MaxTime
        /\ entered' \subseteq Ids /\ taken' \in Buckets
    BY <1>1, <1>3 DEF TypeOK, Event, Buckets
  <2>4. head' \in 0 .. nevents' - 1 /\ nevents' \in Nat
    BY <1>1 DEF TypeOK
  <2>5. tail' \in 0 .. nevents' - 1 /\ events' \in [0 .. nevents' - 1 -> Buckets]
    BY <2>1, <2>2
  <2>6. UNCHANGED <<lock, wake, device, clock>>
    BY <1>1
  <2> QED
    BY <1>1, <1>5, <2>3, <2>4, <2>5, <2>6, TypesQueue
<1>7. ASSUME LockedCallers
      PROVE  QueueInv'
  <2>1. Hands'
    <3>1. made' = made
      BY <1>1 DEF clock
    <3> QED
      BY <1>1, <1>7, <3>1, HandsEnters DEF e
  <2>2. Array
    BY <1>7 DEF IInv, QueueInv
  <2>3. Sized'
    BY <1>1, <2>2 DEF Array, Sized, Doubling
  <2>4. LastKnown'
    BY <1>1, <1>4, <1>7 DEF LastKnown, EndsIn
  <2>5. QueuedFit'
    <3>1. NotGone(e)
      BY <1>4, <1>7, QueueAssumption DEF Posted, NotGone
    <3>2. ASSUME NEW i \in 1 .. Len(Queued')
          PROVE  Queued'[i] \in Event /\ NotGone(Queued'[i])
      BY <1>3, <1>4, <1>7, <2>2, <3>1, <3>2 DEF Array, QueuedFit, EndsIn
    <3> QED
      BY <1>1, <3>2 DEF QueuedFit, NotGone
  <2>6. ASSUME NEW u \in Threads
        PROVE  Chosen(u)'
    <3>1. CASE u = t
      <4>1. calls'[t] # <<>> => Head(calls'[t]).fn # "store"
        BY <1>2, <1>4, <1>7, QuietHead
      <4> QED
        BY <3>1, <4>1 DEF Chosen, At, Top
    <3>2. CASE u # t
      BY <1>2, <1>4, <1>7, <3>2 DEF Chosen, At, Top
    <3> QED
      BY <3>1, <3>2
  <2> QED
    BY <2>1, <2>3, <2>4, <2>5, <2>6 DEF Array, QueueInv
<1> QED
  BY <1>5, <1>6, <1>7 DEF IInv, LockedCallers
-----------------------------------------------------------------------------
(*****************************************************************************)
(* The invariant holds.                                                      *)
(*****************************************************************************)

LEMMA IInit == Init => IInv /\ Queued = <<>>
<1>1. SUFFICES ASSUME Init
               PROVE  IInv /\ Queued = <<>>
  OBVIOUS
<1>2. \A t \in Threads : calls[t] = <<>>
  BY <1>1 DEF Init
<1>3. TypeOK
  <2>1. calls \in [Threads -> Seq(Frame)]
    BY <1>1, EmptySeq DEF Init
  <2>2. events \in [0 .. nevents - 1 -> Event \cup {NoEvent}]
    BY <1>1 DEF Init
  <2>3. /\ nevents \in Nat /\ head \in 0 .. nevents - 1 /\ tail \in 0 .. nevents - 1
        /\ depth \in Nat /\ made \in 0 .. MaxEvents /\ now \in 0 .. MaxTime
        /\ lastEventTime \in 0 .. MaxTime
    BY <1>1, QueueAssumption DEF Init
  <2>4. /\ lastMotion \in Sources \cup {NoDevice} /\ owner \in Threads \cup {"none"}
        /\ wake \in BOOLEAN /\ device \in [Devices -> {"on", "off", "gone"}]
        /\ entered \subseteq Ids /\ taken \in Event \cup {NoEvent}
    BY <1>1 DEF Init
  <2> QED
    BY <2>1, <2>2, <2>3, <2>4 DEF TypeOK
<1>4. Types
  <2>1. calls \in [Threads -> Seq(WellFormed)]
    BY <1>1, EmptySeq DEF Init
  <2> QED
    BY <1>3, <2>1 DEF Types
<1>5. Queued = <<>>
  BY <1>1, <1>3, QueuedIs DEF Init
<1>6. Locking
  <2>1. \A t \in Threads : Holds(t) = 0
    BY <1>1 DEF Init, Holds
  <2>2. Free \in States /\ Less(Free, State(0, FALSE))
    BY StateType DEF Free, Less
  <2>3. \A t \in Threads : ThreadPath(t, FALSE)
    BY <1>2, <2>1, <2>2, PathEmpty DEF ThreadPath
  <2>4. "main" \in Threads /\ "input" \in Threads /\ FALSE \in BOOLEAN
    BY DEF Threads
  <2> QED
    BY <1>1, <2>3, <2>4 DEF Locking, Init
<1>7. Hands
  <2>1. \A t \in Threads : Loads(calls[t]) = {}
    BY <1>2, EmptyQuiet, LoadsQuiet
  <2>2. \A t \in Threads : InHand(t)
    BY <1>2, <2>1 DEF InHand, Shape
  <2> QED
    BY <1>1, <2>1, <2>2 DEF Hands, Apart, Threads, Init
<1>8. Array
  <2>1. Sized
    BY <1>1, QueueAssumption DEF Sized, Doubling, Init
  <2>2. LastKnown /\ QueuedFit
    BY <1>5 DEF LastKnown, QueuedFit
  <2>3. \A t \in Threads : Chosen(t)
    BY <1>2 DEF Chosen, At
  <2> QED
    BY <2>1, <2>2, <2>3 DEF Array
<1> QED
  BY <1>4, <1>5, <1>6, <1>7, <1>8 DEF IInv, QueueInv

LEMMA StepStutter ==
  ASSUME IInv, UNCHANGED vars
  PROVE  IInv' /\ Queued' = Queued
<1>1. UNCHANGED <<head, tail, nevents, events, lastMotion, lastEventTime, owner, depth, wake,
                  device, calls, made, now, entered, taken>>
  BY DEF vars, eq, lock, clock
<1>2. Queued' = Queued
  BY <1>1 DEF Queued, NumEnqueued
<1>3. Types'
  BY <1>1 DEF IInv, Types, TypeOK
<1>4. Locking'
  BY <1>1, <1>2 DEF IInv, Locking, ThreadPath, Holds, NoDeviceEvents
<1>5. Hands => Hands'
  BY <1>1 DEF Hands, InHand, Fits, Posted, NotGone
<1>6. Array => Array'
  BY <1>1, <1>2 DEF Array, Sized, Doubling, LastKnown, QueuedFit, NotGone, Chosen, At, Top,
                    Bucket, Merges, Full, NumEnqueued
<1> QED
  BY <1>2, <1>3, <1>4, <1>5, <1>6 DEF IInv, QueueInv, LockedCallers

LEMMA StepDrain ==
  ASSUME IInv, Drain
  PROVE  IInv'
BY DrainEmpty, DrainTake

LEMMA INext == IInv /\ [Next]_vars => IInv'
<1>1. SUFFICES ASSUME IInv, [Next]_vars
               PROVE  IInv'
  OBVIOUS
<1>2. CASE UNCHANGED vars
  BY <1>1, <1>2, StepStutter
<1>3. ASSUME NEW t \in Threads, Runs(t)
      PROVE  IInv'
  BY <1>1, <1>3, StepLock, StepEnqueue, StepStore DEF Runs
<1>4. CASE MainRuns
  <2>1. CASE Runs("main")
    BY <1>3, <2>1 DEF Threads
  <2>2. CASE Drain
    BY <1>1, <2>2, StepDrain
  <2>3. CASE Handle
    BY <1>1, <2>3, StepHandleQuiet
  <2>4. CASE Move
    BY <1>1, <2>4, StepMove
  <2>5. CASE Check
    BY <1>1, <2>5, StepCheck
  <2>6. CASE Request
    BY <1>1, <2>6, StepRequest
  <2>7. CASE DeviceOff
    BY <1>1, <2>7, StepSwitch DEF DeviceOff
  <2>8. CASE DeviceOn
    BY <1>1, <2>8, StepSwitch DEF DeviceOn
  <2>9. CASE CloseDevice
    BY <1>1, <2>9, StepSwitch DEF CloseDevice
  <2>10. CASE Remove
    BY <1>1, <2>10, StepRemove
  <2> QED
    BY <1>4, <2>1, <2>2, <2>3, <2>4, <2>5, <2>6, <2>7, <2>8, <2>9, <2>10 DEF MainRuns
<1>5. CASE PollWakes \/ PollReturns
  BY <1>1, <1>5, StepPoll
<1>6. CASE InputRuns
  <2>1. CASE Runs("input")
    BY <1>3, <2>1 DEF Threads
  <2>2. CASE Read
    BY <1>1, <2>2, StepRead
  <2>3. CASE FillPipe
    BY <1>1, <2>3, StepFillPipe
  <2>4. CASE \E d \in Devices : InputReady(d)
    BY <1>1, <2>4, StepInputReady
  <2> QED
    BY <1>6, <2>1, <2>2, <2>3, <2>4 DEF InputRuns
<1>7. CASE \E devs \in SUBSET Devices : InputPollReturns(devs)
  BY <1>1, <1>7, StepInputPoll
<1> QED
  BY <1>1, <1>2, <1>4, <1>5, <1>6, <1>7 DEF Next

\* The invariant holds: the lock, the events in hand and the array fit together.
THEOREM Invariant == Spec => []IInv
<1>1. Init => IInv
  BY IInit
<1>2. IInv /\ [Next]_vars => IInv'
  BY INext
<1> QED
  BY <1>1, <1>2, PTL DEF Spec

-----------------------------------------------------------------------------
(*****************************************************************************)
(* What it shows.                                                            *)
(*****************************************************************************)

\* The array and its ends, the lock and what the threads have yet to do keep their types,
\* whoever forgets the lock.
THEOREM TypesHold == Spec => []TypeOK
<1>1. IInv => TypeOK
  BY DEF IInv, Types
<1> QED
  BY <1>1, Invariant, PTL

LEMMA InvNotStale ==
  ASSUME IInv, LockedCallers
  PROVE  NoStaleDevice
<1>1. TypeOK /\ Types /\ QueuedFit /\ InHand("main") /\ "main" \in Threads
  BY DEF IInv, QueueInv, Types, Array, Hands, Threads
<1>2. DOMAIN Queued = 1 .. Len(Queued)
  <2>1. Queued \in Seq(Buckets)
    BY <1>1, QueuedIs
  <2> QED
    BY <2>1
<1>3. \A i \in DOMAIN Queued : NotGone(Queued[i])
  BY <1>1, <1>2 DEF QueuedFit
<1>4. ASSUME At("main", "handle")
      PROVE  NotGone(Top("main").ev)
  <2>1. calls["main"] # <<>> /\ Top("main").fn = "handle"
    BY <1>4 DEF At
  <2>2. Top("main") \in Loads(calls["main"])
    BY <1>1, <2>1, TopType, LoadsPart DEF Loud
  <2> QED
    BY <1>1, <2>1, <2>2 DEF InHand, Fits
<1> QED
  BY <1>3, <1>4 DEF NoStaleDevice, NotGone

\* No event outlives its device, in the queue or on its way to a handler, if callers hold
\* the lock (config.c:86).
THEOREM StaleFree ==
  ASSUME LockedCallers
  PROVE  Spec => []NoStaleDevice
<1>1. IInv => NoStaleDevice
  BY InvNotStale
<1> QED
  BY <1>1, Invariant, PTL

\* Only mieqEnqueue moves the tail or the array.
LEMMA OthersKeep ==
  ASSUME [Next]_vars, \A u \in Threads : ~Enqueue(u) /\ ~Store(u)
  PROVE  UNCHANGED <<tail, nevents, events>>
BY DEF Next, MainRuns, InputRuns, Runs, Threads, Lock, Unlock, Drain, Handle, Move, Check,
       Request, DeviceOff, DeviceOn, CloseDevice, Switches, Remove, PollWakes, PollReturns,
       Read, FillPipe, InputReady, InputPollReturns, vars, eq

\* mieqEnqueue is not interrupted between the choice of a bucket and its use, if callers
\* hold the lock (mieq.c:212).
THEOREM NotInterrupted ==
  ASSUME LockedCallers
  PROVE  Spec => Uninterrupted
<1>1. ASSUME IInv, [Next]_vars, NEW t \in Threads, At(t, "store"), calls'[t] = calls[t]
      PROVE  UNCHANGED <<tail, nevents, events>>
  <2>1. Types /\ calls[t] # <<>> /\ Posts(Top(t)) /\ Top(t).fn = "store"
    BY <1>1 DEF IInv, At, Posts
  <2>2. ASSUME NEW u \in Threads, Enqueue(u) \/ Store(u)
        PROVE  FALSE
    <3>1. calls[u] # <<>> /\ Posts(Top(u))
      BY <2>2 DEF Enqueue, Store, At, Posts
    <3>2. u = t
      BY <1>1, <3>1, Poster
    <3>3. Continue(t, <<>>)
      BY <2>1, <2>2, <3>2 DEF Enqueue, Store, At
    <3>4. calls[t] \in Seq(WellFormed) /\ calls'[t] = Tail(calls[t])
      BY <2>1, <3>3, Pop
    <3>5. Len(calls[t]) \in Nat \ {0} /\ Len(Tail(calls[t])) = Len(calls[t]) - 1
      BY <2>1, <3>4, EmptySeq, LenProperties, HeadTailProperties
    <3>6. Len(Tail(calls[t])) = Len(calls[t])
      BY <1>1, <3>4
    <3> QED
      BY <3>5, <3>6
  <2> QED
    BY <1>1, <2>2, OthersKeep
<1>2. IInv /\ [Next]_vars =>
        [\A t \in Threads : At(t, "store") /\ calls'[t] = calls[t] =>
           UNCHANGED <<tail, nevents, events>>]_vars
  BY <1>1
<1> QED
  BY <1>2, Invariant, PTL DEF Spec, Uninterrupted

-----------------------------------------------------------------------------
(*****************************************************************************)
(* The array is a queue.                                                     *)
(*****************************************************************************)

\* Sizes of the array stay within memory, and reach its limit.
LEMMA SizedFacts ==
  ASSUME IInv, LockedCallers
  PROVE  /\ nevents \in Nat /\ nevents <= MaxBuckets
         /\ 2 * nevents > MaxBuckets => nevents = MaxBuckets
<1>1. Sized /\ nevents \in Nat
  BY DEF IInv, QueueInv, Array, Types, TypeOK
<1>2. PICK sizes \in SUBSET (InitialSize .. MaxBuckets) : Doubling(sizes)
  BY QueueAssumption
<1>3. nevents \in sizes /\ (nevents < MaxBuckets => 2 * nevents \in sizes)
  BY <1>1, <1>2 DEF Sized, Doubling
<1>4. \A n \in sizes : n \in Nat /\ n <= MaxBuckets
  BY <1>2, QueueAssumption
<1> QED
  BY <1>1, <1>3, <1>4, QueueAssumption

\* lastMotion says whether the event at the end is motion, and of which device.
LEMMA MergesAbstract ==
  ASSUME IInv, LockedCallers, NEW e \in Event
  PROVE  Merges(e) <=> Queue!Merges(e)
<1>1. TypeOK /\ LastKnown
  BY DEF IInv, QueueInv, Array, Types
<1>2. Queued = <<>> <=> head = tail
  BY <1>1, QueuedIs
<1>3. e.dev # NoDevice
  BY QueueAssumption DEF Event
<1>4. CASE Queued = <<>>
  BY <1>2, <1>4 DEF Merges, Queue!Merges
<1>5. CASE Queued # <<>>
  BY <1>1, <1>2, <1>3, <1>5 DEF Merges, Queue!Merges, LastKnown
<1> QED
  BY <1>4, <1>5

LEMMA StoreAbstract ==
  ASSUME IInv, LockedCallers, NEW t \in Threads, Store(t)
  PROVE  Queue!Next
<1> DEFINE e == Top(t).ev
<1>1. e \in Event /\ Queued \in Seq(Buckets)
  BY StoreQueued
<1>2. IF Merges(e) THEN Queued # <<>> /\ Queued' = LastReplaced(Queued, e)
                   ELSE ~Full /\ Queued' = Append(Queued, e)
  BY StoreQueued
<1>3. entered' = entered \cup {e.id} /\ taken' = taken /\ e.id \notin entered
  <2>1. calls[t] # <<>> /\ Posts(Top(t))
    BY DEF Store, At, Posts
  <2> QED
    BY <2>1, Poster DEF Store, Posted
<1> HIDE DEF e
<1>4. Queue!Enters(e)
  BY <1>3 DEF Queue!Enters
<1>5. CASE Merges(e)
  <2>1. Queue!Merge(e)
    BY <1>1, <1>2, <1>4, <1>5, MergesAbstract DEF Queue!Merge, LastReplaced
  <2> QED
    BY <1>1, <2>1 DEF Queue!Next
<1>6. CASE ~Merges(e)
  <2>1. TypeOK
    BY DEF IInv, Types
  <2>2. Len(Queued) = NumEnqueued /\ NumEnqueued \in 0 .. nevents - 1
    BY <2>1, QueuedIs
  <2>3. Len(Queued) < MaxBuckets - 1
    BY <1>2, <1>6, <2>2, SizedFacts, QueueAssumption DEF Full
  <2>4. Queue!Put(e)
    BY <1>1, <1>2, <1>4, <1>6, <2>3, MergesAbstract DEF Queue!Put
  <2> QED
    BY <1>1, <2>4 DEF Queue!Next
<1> QED
  BY <1>5, <1>6

LEMMA DropAbstract ==
  ASSUME IInv, LockedCallers, NEW t \in Threads, At(t, "enqueue"),
         ~Merges(Top(t).ev), Full, 2 * nevents > MaxBuckets,
         entered' = entered \cup {Top(t).ev.id}, UNCHANGED <<eq, taken>>
  PROVE  Queue!Next
<1> DEFINE e == Top(t).ev
<1>1. calls[t] # <<>> /\ Posts(Top(t)) /\ TypeOK /\ Types
  BY DEF At, Posts, IInv, Types
<1>2. e \in Event /\ e.id \notin entered
  BY <1>1, Poster, TopType DEF Posted
<1>3. Queue!Enters(e)
  BY <1>2 DEF Queue!Enters
<1>4. Len(Queued) >= MaxBuckets - 1
  <2>1. Len(Queued) = NumEnqueued /\ NumEnqueued \in 0 .. nevents - 1
    BY <1>1, QueuedIs
  <2> QED
    BY <2>1, SizedFacts, QueueAssumption DEF Full
<1>5. Queued' = Queued
  BY DEF eq, Queued, NumEnqueued
<1>6. ~Queue!Merges(e)
  BY <1>2, MergesAbstract
<1>7. Queue!Lose(e)
  BY <1>3, <1>4, <1>5, <1>6 DEF Queue!Lose
<1> QED
  BY <1>2, <1>7 DEF Queue!Next

LEMMA EnqueueAbstract ==
  ASSUME IInv, LockedCallers, NEW t \in Threads, Enqueue(t)
  PROVE  Queue!Next \/ UNCHANGED Queue!vars
<1>1. At(t, "enqueue") /\ UNCHANGED <<lock, wake, device, clock, taken>>
  BY DEF Enqueue
<1>2. CASE UNCHANGED <<eq, entered>>
  BY <1>1, <1>2 DEF eq, Queued, NumEnqueued, Queue!vars
<1>3. CASE /\ ~Merges(Top(t).ev) /\ Full /\ 2 * nevents <= MaxBuckets
           /\ events' = Grown /\ nevents' = 2 * nevents
           /\ head' = 0 /\ tail' = NumEnqueued
           /\ StoreAt(t, NumEnqueued)
           /\ UNCHANGED <<lastMotion, lastEventTime, entered>>
  <2>1. Queued' = Queued
    BY <1>1, <1>3, EnqueueGrows
  <2> QED
    BY <1>1, <1>3, <2>1 DEF Queue!vars
<1>4. CASE /\ ~Merges(Top(t).ev) /\ Full /\ 2 * nevents > MaxBuckets
           /\ entered' = entered \cup {Top(t).ev.id}
           /\ Continue(t, <<>>)
           /\ UNCHANGED eq
  BY <1>1, <1>4, DropAbstract
<1> QED
  BY <1>2, <1>3, <1>4 DEF Enqueue

LEMMA DrainAbstract ==
  ASSUME IInv, Drain
  PROVE  Queue!Next \/ UNCHANGED Queue!vars
<1>1. CASE head = tail
  BY <1>1 DEF Drain, Queued, NumEnqueued, Queue!vars
<1>2. CASE head # tail
  BY <1>2, DrainTake DEF Queue!Next, Queue!Take
<1> QED
  BY <1>1, <1>2

\* Nothing else touches the queue.
LEMMA OthersAbstract ==
  ASSUME [Next]_vars, ~Drain, \A u \in Threads : ~Enqueue(u) /\ ~Store(u)
  PROVE  UNCHANGED Queue!vars
<1>1. UNCHANGED <<head, tail, nevents, events, entered, taken>>
  BY DEF Next, MainRuns, InputRuns, Runs, Threads, Lock, Unlock, Handle, Move, Check,
         Request, DeviceOff, DeviceOn, CloseDevice, Switches, Remove, PollWakes, PollReturns,
         Read, FillPipe, InputReady, InputPollReturns, vars, eq
<1> QED
  BY <1>1 DEF Queued, NumEnqueued, Queue!vars

\* The array, its growth and the lock make a queue: MiEq implements EventQueue, if callers
\* hold the lock.
THEOREM IsQueue ==
  ASSUME LockedCallers
  PROVE  Spec => Implements
<1>1. Init => Queue!Init
  <2>1. SUFFICES ASSUME Init
                 PROVE  Queue!Init
    OBVIOUS
  <2>2. entered = {} /\ taken = NoEvent
    BY <2>1 DEF Init
  <2> QED
    BY <2>1, <2>2, IInit, QueueAssumption DEF Queue!Init
<1>2. IInv /\ [Next]_vars => [Queue!Next]_(Queue!vars)
  <2>1. SUFFICES ASSUME IInv, [Next]_vars
                 PROVE  Queue!Next \/ UNCHANGED Queue!vars
    OBVIOUS
  <2>2. CASE Drain
    BY <2>1, <2>2, DrainAbstract
  <2>3. ASSUME NEW t \in Threads, Enqueue(t)
        PROVE  Queue!Next \/ UNCHANGED Queue!vars
    BY <2>1, <2>3, EnqueueAbstract
  <2>4. ASSUME NEW t \in Threads, Store(t)
        PROVE  Queue!Next
    BY <2>1, <2>4, StoreAbstract
  <2> QED
    BY <2>1, <2>2, <2>3, <2>4, OthersAbstract
<1> QED
  BY <1>1, <1>2, Invariant, PTL DEF Spec, Implements, Queue!Spec
=============================================================================
