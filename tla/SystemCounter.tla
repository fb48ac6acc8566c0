---------------------------- MODULE SystemCounter ----------------------------
(***************************************************************************)
(* A system counter of the Sync extension (Xext/sync.c), IDLETIME or       *)
(* SERVERTIME, with the alarms and awaits of clients on it.                *)
(*                                                                         *)
(* The counter moves by itself: the server's copy of its value follows     *)
(* when somebody asks.  So that a trigger is noticed when it comes true,   *)
(* the counter keeps the nearest test values on each side of its value,    *)
(* its brackets; a block handler lets poll sleep until one is reached, and *)
(* a wakeup handler then changes the counter and with it checks the list   *)
(* of triggers.  IDLETIME starts anew at each input event.                 *)
(*                                                                         *)
(* An alarm that goes off adds its delta to its test value, as often as it *)
(* takes, or becomes inactive; an await is gone and its client goes on.    *)
(***************************************************************************)
EXTENDS Integers, FiniteSets, SequencesExt

CONSTANTS
  Alarms, Awaits,  (* the triggers there may be                              *)
  Values, Deltas,  (* what is asked for                                      *)
  MaxInt,          (* INT64_MAX                                              *)
  MaxTime,         (* beyond it the counter's value makes no difference      *)
  Setups           (* what happens to it: see Setup                          *)

Triggers == Alarms \cup Awaits
Types    == {"PositiveComparison", "NegativeComparison", "PositiveTransition", "NegativeTransition"}
Positive == {"PositiveComparison", "PositiveTransition"}
Compares == {"PositiveComparison", "NegativeComparison"}

\* counter: which it is; types: the types of trigger; slow: whether time passes
\* while the server works; requests: the requests that the model makes besides:
\* change of alarms, stale ones that ask for the value before the wakeup handler
\* has noticed it, repeat, alarms with a delta that are true at once, and failing.
Setup == [counter : {"IDLETIME", "SERVERTIME"}, types : SUBSET Types, slow : BOOLEAN,
          requests : SUBSET {"change", "stale", "repeat", "failing"}]

\* No bracket: the handler was given a null pointer.
None == MaxInt + 1

ASSUME CounterAssumption ==
  /\ Alarms \cap Awaits = {}
  /\ MaxInt \in Nat /\ MaxTime \in 0 .. MaxInt
  /\ Values \subseteq 0 .. MaxInt /\ Deltas \subseteq -MaxInt .. MaxInt
  /\ Setups \subseteq Setup

VARIABLES
  setup,
  now,       (* what the counter is in truth                                *)
  reset,     (* there was input since the wakeup handler looked last        *)
  ctr,       (* the counter: its value, its list of triggers, its brackets  *)
  trig,      (* the triggers                                                *)
  loop,      (* where the event loop is                                     *)
  timeout,   (* of the poll: -1 is for ever                                 *)
  due        (* the triggers that have come true and have not fired since   *)

vars == <<setup, now, reset, ctr, trig, loop, timeout, due>>

Counter == [value : 0 .. MaxInt, list : Seq(Triggers),
            less : -MaxInt .. None, greater : -MaxInt .. None]
\* A trigger, with the type its CheckTrigger is for, and the state of its alarm.
Trigger == [state : {"free", "active", "inactive"}, on : BOOLEAN, type : Types, check : Types,
            test : -MaxInt .. MaxInt, delta : -MaxInt .. MaxInt]
Free == [state |-> "free", on |-> FALSE, type |-> "PositiveComparison",
         check |-> "PositiveComparison", test |-> 0, delta |-> 0]

Init ==
  /\ setup \in Setups
  /\ now = 0 /\ reset = FALSE
  /\ ctr = [value |-> 0, list |-> <<>>, less |-> None, greater |-> None]
  /\ trig = [t \in Triggers |-> Free]
  /\ loop = "dispatch" /\ timeout = 0
  /\ due = {}

-----------------------------------------------------------------------------
(***************************************************************************)
(* Triggers.  What a handler changes is a record of the counter, the       *)
(* triggers, the reset flag and who fired.                                 *)
(***************************************************************************)
State == [ctr |-> ctr, trig |-> trig, reset |-> reset, fired |-> {}]

\* The CheckTrigger functions.
Check(s, t, old) ==
  LET test == s.trig[t].test
      new  == s.ctr.value
  IN CASE s.trig[t].check = "PositiveComparison" -> new >= test
       [] s.trig[t].check = "NegativeComparison" -> new <= test
       [] s.trig[t].check = "PositiveTransition" -> old < test /\ new >= test
       [] s.trig[t].check = "NegativeTransition" -> old > test /\ new <= test

\* SyncComputeBracketValues: the test values above and below the value that the
\* triggers wait for.  SERVERTIME is said to never decrease.
Watches(s, t) ==
  setup.counter = "SERVERTIME" => s.trig[t].type \notin {"NegativeComparison", "PositiveTransition"}
Above(s, t) ==
  \/ s.trig[t].test > s.ctr.value
  \/ s.trig[t].test = s.ctr.value /\ s.trig[t].type = "PositiveTransition"
Below(s, t) ==
  \/ s.trig[t].test < s.ctr.value
  \/ s.trig[t].test = s.ctr.value /\ s.trig[t].type = "NegativeTransition"
Registered(c) == c.less # None \/ c.greater # None
ComputeBracketValues(s) ==
  LET listed  == {t \in Range(s.ctr.list) : Watches(s, t)}
      above   == {s.trig[t].test : t \in {t \in listed : Above(s, t)}} \ {MaxInt}
      below   == {s.trig[t].test : t \in {t \in listed : Below(s, t)}} \ {-MaxInt}
      c       == [s.ctr EXCEPT !.greater = IF above = {} THEN None ELSE Min(above),
                               !.less = IF below = {} THEN None ELSE Max(below)]
  IN [s EXCEPT !.ctr = c, !.reset = @ /\ (Registered(s.ctr) \/ ~Registered(c))]

\* SyncDeleteTriggerFromSyncObject and SyncAddTriggerToSyncObject
DeleteTrigger(s, t) ==
  IF ~s.trig[t].on THEN s
  ELSE ComputeBracketValues([s EXCEPT !.ctr.list = Remove(@, t), !.trig[t].on = FALSE])
AddTrigger(s, t) ==
  ComputeBracketValues([s EXCEPT !.ctr.list = <<t>> \o @, !.trig[t].on = TRUE])

\* Where delta takes the test value of an alarm: until its trigger is false, or out of range.
Steps(s, t, k) == s.trig[t].test + k * s.trig[t].delta
Settles(s, t, k) ==
  \/ Steps(s, t, k) \notin -MaxInt .. MaxInt
  \/ ~Check([s EXCEPT !.trig[t].test = Steps(s, t, k)], t, s.ctr.value)
NewTest(s, t) == Steps(s, t, Min({k \in 1 .. 2 * MaxInt + 1 : Settles(s, t, k)}))

Repeats(s, t) == s.trig[t].on /\ s.trig[t].delta # 0 /\ Check(s, t, s.ctr.value)

\* SyncAlarmTriggerFired
AlarmFired(s, t) ==
  LET ends == ~s.trig[t].on \/ (s.trig[t].delta = 0 /\ s.trig[t].type \in Compares)
      off  == [s EXCEPT !.trig[t].state = "inactive", !.fired = @ \cup {t}]
  IN IF s.trig[t].state # "active" THEN s
     ELSE IF ends \/ NewTest(s, t) \notin -MaxInt .. MaxInt THEN off
     ELSE [s EXCEPT !.trig[t].test = NewTest(s, t), !.fired = @ \cup {t}]

\* SyncAwaitTriggerFired: the await is freed.
Fired(s, t) ==
  IF t \in Alarms THEN AlarmFired(s, t)
  ELSE [DeleteTrigger(s, t) EXCEPT !.trig[t] = Free, !.fired = @ \cup {t}]

ChangeCounter_Only(s, new) ==
  FoldLeft(LAMBDA a, t : IF Check(a, t, s.ctr.value) THEN Fired(a, t) ELSE a,
           [s EXCEPT !.ctr.value = new], s.ctr.list)
\* SyncChangeCounter: the triggers are checked from the latest on the list.
CheckFired(s, t, old) == IF Check(s, t, old) THEN Fired(s, t) ELSE s
ChangeCounter(s, new) ==
  LET set == [s EXCEPT !.ctr.value = new]
  IN ComputeBracketValues(FoldLeft(LAMBDA a, t : CheckFired(a, t, s.ctr.value), set, s.ctr.list))

\* What a handler leaves.
Becomes(s) ==
  /\ ctr' = s.ctr /\ trig' = s.trig /\ reset' = s.reset
  /\ due' = {t \in due \ s.fired : s.trig[t].state = "active"}

-----------------------------------------------------------------------------
(***************************************************************************)
(* Requests.                                                               *)
(***************************************************************************)
\* Requests are made in dispatch; those that ask for the counter's value, before
\* the wakeup handler has noticed what has come true, in some setups only.
InDispatch ==
  /\ loop = "dispatch"
  /\ UNCHANGED <<setup, now, loop, timeout>>
Between == now < ctr.greater /\ (ctr.less = None \/ now > ctr.less)
Noticed == ~reset /\ (ctr.value = now \/ Between)
MayQuery == InDispatch /\ (Noticed \/ "stale" \in setup.requests)

\* QueryValue: the counter's value is set, and no trigger looks at it.
Queried(s) == [s EXCEPT !.ctr.value = now]

\* The attributes that a request gives, and the test value they make.
Attributes == [on : BOOLEAN, type : setup.types, value : Values, relative : BOOLEAN, delta : Deltas]
RightDelta(a) == IF a.type \in Positive THEN a.delta >= 0 ELSE a.delta <= 0
TestValue(a) == IF a.relative THEN now + a.value ELSE a.value
\* SyncInitTrigger fails if a value is relative to no counter, or out of range.
InRange(a) == a.relative => a.on /\ TestValue(a) <= MaxInt

\* SyncInitTrigger: the trigger gets its test value and function, and is put on
\* the list of its counter or taken off.
Register(s, t, on) ==
  CASE on /\ ~s.trig[t].on -> AddTrigger(s, t)
    [] ~on /\ s.trig[t].on -> DeleteTrigger(s, t)
    [] on /\ s.trig[t].on  -> ComputeBracketValues(s)
    [] OTHER               -> s
InitTrigger(s, t, a) ==
  LET q == IF a.on THEN Queried(s) ELSE s
  IN Register([q EXCEPT !.trig[t].check = a.type, !.trig[t].test = TestValue(a)], t, a.on)

\* A trigger that is true at once fires.
Starts(s, t) == IF ~s.trig[t].on \/ Check(s, t, s.ctr.value) THEN Fired(s, t) ELSE s

\* ProcSyncCreateAlarm: the alarm is active, unless it has no counter.
Given(t, type, delta) ==
  [State EXCEPT !.trig[t].state = "active", !.trig[t].type = type, !.trig[t].delta = delta]
CreateAlarm ==
  /\ MayQuery
  /\ \E t \in Alarms, a \in Attributes :
       /\ trig[t].state = "free" /\ a.on /\ RightDelta(a) /\ InRange(a)
       /\ LET s == InitTrigger(Given(t, a.type, a.delta), t, a)
          IN /\ Repeats(s, t) => "repeat" \in setup.requests
             /\ Becomes(Starts(s, t))

\* ProcSyncChangeAlarm; an attribute that is not given keeps its value.  The alarm
\* has the type and the delta of a request that fails in SyncInitTrigger.
ChangeAlarm ==
  /\ MayQuery /\ "change" \in setup.requests
  /\ \E t \in Alarms, a \in Attributes :
       /\ trig[t].state # "free" /\ RightDelta(a)
       /\ IF InRange(a)
          THEN LET s == InitTrigger(Given(t, a.type, a.delta), t, a)
               IN /\ Repeats(s, t) => "repeat" \in setup.requests
                  /\ Becomes(Starts(s, t))
          ELSE /\ "failing" \in setup.requests
               /\ Becomes([Given(t, a.type, a.delta) EXCEPT
                              !.trig[t].state = trig[t].state,
                              !.ctr.value = IF a.on THEN now ELSE @])

\* ProcSyncAwait, of one condition; its client sleeps until it fires.
Await ==
  /\ MayQuery
  /\ \E t \in Awaits, a \in Attributes :
       /\ trig[t].state = "free" /\ a.on /\ a.delta = 0 /\ InRange(a)
       /\ Becomes(Starts(InitTrigger(Given(t, a.type, 0), t, a), t))

\* ProcSyncDestroyAlarm, or the client is gone.
Destroy ==
  /\ InDispatch
  /\ \E t \in Triggers :
       /\ trig[t].state # "free"
       /\ Becomes([DeleteTrigger(State, t) EXCEPT !.trig[t] = Free])

\* ProcSyncQueryCounter
QueryCounter == MayQuery /\ Becomes(Queried(State))

-----------------------------------------------------------------------------
(***************************************************************************)
(* The event loop.                                                         *)
(***************************************************************************)
\* Some trigger would fire if the counter were set to what it is.
WouldFire == \E t \in Range(ctr.list) : Check(Queried(State), t, ctr.value)

IdleDelay_OnlyBelow ==
  IF ctr.less # None /\ now > ctr.less THEN -1
  ELSE IF ctr.greater # None /\ now < ctr.greater THEN ctr.greater - now ELSE -1
\* IdleTimeBlockHandler and ServertimeBlockHandler: how long the poll may take.
IdleDelay ==
  IF ctr.less # None /\ now > ctr.less /\ reset THEN 0
  ELSE IF ctr.less # None /\ now <= ctr.less
       THEN IF WouldFire THEN 0 ELSE IF now = ctr.less THEN 1 ELSE -1
  ELSE IF ctr.greater # None
       THEN IF now < ctr.greater THEN ctr.greater - now ELSE IF WouldFire THEN 0 ELSE -1
  ELSE -1
ServerDelay ==
  IF ctr.greater = None THEN -1
  ELSE IF now >= ctr.greater THEN 0 ELSE ctr.greater - now

BlockHandler ==
  /\ loop = "dispatch"
  /\ loop' = "poll"
  /\ timeout' = IF setup.counter = "IDLETIME" THEN IdleDelay ELSE ServerDelay
  /\ UNCHANGED <<setup, now, reset, ctr, trig, due>>

\* IdleTimeCheckBrackets
CheckBrackets(s, less, greater, idle) ==
  IF (greater # None /\ idle >= greater) \/ (less # None /\ idle <= less)
  THEN ChangeCounter(s, idle)
  ELSE [s EXCEPT !.ctr.value = idle]

Zeroed_Not(s) == [s EXCEPT !.reset = FALSE]
Zeroed_Always(s) ==
  IF now # 0 THEN CheckBrackets([s EXCEPT !.reset = FALSE], s.ctr.less, s.ctr.greater, 0) ELSE s
\* IdleTimeWakeupHandler: if there was input the counter has been 0 since.
Zeroed(s) ==
  IF s.reset /\ now # 0
  THEN CheckBrackets([s EXCEPT !.reset = FALSE], s.ctr.less, s.ctr.greater, 0)
  ELSE [s EXCEPT !.reset = FALSE]
IdleWakeup(s) ==
  IF ~Registered(s.ctr) THEN s
  ELSE LET z == Zeroed(s) IN CheckBrackets(z, z.ctr.less, z.ctr.greater, now)
ServerWakeup(s) ==
  IF s.ctr.greater # None /\ now >= s.ctr.greater THEN ChangeCounter(s, now) ELSE s

\* The poll is over, for the time or for something else, and the handlers run.
WakeupHandler ==
  /\ loop = "poll"
  /\ loop' = "woken"
  /\ Becomes(IF setup.counter = "IDLETIME" THEN IdleWakeup(State) ELSE ServerWakeup(State))
  /\ UNCHANGED <<setup, now, timeout>>

Dispatch ==
  /\ loop = "woken"
  /\ loop' = "dispatch"
  /\ UNCHANGED <<setup, now, reset, ctr, trig, timeout, due>>

\* Time passes: who waits for a value that is reached comes true.
Crosses(t, old, new) ==
  trig[t].state = "active" /\ trig[t].on /\
    (IF trig[t].type \in Positive THEN old < trig[t].test /\ new >= trig[t].test
     ELSE old > trig[t].test /\ new <= trig[t].test)
Tick ==
  /\ \/ loop = "poll" /\ timeout # 0
     \/ loop \in {"poll", "dispatch"} /\ setup.slow
  /\ now < MaxTime
  /\ now' = now + 1
  /\ timeout' = IF loop = "poll" /\ timeout > 0 THEN timeout - 1 ELSE timeout
  /\ due' = due \cup {t \in Triggers : Crosses(t, now, now + 1)}
  /\ UNCHANGED <<setup, reset, ctr, trig, loop>>

\* NoticeTime: an input event is processed, some time after it was made.  What
\* has come true since by idling has not.
Input ==
  /\ loop = "dispatch" /\ setup.counter = "IDLETIME"
  /\ \E age \in 0 .. (IF setup.slow THEN now ELSE 0) :
       /\ now' = age
       /\ due' = {t \in due : trig[t].type \notin Positive}
                   \cup {t \in Triggers : Crosses(t, ctr.value, 0) \/ Crosses(t, 0, age)}
  /\ reset' = TRUE
  /\ UNCHANGED <<setup, ctr, trig, loop, timeout>>

Next ==
  \/ CreateAlarm \/ ChangeAlarm \/ Await \/ Destroy \/ QueryCounter
  \/ BlockHandler \/ WakeupHandler \/ Dispatch \/ Tick \/ Input
Spec == Init /\ [][Next]_vars

-----------------------------------------------------------------------------
\* The state has the types above.
TypeOK ==
  /\ setup \in Setups /\ now \in 0 .. MaxTime /\ reset \in BOOLEAN
  /\ ctr \in Counter /\ trig \in [Triggers -> Trigger]
  /\ loop \in {"dispatch", "poll", "woken"} /\ timeout \in -1 .. MaxInt
  /\ due \subseteq Triggers

Waiting == {t \in Triggers : trig[t].state = "active" /\ trig[t].on}
IsTrue(t) == trig[t].type \in Compares /\ Check(Queried(State), t, now)

\* After the wakeup handlers every trigger that has come true has fired, and no
\* comparison is true that is waited for (SyncChangeCounter, IdleTimeCheckBrackets
\* and the reset flag, against the time that passes before they run).
Served ==
  /\ TypeOK
  /\ loop = "woken" => due = {} /\ \A t \in Waiting : ~IsTrue(t)

\* After the wakeup handlers the brackets let no test value pass unnoticed: none
\* that is waited for lies between a bracket and the counter's value (all the
\* places that have to call SyncComputeBracketValues).
BracketsCover ==
  loop = "woken" => \A t \in Waiting :
    LET test == trig[t].test
    IN /\ test \in now + 1 .. MaxInt - 1 => ctr.greater <= test
       /\ test \in 1 - MaxInt .. now - 1 /\ setup.counter = "IDLETIME" => ctr.less \in test .. MaxInt

\* A wakeup handler fires only what has come true since it last fired: not for
\* the counter's way to zero and back, nor twice for one crossing.
NotSpurious ==
  [][loop = "poll" /\ loop' = "woken" =>
       \A t \in Triggers : trig'[t] # trig[t] => t \in due]_vars

\* The poll does not sleep past a threshold in the positive direction that a
\* trigger waits for (the block handlers).
SleepsRight ==
  loop = "poll" => \A t \in Waiting :
    trig[t].type \in Positive /\ trig[t].test \in now + 1 .. MaxInt - 1 => timeout \in 0 .. trig[t].test - now

\* The same, but for what IdleTimeBlockHandler does sleep past: the time from
\* when the counter leaves its brackets to when a wakeup handler sees it.
WakesInTime == setup.counter = "SERVERTIME" \/ (~reset /\ Between) => SleepsRight
=============================================================================
