-------------------------------- MODULE Timers --------------------------------
(***************************************************************************)
(* The timers of the server (os/WaitFor.c) under its event loop.           *)
(*                                                                         *)
(* The timers that are set are on a list, in the order in which they       *)
(* expire.  The event loop runs the callbacks of those whose time has      *)
(* come, lets the block handlers run, and sleeps in poll until the next    *)
(* one's time, or until there is something else to handle.  A callback may *)
(* set, cancel, free and force timers, its own and others; what it         *)
(* returns, if not 0, sets its own again.                                  *)
(*                                                                         *)
(* Times are milliseconds in a CARD32, counted modulo U32 and compared by  *)
(* the sign of their difference.  The clock may be set back.               *)
(***************************************************************************)
EXTENDS Integers, FiniteSets, SequencesExt

CONSTANTS
  TimerIds,     (* the timers there may be                                   *)
  U32,          (* the modulus of CARD32                                     *)
  Slack,        (* the 250 ms of check_timers and CheckAllTimers             *)
  Starts,       (* what the clock may show at first                          *)
  Millis,       (* the delays that are asked for                             *)
  Rewinds,      (* by how much the clock may be set back, once               *)
  MaxWork,      (* how late the server may be for a timer because it works,  *)
                (* and for how long block handlers may                        *)
  MaxLate,      (* how late it may be because it sleeps                      *)
  MaxCalls      (* how many calls are made besides what callbacks return     *)

Half  == U32 \div 2
Times == 0 .. U32 - 1

ASSUME TimersAssumption ==
  /\ U32 \in Nat \ {0} /\ U32 % 2 = 0
  /\ Slack \in Nat /\ MaxLate \in 0 .. U32 - 1 /\ MaxWork \in 0 .. MaxLate
  /\ MaxCalls \in Nat
  /\ Starts \subseteq Times /\ Millis \subseteq Times \ {0} /\ Rewinds \subseteq Times
  \* Times are compared over less than half of their range: no delay comes near
  \* the 24 days of it, even with what the clock is set back by.
  /\ MaxLate < Half /\ \A m \in Millis, d \in Rewinds \cup {0} : m + d + MaxLate < Half

VARIABLES
  timers,     (* the list: what expires when, and was set for how long; and  *)
              (* how long it has yet to wait in truth, whatever the clock    *)
              (* says                                                        *)
  freed,      (* the timers that were freed                                  *)
  clock,      (* what GetTimeInMillis returns                                *)
  rewound,    (* the clock was set back                                      *)
  loop,       (* where the event loop is                                     *)
  timeout,    (* of the poll: -1 is for ever                                 *)
  unseen,     (* the timers that were set since the timeout was computed     *)
  spent,      (* for how long block handlers have run since then             *)
  stack,      (* the calls in progress, innermost first                      *)
  calls       (* how many calls were made                                    *)

time == <<clock, rewound>>
wait == <<loop, timeout>>
since == <<unseen, spent>>
vars == <<timers, freed, time, wait, since, stack, calls>>

Entry == [of : TimerIds, expires : Times, delta : Times, left : -U32 .. U32]
Frame == [fn : {"callback"}, of : TimerIds, early : BOOLEAN]
           \cup [fn : {"do_timers"}, now : Times] \cup [fn : {"check_all"}]

\* The difference of two times as a CARD32, and as an int.
Diff(a, b)   == (a - b) % U32
Signed(a, b) == IF Diff(a, b) < Half THEN Diff(a, b) ELSE Diff(a, b) - U32

Top         == Head(stack)
Running(fn) == stack # <<>> /\ Top.fn = fn
First       == Head(timers)
Where(t)    == {i \in DOMAIN timers : timers[i].of = t}
Pending(t)  == Where(t) # {}

Init ==
  /\ timers = <<>> /\ freed = {}
  /\ clock \in Starts /\ rewound = FALSE
  /\ loop = "check" /\ timeout = 0
  /\ unseen = {} /\ spent = 0
  /\ stack = <<>>
  /\ calls = 0

-----------------------------------------------------------------------------
(***************************************************************************)
(* The calls.                                                              *)
(***************************************************************************)
\* A timer is taken off the list where it is (xorg_list_del).
Unset(list, t) ==
  LET at == {i \in DOMAIN list : list[i].of = t}
  IN IF at = {} THEN list ELSE RemoveAt(list, CHOOSE i \in at : TRUE)

\* The callback of an entry runs, before its time unless it is forced.
Call(e, forced) ==
  [fn |-> "callback", of |-> e.of, early |-> e.left > 0 /\ ~forced]

\* DoTimer: the timer is off the list when its callback runs.
DoTimer(list, e, forced, rest) ==
  /\ timers' = Unset(list, e.of)
  /\ stack' = <<Call(e, forced)>> \o rest

\* TimerSet: it goes before the first that expires later, and runs at once if
\* its time has come.
Later(e, expires) == Signed(e.expires, expires) > 0
Place(list, expires) ==
  LET later == {i \in DOMAIN list : Later(list[i], expires)}
  IN IF later = {} THEN Len(list) + 1 ELSE Min(later)

Sort(t) == Unset(timers, t)
SetTimer(t, expires, left, rest) ==
  LET e    == [of |-> t, expires |-> expires, delta |-> Diff(expires, clock), left |-> left]
      list == Sort(t)
      set  == InsertAt(list, Place(list, expires), e)
  IN IF Signed(expires, clock) <= 0 THEN DoTimer(set, e, FALSE, rest)
     ELSE timers' = set /\ stack' = rest
\* The timeout of the poll does not know of a timer that is set after it.
Blocks == loop = "block" /\ timeout # 0
Overlooks(t) == unseen' = IF Blocks THEN unseen \cup {t} ELSE unseen
SetRelative(t, millis, rest) == SetTimer(t, (clock + millis) % U32, millis, rest)

\* Calls are made by callbacks, by what the event loop dispatches, and by block
\* handlers.
MayCall ==
  /\ \/ Running("callback")
     \/ stack = <<>> /\ loop \in {"handler", "block"}
  /\ calls < MaxCalls
  /\ calls' = calls + 1
  /\ UNCHANGED <<wait, time, spent>>

TimerSet ==
  /\ MayCall
  /\ \E t \in TimerIds \ freed, millis \in Millis :
       /\ Overlooks(t)
       /\ \/ SetRelative(t, millis, stack)
          \/ LET ago     == MaxWork + 1
                 expires == (clock - ago + millis) % U32
             IN expires # 0 /\ SetTimer(t, expires, millis - ago, stack)
  /\ UNCHANGED freed

\* TimerCancel; TimerSet with a delay of 0, or an absolute time that happens to
\* be 0.
TimerCancel ==
  /\ MayCall
  /\ \E t \in TimerIds \ freed : Pending(t) /\ timers' = Unset(timers, t)
  /\ UNCHANGED <<freed, unseen, stack>>

Unlink_Not(list, t) == list
Unlink(list, t) == Unset(list, t)
TimerFree ==
  /\ MayCall
  /\ \E t \in TimerIds \ freed :
       /\ timers' = Unlink(timers, t)
       /\ freed' = freed \cup {t}
  /\ UNCHANGED <<unseen, stack>>

TimerForce ==
  /\ MayCall
  /\ \E t \in TimerIds \ freed, i \in DOMAIN timers :
       timers[i].of = t /\ DoTimer(timers, timers[i], TRUE, stack)
  /\ UNCHANGED <<freed, unseen>>

\* The callback returns 0, or the delay after which it is to run again, unless
\* it has freed its timer.
CallbackReturns ==
  /\ Running("callback")
  /\ \/ stack' = Tail(stack) /\ UNCHANGED <<timers, unseen>>
     \/ /\ Top.of \notin freed /\ Overlooks(Top.of)
        /\ \E millis \in Millis : SetRelative(Top.of, millis, Tail(stack))
  /\ UNCHANGED <<freed, wait, time, calls, spent>>

-----------------------------------------------------------------------------
(***************************************************************************)
(* The event loop.                                                         *)
(***************************************************************************)
\* The clock was set back: it takes longer until the timer than it was set for.
Sane_Always(e) == TRUE
Sane(e)        == Signed(e.expires, clock) < e.delta + Slack
Affected(e)    == Diff(e.expires, clock) > e.delta + Slack

\* check_timers
CheckTimers ==
  /\ loop = "check" /\ stack = <<>>
  /\ loop' = "block"
  /\ unseen' = {} /\ spent' = 0
  /\ IF timers = <<>> THEN timeout' = -1 /\ UNCHANGED stack
     ELSE IF Signed(First.expires, clock) <= 0
          THEN timeout' = 0 /\ stack' = <<[fn |-> "do_timers", now |-> clock]>>
     ELSE IF Sane(First) THEN timeout' = Signed(First.expires, clock) /\ UNCHANGED stack
     ELSE timeout' = 0 /\ stack' = <<[fn |-> "check_all"]>>
  /\ UNCHANGED <<timers, freed, time, calls>>

\* DoTimers: the time was read before the first callback ran.
Due_All(e, now) == TRUE
Due_Unsigned(e, now) == Diff(e.expires, now) <= 0
Due(e, now) == Signed(e.expires, now) <= 0
DoTimers ==
  /\ Running("do_timers")
  /\ IF timers # <<>> /\ Due(First, Top.now) THEN DoTimer(timers, First, FALSE, stack)
     ELSE stack' = Tail(stack) /\ UNCHANGED timers
  /\ UNCHANGED <<freed, wait, since, time, calls>>

\* CheckAllTimers: after each callback the time is read and the walk starts anew.
CheckAllTimers ==
  /\ Running("check_all")
  /\ LET affected == {i \in DOMAIN timers : Affected(timers[i])}
     IN IF affected # {} THEN DoTimer(timers, timers[Min(affected)], FALSE, stack)
        ELSE stack' = Tail(stack) /\ UNCHANGED timers
  /\ UNCHANGED <<freed, wait, since, time, calls>>

\* The poll ends because its time is up, or because there is something to handle.
Moves(from, to) ==
  /\ loop = from /\ stack = <<>>
  /\ loop' = to
  /\ UNCHANGED <<timers, freed, time, stack, calls>>
Poll           == Moves("block", "poll") /\ UNCHANGED <<timeout, since>>
PollEnds(to)   == Moves("poll", to) /\ timeout' = 0 /\ unseen' = {} /\ spent' = 0
PollTimesOut   == timeout = 0 /\ PollEnds("check")
PollWakes      == PollEnds("handler")
HandlerReturns == Moves("handler", "check") /\ UNCHANGED <<timeout, since>>

\* A millisecond passes, in poll or while the server works.
Tick ==
  /\ stack = <<>> \/ Running("callback")
  /\ loop = "poll" => timeout # 0
  /\ \A i \in DOMAIN timers :
       Signed(timers[i].expires, clock) > -(IF loop = "poll" THEN MaxLate ELSE MaxWork)
  /\ \A i \in DOMAIN stack : stack[i].fn = "do_timers" => Diff(clock, stack[i].now) < MaxWork
  /\ Blocks => spent < MaxWork
  /\ clock' = (clock + 1) % U32
  /\ timers' = [i \in DOMAIN timers |-> [timers[i] EXCEPT !.left = @ - 1]]
  /\ timeout' = IF loop = "poll" /\ timeout > 0 THEN timeout - 1 ELSE timeout
  /\ spent' = IF Blocks THEN spent + 1 ELSE spent
  /\ UNCHANGED <<freed, loop, unseen, stack, calls, rewound>>

\* The clock is set back.
Rewind ==
  /\ loop = "handler" /\ stack = <<>> /\ ~rewound
  /\ \E d \in Rewinds : clock' = (clock - d) % U32
  /\ rewound' = TRUE
  /\ UNCHANGED <<timers, freed, wait, since, stack, calls>>

Server ==
  \/ CallbackReturns \/ CheckTimers \/ DoTimers \/ CheckAllTimers \/ Poll \/ PollTimesOut
  \/ HandlerReturns
Next ==
  \/ Server \/ TimerSet \/ TimerCancel \/ TimerFree \/ TimerForce
  \/ PollWakes \/ Tick \/ Rewind

Spec == Init /\ [][Next]_vars
\* The server goes on and time passes; nothing need ever wake it.
FairSpec == Spec /\ WF_vars(Server) /\ SF_vars(Tick)

-----------------------------------------------------------------------------
TypeOK ==
  /\ timers \in Seq(Entry)
  /\ freed \subseteq TimerIds /\ clock \in Times /\ rewound \in BOOLEAN
  /\ loop \in {"check", "block", "poll", "handler"} /\ timeout \in -1 .. Half - 1
  /\ unseen \subseteq TimerIds /\ spent \in 0 .. MaxWork
  /\ stack \in Seq(Frame)
  /\ calls \in 0 .. MaxCalls

\* Whatever callbacks do to the list under its walks, and when the times wrap:
\* a timer is on the list once, none that was freed is, and they are in the
\* order in which they expire.
Linked ==
  /\ \A i, j \in DOMAIN timers : timers[i].of = timers[j].of => i = j
  /\ \A i \in DOMAIN timers : timers[i].of \notin freed
Sorted ==
  \A i, j \in DOMAIN timers : i < j => Signed(timers[j].expires, timers[i].expires) >= 0
ListHolds == TypeOK /\ Linked /\ Sorted

\* No callback runs before its time, unless it is forced to or the clock was
\* set back.
NotEarly == \A i \in DOMAIN stack : stack[i].fn = "callback" /\ stack[i].early => rewound

\* The poll does not sleep longer than timers are set for, whatever the clock says,
\* and not past a timer that it knows of, as long as the clock is right, except for
\* what block handlers have taken.
SleepsRight ==
  loop = "poll" /\ timeout # 0 =>
    /\ timeout = -1 \/ \E m \in Millis : timeout < m + Slack
    /\ \A i \in DOMAIN timers :
         timers[i].of \in unseen
           \/ (timeout > 0 /\ (rewound \/ timeout <= timers[i].left + spent))

\* A timer that is set runs, or is set anew or cancelled, though nothing wakes
\* the server and the clock is set back, unless the poll does not know of it.
Fires == \A t \in TimerIds : Pending(t) ~> ~Pending(t) \/ (loop = "poll" /\ t \in unseen)

\* "A callback function will be called when the timer fires" (Xserver-spec.xml),
\* even if nothing else happens.  No run checks it: it fails.
CallbackCalled == \A t \in TimerIds : Pending(t) ~> ~Pending(t)
=============================================================================
