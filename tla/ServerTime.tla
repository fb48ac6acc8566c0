------------------------------ MODULE ServerTime ------------------------------
(***************************************************************************)
(* The server's time (currentTime of dix/dispatch.c, dix/events.c and      *)
(* dix/dixutils.c).                                                        *)
(*                                                                         *)
(* The clock counts milliseconds in a CARD32, which wraps after a "month"  *)
(* of 49.7 days; the server counts the months as it sees them go by, when  *)
(* it reads the clock and when it processes an input event, which bears    *)
(* the time at which it was read from its device.  Clients send times      *)
(* without a month, which is restored from how far they are from now.      *)
(*                                                                         *)
(* The history variables now and looked hold times as a clock without a    *)
(* wrap would tell them.                                                   *)
(***************************************************************************)
EXTENDS Integers, Sequences

CONSTANTS
  U32,         (* the modulus of CARD32                                        *)
  TimeSlop,    (* TIMESLOP, the 5 minutes by which an event may be late        *)
  MaxLate,     (* how late the events are                                      *)
  MixedMonths, (* whether an event of last month may be processed in this one  *)
  MaxIdle,     (* how long the server goes without a look at the clock         *)
  Starts,      (* when the server starts                                       *)
  MaxTime      (* how far the clock runs                                       *)

\* HALFMONTH
Half == U32 \div 2

ASSUME ServerTimeAssumption ==
  /\ U32 \in Nat /\ U32 > 2 /\ U32 % 2 = 0 /\ MaxTime \in Nat /\ MaxTime + U32 <= U32 * U32
  /\ TimeSlop \in Nat /\ MaxLate \in 0 .. TimeSlop
  /\ MaxIdle \in Nat /\ MaxIdle + TimeSlop < U32
  /\ MixedMonths \in BOOLEAN /\ Starts \subseteq 1 .. U32 - 1

VARIABLES
  currentTime, (* the time as the server knows it                              *)
  now,         (* the time in truth                                            *)
  looked       (* when the server last looked at the clock                     *)

clock    == <<now, looked>>
timeVars == <<currentTime, clock>>

TimeStamp == [months : 0 .. U32 - 1, milliseconds : 0 .. U32 - 1]

\* What a time is as a time stamp, and the time that a time stamp stands for.
Stamp(t)    == [months |-> t \div U32, milliseconds |-> t % U32]
Instant(ts) == ts.months * U32 + ts.milliseconds

Later(a, b) == \/ a.months > b.months
               \/ a.months = b.months /\ a.milliseconds > b.milliseconds

GetTimeInMillis == now % U32

------------------------------------------------------------------------------
NextMonth(ct) == (ct.months + 1) % U32

\* The clock is read: if it shows less than the last time, a month has gone by.
Systime(ct) == [months |-> IF GetTimeInMillis < ct.milliseconds THEN NextMonth(ct)
                                                                ELSE ct.months,
                milliseconds |-> GetTimeInMillis]

LaterOf(a, b) == IF Later(a, b) THEN a ELSE b

\* An event of time ms, which may be one of the next month or, if it is not
\* earlier by more than TimeSlop, one that comes late.
NoticeTimeMillis(ct, ms) ==
  IF ms >= ct.milliseconds THEN [ct EXCEPT !.milliseconds = ms]
  ELSE IF ct.milliseconds - ms > TimeSlop
       THEN [months |-> NextMonth(ct), milliseconds |-> ms]
       ELSE ct

\* The time in the server's count of a client's time; 0 is CurrentTime.
ClientTimeToServerTime(ct, c) ==
  IF c = 0 THEN ct
  ELSE [months |-> (CASE c - ct.milliseconds > Half -> ct.months - 1
                      [] ct.milliseconds - c > Half -> ct.months + 1
                      [] OTHER -> ct.months) % U32,
        milliseconds |-> c]

------------------------------------------------------------------------------
\* The events that are processed at once.  Those of one device come in the
\* order of their times, those of two may not.
Month(t) == t \div U32
InputEvents ==
  LET stamps == {t \in Nat \cap (now - MaxLate .. now) :
                    MixedMonths \/ Month(t) >= currentTime.months}
  IN  {s \in {<<>>} \cup {<<t>> : t \in stamps} \cup (stamps \X stamps) :
          MixedMonths \/ \A i \in DOMAIN s : \A j \in 1 .. i : Month(s[j]) <= Month(s[i])}

ProcessInputEvents(s) ==
  LET after[i \in 0 .. Len(s)] ==
        IF i = 0 THEN currentTime ELSE NoticeTimeMillis(after[i - 1], s[i] % U32)
  IN  after[Len(s)]

\* The clock is read before the events are processed.
UpdateCurrentTime ==
  /\ \E s \in InputEvents :
         currentTime' = LaterOf(Systime(currentTime), ProcessInputEvents(s))
  /\ looked' = now /\ UNCHANGED now
UpdateCurrentTimeIf ==
  /\ currentTime' = LaterOf(Systime(currentTime), currentTime)
  /\ looked' = now /\ UNCHANGED now

InputIsProcessed == /\ \E s \in InputEvents : currentTime' = ProcessInputEvents(s)
                    /\ UNCHANGED clock

\* The server looks at the clock at least every MaxIdle.
Tick == /\ now < MaxTime /\ now - looked < MaxIdle
        /\ now' = now + 1 /\ UNCHANGED <<currentTime, looked>>

TimeInit == now \in Starts /\ looked = now /\ currentTime = Stamp(now)
TimeNext == Tick \/ UpdateCurrentTime \/ UpdateCurrentTimeIf \/ InputIsProcessed
TimeSpec == TimeInit /\ [][TimeNext]_timeVars

------------------------------------------------------------------------------
\* The month changes neither too early nor too late nor twice, whether the
\* clock or an event shows it first and however late other events come: the
\* time is one that was, and no earlier than the last look at the clock.
TimeIsDecent == /\ currentTime \in TimeStamp
                /\ Instant(currentTime) \in looked .. now

\* A client's time of the last or the next half month, which has no month, is
\* restored to the one that it was, over the wrap in either direction.
ClientTimesHold ==
  \A t \in Nat \cap (Instant(currentTime) - Half + 1 .. Instant(currentTime) + Half - 1) :
      t % U32 # 0 => ClientTimeToServerTime(currentTime, t % U32) = Stamp(t)

\* Both (UpdateCurrentTime, NoticeTimeMillis, ClientTimeToServerTime).
TimeHolds == TimeIsDecent /\ ClientTimesHold
==============================================================================
