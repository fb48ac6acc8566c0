------------------------------ MODULE EventQueue ------------------------------
(***************************************************************************)
(* What mi/mieq.c promises its callers: a queue of input events.  Events   *)
(* are taken in the order they were put in; motion of a device replaces    *)
(* motion of that device at the end of the queue; an event is lost only    *)
(* when the queue holds as many as memory allows.                          *)
(***************************************************************************)
EXTENDS Naturals, Sequences

CONSTANTS
  Event,     (* the events: records with an id, a dev and whether they are motion *)
  Capacity   (* how many events memory allows                                     *)

VARIABLES
  queue,     (* the events put in and not yet taken, oldest first *)
  entered,   (* the ids of the events mieqEnqueue was called for  *)
  taken      (* the event taken last                              *)

vars == <<queue, entered, taken>>

Init == queue = <<>> /\ entered = {} /\ taken \notin Event

Merges(e) ==
  /\ queue # <<>> /\ e.motion
  /\ queue[Len(queue)].motion /\ queue[Len(queue)].dev = e.dev

Enters(e) == e.id \notin entered /\ entered' = entered \cup {e.id} /\ UNCHANGED taken

Merge(e) ==
  /\ Merges(e) /\ Enters(e)
  /\ queue' = [queue EXCEPT ![Len(queue)] = e]
Put(e) ==
  /\ ~Merges(e) /\ Enters(e)
  /\ Len(queue) < Capacity
  /\ queue' = Append(queue, e)
Lose(e) ==
  /\ ~Merges(e) /\ Enters(e)
  /\ Len(queue) >= Capacity
  /\ UNCHANGED queue
Take ==
  /\ queue # <<>>
  /\ taken' = Head(queue) /\ queue' = Tail(queue)
  /\ UNCHANGED entered

Next == Take \/ \E e \in Event : Merge(e) \/ Put(e) \/ Lose(e)

Spec == Init /\ [][Next]_vars
=============================================================================
