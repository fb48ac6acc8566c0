------------------------------- MODULE SsxRing -------------------------------
(***************************************************************************)
(* The ssX XAA command ring (hw/xwayland/ssx_xaa/ssx_xaa.c): the context   *)
(* the server keeps beside an io_uring set up with IORING_SETUP_SQPOLL.    *)
(*                                                                         *)
(* The server thread copies a command into slot sq_tail & sq_mask of the   *)
(* command buffer, prepares a submission entry that names the slot, and    *)
(* advances sq_tail; io_uring_submit publishes the prepared entries, the   *)
(* kernel's polling thread consumes them, and a completion entry comes     *)
(* back for each.  The entries and the polling thread are liburing's and   *)
(* the kernel's; they are modelled from what ssx_xaa.c asks of them.       *)
(*                                                                         *)
(* sq_head and sq_tail are uint32_t: they count modulo U32.  The counters  *)
(* that no code path reads back (cq_head, the statistics) are left out.    *)
(***************************************************************************)
EXTENDS Naturals, Sequences, SequencesExt, FiniteSets

CONSTANTS
  Cmds,      (* identities of the commands, at most one entry each at a time *)
  NoCmd,     (* the content of a slot nothing was copied into yet            *)
  RingSize,  (* ssx_xaa_ring_init's ring_size, a power of two                *)
  U32,       (* the modulus of a uint32_t                                    *)
  MaxBatch,  (* longest batch a caller passes to submit_batch                *)
  Apis,      (* the sets of entry points a client may keep to                *)
  Fences,    (* the values of SSX_XAA_SUBMIT_FENCE callers pass to submit    *)
  Faults     (* whether io_uring_submit and io_uring_wait_cqe may fail       *)

ASSUME RingAssumption ==
  /\ RingSize \in Nat \ {0}
  /\ U32 \in Nat \ {0}
  /\ U32 % RingSize = 0           \* both are powers of two
  /\ NoCmd \notin Cmds
  /\ IsFiniteSet(Cmds) /\ Cardinality(Cmds) < U32
  /\ MaxBatch \in Nat \ {0}
  /\ Apis \subseteq SUBSET {"submit", "more", "batch", "wait", "drain"}
  /\ Fences \subseteq BOOLEAN
  /\ Faults \in BOOLEAN

VARIABLES
  sq_head,    (* ctx->sq_head: completions drain has counted                 *)
  sq_tail,    (* ctx->sq_tail: commands submitted                            *)
  cmd_buffer, (* the command whose bytes each slot holds                     *)
  prepared,   (* entries taken by io_uring_get_sqe, not yet published        *)
  published,  (* entries published, not yet consumed by the polling thread   *)
  running,    (* entries the kernel executes                                 *)
  cq,         (* completions not yet seen                                    *)
  pc,         (* where the server thread is                                  *)
  api,        (* the entry points this client uses                           *)
  waited      (* history: completions wait consumed, modulo U32              *)

ctx  == <<sq_head, sq_tail, cmd_buffer>>
kern == <<prepared, published, running, cq>>
vars == <<sq_head, sq_tail, cmd_buffer, prepared, published, running, cq, pc, api, waited>>

Slots  == 0 .. RingSize - 1
Entry  == [cmd : Cmds, slot : Slots, link : BOOLEAN, fence : BOOLEAN]
Idle   == [at |-> "idle"]
InFlight(c) ==
  \E e \in ToSet(prepared) \cup ToSet(published) \cup ToSet(running) \cup ToSet(cq) :
    e.cmd = c
Outstanding == Len(prepared) + Len(published) + Len(running) + Len(cq)

Init ==
  /\ sq_head = 0 /\ sq_tail = 0
  /\ cmd_buffer = [s \in Slots |-> NoCmd]
  /\ prepared = <<>> /\ published = <<>> /\ running = <<>> /\ cq = <<>>
  /\ pc = Idle
  /\ api \in Apis /\ waited = 0

(***************************************************************************)
(* liburing and the kernel.                                                *)
(***************************************************************************)
\* io_uring_get_sqe: an entry is free until the poller has consumed it.
HasSqe == Len(prepared) + Len(published) < RingSize

SlotAt(i) == (sq_tail + i) % RingSize

\* The polling thread consumes the oldest published entry.
PollSq ==
  /\ published # <<>>
  /\ running' = Append(running, Head(published))
  /\ published' = Tail(published)
  /\ UNCHANGED <<ctx, prepared, cq, pc, api, waited>>

\* An entry completes: not before the one it is linked behind, and with
\* IOSQE_IO_DRAIN not before every earlier one.
Complete(k) ==
  /\ k \in 1 .. Len(running)
  /\ k > 1 => ~running[k - 1].link
  /\ running[k].fence => k = 1
  /\ cq' = Append(cq, running[k])
  /\ running' = RemoveAt(running, k)
  /\ UNCHANGED <<ctx, prepared, published, pc, api, waited>>

\* Slip: sq_tail counted with the publication, not with the preparation.
Submit_TailOnPublish(c, more, fence) ==
  /\ HasSqe
  /\ cmd_buffer' = [cmd_buffer EXCEPT ![SlotAt(0)] = c]
  /\ LET e == [cmd |-> c, slot |-> SlotAt(0), link |-> more, fence |-> fence]
     IN IF more
        THEN prepared' = Append(prepared, e) /\ UNCHANGED <<published, sq_tail>>
        ELSE /\ prepared' = <<>> /\ published' = published \o Append(prepared, e)
             /\ sq_tail' = (sq_tail + 1) % U32
  /\ pc' = Idle
  /\ UNCHANGED <<sq_head, running, cq, api, waited>>

(***************************************************************************)
(* ssx_xaa_ring_submit.  "more" is SSX_XAA_SUBMIT_BATCH: the entry is      *)
(* linked to the next one and left unpublished.                            *)
(***************************************************************************)
Submit(c, more, fence) ==
  /\ HasSqe
  /\ cmd_buffer' = [cmd_buffer EXCEPT ![SlotAt(0)] = c]
  /\ LET e == [cmd |-> c, slot |-> SlotAt(0), link |-> more, fence |-> fence]
     IN IF more
        THEN prepared' = Append(prepared, e) /\ UNCHANGED published
        ELSE prepared' = <<>> /\ published' = published \o Append(prepared, e)
  /\ sq_tail' = (sq_tail + 1) % U32
  /\ pc' = Idle
  /\ UNCHANGED <<sq_head, running, cq, api, waited>>

\* The values of SSX_XAA_SUBMIT_BATCH the callers pass.
MoreChoices == (IF "submit" \in api THEN {FALSE} ELSE {})
               \cup (IF "more" \in api THEN {TRUE} ELSE {})

RingSubmit(c, more, fence) ==
  /\ pc = Idle /\ ~InFlight(c)
  /\ Submit(c, more, fence)

\* Ring full: publish what is prepared, then ask for an entry once more.
RingSubmitFull(c, more, fence) ==
  /\ pc = Idle /\ ~InFlight(c)
  /\ ~HasSqe
  /\ published' = published \o prepared /\ prepared' = <<>>
  /\ \/ pc' = [at |-> "retry", cmd |-> c, more |-> more, fence |-> fence]
     \/ Faults /\ pc' = Idle
  /\ UNCHANGED <<ctx, running, cq, api, waited>>

RingSubmitRetry ==
  /\ pc.at = "retry"
  /\ \/ Submit(pc.cmd, pc.more, pc.fence)
     \/ ~HasSqe /\ pc' = Idle /\ UNCHANGED <<ctx, kern, api, waited>>    \* -EAGAIN

(***************************************************************************)
(* ssx_xaa_ring_submit_batch: sq_tail moves only after the last command.   *)
(***************************************************************************)
BatchStart(cmds) ==
  /\ pc = Idle /\ "batch" \in api
  /\ \A i \in DOMAIN cmds : ~InFlight(cmds[i])
  /\ pc' = [at |-> "batch", cmds |-> cmds, i |-> 0, flushed |-> FALSE]
  /\ UNCHANGED <<ctx, kern, api, waited>>

BatchPrepare ==
  /\ pc.at = "batch" /\ pc.i < Len(pc.cmds) /\ HasSqe
  /\ LET c == pc.cmds[pc.i + 1]
     IN /\ cmd_buffer' = [cmd_buffer EXCEPT ![SlotAt(pc.i)] = c]
        /\ prepared' = Append(prepared,
             [cmd |-> c, slot |-> SlotAt(pc.i),
              link |-> pc.i < Len(pc.cmds) - 1, fence |-> FALSE])
  /\ pc' = [pc EXCEPT !.i = @ + 1, !.flushed = FALSE]
  /\ UNCHANGED <<sq_head, sq_tail, published, running, cq, api, waited>>

\* Slip: a batch cut short is counted whole.
BatchFull_CountsAll ==
  /\ pc.at = "batch" /\ pc.i < Len(pc.cmds) /\ ~HasSqe
  /\ pc' = IF pc.flushed THEN Idle ELSE [pc EXCEPT !.flushed = TRUE]
  /\ sq_tail' = IF pc.flushed THEN (sq_tail + Len(pc.cmds)) % U32 ELSE sq_tail
  /\ published' = published \o prepared /\ prepared' = <<>>
  /\ UNCHANGED <<sq_head, cmd_buffer, running, cq, api, waited>>

\* Ring full: the first time flush and ask again, the second time give up,
\* reporting success when part of the batch was prepared.
BatchFull ==
  /\ pc.at = "batch" /\ pc.i < Len(pc.cmds) /\ ~HasSqe
  /\ IF pc.flushed
     THEN pc' = Idle /\ UNCHANGED <<prepared, published>>
     ELSE /\ published' = published \o prepared /\ prepared' = <<>>
          /\ \/ pc' = [pc EXCEPT !.flushed = TRUE]
             \/ Faults /\ pc' = Idle
  /\ UNCHANGED <<ctx, running, cq, api, waited>>

BatchDone ==
  /\ pc.at = "batch" /\ pc.i = Len(pc.cmds)
  /\ sq_tail' = (sq_tail + Len(pc.cmds)) % U32
  /\ published' = published \o prepared /\ prepared' = <<>>
  /\ pc' = Idle
  /\ UNCHANGED <<sq_head, cmd_buffer, running, cq, api, waited>>

(***************************************************************************)
(* ssx_xaa_ring_wait and ssx_xaa_ring_try_wait consume the oldest          *)
(* completion, whichever it is, and return the slot it names.  A wait      *)
(* without a completion (timeout, error, nothing to peek) changes nothing. *)
(***************************************************************************)
RingWait ==
  /\ pc = Idle /\ "wait" \in api
  /\ cq # <<>>
  /\ cq' = Tail(cq)
  /\ waited' = (waited + 1) % U32
  /\ UNCHANGED <<ctx, prepared, published, running, pc, api>>

(***************************************************************************)
(* ssx_xaa_ring_drain: publish, then one completion per sq_head step.      *)
(***************************************************************************)
DrainStart ==
  /\ pc = Idle /\ "drain" \in api
  /\ published' = published \o prepared /\ prepared' = <<>>
  /\ \/ pc' = [at |-> "drain"]
     \/ Faults /\ pc' = Idle
  /\ UNCHANGED <<ctx, running, cq, api, waited>>

DrainReap ==
  /\ pc.at = "drain" /\ sq_head # sq_tail
  /\ cq # <<>>
  /\ cq' = Tail(cq)
  /\ sq_head' = (sq_head + 1) % U32
  /\ UNCHANGED <<sq_tail, cmd_buffer, prepared, published, running, pc, api, waited>>

\* io_uring_wait_cqe fails with something other than -EINTR.
DrainError ==
  /\ pc.at = "drain" /\ sq_head # sq_tail /\ Faults
  /\ pc' = Idle
  /\ UNCHANGED <<ctx, kern, api, waited>>

DrainDone ==
  /\ pc.at = "drain" /\ sq_head = sq_tail
  /\ pc' = Idle
  /\ UNCHANGED <<ctx, kern, api, waited>>

-----------------------------------------------------------------------------
Batches == {b \in BoundedSeq(Cmds, MaxBatch) : b # <<>> /\ IsInjective(b)}

Server ==
  \/ \E c \in Cmds, more \in MoreChoices, fence \in Fences :
       RingSubmit(c, more, fence) \/ RingSubmitFull(c, more, fence)
  \/ RingSubmitRetry
  \/ \E b \in Batches : BatchStart(b)
  \/ BatchPrepare \/ BatchFull \/ BatchDone
  \/ RingWait
  \/ DrainStart \/ DrainReap \/ DrainError \/ DrainDone

Kernel == PollSq \/ \E k \in 1 .. Len(running) : Complete(k)

Next == Server \/ Kernel

\* The poller runs until its queue is empty (IORING_SETUP_SQPOLL, woken by
\* io_uring_submit), the device finishes what it started, and the server
\* thread does not stop inside a call.
Fairness ==
  /\ WF_vars(Kernel)
  /\ WF_vars(DrainReap \/ DrainDone)

Spec == Init /\ [][Next]_vars /\ Fairness

-----------------------------------------------------------------------------
\* The ledger drain relies on: across uint32_t wrap-around and failed
\* submissions, sq_tail is ahead of sq_head by exactly the commands whose
\* completion is still to come and those wait consumed behind its back
\* (ssx_xaa.c:320, the loop condition of ssx_xaa_ring_drain).  Without batches:
\* one that a full ring cuts short leaves commands sq_tail does not count.
LedgerExact ==
  "batch" \notin api => (sq_head + Outstanding + waited) % U32 = sq_tail

\* A drain in progress never waits for a completion that cannot come: the call
\* returns (ssx_xaa.c:319-330, "Drain all pending commands"), even when a batch
\* was cut short and its head is in flight uncounted (ssx_xaa.c:218 returns before
\* sq_tail moves).
DrainReturns == pc.at = "drain" ~> pc.at # "drain"

=============================================================================
