--------------------------- MODULE SsxRing_proofs ---------------------------
(***************************************************************************)
(* The ledger of the ssX command ring, for every ring size, every width of *)
(* the counters and every set of commands: as long as a client uses no     *)
(* batches, sq_tail is ahead of sq_head by the commands outstanding and    *)
(* those wait consumed; for a client that never waits, a drain that returns*)
(* success has left nothing behind.                                        *)
(***************************************************************************)
EXTENDS SsxRing, TLAPS, SequenceTheorems

\* LedgerExact without its condition.
Ledger == (sq_head + Outstanding + waited) % U32 = sq_tail

\* What the ledger rests on: typed queues and, while a submission that met a
\* full ring is retried, typed arguments.
LInv ==
  /\ sq_head \in 0 .. U32 - 1 /\ sq_tail \in 0 .. U32 - 1 /\ waited \in 0 .. U32 - 1
  /\ prepared \in Seq(Entry) /\ published \in Seq(Entry)
  /\ running \in Seq(Entry) /\ cq \in Seq(Entry)
  /\ pc.at \in {"idle", "retry", "drain"}
  /\ pc.at = "retry" => pc.cmd \in Cmds /\ pc.more \in BOOLEAN /\ pc.fence \in BOOLEAN
  /\ Ledger

\* Batches count themselves only when they are through: nothing is claimed of
\* clients that use them.  A client keeps to its entry points.
NoBatchInv == "batch" \notin api => LInv

-----------------------------------------------------------------------------
(***************************************************************************)
(* Arithmetic modulo M, and removal from a queue.                          *)
(***************************************************************************)
LEMMA DivMod ==
  ASSUME NEW a \in Nat, NEW M \in Nat \ {0}
  PROVE  (a % M) \in 0 .. M - 1 /\ (a \div M) \in Nat /\ a = M * (a \div M) + (a % M)
  BY SMT

LEMMA ModUnique ==
  ASSUME NEW M \in Nat \ {0}, NEW q \in Nat, NEW r \in 0 .. M - 1
  PROVE  (M * q + r) % M = r
  BY SMT

LEMMA ModAdd ==
  ASSUME NEW a \in Nat, NEW b \in Nat, NEW M \in Nat \ {0}
  PROVE  ((a % M) + b) % M = (a + b) % M
<1> DEFINE r == a % M
           q == a \div M
           s == (r + b) % M
           p == (r + b) \div M
<1>1. r \in 0 .. M - 1 /\ q \in Nat /\ a = M * q + r
  BY DivMod
<1>2. r + b \in Nat
  BY <1>1
<1>3. s \in 0 .. M - 1 /\ p \in Nat /\ r + b = M * p + s
  BY <1>2, DivMod
<1> HIDE DEF r, q, s, p
<1>4. M * (q + p) = M * q + M * p /\ q + p \in Nat
  BY <1>1, <1>3
<1>5. a + b = M * (q + p) + s
  BY <1>1, <1>3, <1>4
<1>6. (M * (q + p) + s) % M = s
  BY <1>3, <1>4, ModUnique
<1>7. (a + b) % M = s
  BY <1>5, <1>6
<1> QED
  BY <1>7 DEF s, r

\* What leaves the second counter may enter the first, modulo M.
LEMMA ModMove ==
  ASSUME NEW a \in Nat, NEW b \in Nat, NEW c \in Nat, NEW M \in Nat \ {0}
  PROVE  (((a + 1) % M) + b + c) % M = (a + (b + 1) + c) % M
<1>1. a + 1 \in Nat /\ b + c \in Nat
  OBVIOUS
<1>2. (((a + 1) % M) + (b + c)) % M = ((a + 1) + (b + c)) % M
  BY <1>1, ModAdd
<1>3. (a + 1) % M \in Nat
  BY <1>1, DivMod
<1> DEFINE r == (a + 1) % M
<1> HIDE DEF r
<1>4. r \in Nat => r + (b + c) = r + b + c /\ r + b + c \in Nat
  OBVIOUS
<1>5. (a + 1) + (b + c) = a + (b + 1) + c
  OBVIOUS
<1> QED
  BY <1>2, <1>3, <1>4, <1>5 DEF r

LEMMA RemoveOne ==
  ASSUME NEW S, NEW s \in Seq(S), NEW k \in 1 .. Len(s)
  PROVE  RemoveAt(s, k) \in Seq(S) /\ Len(RemoveAt(s, k)) = Len(s) - 1
<1> DEFINE before == SubSeq(s, 1, k - 1)
           after  == SubSeq(s, k + 1, Len(s))
<1>1. before \in Seq(S) /\ Len(before) = k - 1
  BY SubSeqProperties, ElementOfSeq, LenProperties, SMTT(30)
<1>2. after \in Seq(S) /\ Len(after) = Len(s) - k
  BY SubSeqProperties, ElementOfSeq, LenProperties, SMTT(30)
<1>3. RemoveAt(s, k) = before \o after
  BY Zenon DEF RemoveAt
<1> HIDE DEF before, after
<1>4. /\ (before \o after) \in Seq(S)
      /\ Len(before \o after) = Len(before) + Len(after)
  BY <1>1, <1>2, ConcatProperties, Zenon
<1> QED
  BY <1>1, <1>2, <1>3, <1>4, LenProperties

-----------------------------------------------------------------------------
LEMMA InitLInv == Init => LInv
<1> SUFFICES ASSUME Init PROVE LInv
  OBVIOUS
<1>1. U32 \in Nat \ {0} /\ <<>> \in Seq(Entry) /\ Len(<<>>) = 0
  BY RingAssumption, EmptySeq
<1>2. Outstanding = 0
  BY <1>1 DEF Init, Outstanding
<1>3. Ledger
  BY <1>1, <1>2, SMT DEF Init, Ledger
<1> QED
  BY <1>1, <1>3 DEF Init, LInv, Idle

\* One command more in the queues, one more in sq_tail.
LEMMA SubmitLInv ==
  ASSUME LInv, NEW c \in Cmds, NEW more \in BOOLEAN, NEW fence \in BOOLEAN,
         Submit(c, more, fence)
  PROVE  LInv'
<1> DEFINE e == [cmd |-> c, slot |-> SlotAt(0), link |-> more, fence |-> fence]
           n == sq_head + Outstanding + waited
<1>0. /\ RingSize \in Nat \ {0} /\ U32 \in Nat \ {0}
      /\ Len(prepared) \in Nat /\ Len(published) \in Nat
      /\ Len(running) \in Nat /\ Len(cq) \in Nat
      /\ sq_tail \in Nat /\ sq_head \in Nat /\ waited \in Nat
  BY RingAssumption, LenProperties DEF LInv
<1>1. e \in Entry
  <2>1. sq_tail + 0 \in Nat
    BY <1>0
  <2>2. SlotAt(0) \in Slots
    BY <1>0, <2>1, DivMod DEF SlotAt, Slots
  <2> QED
    BY <2>2 DEF Entry
<1>2. /\ prepared' \in Seq(Entry) /\ published' \in Seq(Entry)
      /\ Len(prepared') + Len(published') = Len(prepared) + Len(published) + 1
  <2>1. /\ Append(prepared, e) \in Seq(Entry)
        /\ Len(Append(prepared, e)) = Len(prepared) + 1
    BY <1>1, AppendProperties DEF LInv
  <2>2. CASE more
    <3>1. prepared' = Append(prepared, e) /\ published' = published
      BY <2>2, Zenon DEF Submit
    <3> HIDE DEF e
    <3> QED
      BY <2>1, <3>1, <1>0 DEF LInv
  <2>3. CASE ~more
    <3>1. prepared' = <<>> /\ published' = published \o Append(prepared, e)
      BY <2>3, Zenon DEF Submit
    <3> HIDE DEF e
    <3>2. /\ published' \in Seq(Entry)
          /\ Len(published') = Len(published) + Len(prepared) + 1
      BY <2>1, <3>1, <1>0, ConcatProperties DEF LInv
    <3> QED
      BY <3>1, <3>2, <1>0, EmptySeq
  <2> QED
    BY <2>2, <2>3
<1>3. UNCHANGED <<sq_head, running, cq, waited>> /\ pc' = Idle /\ sq_tail' = (sq_tail + 1) % U32
  BY DEF Submit
<1>4. Outstanding \in Nat /\ Outstanding' = Outstanding + 1
  BY <1>0, <1>2, <1>3 DEF Outstanding
<1>5. n \in Nat /\ sq_head' + Outstanding' + waited' = n + 1
  BY <1>0, <1>3, <1>4
<1>6. sq_tail' = (n + 1) % U32
  <2>1. sq_tail = n % U32
    BY DEF LInv, Ledger
  <2> QED
    BY <2>1, <1>3, <1>5, <1>0, ModAdd
<1>7. Ledger'
  BY <1>5, <1>6 DEF Ledger
<1>8. sq_tail' \in 0 .. U32 - 1
  BY <1>0, <1>3, DivMod
<1> QED
  BY <1>2, <1>3, <1>7, <1>8 DEF LInv, Idle

\* The calls that publish what is prepared neither add nor consume anything.
LEMMA PublishLInv ==
  ASSUME LInv, published' = published \o prepared, prepared' = <<>>,
         UNCHANGED <<sq_head, sq_tail, running, cq, waited>>
  PROVE  /\ prepared' \in Seq(Entry) /\ published' \in Seq(Entry)
         /\ Ledger'
<1>1. /\ published' \in Seq(Entry) /\ prepared' \in Seq(Entry)
      /\ Len(published') + Len(prepared') = Len(published) + Len(prepared)
  BY ConcatProperties, LenProperties, EmptySeq DEF LInv
<1>2. Outstanding' = Outstanding
  BY <1>1, LenProperties DEF Outstanding, LInv
<1> QED
  BY <1>1, <1>2 DEF LInv, Ledger

\* A completion consumed and a step of sq_head cancel out.
LEMMA DrainReapLInv ==
  ASSUME LInv, DrainReap
  PROVE  LInv'
<1>0. /\ U32 \in Nat \ {0} /\ sq_head \in Nat /\ waited \in Nat
      /\ Len(prepared) \in Nat /\ Len(published) \in Nat
      /\ Len(running) \in Nat /\ Len(cq) \in Nat /\ Outstanding \in Nat
  BY RingAssumption, LenProperties DEF LInv, Outstanding
<1>1. cq' \in Seq(Entry) /\ Len(cq') = Len(cq) - 1 /\ Len(cq') \in Nat
  BY HeadTailProperties, LenProperties DEF DrainReap, LInv
<1>2. Outstanding' \in Nat /\ Outstanding = 1 + Outstanding'
  BY <1>0, <1>1 DEF Outstanding, DrainReap
<1>3. sq_head' = (sq_head + 1) % U32 /\ sq_tail' = sq_tail /\ waited' = waited
  BY DEF DrainReap
<1>4. (sq_head' + Outstanding' + waited) % U32 = (sq_head + (Outstanding' + 1) + waited) % U32
  <2>1. (((sq_head + 1) % U32) + Outstanding' + waited) % U32 = (sq_head + (Outstanding' + 1) + waited) % U32
    <3>1. U32 \in Nat \ {0} /\ sq_head \in Nat /\ waited \in Nat
      BY <1>0
    <3>2. Outstanding' \in Nat
      BY <1>2
    <3> DEFINE o == Outstanding'
    <3> HIDE DEF o
    <3>3. o \in Nat
      BY <3>2 DEF o
    <3>4. (((sq_head + 1) % U32) + o + waited) % U32 = (sq_head + (o + 1) + waited) % U32
      BY <3>1, <3>3, ModMove
    <3> QED
      BY <3>4 DEF o
  <2> QED
    BY <2>1, <1>3, Zenon
<1>5. Outstanding' + 1 = Outstanding
  BY <1>2
<1>6. Ledger'
  BY <1>3, <1>4, <1>5 DEF LInv, Ledger
<1>7. sq_head' \in 0 .. U32 - 1
  BY <1>0, <1>3, DivMod
<1> QED
  BY <1>1, <1>3, <1>6, <1>7 DEF LInv, DrainReap

\* Returning without having touched the queues.
LEMMA IdleLInv ==
  ASSUME LInv, pc' = Idle, UNCHANGED <<ctx, kern, api, waited>>
  PROVE  LInv'
<1>1. UNCHANGED <<sq_head, sq_tail, prepared, published, running, cq, waited>>
  BY DEF ctx, kern
<1>2. Outstanding' = Outstanding
  BY <1>1 DEF Outstanding
<1> QED
  BY <1>1, <1>2 DEF LInv, Ledger, Idle

LEMMA KernelLInv ==
  ASSUME LInv, Kernel
  PROVE  LInv'
<1>0. /\ Len(prepared) \in Nat /\ Len(published) \in Nat
      /\ Len(running) \in Nat /\ Len(cq) \in Nat
  BY LenProperties DEF LInv
<1>1. CASE PollSq
  <2>1. /\ running' \in Seq(Entry) /\ published' \in Seq(Entry)
        /\ Len(running') = Len(running) + 1 /\ Len(published') = Len(published) - 1
    BY <1>1, HeadTailProperties, AppendProperties DEF PollSq, LInv
  <2>2. Outstanding' = Outstanding
    BY <1>0, <1>1, <2>1 DEF Outstanding, PollSq
  <2> QED
    BY <1>1, <2>1, <2>2 DEF LInv, Ledger, PollSq, ctx
<1>2. ASSUME NEW k \in 1 .. Len(running), Complete(k)
      PROVE  LInv'
  <2>1. running[k] \in Entry
    BY ElementOfSeq DEF LInv
  <2>2. /\ running' \in Seq(Entry) /\ cq' \in Seq(Entry)
        /\ Len(running') = Len(running) - 1 /\ Len(cq') = Len(cq) + 1
    <3>1. running \in Seq(Entry) /\ cq \in Seq(Entry)
      BY DEF LInv
    <3>2. running' \in Seq(Entry) /\ Len(running') = Len(running) - 1
      BY <1>2, <3>1, RemoveOne DEF Complete
    <3>3. cq' \in Seq(Entry) /\ Len(cq') = Len(cq) + 1
      BY <1>2, <2>1, <3>1, AppendProperties DEF Complete
    <3> QED
      BY <3>2, <3>3
  <2>3. Outstanding' = Outstanding
    BY <1>0, <1>2, <2>2 DEF Outstanding, Complete
  <2> QED
    BY <1>2, <2>2, <2>3 DEF LInv, Ledger, Complete, ctx
<1> QED
  BY <1>1, <1>2 DEF Kernel

\* A completion that wait consumes passes from Outstanding to waited.
LEMMA RingWaitLInv ==
  ASSUME LInv, RingWait
  PROVE  LInv'
<1>0. /\ U32 \in Nat \ {0} /\ sq_head \in Nat /\ waited \in Nat
      /\ Len(prepared) \in Nat /\ Len(published) \in Nat
      /\ Len(running) \in Nat /\ Len(cq) \in Nat /\ Outstanding \in Nat
  BY RingAssumption, LenProperties DEF LInv, Outstanding
<1>1. cq' \in Seq(Entry) /\ Len(cq') = Len(cq) - 1 /\ Len(cq') \in Nat
  BY HeadTailProperties, LenProperties DEF RingWait, LInv
<1>2. Outstanding' \in Nat /\ Outstanding = 1 + Outstanding'
  BY <1>0, <1>1 DEF Outstanding, RingWait
<1>3. waited' = (waited + 1) % U32 /\ sq_tail' = sq_tail /\ sq_head' = sq_head
  BY DEF RingWait, ctx
<1>4. (waited' + Outstanding' + sq_head) % U32 = (waited + (Outstanding' + 1) + sq_head) % U32
  <2>1. (((waited + 1) % U32) + Outstanding' + sq_head) % U32 = (waited + (Outstanding' + 1) + sq_head) % U32
    <3>1. U32 \in Nat \ {0} /\ sq_head \in Nat /\ waited \in Nat
      BY <1>0
    <3>2. Outstanding' \in Nat
      BY <1>2
    <3> DEFINE o == Outstanding'
    <3> HIDE DEF o
    <3>3. o \in Nat
      BY <3>2 DEF o
    <3>4. (((waited + 1) % U32) + o + sq_head) % U32 = (waited + (o + 1) + sq_head) % U32
      BY <3>1, <3>3, ModMove
    <3> QED
      BY <3>4 DEF o
  <2> QED
    BY <2>1, <1>3, Zenon
<1>5. waited' \in 0 .. U32 - 1
  <2>1. waited + 1 \in Nat
    BY <1>0
  <2> QED
    BY <2>1, <1>0, <1>3, DivMod
<1>6. /\ waited + (Outstanding' + 1) + sq_head = sq_head + Outstanding + waited
      /\ waited' + Outstanding' + sq_head = sq_head' + Outstanding' + waited'
  <2>1. waited' \in Nat /\ sq_head' = sq_head
    BY <1>0, <1>3, <1>5
  <2> QED
    BY <2>1, <1>0, <1>2
<1>7. Ledger'
  BY <1>3, <1>4, <1>6 DEF LInv, Ledger
<1> QED
  BY <1>1, <1>3, <1>5, <1>7 DEF LInv, RingWait, ctx

LEMMA StepLInv ==
  ASSUME "batch" \notin api, LInv, [Next]_vars
  PROVE  LInv'
<1> USE DEF Idle
<1>1. ASSUME NEW c \in Cmds, NEW more \in MoreChoices, NEW fence \in Fences,
             RingSubmit(c, more, fence) \/ RingSubmitFull(c, more, fence)
      PROVE  LInv'
  <2>1. more \in BOOLEAN /\ fence \in BOOLEAN
    BY RingAssumption DEF MoreChoices
  <2>2. CASE RingSubmit(c, more, fence)
    BY <2>1, <2>2, SubmitLInv DEF RingSubmit
  <2>3. CASE RingSubmitFull(c, more, fence)
    <3>1. /\ prepared' \in Seq(Entry) /\ published' \in Seq(Entry) /\ Ledger'
      BY <2>3, PublishLInv DEF RingSubmitFull, ctx
    <3> QED
      BY <2>1, <2>3, <3>1 DEF LInv, RingSubmitFull, ctx
  <2> QED
    BY <1>1, <2>2, <2>3
<1>2. CASE RingSubmitRetry
  <2>1. CASE Submit(pc.cmd, pc.more, pc.fence)
    BY <1>2, <2>1, SubmitLInv DEF RingSubmitRetry, LInv
  <2>2. CASE pc' = Idle /\ UNCHANGED <<ctx, kern, api, waited>>
    BY <2>2, IdleLInv
  <2> QED
    BY <1>2, <2>1, <2>2 DEF RingSubmitRetry
<1>3. ~(\E b \in Batches : BatchStart(b)) /\ ~BatchPrepare /\ ~BatchFull /\ ~BatchDone
  BY DEF BatchStart, BatchPrepare, BatchFull, BatchDone, LInv
<1>4. CASE DrainStart
  <2>1. /\ prepared' \in Seq(Entry) /\ published' \in Seq(Entry) /\ Ledger'
    BY <1>4, PublishLInv DEF DrainStart, ctx
  <2> QED
    BY <1>4, <2>1 DEF LInv, DrainStart, ctx
<1>5. CASE DrainReap
  BY <1>5, DrainReapLInv
<1>6. CASE DrainError \/ DrainDone
  BY <1>6, IdleLInv DEF DrainError, DrainDone
<1>7. CASE RingWait
  BY <1>7, RingWaitLInv
<1>8. CASE Kernel
  BY <1>8, KernelLInv
<1>9. CASE UNCHANGED vars
  BY <1>9 DEF vars, LInv, Ledger, Outstanding
<1> QED
  BY <1>1, <1>2, <1>3, <1>4, <1>5, <1>6, <1>7, <1>8, <1>9 DEF Next, Server

\* No step changes which entry points the client uses.
LEMMA StepApi ==
  ASSUME [Next]_vars
  PROVE  api' = api
<1>1. ASSUME NEW c, NEW more, NEW fence, Submit(c, more, fence)
      PROVE  api' = api
  BY <1>1 DEF Submit
<1>2. CASE Server
  BY <1>1, <1>2 DEF Server, RingSubmit, RingSubmitFull, RingSubmitRetry, BatchStart,
    BatchPrepare, BatchFull, BatchDone, RingWait, DrainStart, DrainReap, DrainError, DrainDone
<1>3. CASE Kernel
  BY <1>3 DEF Kernel, PollSq, Complete
<1> QED
  BY <1>2, <1>3 DEF Next, vars

\* The ledger drain relies on stays exact in every behaviour of clients
\* without batches, whatever fails and however often the counters wrap.
THEOREM LedgerHolds == Spec => []LedgerExact
<1>1. Init => NoBatchInv
  BY InitLInv DEF NoBatchInv
<1>2. NoBatchInv /\ [Next]_vars => NoBatchInv'
  BY StepLInv, StepApi DEF NoBatchInv
<1>3. NoBatchInv => LedgerExact
  BY DEF NoBatchInv, LInv, Ledger, LedgerExact
<1> QED
  BY <1>1, <1>2, <1>3, PTL DEF Spec

=============================================================================
