---------------------------- MODULE MCXwlPresent ----------------------------
(***************************************************************************)
(* The clients and the surroundings in the model-checked instances of      *)
(* XwlPresent.                                                             *)
(***************************************************************************)
EXTENDS XwlPresent, TLC

Request(opt, kind, sync) == [opt |-> opt, kind |-> kind, sync |-> sync, periodic |-> FALSE]
SyncFlip     == Request("sync", "flip", "none")
AsyncFlip    == Request("async", "flip", "none")
TearFlip     == Request("tear", "flip", "none")
PlainCopy    == Request("sync", "copy", "none")
Notify       == Request("async", "notify", "none")
FencedFlip   == Request("sync", "flip", "syncobj")
FencedCopy   == Request("sync", "copy", "syncobj")
WaitCopy     == Request("sync", "copy", "fence")
PeriodicFlip == [SyncFlip EXCEPT !.periodic = TRUE]

\* A setup that only makes requests: n of them, with arguments from attrs.
Setup(attrs, n) ==
  [attrs |-> attrs, requests |-> n, ahead |-> 1, explicit_sync |-> FALSE,
   held |-> FALSE, reconfigures |-> FALSE, overdue |-> FALSE]

Flipping  == [Setup({SyncFlip, AsyncFlip}, 3) EXCEPT !.reconfigures = TRUE]
AnyOption == [Setup({SyncFlip, TearFlip, PlainCopy, Notify, PeriodicFlip}, 2) EXCEPT
                !.ahead = 2, !.held = TRUE, !.reconfigures = TRUE]
Late      == [Setup({SyncFlip, PlainCopy}, 3) EXCEPT
                !.held = TRUE, !.reconfigures = TRUE, !.overdue = TRUE]
Implicit  == [Setup({FencedFlip, FencedCopy}, 3) EXCEPT !.reconfigures = TRUE]
Explicit  == [Setup({FencedFlip, FencedCopy}, 3) EXCEPT !.explicit_sync = TRUE]
WaitFence == Setup({WaitCopy, PlainCopy, Notify}, 2)

FlipSetups  == {Flipping, AnyOption, Late}
FenceSetups == {Implicit, Explicit, WaitFence}
SafetySetups == FlipSetups \cup FenceSetups
LiveSetups  == {Setup({SyncFlip, AsyncFlip, FencedFlip, FencedCopy}, 2)}

\* An explicitly synchronised flip after one that is not.
Mixes      == {[Setup({SyncFlip, FencedFlip}, 2) EXCEPT !.explicit_sync = TRUE]}
PixmapSymmetry == Permutations(Pixmaps)
=============================================================================
