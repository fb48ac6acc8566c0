---------------------------- MODULE MCScmdPresent ----------------------------
(***************************************************************************)
(* The clients and the surroundings in the model-checked instances of      *)
(* ScmdPresent.                                                            *)
(***************************************************************************)
EXTENDS ScmdPresent, TLC

CONSTANTS w1, w2

Attr(kind) == [kind |-> kind, async |-> FALSE, fence |-> FALSE, update |-> FALSE]
Flip       == Attr("flip")
CopyOnly   == Attr("copy")
NotifyMsc  == Attr("notify")
Async(a)   == [a EXCEPT !.async = TRUE]
Fenced(a)  == [a EXCEPT !.fence = TRUE]
Partial(a) == [a EXCEPT !.update = TRUE]

\* A setup that only makes requests: n of them, with arguments from attrs.
Setup(attrs, n) ==
  [attrs |-> attrs, requests |-> n, ahead |-> 1, async_caps |-> FALSE, fails |-> FALSE,
   at_once |-> FALSE, tearfree |-> FALSE, cursor |-> FALSE, modesets |-> FALSE,
   restacks |-> FALSE, destroys |-> FALSE]

\* Two windows that cover the screen in turn and are destroyed.
Restacking == [Setup({Flip, CopyOnly}, 2) EXCEPT !.restacks = TRUE, !.destroys = TRUE]
\* Three flips of windows that cover the screen in turn: one may be passed over.
Passing    == [Setup({Flip}, 3) EXCEPT !.restacks = TRUE]
\* A driver that may refuse a flip or a vblank event.
Failing    == [Setup({Flip, Async(Flip), CopyOnly}, 3) EXCEPT !.fails = TRUE, !.async_caps = TRUE]
\* The driver flips by itself, and a software cursor stops the clients' flips.
TearFree   == [Setup({Flip, Partial(CopyOnly)}, 2) EXCEPT !.tearfree = TRUE, !.cursor = TRUE]
\* Modes are set, and an unflip may be over at once.
Modes      == [Setup({Flip, CopyOnly}, 3) EXCEPT !.modesets = TRUE, !.at_once = TRUE]
\* Copies with a wait fence, and requests without a pixmap.
Fencing    == Setup({Flip, Fenced(CopyOnly), NotifyMsc}, 2)
AllSetups  == {Restacking, Passing, Failing, TearFree, Modes, Fencing}

\* For Retried, which fails there.
Stuck == {Passing}
\* A flip with a wait fence.
Hang == {Setup({Flip, Fenced(Flip)}, 2)}
=============================================================================
