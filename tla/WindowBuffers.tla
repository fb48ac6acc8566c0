---------------------------- MODULE WindowBuffers ----------------------------
(***************************************************************************)
(* The pixmaps that a window of Xwayland takes turns with                  *)
(* (hw/xwayland/xwayland-window-buffers.c), and who changes them: drawing  *)
(* and the frames of xwayland-window.c, the flips of xwayland-present.c,   *)
(* and the compositor, which releases a pixmap when it pleases.            *)
(*                                                                         *)
(* Drawing goes to the window's pixmap.  To show it, the server hands the  *)
(* pixmap to the compositor and goes on with another one: a buffer that    *)
(* was released, or a new one.  A buffer keeps in its damage region what   *)
(* was drawn without it; that is copied before it is used again.  A flip   *)
(* makes a client's pixmap the window's, which has to be replaced before   *)
(* the server draws to it.                                                 *)
(*                                                                         *)
(* Of contents the model keeps where they are stale: where they differ from*)
(* what was drawn to the window last.  A client that flips leaves what is  *)
(* outside the update region as the window has it, it updates what the     *)
(* server drew and has not shown yet, and it does not touch its pixmap     *)
(* again until the window has another.                                     *)
(***************************************************************************)
EXTENDS Integers, SequencesExt

CONSTANTS
  Pixmaps, ClientPixmaps,  (* the server's, as many as it ever has at once,  *)
                           (* and those of clients                           *)
  NoPixmap,
  Tiles,                   (* the parts of the window                        *)
  Timeout,                 (* BUFFER_TIMEOUT                                 *)
  MaxLate                  (* how long after its time the timer runs at most *)

ASSUME BuffersAssumption ==
  /\ Pixmaps \cap ClientPixmaps = {} /\ NoPixmap \notin Pixmaps \cup ClientPixmaps
  /\ Timeout \in Nat \ {0} /\ MaxLate \in Nat

VARIABLES
  mapped, force,    (* there is an xwl_window; it is the root window of a    *)
                    (* rootful server                                        *)
  window, stale,    (* its pixmap, and where that is stale                   *)
  buffer,           (* the window buffer of a pixmap                         *)
  available, unavailable,  (* the pixmaps of the window's buffers, in the    *)
                    (* order of their release, and with the compositor       *)
  untied,           (* those of buffers that have lost their window          *)
  damage, listed,   (* what was drawn since the last frame, and whether the  *)
                    (* window is on damage_window_list                       *)
  frame_callback,
  with, behind,     (* the pixmaps the compositor reads, and where it was not*)
                    (* told that the window has changed                      *)
  timer             (* the time left for window_buffers_timer, or Off        *)

lists == <<available, unavailable, untied>>
frame == <<damage, listed, frame_callback, with, behind>>
vars  == <<mapped, force, window, stale, buffer, lists, frame, timer>>

\* struct xwl_window_buffer; age is the time since its release.
Buffer ==
  [stale : SUBSET Tiles, damage : SUBSET Tiles, refcnt : 0 .. 2, age : Nat]
NoBuffer == [stale |-> {}, damage |-> {}, refcnt |-> 0, age |-> 0]

Off  == - MaxLate - 1
Tied == Range(available) \cup unavailable
Unused    == Pixmaps \ (Tied \cup untied \cup with \cup {window})
IsClients == window \in ClientPixmaps

Init ==
  /\ mapped = FALSE /\ force \in BOOLEAN
  /\ window = NoPixmap /\ stale = {}
  /\ buffer = [p \in Pixmaps |-> NoBuffer]
  /\ available = <<>> /\ unavailable = {} /\ untied = {}
  /\ damage = {} /\ listed = FALSE /\ frame_callback = FALSE
  /\ with = {} /\ behind = {}
  /\ timer = Off

-----------------------------------------------------------------------------
(***************************************************************************)
(* The buffers.                                                            *)
(***************************************************************************)
\* xwl_window_buffer_add_damage_region
AddDamage_Available(region) ==
  [p \in Pixmaps |->
    IF p \in Range(available) THEN [buffer[p] EXCEPT !.damage = @ \cup region] ELSE buffer[p]]
AddDamage(region) ==
  [p \in Pixmaps |-> IF p \in Tied THEN [buffer[p] EXCEPT !.damage = @ \cup region] ELSE buffer[p]]

\* xwl_window_buffer_maybe_dispose, and the pixmaps that keep their buffers.
Unref_NotLast(ps) ==
  [p \in Pixmaps |-> IF p \in ps /\ buffer[p].refcnt = 1 THEN NoBuffer ELSE buffer[p]]
Unref(ps) ==
  [p \in Pixmaps |->
    IF p \notin ps THEN buffer[p]
    ELSE IF buffer[p].refcnt > 1 THEN [buffer[p] EXCEPT !.refcnt = @ - 1] ELSE NoBuffer]
Left(ps) == {p \in ps : buffer[p].refcnt > 1}

\* xwl_window_buffer_timer_callback: the buffers that are overdue, the first k.
Expired(k) == {available[i] : i \in 1 .. k}
Kept(k)    == SubSeq(available, k + 1, Len(available))
Overdue(k) ==
  /\ \A p \in Expired(k) : buffer[p].age >= Timeout
  /\ k < Len(available) => buffer[available[k + 1]].age < Timeout
Rearm_Newest(list, buf) == IF list = <<>> THEN Off ELSE Timeout - buf[Last(list)].age
Rearm(list, buf) == IF list = <<>> THEN Off ELSE Timeout - buf[Head(list)].age

TimerCallback ==
  /\ timer # Off /\ timer <= 0
  /\ \E k \in 0 .. Len(available) :
       Overdue(k) /\ available' = Kept(k) /\ buffer' = Unref(Expired(k))
  /\ timer' = Rearm(available', buffer')
  /\ UNCHANGED <<mapped, force, window, stale, unavailable, untied, frame>>

\* xwl_window_buffer_release_callback, for a buffer that may have lost its
\* window.  TimerSet runs the callback at once if the oldest buffer is overdue.
Release ==
  \E p \in with \cap (unavailable \cup untied) :
    /\ with' = with \ {p}
    /\ unavailable' = unavailable \ {p} /\ untied' = untied \ {p}
    /\ IF p \in Left({p})
       THEN /\ \E k \in 0 .. Len(available) :
                 /\ Overdue(k) /\ available' = Append(Kept(k), p)
                 /\ buffer' = [Unref(Expired(k) \cup {p}) EXCEPT ![p].age = 0]
            /\ timer' = Rearm(available', buffer')
       ELSE buffer' = Unref({p}) /\ UNCHANGED <<available, timer>>
    /\ UNCHANGED <<mapped, force, window, stale, damage, listed, frame_callback, behind>>

\* xwl_window_buffers_dispose.  By force a buffer goes with its pixmap, and the
\* compositor loses that.
Dispose_Holds(by_force) ==
  /\ available' = <<>> /\ unavailable' = {}
  /\ untied' = untied \cup unavailable
  /\ buffer' = [p \in Pixmaps |-> IF p \in Range(available) THEN NoBuffer ELSE buffer[p]]
  /\ timer' = Off /\ UNCHANGED with
Dispose(by_force) ==
  /\ available' = <<>> /\ unavailable' = {}
  /\ untied' = IF by_force THEN untied ELSE untied \cup Left(Tied)
  /\ with' = IF by_force THEN with \ Tied ELSE with
  /\ buffer' =
       [p \in Pixmaps |->
         IF p \notin Tied THEN buffer[p]
         ELSE IF by_force THEN NoBuffer ELSE [NoBuffer EXCEPT !.refcnt = Unref(Tied)[p].refcnt]]
  /\ timer' = Off

\* xwl_window_swap_pixmap: the window goes on with the pixmap released last, after
\* what that missed is copied to it, or with a new one that is a copy of its own
\* (xwl_window_realloc_pixmap).  Its own becomes that of the buffer, unless it
\* is a client's.
Copied(b) == (b.stale \ b.damage) \cup (stale \cap b.damage)
Swap(region) ==
  IF available = <<>>
  THEN window' \in Unused /\ stale' = stale /\ available' = <<>>
  ELSE /\ window' = Last(available)
       /\ stale' = Copied(AddDamage(region)[Last(available)])
       /\ available' = Front(available)
Keep == unavailable' = unavailable \cup ({window} \ ClientPixmaps)

Mine(refcnt) == [stale |-> stale, damage |-> {}, refcnt |-> refcnt, age |-> 0]
Swapped(region) ==
  [p \in Pixmaps |->
    IF p = window
    THEN Mine(1 + IF available = <<>> THEN 1 ELSE buffer[Last(available)].refcnt)
    ELSE IF p = window' THEN NoBuffer ELSE AddDamage(region)[p]]

-----------------------------------------------------------------------------
(***************************************************************************)
(* The window.                                                             *)
(***************************************************************************)
\* ensure_surface_for_window; the window has a pixmap of its own.
Map ==
  /\ ~mapped
  /\ mapped' = TRUE
  /\ window' \in Unused
  /\ UNCHANGED <<force, stale, buffer, lists, frame, timer>>

\* xwl_window_dispose
Unmap ==
  /\ mapped
  /\ mapped' = FALSE
  /\ window' = NoPixmap /\ stale' = {}
  /\ Dispose(force)
  /\ damage' = {} /\ listed' = FALSE /\ frame_callback' = FALSE /\ behind' = {}
  /\ UNCHANGED force

\* xwl_window_dmabuf_feedback_done: it gets a pixmap of another kind.  A window
\* that is resized gets one of another size and loses its buffers in the same way.
FeedbackDone ==
  /\ mapped
  /\ Dispose(FALSE)
  /\ window' \in Unused
  /\ UNCHANGED <<mapped, force, stale, damage, listed, frame_callback, behind>>

\* The window changes, and its buffers are stale there.
Changes(tiles, buf) ==
  /\ buffer' = [p \in Pixmaps |-> IF p \in Tied' THEN [buf[p] EXCEPT !.stale = @ \cup tiles] ELSE buf[p]]
  /\ behind' = behind \cup tiles

\* The server draws.  Before, if nothing was damaged yet, damage_report is called
\* and replaces the pixmap of a client.
Reports == damage = {}
Draw(tiles) ==
  /\ mapped
  /\ damage' = damage \cup tiles
  /\ listed' = (listed \/ Reports)
  /\ IF Reports /\ IsClients
     THEN Swap(damage') /\ Keep /\ Changes(tiles, Swapped(damage'))
     ELSE UNCHANGED <<window, stale, available, unavailable>> /\ Changes(tiles, buffer)
  /\ UNCHANGED <<mapped, force, untied, frame_callback, with, timer>>

\* xwl_screen_post_damage, before the server sleeps.
PostDamage ==
  /\ mapped /\ listed /\ ~frame_callback
  /\ Swap(damage) /\ Keep
  /\ buffer' = Swapped(damage)
  /\ timer' = IF available' = <<>> /\ ~IsClients THEN Off ELSE timer
  /\ with' = with \cup {window} /\ behind' = behind \ damage
  /\ damage' = {} /\ listed' = FALSE /\ frame_callback' = TRUE
  /\ UNCHANGED <<mapped, force, untied>>

\* xwl_present_execute flips; damage_report is told to ignore the update.
Flip(c, update) ==
  /\ mapped /\ c \notin with
  /\ damage \subseteq update
  /\ window' = c /\ stale' = {}
  /\ UNCHANGED <<available, unavailable>>
  /\ buffer' =
       [p \in Pixmaps |->
         IF p \in Tied THEN [AddDamage(damage \cup update)[p] EXCEPT !.stale = @ \cup update] ELSE buffer[p]]
  /\ with' = with \cup {c} /\ behind' = behind \ update
  /\ damage' = {} /\ listed' = FALSE /\ frame_callback' = TRUE
  /\ UNCHANGED <<mapped, force, untied, timer>>

\* frame_callback
FrameCallback ==
  /\ frame_callback
  /\ frame_callback' = FALSE
  /\ UNCHANGED <<mapped, force, window, stale, buffer, lists, damage, listed, with, behind, timer>>

\* The compositor is done with the pixmap of a client.
ReleaseFlip ==
  /\ \E c \in with \cap ClientPixmaps : with' = with \ {c}
  /\ UNCHANGED <<mapped, force, window, stale, buffer, lists, damage, listed, frame_callback, behind, timer>>

\* Time passes, and the timer is not later than MaxLate.
Tick ==
  /\ timer > - MaxLate \/ timer = Off
  /\ timer' = IF timer = Off THEN Off ELSE timer - 1
  /\ buffer' = [p \in Pixmaps |-> IF p \in Range(available) THEN [buffer[p] EXCEPT !.age = @ + 1] ELSE buffer[p]]
  /\ UNCHANGED <<mapped, force, window, stale, lists, frame>>

Next ==
  \/ Map \/ Unmap \/ FeedbackDone
  \/ \E tiles \in SUBSET Tiles \ {{}} : Draw(tiles)
  \/ \E c \in ClientPixmaps, update \in SUBSET Tiles \ {{}} : Flip(c, update)
  \/ PostDamage \/ FrameCallback \/ Release \/ ReleaseFlip
  \/ TimerCallback \/ Tick

Spec == Init /\ [][Next]_vars

-----------------------------------------------------------------------------
TypeOK ==
  /\ mapped \in BOOLEAN /\ force \in BOOLEAN
  /\ window \in Pixmaps \cup ClientPixmaps \cup {NoPixmap} /\ stale \subseteq Tiles
  /\ buffer \in [Pixmaps -> Buffer]
  /\ available \in Seq(Pixmaps) /\ unavailable \subseteq Pixmaps /\ untied \subseteq Pixmaps
  /\ damage \subseteq Tiles /\ listed \in BOOLEAN /\ frame_callback \in BOOLEAN
  /\ with \subseteq Pixmaps \cup ClientPixmaps /\ behind \subseteq Tiles
  /\ timer \in Off .. Timeout

\* The window and the compositor each hold a reference to a buffer, and it goes
\* with the last of them: no buffer is freed while it may yet be released, kept
\* for ever, or returned to a window that is gone (window-buffers.c:136, :271
\* "make sure to untie the buffers from the xwl_window so that we don't point at
\* freed memory if we get a release buffer later").
Ref(holds) == IF holds THEN 1 ELSE 0
Counted ==
  /\ \A p \in Pixmaps : buffer[p].refcnt = Ref(p \in Tied) + Ref(p \in with)
  /\ unavailable \cup untied = with \cap Pixmaps
  /\ Tied \cap untied = {} /\ window \notin Tied \cup untied
  /\ \A i, j \in DOMAIN available : available[i] = available[j] => i = j

\* What is shown is what was drawn: the window's pixmap is never stale, what its
\* buffers have missed is in their damage or will be (window-buffers.c:149), and
\* what the compositor was not told is still to be posted.  And the server does
\* not draw into what the compositor reads: only a client's pixmap can be both
\* there and the window's, and the next drawing is reported first (xwayland-present.c:1148
\* "make sure damage_report is called before any drawing to the window").
Current  == stale = {} /\ \A p \in Tied : buffer[p].stale \subseteq buffer[p].damage \cup damage
HandsOff == /\ window \in with => IsClients
            /\ IsClients => damage = {}
            /\ Range(available) \cap with = {}
Faithful == Current /\ HandsOff /\ behind \subseteq damage

\* A buffer that is not used is freed in time (window-buffers.c:184): whatever the
\* order of releases and swaps, the timer is set for the oldest.
Reclaimed == \A p \in Range(available) : buffer[p].age <= Timeout + MaxLate

=============================================================================
