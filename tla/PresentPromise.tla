--------------------------- MODULE PresentPromise ---------------------------
(***************************************************************************)
(* What the Present extension promises its clients, whoever carries a      *)
(* request out: a request is completed once, or dropped with its window;   *)
(* its pixmap is idle once, not before, and never while it is on display.  *)
(***************************************************************************)
CONSTANTS Requests, Windows, None

VARIABLES
  status,   (* of each request: "new", "asked", "done" or "dropped"          *)
  pixmap,   (* of each request: "client", "held" or "idle"                   *)
  window,   (* the window each request is for, None before it was made       *)
  gone,     (* the windows that were destroyed                               *)
  display   (* the request whose pixmap is on display, or None               *)

vars == <<status, pixmap, window, gone, display>>

Init ==
  /\ status = [r \in Requests |-> "new"]
  /\ pixmap = [r \in Requests |-> "client"]
  /\ window = [r \in Requests |-> None]
  /\ gone = {}
  /\ display = None

\* A client asks for one; with a pixmap, the server holds that from now on.
Ask(r) ==
  /\ status[r] = "new"
  /\ \E w \in Windows \ gone : window' = [window EXCEPT ![r] = w]
  /\ status' = [status EXCEPT ![r] = "asked"]
  /\ \E p \in {"client", "held"} : pixmap' = [pixmap EXCEPT ![r] = p]
  /\ UNCHANGED <<gone, display>>

Show(r) ==
  /\ pixmap[r] = "held"
  /\ display' = r
  /\ UNCHANGED <<status, pixmap, window, gone>>

ShowScreen ==
  /\ display' = None
  /\ UNCHANGED <<status, pixmap, window, gone>>

Idle(r) ==
  /\ pixmap[r] = "held" /\ display # r
  /\ pixmap' = [pixmap EXCEPT ![r] = "idle"]
  /\ UNCHANGED <<status, window, gone, display>>

\* A copy is made and its pixmap idle, and the request may be complete at once.
Complete(r) ==
  /\ status[r] = "asked" /\ window[r] \notin gone
  /\ status' = [status EXCEPT ![r] = "done"]
  /\ pixmap' = pixmap \/ (pixmap[r] = "held" /\ display # r
                          /\ pixmap' = [pixmap EXCEPT ![r] = "idle"])
  /\ UNCHANGED <<window, gone, display>>

\* Requests for windows that are gone are dropped without a word, and their
\* pixmaps are held no more unless they are on display.
Drop(S) ==
  /\ \A r \in S : status[r] = "asked" /\ window[r] \in gone'
  /\ gone \subseteq gone'
  /\ status' = [r \in Requests |-> IF r \in S THEN "dropped" ELSE status[r]]
  /\ \A r \in Requests :
       pixmap'[r] # pixmap[r] => r \in S \ {display} /\ pixmap'[r] = "client"
  /\ UNCHANGED <<window, display>>

Next ==
  \/ \E r \in Requests : Ask(r) \/ Show(r) \/ Idle(r) \/ Complete(r)
  \/ ShowScreen
  \/ \E S \in SUBSET Requests : Drop(S)

Spec == Init /\ [][Next]_vars
=============================================================================
