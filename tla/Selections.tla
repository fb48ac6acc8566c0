------------------------------ MODULE Selections ------------------------------
(***************************************************************************)
(* A selection (dix/selection.c), the clients that own it in turn and      *)
(* those that watch it through XFixes (xfixes/select.c).                   *)
(*                                                                         *)
(* A client owns the selection through a window, from a time that it       *)
(* names.  The owner with the latest time is the owner, whatever the order *)
(* in which the requests come; it loses the selection to another, or when  *)
(* its window is destroyed, by whomever, or when its connection closes.    *)
(* A closed client's windows may be retained.                              *)
(*                                                                         *)
(* What a client has been sent determines what it believes once it has     *)
(* read it: the history variables believes and seen hold that, and         *)
(* promised holds what the owner should be by a clock that does not wrap.  *)
(***************************************************************************)
EXTENDS ServerTime

CONSTANTS
  Clients, Windows, None,
  Creator,      (* the client that created a window                            *)
  Inferiors,    (* the windows that are destroyed with a window, itself too    *)
  Masks,        (* the event masks that clients select                         *)
  MayRetain     (* whether clients set their close-down mode                   *)

AllEvents == {"SetOwner", "WindowDestroy", "ClientClose"}

ASSUME SelectionsAssumption ==
  /\ None \notin Clients \cup Windows
  /\ Creator \in [Windows -> Clients]
  /\ Inferiors \in [Windows -> SUBSET Windows]
  /\ \A w \in Windows : w \in Inferiors[w]
  /\ Masks \subseteq (SUBSET AllEvents) /\ MayRetain \in BOOLEAN

VARIABLES
  sel,        (* the selection, its watchers, and whether the callback of      *)
              (* XFixes is registered                                          *)
  conn,       (* of each client: connected, retained or gone                   *)
  windows,    (* the windows there are                                         *)
  windowRes,  (* those that have a resource by which XFixes learns of their end*)
  believes,   (* the window through which each client believes it owns         *)
  promised    (* who should own the selection through what, and since when     *)

history == <<believes, promised>>
vars    == <<sel, conn, windows, windowRes, history, timeVars>>

\* An XFixes registration.  Of one for all events, seen is the owner it shows.
Watch == [client : Clients, window : Windows, mask : Masks \ {{}},
          seen : Windows \cup {None}]
SelectionRec == [client : Clients \cup {None}, window : Windows \cup {None},
                 lastTimeChanged : TimeStamp, watches : SUBSET Watch,
                 registered : BOOLEAN]

Gone(c) == conn[c] # "connected"

------------------------------------------------------------------------------
\* XFixesSelectionCallback: an event to each watcher that selected the kind
\* and is connected.  It names the owner only when there is a new one.
Notify(s, kind, owner) ==
  IF ~s.registered THEN s
  ELSE [s EXCEPT !.watches =
          {IF kind \in e.mask /\ e.mask = AllEvents /\ ~Gone(e.client)
           THEN [e EXCEPT !.seen = owner] ELSE e : e \in @}]

Unowned(s) == [s EXCEPT !.client = None, !.window = None]

\* DeleteWindowFromAnySelections and DeleteClientFromAnySelections.
DeleteWindows(s, ws) ==
  IF s.window \in ws THEN Unowned(Notify(s, "WindowDestroy", None)) ELSE s
DeleteClient(s, c) ==
  IF s.client = c THEN Unowned(Notify(s, "ClientClose", None)) ELSE s

\* CheckSelectionCallback, after registrations were freed.
CheckCallback(s) == [s EXCEPT !.registered = @ /\ s.watches # {}]

Free_OfClientsOnly(s, cs, ws) ==
  CheckCallback([s EXCEPT !.watches = {e \in @ : e.client \notin cs}])
\* The registrations of clients and on windows are freed with them.
Free(s, cs, ws) ==
  CheckCallback([s EXCEPT !.watches =
                   {e \in @ : e.client \notin cs /\ e.window \notin ws}])

\* Of a window, the registrations on it are freed before the selection is
\* taken from it.
DestroyWindows(s, ws) == DeleteWindows(Free(s, {}, ws \cap windowRes), ws)

------------------------------------------------------------------------------
\* The promise: the owner is who asked for the latest time that has come; it
\* is nobody once its window or its client is gone, but the time stays.
Promise(c, w, t) ==
  IF t > Instant(currentTime') \/ t < promised.since THEN promised
  ELSE [client |-> IF w = None THEN None ELSE c, window |-> w, since |-> t]
PromiseWithout(cs, ws) ==
  IF promised.client \in cs \/ promised.window \in ws
  THEN [promised EXCEPT !.client = None, !.window = None] ELSE promised

------------------------------------------------------------------------------
Cleared_ByAnother(s, c, w) == s.client # None /\ w # None /\ s.client # c
\* The owner is sent a SelectionClear, unless it stays the owner.
Cleared(s, c, w) == s.client # None /\ (w = None \/ s.client # c)

SetOwner_NotifiedFirst(s, c, w, time) ==
  [Notify(s, "SetOwner", s.window) EXCEPT !.client = IF w = None THEN None ELSE c,
     !.window = w, !.lastTimeChanged = time]
SetOwner(s, c, w, time) ==
  Notify([s EXCEPT !.client = IF w = None THEN None ELSE c, !.window = w,
                   !.lastTimeChanged = time], "SetOwner", w)

Ignored_TimeToCome(s, time) == Later(time, currentTime')
\* A time to come, or one before the owner's.
Ignored(s, time) == Later(time, currentTime') \/ Later(s.lastTimeChanged, time)

\* The client believes it is the owner if GetSelectionOwner says so.
SetSelectionOwner(c, w, t) ==
  LET time == ClientTimeToServerTime(currentTime', t % U32)
      real == IF t % U32 = 0 THEN Instant(currentTime') ELSE t
  IN  /\ ~Gone(c) /\ w \in windows \cup {None}
      /\ UpdateCurrentTime
      /\ promised' = Promise(c, w, real)
      /\ IF Ignored(sel, time) THEN UNCHANGED <<sel, believes>>
         ELSE /\ sel' = SetOwner(sel, c, w, time)
              /\ believes' = [d \in Clients |->
                                IF d = c /\ w # None THEN w
                                ELSE IF d = sel.client /\ Cleared(sel, c, w) THEN None
                                ELSE believes[d]]
      /\ UNCHANGED <<conn, windows, windowRes>>

\* All the resources that bear a window's id are freed with it.
ResourcesLeft(ws) == windowRes \ ws

\* Whoever is connected may destroy a window.  XFixes looks at the clock
\* when there is something to tell.
DestroyWindow(w) ==
  /\ w \in windows /\ \E c \in Clients : ~Gone(c)
  /\ sel' = DestroyWindows(sel, Inferiors[w])
  /\ windows' = windows \ Inferiors[w]
  /\ windowRes' = ResourcesLeft(Inferiors[w])
  /\ promised' = PromiseWithout({}, Inferiors[w])
  /\ IF sel.window \in Inferiors[w] /\ Free(sel, {}, Inferiors[w]).registered
     THEN UpdateCurrentTimeIf ELSE UNCHANGED timeVars
  /\ UNCHANGED <<conn, believes>>

\* What CloseDownClient does the first time, when the connection closes.
Disconnected(s, c) == DeleteClient(s, c)

\* FreeClientResources, after which the client is no more.
Freed(s, c, ws) == DestroyWindows(Free(s, {c}, {}), ws)

\* The connection of a client closes, or another kills it; or what a client
\* left is freed by KillClient, when its close-down mode kept that.
CloseDownClient(c, retain) ==
  LET once == ~Gone(c)
      ws   == UNION {Inferiors[w] : w \in {v \in windows : Creator[v] = c}}
      dead == IF retain THEN {} ELSE ws
      kept == IF once THEN Disconnected(sel, c) ELSE sel
  IN  /\ conn[c] # "gone"
      /\ retain => once /\ MayRetain
      /\ sel' = IF retain THEN kept ELSE Freed(kept, c, dead)
      /\ conn' = [conn EXCEPT ![c] = IF retain THEN "retained" ELSE "gone"]
      /\ windows' = windows \ dead
      /\ windowRes' = ResourcesLeft(dead)
      /\ believes' = [believes EXCEPT ![c] = None]
      /\ promised' = PromiseWithout(IF once THEN {c} ELSE {}, dead)
      /\ IF sel.registered /\ (sel.client = c \/ sel.window \in dead)
         THEN UpdateCurrentTimeIf ELSE UNCHANGED timeVars

\* XFixesSelectSelectionInput.  The client then asks who the owner is.
Registered(s, c, w, mask) ==
  [s EXCEPT !.watches = {e \in @ : <<e.client, e.window>> # <<c, w>>} \cup
              {[client |-> c, window |-> w, mask |-> mask,
                seen |-> IF mask = AllEvents THEN s.window ELSE None]},
            !.registered = TRUE]

SelectInput(c, w, mask) ==
  LET had == {e \in sel.watches : e.client = c /\ e.window = w}
  IN  /\ ~Gone(c) /\ w \in windows
      /\ \/ /\ mask = {}
            /\ sel' = CheckCallback([sel EXCEPT !.watches = @ \ had])
            /\ UNCHANGED windowRes
         \/ /\ mask # {}
            /\ sel' = Registered(sel, c, w, mask)
            /\ windowRes' = windowRes \cup {w}
         \/ /\ mask # {} /\ had = {}      \* no memory, for one thing or another
            /\ windowRes' \in {windowRes, windowRes \cup {w}}
            /\ UNCHANGED sel
      /\ UNCHANGED <<conn, windows, history, timeVars>>

\* Tick, and the handlers that only look at the time.
TimePasses == TimeNext /\ UNCHANGED <<sel, conn, windows, windowRes, history>>

\* To whom ProcConvertSelection turns: the owner, with a SelectionRequest, or
\* the requestor, with a SelectionNotify that there is nothing.
Answerer == IF sel.window # None /\ sel.client # None /\ ~Gone(sel.client)
            THEN sel.client ELSE None

Init ==
  /\ TimeInit
  /\ sel = [client |-> None, window |-> None, lastTimeChanged |-> Stamp(0),
            watches |-> {}, registered |-> FALSE]
  /\ conn = [c \in Clients |-> "connected"]
  /\ windows = Windows /\ windowRes = {}
  /\ believes = [c \in Clients |-> None]
  /\ promised = [client |-> None, window |-> None, since |-> 0]

\* Clients name times of the last half month, and times to come.
Times == Nat \cap (now - Half + 1 .. now + 1)

Next ==
  \/ \E c \in Clients, w \in Windows \cup {None}, t \in Times : SetSelectionOwner(c, w, t)
  \/ \E w \in Windows : DestroyWindow(w)
  \/ \E c \in Clients, retain \in BOOLEAN : CloseDownClient(c, retain)
  \/ \E c \in Clients, w \in Windows, mask \in Masks : SelectInput(c, w, mask)
  \/ TimePasses

Spec == Init /\ [][Next]_vars

------------------------------------------------------------------------------
TypeOK ==
  /\ sel \in SelectionRec
  /\ conn \in [Clients -> {"connected", "retained", "gone"}]
  /\ windows \subseteq Windows /\ windowRes \subseteq windows
  /\ believes \in [Clients -> Windows \cup {None}]

\* The server's time holds, and so the last owner by time is the owner, in
\* whatever order the requests came and however the times wrapped since; once
\* it went, or gave the selection up, nobody is, until one asks whose time is
\* not before that owner's (ProcSetSelectionOwner).
LastOwnerWins ==
  /\ TimeHolds
  /\ sel.client = promised.client /\ sel.window = promised.window
  /\ sel.lastTimeChanged = Stamp(promised.since)

\* A client that was told that it owns the selection, and was not sent a
\* SelectionClear since, owns it, unless its window was destroyed, of which
\* it learns otherwise.  An owner is connected, and a selection that has one
\* is not answered for with nothing (ProcConvertSelection).
OwnersKnow ==
  /\ \A c \in Clients : believes[c] \in windows =>
        sel.client = c /\ sel.window = believes[c]
  /\ sel.window # None => /\ believes[sel.client] = sel.window
                          /\ Answerer = sel.client

\* Whoever watches the selection for all events knows its owner from them,
\* however the owner came and went (XFixesSelectionCallback).
WatchersKnow ==
  \A e \in sel.watches : e.mask = AllEvents /\ ~Gone(e.client) => e.seen = sel.window

\* A registration does not outlive its client's resources or its window, whose
\* end it learns of; the callback is registered while there is any
\* (SelectionFreeClient, SelectionFreeWindow, CheckSelectionCallback).
NoStaleWatch ==
  /\ TypeOK
  /\ \A e \in sel.watches : conn[e.client] # "gone" /\ e.window \in windowRes
  /\ sel.registered <=> sel.watches # {}
==============================================================================
