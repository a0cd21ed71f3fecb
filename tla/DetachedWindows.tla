---------------------------- MODULE DetachedWindows ----------------------------
(***************************************************************************)
(* The detached windows and their show/hide shortcuts (windows/mod.rs,      *)
(* windows/hotkey.rs).  Threads: the event loop "ui", which also runs the    *)
(* start-up and the window events; the hotkey thread "hot"; and commands of *)
(* the main window, on workers of their own.  A webview call of another     *)
(* thread waits for the event loop (the window library is external).        *)
(*                                                                         *)
(* A window's remembered row is its look (opacity, pinning, compactness) and *)
(* whether its shortcut is on; its geometry only causes writes.             *)
(***************************************************************************)
EXTENDS Naturals, Sequences, SequencesExt

CONSTANTS
  Windows,           (* a sequence: DetachedWindow::ALL                      *)
  Addressed,         (* bound: the windows that commands and events concern   *)
  Commands,          (* bound: commands in flight                            *)
  Looks, DefaultLook,
  Remembered,        (* bound: rows that an earlier process may have stored  *)
  MaxRequests        (* bound: requests waiting for the hotkey thread        *)

ASSUME WindowsAssumption ==
  /\ Windows \in Seq(ToSet(Windows)) \ {<<>>} /\ IsInjective(Windows)
  /\ Addressed \subseteq ToSet(Windows) /\ DefaultLook \in Looks /\ MaxRequests \in Nat
  /\ Remembered \subseteq [look : Looks, on : BOOLEAN]
  /\ {"ui", "hot", "nobody"} \cap Commands = {}

VARIABLES
  web,               (* window -> Option of [visible, ignores]               *)
  main,              (* the main window: "open", "closing" or "gone"         *)
  mem,               (* WindowRuntime: [row, loaded, through, registered]    *)
  disk,              (* window -> Option of its stored row                   *)
  bound,             (* window -> is a combination registered for it?        *)
  requests,          (* the channel to the hotkey thread                     *)
  calls,             (* thread -> what it is doing                           *)
  crossed,           (* history: windows where changes of the pointer crossed *)
  refused,           (* history: windows that refused the last restoration   *)
  stale,             (* history: windows where copies of the row overlapped, *)
                     (* or a read or a write of it failed                    *)
  kept               (* history: window -> the look last stored on request   *)

All == ToSet(Windows)
Threads == {"ui", "hot"} \cup Commands
pointerVars == <<web, main, crossed, refused>>
rowVars == <<disk, stale, kept>>
hotkeyVars == <<bound, requests>>
windowVars == <<pointerVars, rowVars, hotkeyVars, mem, calls>>

DefaultRow == [look |-> DefaultLook, on |-> TRUE]
NewRuntime == [row |-> DefaultRow, loaded |-> FALSE, through |-> FALSE, registered |-> FALSE]

First == Head(Windows)

Idle == [op |-> "none", win |-> First, at |-> "idle", arg |-> FALSE, row |-> {}]
Begin(op, w, at, arg) == [op |-> op, win |-> w, at |-> at, arg |-> arg, row |-> {}]

(* A process starts with the rows that earlier ones stored.  Where the        *)
(* hotkey thread cannot be started, nothing is bound, nor loaded yet.        *)
Launching == [t \in Threads |-> IF t = "ui" THEN Begin("launch", First, "hydrate", FALSE) ELSE Idle]
WithoutHotkeys == [t \in Threads |-> IF t = "hot" THEN Begin("none", First, "absent", FALSE) ELSE Idle]

WindowsInit ==
  /\ web = [w \in All |-> {}] /\ main = "open"
  /\ mem = [w \in All |-> NewRuntime]
  /\ disk \in [All -> {{}} \cup {{row} : row \in Remembered}]
  /\ \A w \in All \ Addressed : disk[w] = {}
  /\ bound = [w \in All |-> FALSE] /\ requests = <<>>
  /\ calls \in {Launching, WithoutHotkeys}
  /\ crossed = {} /\ refused = {} /\ stale = {}
  /\ kept = [w \in All |-> IF disk[w] = {} THEN DefaultLook ELSE CHOOSE look \in Looks :
                                                     \E row \in disk[w] : row.look = look]

----------------------------------------------------------------------------
At(t, at) == calls[t].at = at
Win(t) == calls[t].win
Goto(t, at) == calls' = [calls EXCEPT ![t].at = at]
GotoWith(t, at, row) == calls' = [calls EXCEPT ![t].at = at, ![t].row = row]
Done(t) == calls' = [calls EXCEPT ![t] = Idle]

(* The event loop goes on to the next window, or to its next event. *)
NextWindow(at) ==
  LET i == CHOOSE k \in DOMAIN Windows : Windows[k] = Win("ui")
  IN calls' = [calls EXCEPT !["ui"] = IF i < Len(Windows) THEN Begin(@.op, Windows[i + 1], at, FALSE) ELSE Idle]

UiFree == At("ui", "idle")

(* Changes of the pointer of w that have set the window, and not yet the flag. *)
Halfway(w, through) == {t \in Threads : At(t, "flag") /\ Win(t) = w /\ calls[t].arg = through}

(* Openings that have seen the flag and are about to set the window.         *)
Following(w) == {t \in Threads : At(t, "ignore") /\ Win(t) = w}

(* Two changes cross where a window is made to ignore the pointer while      *)
(* another thread, past the window, is about to clear the flag ...           *)
SetCrossing(w) == crossed' = IF Halfway(w, FALSE) = {} THEN crossed ELSE crossed \cup {w}

(* ... or the flag is cleared while an opening is about to follow it.        *)
ClearCrossing(w) == crossed' = IF Following(w) = {} THEN crossed ELSE crossed \cup {w}

(* Threads that hold a copy of a row that they have still to store. *)
Copied(w) == {t \in Threads : Win(t) = w /\ calls[t].at \in {"top", "persist"}}

----------------------------------------------------------------------------
(* Commands.  Each comes from the main window.                              *)

Call(c, op, w, at, arg) ==
  /\ At(c, "idle") /\ UiFree /\ main # "gone"
  /\ calls' = [calls EXCEPT ![c] = Begin(op, w, at, arg)]
  /\ UNCHANGED <<pointerVars, rowVars, hotkeyVars, mem>>

(* Fault: set_shortcut starts from the row in memory, loaded or not.         *)
FaultyShortcutStart == "set"

(* apply and set_shortcut load the row before they change it. *)
ShortcutStart == "hydrate"

Commanded(c, w) ==
  \/ Call(c, "open", w, "seek", FALSE)
  \/ \E through \in BOOLEAN : Call(c, "click", w, "check", through)
  \/ \E look \in Looks : Call(c, "look", w, "hydrate", look)
  \/ \E on \in BOOLEAN : Call(c, "short", w, ShortcutStart, on)

(* hydrated: read the stored row without the lock ... A row that cannot be   *)
(* read counts as absent.                                                   *)
Hydrated(op) ==
  CASE op = "open" -> "build" [] op = "launch" -> "rebind" [] op \in {"look", "short"} -> "set"

Hydrate(t) ==
  /\ At(t, "hydrate")
  /\ IF mem[Win(t)].loaded
       THEN Goto(t, Hydrated(calls[t].op)) /\ UNCHANGED stale
       ELSE \/ GotoWith(t, "stored", disk[Win(t)]) /\ UNCHANGED stale
            \/ disk[Win(t)] # {} /\ GotoWith(t, "stored", {}) /\ stale' = stale \cup {Win(t)}
  /\ UNCHANGED <<pointerVars, disk, kept, hotkeyVars, mem>>

(* ... and take it if nobody else has done so meanwhile. *)
Adopted(m, stored) ==
  IF m.loaded THEN m
  ELSE [m EXCEPT !.loaded = TRUE, !.row = IF stored = {} THEN @ ELSE CHOOSE r \in stored : TRUE]

Adopt(t) ==
  /\ At(t, "stored")
  /\ mem' = [mem EXCEPT ![Win(t)] = Adopted(@, calls[t].row)]
  /\ GotoWith(t, Hydrated(calls[t].op), {})
  /\ UNCHANGED <<pointerVars, rowVars, hotkeyVars>>

(* apply and set_shortcut change the row under the lock and keep a copy. *)
Set(t) ==
  /\ At(t, "set")
  /\ LET w == Win(t)
         row == IF calls[t].op = "look" THEN [mem[w].row EXCEPT !.look = calls[t].arg]
                                        ELSE [mem[w].row EXCEPT !.on = calls[t].arg]
     IN /\ mem' = [mem EXCEPT ![w].row = row]
        /\ GotoWith(t, IF calls[t].op = "look" THEN "top" ELSE "persist", {row})
        /\ stale' = IF Copied(w) = {} THEN stale ELSE stale \cup {w}
  /\ UNCHANGED <<pointerVars, disk, kept, hotkeyVars>>

(* set_always_on_top and the publication, which may fail. *)
Top(t) ==
  /\ At(t, "top")
  /\ web[Win(t)] # {} => UiFree
  /\ \/ Goto(t, "persist") /\ UNCHANGED stale
     \/ Done(t) /\ stale' = stale \cup {Win(t)}
  /\ UNCHANGED <<pointerVars, disk, kept, hotkeyVars, mem>>

(* save_window_state *)
Persist(t) ==
  /\ At(t, "persist")
  /\ LET w == Win(t)
     IN \E row \in calls[t].row :
          \/ /\ disk' = [disk EXCEPT ![w] = {row}]
             /\ kept' = IF calls[t].op = "look" THEN [kept EXCEPT ![w] = row.look] ELSE kept
             /\ IF calls[t].op = "short" THEN GotoWith(t, "rebind", {}) ELSE Done(t)
             /\ UNCHANGED stale
          \/ UNCHANGED <<disk, kept>> /\ Done(t) /\ stale' = stale \cup {w}
        /\ web' = [web EXCEPT ![w] = IF calls[t].op = "shut" THEN {} ELSE @]
  /\ UNCHANGED <<main, crossed, refused, hotkeyVars, mem>>

----------------------------------------------------------------------------
(* Shortcuts.                                                               *)

(* rebind_shortcut sends the current state of the shortcut ... *)
Rebind(t) ==
  /\ At(t, "rebind")
  /\ IF At("hot", "absent") THEN Done(t) /\ UNCHANGED requests
     ELSE /\ Len(requests) < MaxRequests
          /\ requests' = Append(requests, [win |-> Win(t), on |-> mem[Win(t)].row.on, by |-> t])
          /\ Goto(t, "reply")
  /\ UNCHANGED <<pointerVars, rowVars, bound, mem>>

(* Fault: the reply is awaited for ever.                                    *)
FaultyImpatient(t) == FALSE

(* ... and waits five seconds for the reply, long enough for a thread that    *)
(* is not held up; the request stays queued.                                *)
Impatient(t) == At(t, "reply") /\ ~At("hot", "idle")

Timeout(t) ==
  /\ Impatient(t)
  /\ requests' = [i \in DOMAIN requests |->
                    IF requests[i].by = t THEN [requests[i] EXCEPT !.by = "nobody"] ELSE requests[i]]
  /\ calls' = [calls EXCEPT ![t].at = "answered", ![t].arg = FALSE]
  /\ UNCHANGED <<pointerVars, rowVars, bound, mem>>

Answered(t) ==
  /\ At(t, "answered")
  /\ mem' = [mem EXCEPT ![Win(t)].registered = calls[t].arg]
  /\ IF t = "ui" THEN NextWindow("hydrate") ELSE Done(t)
  /\ UNCHANGED <<pointerVars, rowVars, hotkeyVars>>

(* The message loop serves a request between two presses; the system may     *)
(* refuse a combination.                                                    *)
Serve ==
  /\ requests # <<>> /\ At("hot", "idle")
  /\ LET request == Head(requests)
     IN \E accepted \in BOOLEAN :
          /\ ~request.on => accepted
          /\ bound' = [bound EXCEPT ![request.win] = request.on /\ accepted]
          /\ calls' = [t \in Threads |->
                         IF t = request.by
                           THEN [calls[t] EXCEPT !.at = "answered", !.arg = request.on /\ accepted]
                           ELSE calls[t]]
  /\ requests' = Tail(requests)
  /\ UNCHANGED <<pointerVars, rowVars, mem>>

Press(w) ==
  /\ bound[w] /\ At("hot", "idle")
  /\ calls' = [calls EXCEPT !["hot"] = Begin("toggle", w, "ask", FALSE)]
  /\ UNCHANGED <<pointerVars, rowVars, hotkeyVars, mem>>

(* toggle; nothing is lost where the window closes between the question and   *)
(* its hiding, which may fail unnoticed.                                    *)
Toggle ==
  /\ At("hot", "ask") /\ UiFree
  /\ LET w == Win("hot")
     IN IF web[w] = {}
          THEN calls' = [calls EXCEPT !["hot"] = Begin("open", w, "seek", FALSE)] /\ UNCHANGED web
          ELSE /\ Done("hot")
               /\ \/ web' = [web EXCEPT ![w] = {[page EXCEPT !.visible = ~@] : page \in @}]
                  \/ UNCHANGED web
  /\ UNCHANGED <<main, crossed, refused, rowVars, hotkeyVars, mem>>

----------------------------------------------------------------------------
(* Opening.                                                                 *)

(* show, which may fail; the call then ends as well. *)
Shown(w) ==
  \/ web' = [web EXCEPT ![w] = {[page EXCEPT !.visible = TRUE] : page \in @}]
  \/ UNCHANGED web

Seek(t) ==
  /\ At(t, "seek") /\ UiFree
  /\ IF web[Win(t)] = {} THEN Goto(t, "hydrate") /\ UNCHANGED web
                               ELSE Shown(Win(t)) /\ Done(t)
  /\ UNCHANGED <<main, crossed, refused, rowVars, hotkeyVars, mem>>

(* The builder fails, or refuses a label that exists. *)
Build(t) ==
  /\ At(t, "build") /\ UiFree
  /\ \/ /\ web[Win(t)] = {}
        /\ web' = [web EXCEPT ![Win(t)] = {[visible |-> FALSE, ignores |-> FALSE]}]
        /\ Goto(t, "match")
     \/ Done(t) /\ UNCHANGED web
  /\ UNCHANGED <<main, crossed, refused, rowVars, hotkeyVars, mem>>

(* The flag is read once the window exists.                                 *)
Match(t) == /\ At(t, "match") /\ Goto(t, IF mem[Win(t)].through THEN "ignore" ELSE "appear")
            /\ UNCHANGED <<pointerVars, rowVars, hotkeyVars, mem>>

Ignoring(w, through) == web' = [web EXCEPT ![w] = {[page EXCEPT !.ignores = through] : page \in @}]

(* That the window cannot be made to ignore the pointer is not reported.     *)
Appear(t) ==
  /\ UiFree
  /\ \/ /\ At(t, "ignore") /\ Goto(t, "appear")
        /\ \/ Ignoring(Win(t), TRUE) /\ SetCrossing(Win(t))
           \/ UNCHANGED <<web, crossed>>
     \/ At(t, "appear") /\ Shown(Win(t)) /\ Done(t) /\ UNCHANGED crossed
  /\ UNCHANGED <<main, refused, rowVars, hotkeyVars, mem>>

----------------------------------------------------------------------------
(* Click-through.                                                           *)

(* click_through_is_recoverable *)
Recoverable(through) == ~through \/ main # "gone"

Check(t) ==
  /\ At(t, "check")
  /\ IF Recoverable(calls[t].arg) THEN Goto(t, "native") ELSE Done(t)
  /\ UNCHANGED <<pointerVars, rowVars, hotkeyVars, mem>>

(* apply_click_through: the window, where there is one, and then the flag;    *)
(* a window that refuses ends the call before that.                         *)
ApplyNative(t) ==
  /\ At(t, "native")
  /\ LET w == Win(t)
     IN \/ web[w] = {} /\ Goto(t, "flag") /\ UNCHANGED <<web, crossed>>
        \/ /\ web[w] # {} /\ UiFree
           /\ \/ /\ Ignoring(w, calls[t].arg) /\ Goto(t, "flag")
                 /\ IF calls[t].arg THEN SetCrossing(w) ELSE UNCHANGED crossed
              \/ Done(t) /\ UNCHANGED <<web, crossed>>
  /\ UNCHANGED <<main, refused, rowVars, hotkeyVars, mem>>

ApplyFlag(t) ==
  /\ At(t, "flag")
  /\ mem' = [mem EXCEPT ![Win(t)].through = calls[t].arg] /\ Done(t)
  /\ IF calls[t].arg THEN UNCHANGED crossed ELSE ClearCrossing(Win(t))
  /\ UNCHANGED <<web, main, refused, rowVars, hotkeyVars>>

(* restore_interaction_without_main_window, for one window after the other;   *)
(* one that refuses keeps its flag, and the restoration goes on.             *)
Restore ==
  LET w == Win("ui")
  IN \/ /\ At("ui", "engaged")
        /\ IF mem[w].through THEN Goto("ui", "clear") ELSE NextWindow("engaged")
        /\ UNCHANGED <<web, mem, crossed, refused>>
     \/ /\ At("ui", "clear") /\ UNCHANGED <<mem, crossed>>
        /\ \/ Ignoring(w, FALSE) /\ Goto("ui", "unflag") /\ UNCHANGED refused
           \/ /\ web[w] # {} /\ UNCHANGED web
              /\ refused' = refused \cup {w} /\ NextWindow("engaged")
     \/ /\ At("ui", "unflag")
        /\ mem' = [mem EXCEPT ![w].through = FALSE] /\ NextWindow("engaged")
        /\ ClearCrossing(w) /\ UNCHANGED <<web, refused>>

RestoreInteraction == Restore /\ UNCHANGED <<main, rowVars, hotkeyVars>>

----------------------------------------------------------------------------
(* Window events.                                                           *)

(* Fault: only a request to close the main window restores the pointer.      *)
FaultyMainEvent == main' = (IF main = "open" THEN "closing" ELSE "gone")
                   /\ calls' = IF main = "open" THEN [calls EXCEPT !["ui"] = Begin("restore", First, "engaged", FALSE)]
                                                ELSE calls

(* CloseRequested and then Destroyed; both restore the pointer. *)
MainEvent == main' = (IF main = "open" THEN "closing" ELSE "gone")
             /\ calls' = [calls EXCEPT !["ui"] = Begin("restore", First, "engaged", FALSE)]

(* Windows for which click-through is being switched on by a call that still  *)
(* found the main window.                                                   *)
SwitchedOn == {Win(t) : t \in {u \in Threads : calls[u].at \in {"native", "flag"} /\ calls[u].arg = TRUE}}

CloseMain ==
  /\ UiFree /\ main # "gone"
  /\ MainEvent
  /\ crossed' = IF main = "closing" THEN crossed \cup SwitchedOn ELSE crossed
  /\ refused' = {}
  /\ UNCHANGED <<web, rowVars, hotkeyVars, mem>>

(* record_geometry for a window that moves (and a write is due) or closes.    *)
RecordGeometry(w, op) ==
  /\ UiFree /\ web[w] # {}
  /\ calls' = [calls EXCEPT !["ui"] = [Begin(op, w, "persist", FALSE) EXCEPT !.row = {mem[w].row}]]
  /\ stale' = IF Copied(w) = {} THEN stale ELSE stale \cup {w}
  /\ UNCHANGED <<pointerVars, disk, kept, hotkeyVars, mem>>

----------------------------------------------------------------------------
ThreadStep(t) ==
  \/ Hydrate(t) \/ Adopt(t) \/ Set(t) \/ Top(t) \/ Persist(t)
  \/ Rebind(t) \/ Timeout(t) \/ Answered(t)
  \/ Seek(t) \/ Build(t) \/ Match(t) \/ Appear(t)
  \/ Check(t) \/ ApplyNative(t) \/ ApplyFlag(t)

(* Bound: nothing new is asked of a window that the properties except. *)
Judged(w) == w \notin crossed \cup stale

WindowsNext ==
  \/ \E t \in Threads : ThreadStep(t)
  \/ \E c \in Commands, w \in Addressed : Judged(w) /\ Commanded(c, w)
  \/ Serve \/ Toggle \/ RestoreInteraction \/ CloseMain
  \/ \E w \in Addressed : Judged(w) /\ (Press(w) \/ RecordGeometry(w, "move") \/ RecordGeometry(w, "shut"))

(* The event loop and the hotkey thread keep running.  That a wait for a     *)
(* reply runs out is the code's own timeout.                                *)
WindowsSpec ==
  /\ WindowsInit /\ [][WindowsNext]_windowVars
  /\ WF_windowVars(ThreadStep("ui") \/ RestoreInteraction)
  /\ WF_windowVars(ThreadStep("hot") \/ Serve \/ Toggle)

----------------------------------------------------------------------------
(* Properties.                                                              *)

(* Without the main window no detached window ignores the pointer, whatever   *)
(* was opened, closed, toggled and set before, one beside the other: nothing *)
(* could turn it back (restore_interaction_without_main_window).  Excepted   *)
(* are a window that refused the restoration when the main window was        *)
(* destroyed; one for which a call that still found the main window had not  *)
(* finished then; and one whose flag was cleared by a thread while another   *)
(* one, which did not know, made the window ignore the pointer (SetCrossing  *)
(* and ClearCrossing; PointerAlwaysRestored says what becomes of those).     *)
PointerRestored ==
  (main = "gone" /\ UiFree) =>
    \A w \in All \ (crossed \cup refused) : \A page \in web[w] : ~page.ignores

(* A window that ignores the pointer is one whose flag is on, or is just     *)
(* being set, so that the main window shows it and the restoration finds it: *)
(* also where native calls fail, and where windows are opened and reopened   *)
(* beside changes of the flag (set_click_through, open).  Crossed changes,   *)
(* as above, are excepted; that a window whose flag is on ignores the        *)
(* pointer is not claimed.                                                  *)
PointerAsShown ==
  \A w \in All \ crossed :
    Halfway(w, TRUE) = {} => \A page \in web[w] : page.ignores => mem[w].through

(* The look stored for a window is the one the user last set, in this process *)
(* or before: neither the lazy loading nor a write for the geometry or the   *)
(* shortcut brings another one back (hydrated, record_geometry, persist).    *)
(* Writes of overlapping copies are excepted, and failed ones.               *)
RowRemembered ==
  \A w \in All \ stale :
    Copied(w) = {} => \A row \in disk[w] : row.look = kept[w]

(* The application starts, though a shortcut pressed meanwhile makes the     *)
(* hotkey thread wait for the event loop that waits for it (bind).           *)
LaunchEnds == (calls["ui"].op = "launch") ~> (calls["ui"].op # "launch")

(* As PointerRestored, but crossed changes are no exception. *)
PointerAlwaysRestored ==
  (main = "gone" /\ \A t \in Threads : At(t, "idle")) =>
    \A w \in All \ refused : \A page \in web[w] : ~page.ignores

(* A registered shortcut is reported as registered. *)
RegisteredAsShown ==
  (\A t \in Threads : At(t, "idle")) /\ requests = <<>> =>
    \A w \in All : mem[w].registered = bound[w]

=============================================================================
