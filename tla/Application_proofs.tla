--------------------------- MODULE Application_proofs ---------------------------
(***************************************************************************)
(* Proofs about what the application keeps around its sessions: the         *)
(* detached windows, for every sequence of windows, every number of         *)
(* commands in flight and every look; and the settings, projects and their  *)
(* indexes, for every set of workspaces and projects.                       *)
(***************************************************************************)
EXTENDS DetachedWindows, ProjectLibrary, TLAPS

----------------------------------------------------------------------------
(* Detached windows: the state.                                             *)

ShortcutRows == [look : Looks, on : BOOLEAN]
Pages == [visible : BOOLEAN, ignores : BOOLEAN]
Runtimes == [row : ShortcutRows, loaded : BOOLEAN, through : BOOLEAN, registered : BOOLEAN]
Operations == {"none", "launch", "restore", "move", "shut", "toggle", "open", "click", "look", "short"}
Stages ==
  {"idle", "absent", "hydrate", "stored", "set", "top", "persist", "rebind", "reply", "answered", "ask",
   "seek", "build", "match", "ignore", "appear", "check", "native", "flag", "engaged", "clear", "unflag"}
ThreadCalls ==
  [op : Operations, win : All, at : Stages, arg : Looks \cup BOOLEAN, row : SUBSET ShortcutRows]
Requests == [win : All, on : BOOLEAN, by : Threads \cup {"nobody"}]

WindowTypes ==
  /\ web \in [All -> SUBSET Pages] /\ main \in {"open", "closing", "gone"}
  /\ mem \in [All -> Runtimes] /\ disk \in [All -> SUBSET ShortcutRows]
  /\ kept \in [All -> Looks]
  /\ requests \in Seq(Requests)
  /\ calls \in [Threads -> ThreadCalls]

(* The operation that a thread may be performing at each of its stages.      *)
StagesOf(call) ==
  /\ call.at = "idle" => call.op = "none"
  /\ call.at \in {"hydrate", "stored"} => call.op \in {"launch", "open", "look", "short"}
  /\ call.at = "set" => call.op \in {"look", "short"}
  /\ call.at = "top" => call.op = "look"
  /\ call.at = "persist" => call.op \in {"look", "short", "move", "shut"}
  /\ call.at \in {"rebind", "reply", "answered"} => call.op \in {"launch", "short"}
  /\ call.at \in {"seek", "build", "match", "ignore", "appear"} => call.op = "open"
  /\ call.at \in {"check", "native", "flag"} => call.op = "click"
  /\ call.at \in {"engaged", "clear", "unflag"} => call.op = "restore"
  /\ call.op \in {"click", "launch", "short"} => call.arg \in BOOLEAN
  /\ call.op = "look" => call.arg \in Looks

(* What the event loop does, the commands and the hotkey thread do not.      *)
StagesKept ==
  /\ \A t \in Threads : StagesOf(calls[t])
  /\ calls["ui"].op \in {"none", "launch", "restore", "move", "shut"}
  /\ \A t \in Threads \ {"ui"} : calls[t].op \notin {"launch", "restore", "move", "shut"}

(* A thread waits for at most one reply.                                     *)
RepliesAwaited ==
  /\ \A i \in DOMAIN requests : requests[i].by \in Threads => At(requests[i].by, "reply")
  /\ \A i, j \in DOMAIN requests :
       requests[i].by = requests[j].by /\ requests[i].by \in Threads => i = j

(* The stored row, the one in memory, and the copies that threads hold agree *)
(* with the look last stored; a window that exists has its row loaded.       *)
RowsAgree ==
  /\ \A w \in All : web[w] # {} => mem[w].loaded
  /\ \A t \in Threads : calls[t].at \in {"set", "top", "persist", "build"} => mem[Win(t)].loaded
  /\ \A w \in All : disk[w] = {} => kept[w] = DefaultLook
  /\ \A w \in All : \A r, q \in disk[w] : r = q
  /\ \A w \in All \ stale : \A r \in disk[w] : r.look = kept[w]
  /\ \A w \in All : ~mem[w].loaded => mem[w].row.look = DefaultLook
  /\ \A w \in All \ stale : mem[w].loaded /\ Copied(w) = {} => mem[w].row.look = kept[w]

CopiesAgree ==
  /\ \A w \in All \ stale : \A t, u \in Copied(w) : t = u
  /\ \A t \in Threads : Win(t) \notin stale /\ calls[t].at \in {"top", "persist"} =>
       \A r \in calls[t].row :
         /\ r.look = mem[Win(t)].row.look
         /\ calls[t].op # "look" => r.look = kept[Win(t)]
  /\ \A t \in Threads : Win(t) \notin stale /\ At(t, "stored") /\ ~mem[Win(t)].loaded =>
       /\ calls[t].row = {} => kept[Win(t)] = DefaultLook
       /\ \A r \in calls[t].row : r.look = kept[Win(t)]

(* The event loop restores window w, and is at this stage of it.             *)
Restoring(w, at) == calls["ui"].at = at /\ Win("ui") = w

(* A window that ignores the pointer has its flag on, or a thread is about to *)
(* set it, and nobody is about to clear it; what is opened follows the flag.  *)
PointerOf(w) ==
  /\ \A page \in web[w] : page.ignores =>
       /\ mem[w].through \/ Halfway(w, TRUE) # {}
       /\ Halfway(w, FALSE) = {} /\ ~Restoring(w, "unflag")
  /\ Following(w) # {} => mem[w].through

PointerFollows == \A w \in All \ crossed : PointerOf(w)

(* The windows that the restoration under way has behind it.                 *)
Passed(w) ==
  \/ calls["ui"].op # "restore"
  \/ \E i, k \in DOMAIN Windows : i < k /\ Windows[i] = w /\ Windows[k] = Win("ui")

(* Without the main window nobody switches click-through on, and the flag is  *)
(* off in the windows that the restoration has behind it.                    *)
FreedOf(w) ==
  /\ w \notin SwitchedOn
  /\ Passed(w) => ~mem[w].through

PointerFreed == main = "gone" => \A w \in All \ (crossed \cup refused) : FreedOf(w)

WindowsInvariant ==
  /\ WindowTypes /\ StagesKept /\ RepliesAwaited
  /\ RowsAgree /\ CopiesAgree /\ PointerFollows /\ PointerFreed

----------------------------------------------------------------------------
(* Detached windows: lemmas.                                                *)

(* The first window is one of them, and so is the one after each of them.    *)
LEMMA FirstIsAWindow == First \in All
  <1>1. Windows # <<>> /\ Windows \in Seq(ToSet(Windows))  BY WindowsAssumption
  <1>2. Len(Windows) >= 1 /\ First = Windows[1]  BY <1>1 DEF First
  <1> QED  BY <1>1, <1>2 DEF All, ToSet

(* The two fixed threads are threads, and nobody is none.                    *)
LEMMA ThreadsDiffer == "ui" \in Threads /\ "hot" \in Threads /\ "nobody" \notin Threads
  BY WindowsAssumption DEF Threads

(* Where the event loop goes when it is done with a window: to the next one   *)
(* in the order of Windows, or to rest after the last.                       *)
LEMMA NextWindowGoes ==
  ASSUME WindowTypes, NEW at, NextWindow(at)
  PROVE  \E i \in 1..Len(Windows) :
           /\ Windows[i] = Win("ui")
           /\ \A k \in DOMAIN Windows : Windows[k] = Win("ui") => k = i
           /\ \/ /\ i < Len(Windows) /\ Windows[i + 1] \in All
                 /\ calls' = [calls EXCEPT !["ui"] = Begin(calls["ui"].op, Windows[i + 1], at, FALSE)]
              \/ i = Len(Windows) /\ calls' = [calls EXCEPT !["ui"] = Idle]
  <1> DEFINE i == CHOOSE k \in DOMAIN Windows : Windows[k] = Win("ui")
  <1>1. Windows \in Seq(ToSet(Windows)) /\ IsInjective(Windows)  BY WindowsAssumption
  <1>2. Win("ui") \in All  BY ThreadsDiffer DEF WindowTypes, ThreadCalls, Win
  <1>3. i \in DOMAIN Windows /\ Windows[i] = Win("ui")  BY <1>2 DEF All, ToSet
  <1>4. DOMAIN Windows = 1..Len(Windows) /\ Len(Windows) \in Nat  BY <1>1
  <1>5. \A k \in DOMAIN Windows : Windows[k] = Win("ui") => k = i  BY <1>1, <1>3 DEF IsInjective
  <1>6. calls' = [calls EXCEPT !["ui"] =
                    IF i < Len(Windows) THEN Begin(calls["ui"].op, Windows[i + 1], at, FALSE) ELSE Idle]
    BY DEF NextWindow
  <1> HIDE DEF i
  <1>7. i < Len(Windows) => Windows[i + 1] \in All
    <2>1. i < Len(Windows) => i + 1 \in DOMAIN Windows  BY <1>3, <1>4
    <2> QED  BY <2>1 DEF All, ToSet
  <1>8. i \in 1..Len(Windows)  BY <1>3, <1>4
  <1>9. CASE i < Len(Windows)  BY <1>3, <1>5, <1>6, <1>7, <1>8, <1>9
  <1>10. CASE i = Len(Windows)
    <2>1. ~(i < Len(Windows))  BY <1>4, <1>10
    <2>2. calls' = [calls EXCEPT !["ui"] = Idle]  BY <1>6, <2>1, Zenon
    <2> QED  BY <1>3, <1>5, <1>8, <1>10, <2>2
  <1>11. i < Len(Windows) \/ i = Len(Windows)
    <2>1. \A n \in Nat : \A k \in 1..n : k < n \/ k = n  OBVIOUS
    <2> QED  BY <1>4, <1>8, <2>1, Zenon
  <1> QED  BY <1>9, <1>10, <1>11

(* A step that leaves the flag and the pointer of a window, and the calls     *)
(* that change them, alone.                                                 *)
PointerKeptOf(w) ==
  /\ mem'[w].through = mem[w].through
  /\ \A page \in web'[w] : \E old \in web[w] : old.ignores = page.ignores
  /\ \A t \in Threads :
       \/ calls'[t] = calls[t]
       \/ /\ calls[t].win = w => calls[t].at \notin {"native", "flag", "match", "ignore"}
          /\ calls'[t].win = w => calls'[t].at \notin {"native", "flag", "match", "ignore"}
  /\ Restoring(w, "unflag")' <=> Restoring(w, "unflag")

(* What no step of a window touches leaves its pending changes as they are.  *)
LEMMA ChangesKept ==
  ASSUME NEW w \in All, PointerKeptOf(w)
  PROVE  /\ \A through \in BOOLEAN : Halfway(w, through)' = Halfway(w, through)
         /\ Following(w)' = Following(w)
         /\ w \in SwitchedOn' <=> w \in SwitchedOn
  <1>1. \A t \in Threads : \/ calls'[t] = calls[t]
                           \/ /\ calls[t].win = w => calls[t].at \notin {"native", "flag", "match", "ignore"}
                              /\ calls'[t].win = w => calls'[t].at \notin {"native", "flag", "match", "ignore"}
    BY DEF PointerKeptOf
  <1>2. \A through \in BOOLEAN : Halfway(w, through)' = Halfway(w, through)
    BY <1>1 DEF Halfway, At, Win
  <1>3. Following(w)' = Following(w)  BY <1>1 DEF Following, At, Win
  <1>4. w \in SwitchedOn' <=> w \in SwitchedOn  BY <1>1 DEF SwitchedOn, Win
  <1> QED  BY <1>2, <1>3, <1>4

(* A step that leaves a window's page, flag and changes alone keeps its      *)
(* pointer right.                                                            *)
LEMMA PointerOfFrame ==
  ASSUME NEW w \in All, PointerOf(w), PointerKeptOf(w)  PROVE PointerOf(w)'
  <1>1. /\ Halfway(w, TRUE)' = Halfway(w, TRUE) /\ Halfway(w, FALSE)' = Halfway(w, FALSE)
        /\ Following(w)' = Following(w)
    BY ChangesKept
  <1> QED  BY <1>1 DEF PointerOf, PointerKeptOf

(* ... and leaves what was freed without the main window free.               *)
LEMMA FreedOfFrame ==
  ASSUME NEW w \in All, FreedOf(w), PointerKeptOf(w), Passed(w)' => Passed(w)
  PROVE  FreedOf(w)'
  BY ChangesKept DEF FreedOf, PointerKeptOf

(* A step that leaves all of them alone. *)
PointerKept ==
  /\ main' = main /\ crossed' = crossed /\ refused' = refused
  /\ \A w \in All : PointerKeptOf(w) /\ (Passed(w)' => Passed(w))

(* A step that leaves all of them alone keeps the pointers of all windows.   *)
LEMMA PointerFrame ==
  ASSUME PointerFollows, PointerFreed, PointerKept  PROVE PointerFollows' /\ PointerFreed'
  <1>1. PointerFollows'  BY PointerOfFrame DEF PointerFollows, PointerKept
  <1>2. PointerFreed'  BY FreedOfFrame DEF PointerFreed, PointerKept
  <1> QED  BY <1>1, <1>2

(* One thread goes on, which does not restore the pointers.                  *)
LEMMA RestorationAside ==
  ASSUME StagesKept, StagesKept',
         NEW t \in Threads, \A u \in Threads \ {t} : calls'[u] = calls[u],
         calls[t].op # "restore", calls'[t].op # "restore"
  PROVE  /\ \A w \in All : Restoring(w, "unflag")' <=> Restoring(w, "unflag")
         /\ \A w \in All : Passed(w)' <=> Passed(w)
  <1>1. StagesOf(calls["ui"]) /\ StagesOf(calls'["ui"])  BY ThreadsDiffer DEF StagesKept
  <1>2. \/ calls'["ui"] = calls["ui"]
        \/ /\ calls["ui"].op # "restore" /\ calls'["ui"].op # "restore"
           /\ calls["ui"].at # "unflag" /\ calls'["ui"].at # "unflag"
    BY <1>1, ThreadsDiffer DEF StagesOf
  <1>3. \A w \in All : Restoring(w, "unflag")' <=> Restoring(w, "unflag")
    BY <1>2 DEF Restoring, Win
  <1>4. \A w \in All : Passed(w)' <=> Passed(w)  BY <1>2 DEF Passed, Win
  <1> QED  BY <1>2, <1>3, <1>4

(* A thread that is at none of the stages about pointers does not disturb    *)
(* them.                                                                     *)
LEMMA PointerAside ==
  ASSUME StagesKept, StagesKept',
         NEW t \in Threads, \A u \in Threads \ {t} : calls'[u] = calls[u],
         calls[t].at \notin {"native", "flag", "match", "ignore"},
         calls'[t].at \notin {"native", "flag", "match", "ignore"},
         calls[t].op # "restore", calls'[t].op # "restore",
         main' = main, crossed' = crossed /\ refused' = refused,
         \A w \in All : mem'[w].through = mem[w].through,
         \A w \in All : \A page \in web'[w] : \E old \in web[w] : old.ignores = page.ignores
  PROVE  PointerKept
  <1>1. /\ \A w \in All : Restoring(w, "unflag")' <=> Restoring(w, "unflag")
        /\ \A w \in All : Passed(w)' <=> Passed(w)
    BY RestorationAside
  <1>2. \A u \in Threads :
          \/ calls'[u] = calls[u]
          \/ /\ calls[u].at \notin {"native", "flag", "match", "ignore"}
             /\ calls'[u].at \notin {"native", "flag", "match", "ignore"}
    OBVIOUS
  <1> QED  BY <1>1, <1>2 DEF PointerKept, PointerKeptOf

(* A step that leaves the rows and their copies alone.                       *)
RowsKept ==
  /\ disk' = disk /\ kept' = kept /\ stale' = stale
  /\ \A w \in All : mem'[w].row = mem[w].row /\ mem'[w].loaded = mem[w].loaded
  /\ \A w \in All : web'[w] # {} => web[w] # {} \/ mem[w].loaded
  /\ \A t \in Threads :
       calls'[t].at \in {"stored", "set", "top", "persist", "build"} => calls'[t] = calls[t]
  /\ \A t \in Threads : calls[t].at \in {"top", "persist"} => calls'[t] = calls[t]

(* A step that leaves rows, copies and file alone keeps them in agreement.   *)
LEMMA RowsFrame ==
  ASSUME WindowTypes, RowsAgree, CopiesAgree, RowsKept
  PROVE  RowsAgree' /\ CopiesAgree'
  <1>0. \A t \in Threads : calls[t].win \in All  BY DEF WindowTypes, ThreadCalls
  <1>1. \A w \in All : Copied(w)' = Copied(w)  BY DEF RowsKept, Copied, Win
  <1>2. \A t \in Threads :
          calls'[t].at \in {"set", "top", "persist", "build"} => mem'[Win(t)'].loaded
    BY <1>0 DEF RowsKept, RowsAgree, Win
  <1>3. RowsAgree'
    <2>1. \A w \in All : web'[w] # {} => mem'[w].loaded  BY DEF RowsKept, RowsAgree
    <2>2. \A w \in All : /\ ~mem'[w].loaded => mem'[w].row.look = DefaultLook
                         /\ w \notin stale /\ mem'[w].loaded /\ Copied(w) = {} => mem'[w].row.look = kept[w]
      BY DEF RowsKept, RowsAgree
    <2> QED  BY <1>1, <1>2, <2>1, <2>2 DEF RowsKept, RowsAgree
  <1>4. CopiesAgree'
    <2>1. \A w \in All \ stale : \A t, u \in Copied(w)' : t = u  BY <1>1 DEF RowsKept, CopiesAgree
    <2>2. ASSUME NEW t \in Threads, Win(t)' \notin stale, calls'[t].at \in {"top", "persist"},
                 NEW r \in calls'[t].row
          PROVE  /\ r.look = mem'[Win(t)'].row.look
                 /\ calls'[t].op # "look" => r.look = kept[Win(t)']
      BY <1>0, <2>2 DEF RowsKept, CopiesAgree, Win
    <2>3. ASSUME NEW t \in Threads, Win(t)' \notin stale, At(t, "stored")', ~mem'[Win(t)'].loaded
          PROVE  /\ calls'[t].row = {} => kept[Win(t)'] = DefaultLook
                 /\ \A r \in calls'[t].row : r.look = kept[Win(t)']
      BY <1>0, <2>3 DEF RowsKept, CopiesAgree, Win, At
    <2> QED  BY <2>1, <2>2, <2>3 DEF RowsKept, CopiesAgree
  <1> QED  BY <1>3, <1>4

----------------------------------------------------------------------------
(* Detached windows: each step keeps the invariant.                         *)

(* What thread t may be doing. *)
Legal(t, call) ==
  /\ call \in ThreadCalls /\ StagesOf(call)
  /\ t = "ui" => call.op \in {"none", "launch", "restore", "move", "shut"}
  /\ t # "ui" => call.op \notin {"launch", "restore", "move", "shut"}

(* What a thread does is something that operation may do on that thread.     *)
LEMMA CallsAreLegal ==
  ASSUME WindowTypes, StagesKept, NEW t \in Threads  PROVE Legal(t, calls[t])
  BY DEF WindowTypes, StagesKept, Legal

(* Calls as the steps make them. *)
LEMMA BeginFields ==
  ASSUME NEW op \in Operations, NEW w \in All, NEW at \in Stages, NEW arg \in Looks \cup BOOLEAN
  PROVE  /\ Begin(op, w, at, arg) \in ThreadCalls
         /\ Begin(op, w, at, arg).op = op /\ Begin(op, w, at, arg).win = w
         /\ Begin(op, w, at, arg).at = at /\ Begin(op, w, at, arg).arg = arg
         /\ Begin(op, w, at, arg).row = {}
  <1>1. {} \in SUBSET ShortcutRows  OBVIOUS
  <1> QED  BY <1>1 DEF Begin, ThreadCalls

(* An idle thread does nothing, which every thread may.                      *)
LEMMA IdleFields ==
  /\ Idle \in ThreadCalls /\ Idle.op = "none" /\ Idle.at = "idle" /\ Idle.row = {}
  /\ \A t \in Threads : Legal(t, Idle)
  <1>1. {} \in SUBSET ShortcutRows  OBVIOUS
  <1>2. FALSE \in Looks \cup BOOLEAN /\ "none" \in Operations /\ "idle" \in Stages
    BY DEF Operations, Stages
  <1>3. /\ Idle \in ThreadCalls /\ Idle.op = "none" /\ Idle.at = "idle" /\ Idle.row = {}
    BY <1>1, <1>2, FirstIsAWindow DEF Idle, ThreadCalls
  <1> QED  BY <1>3 DEF Legal, StagesOf

(* A call that goes on differs in its stage and its row only.                *)
LEMMA GoneTo ==
  ASSUME NEW call \in ThreadCalls, NEW at \in Stages, NEW row \in SUBSET ShortcutRows
  PROVE  /\ [call EXCEPT !.at = at, !.row = row] \in ThreadCalls
         /\ [call EXCEPT !.at = at, !.row = row].op = call.op
         /\ [call EXCEPT !.at = at, !.row = row].win = call.win
         /\ [call EXCEPT !.at = at, !.row = row].at = at
         /\ [call EXCEPT !.at = at, !.row = row].arg = call.arg
         /\ [call EXCEPT !.at = at, !.row = row].row = row
         /\ [call EXCEPT !.at = at] \in ThreadCalls
         /\ [call EXCEPT !.at = at].op = call.op
         /\ [call EXCEPT !.at = at].win = call.win
         /\ [call EXCEPT !.at = at].at = at
         /\ [call EXCEPT !.at = at].arg = call.arg
         /\ [call EXCEPT !.at = at].row = call.row
  BY DEF ThreadCalls

(* One thread that awaits no reply goes on. *)
LEMMA ThreadGoesOn ==
  ASSUME WindowTypes, StagesKept, RepliesAwaited,
         NEW t \in Threads, ~At(t, "reply"), NEW call, Legal(t, call),
         calls' = [calls EXCEPT ![t] = call], requests' = requests
  PROVE  /\ calls' \in [Threads -> ThreadCalls] /\ StagesKept' /\ RepliesAwaited'
         /\ calls'[t] = call /\ \A u \in Threads \ {t} : calls'[u] = calls[u]
  <1>1. calls' \in [Threads -> ThreadCalls]  BY DEF WindowTypes, Legal
  <1>2. calls'[t] = call /\ \A u \in Threads \ {t} : calls'[u] = calls[u]  BY DEF WindowTypes
  <1>3. StagesKept'  BY <1>2, ThreadsDiffer DEF StagesKept, Legal
  <1>4. RepliesAwaited'  BY <1>2 DEF RepliesAwaited, At
  <1> QED  BY <1>1, <1>2, <1>3, <1>4

(* One thread goes on, and neither the pointers nor their calls change.      *)
LEMMA ThreadAside ==
  ASSUME WindowsInvariant, NEW t \in Threads, NEW call, Legal(t, call),
         calls' = [calls EXCEPT ![t] = call], requests' = requests,
         calls[t].at \notin {"reply", "native", "flag", "match", "ignore"},
         call.at \notin {"native", "flag", "match", "ignore"},
         calls[t].op # "restore", call.op # "restore",
         main' = main, crossed' = crossed /\ refused' = refused,
         web' \in [All -> SUBSET Pages], mem' \in [All -> Runtimes],
         disk' \in [All -> SUBSET ShortcutRows], kept' \in [All -> Looks],
         \A w \in All : mem'[w].through = mem[w].through,
         \A w \in All : \A page \in web'[w] : \E old \in web[w] : old.ignores = page.ignores
  PROVE  /\ WindowTypes' /\ StagesKept' /\ RepliesAwaited' /\ PointerFollows' /\ PointerFreed'
         /\ calls'[t] = call /\ \A u \in Threads \ {t} : calls'[u] = calls[u]
  <1>1. WindowTypes /\ StagesKept /\ RepliesAwaited /\ PointerFollows /\ PointerFreed
    BY DEF WindowsInvariant
  <1>2. /\ calls' \in [Threads -> ThreadCalls] /\ StagesKept' /\ RepliesAwaited'
        /\ calls'[t] = call /\ \A u \in Threads \ {t} : calls'[u] = calls[u]
    BY <1>1, ThreadGoesOn DEF At
  <1>3. WindowTypes'  BY <1>1, <1>2 DEF WindowTypes
  <1>4. PointerKept  BY <1>1, <1>2, PointerAside
  <1> QED  BY <1>1, <1>2, <1>3, <1>4, PointerFrame

(* The same for the rows. *)
LEMMA RowsAside ==
  ASSUME WindowsInvariant, NEW t \in Threads, \A u \in Threads \ {t} : calls'[u] = calls[u],
         calls[t].at \notin {"top", "persist"},
         calls'[t].at \notin {"stored", "set", "top", "persist", "build"},
         disk' = disk, kept' = kept, stale' = stale,
         \A w \in All : mem'[w].row = mem[w].row /\ mem'[w].loaded = mem[w].loaded,
         \A w \in All : web'[w] # {} => web[w] # {} \/ mem[w].loaded
  PROVE  RowsAgree' /\ CopiesAgree'
  <1>1. WindowTypes /\ RowsAgree /\ CopiesAgree  BY DEF WindowsInvariant
  <1>2. RowsKept  BY DEF RowsKept
  <1> QED  BY <1>1, <1>2, RowsFrame

(* Reading a row from disk.                                                  *)
LEMMA HydrateKeeps ==
  ASSUME WindowsInvariant, NEW t \in Threads, Hydrate(t)  PROVE WindowsInvariant'
  <1> DEFINE w == Win(t)
  <1>1. /\ WindowTypes /\ StagesKept /\ RepliesAwaited /\ RowsAgree
        /\ CopiesAgree /\ PointerFollows /\ PointerFreed /\ Legal(t, calls[t])
    BY CallsAreLegal DEF WindowsInvariant
  <1>2. /\ w \in All /\ calls[t].at = "hydrate" /\ calls[t].op \in {"launch", "open", "look", "short"}
        /\ mem[w].loaded \in BOOLEAN /\ disk[w] \in SUBSET ShortcutRows
    BY <1>1 DEF Hydrate, Win, At, Legal, StagesOf, ThreadCalls, WindowTypes, Runtimes
  <1>3. /\ Hydrated(calls[t].op) \in {"build", "rebind", "set"}
        /\ Hydrated(calls[t].op) = "build" => calls[t].op = "open"
        /\ Hydrated(calls[t].op) = "set" => calls[t].op \in {"look", "short"}
        /\ Hydrated(calls[t].op) = "rebind" => calls[t].op = "launch"
    BY <1>2 DEF Hydrated
  <1>4. \E call : /\ Legal(t, call) /\ calls' = [calls EXCEPT ![t] = call] /\ call.win = w
                  /\ \/ mem[w].loaded /\ call.at \in {"build", "rebind", "set"} /\ stale' = stale
                     \/ call.at = "stored" /\ call.row = disk[w] /\ stale' = stale
                     \/ call.at = "stored" /\ stale' = stale \cup {w}
    <2>1. CASE mem[w].loaded
      <3> DEFINE call == [calls[t] EXCEPT !.at = Hydrated(calls[t].op)]
      <3>1. calls' = [calls EXCEPT ![t] = call] /\ stale' = stale  BY <2>1 DEF Hydrate, Goto
      <3>2. Legal(t, call) /\ call.win = w /\ call.at = Hydrated(calls[t].op)
        <4>1. calls[t] \in ThreadCalls /\ Hydrated(calls[t].op) \in Stages
          BY <1>1, <1>3 DEF Legal, Stages
        <4>2. /\ call \in ThreadCalls /\ call.op = calls[t].op /\ call.win = calls[t].win
              /\ call.at = Hydrated(calls[t].op) /\ call.arg = calls[t].arg
          BY <4>1, GoneTo
        <4> QED  BY <1>1, <1>2, <1>3, <4>2 DEF Legal, StagesOf, Win
      <3> QED  BY <1>3, <2>1, <3>1, <3>2
    <2>2. CASE ~mem[w].loaded
      <3>1. PICK row \in SUBSET ShortcutRows :
              /\ calls' = [calls EXCEPT ![t].at = "stored", ![t].row = row]
              /\ (row = disk[w] /\ stale' = stale) \/ stale' = stale \cup {w}
        BY <1>2, <2>2 DEF Hydrate, GotoWith
      <3> DEFINE call == [calls[t] EXCEPT !.at = "stored", !.row = row]
      <3>2. calls' = [calls EXCEPT ![t] = call]  BY <1>1, <3>1 DEF WindowTypes
      <3>3. Legal(t, call) /\ call.win = w /\ call.at = "stored" /\ call.row = row
        <4>1. /\ call \in ThreadCalls /\ call.op = calls[t].op /\ call.win = calls[t].win
              /\ call.at = "stored" /\ call.arg = calls[t].arg /\ call.row = row
          <5>1. calls[t] \in ThreadCalls /\ "stored" \in Stages  BY <1>1 DEF Legal, Stages
          <5> QED  BY <3>1, <5>1 DEF ThreadCalls
        <4> QED  BY <1>1, <1>2, <4>1 DEF Legal, StagesOf, Win
      <3> QED  BY <3>1, <3>2, <3>3
    <2> QED  BY <1>2, <2>1, <2>2
  <1>5. PICK call : /\ Legal(t, call) /\ calls' = [calls EXCEPT ![t] = call] /\ call.win = w
                    /\ \/ mem[w].loaded /\ call.at \in {"build", "rebind", "set"} /\ stale' = stale
                       \/ call.at = "stored" /\ call.row = disk[w] /\ stale' = stale
                       \/ call.at = "stored" /\ stale' = stale \cup {w}
    BY <1>4
  <1>6. /\ web' = web /\ main' = main /\ crossed' = crossed /\ refused' = refused /\ disk' = disk /\ kept' = kept
        /\ bound' = bound /\ requests' = requests /\ mem' = mem
    BY DEF Hydrate, pointerVars, hotkeyVars
  <1>7. /\ WindowTypes' /\ StagesKept' /\ RepliesAwaited' /\ PointerFollows' /\ PointerFreed'
        /\ calls'[t] = call /\ \A u \in Threads \ {t} : calls'[u] = calls[u]
    <2>1. /\ calls[t].at \notin {"reply", "native", "flag", "match", "ignore"} /\ calls[t].op # "restore"
          /\ call.at \notin {"native", "flag", "match", "ignore"} /\ call.op # "restore"
      BY <1>2, <1>5 DEF Legal, StagesOf
    <2>2. \A v \in All : \A page \in web'[v] : \E old \in web[v] : old.ignores = page.ignores
      BY <1>6
    <2>3. /\ web' \in [All -> SUBSET Pages] /\ mem' \in [All -> Runtimes]
          /\ disk' \in [All -> SUBSET ShortcutRows] /\ kept' \in [All -> Looks]
      BY <1>1, <1>6 DEF WindowTypes
    <2> QED  BY <1>5, <1>6, <2>1, <2>2, <2>3, ThreadAside
  <1>8. \A v \in All : Copied(v)' = Copied(v)
    BY <1>2, <1>5, <1>7 DEF Copied, Win
  <1>9. stale \subseteq stale' /\ (call.at = "stored" => w \in stale' \/ (call.row = disk[w]))
    BY <1>5
  <1>10. RowsAgree'
    BY <1>1, <1>5, <1>6, <1>7, <1>8, <1>9 DEF RowsAgree, Win
  <1>11. CopiesAgree'
    <2>1. \A v \in All \ stale' : \A x, u \in Copied(v)' : x = u
      BY <1>1, <1>8, <1>9 DEF CopiesAgree
    <2>2. \A u \in Threads : calls'[u].at \in {"top", "persist"} => u # t  BY <1>5, <1>7
    <2>3. ASSUME NEW u \in Threads, Win(u)' \notin stale', calls'[u].at \in {"top", "persist"},
                 NEW r \in calls'[u].row
          PROVE  r.look = mem[Win(u)'].row.look /\ (calls'[u].op # "look" => r.look = kept[Win(u)'])
      BY <1>1, <1>7, <1>9, <2>2, <2>3 DEF CopiesAgree, Win
    <2>4. ASSUME NEW u \in Threads, Win(u)' \notin stale', calls'[u].at = "stored", ~mem[Win(u)'].loaded
          PROVE  /\ calls'[u].row = {} => kept[Win(u)'] = DefaultLook
                 /\ \A r \in calls'[u].row : r.look = kept[Win(u)']
      <3>1. CASE u = t
        <4>1. w \notin stale /\ w \notin stale' /\ calls'[u].row = disk[w] /\ Win(u)' = w
          BY <1>5, <1>7, <1>9, <2>4, <3>1 DEF Win
        <4> QED  BY <1>1, <1>2, <4>1 DEF RowsAgree
      <3>2. CASE u # t  BY <1>1, <1>7, <1>9, <2>4, <3>2 DEF CopiesAgree, Win, At
      <3> QED  BY <3>1, <3>2
    <2> QED  BY <1>6, <2>1, <2>3, <2>4 DEF CopiesAgree, At
  <1> QED  BY <1>7, <1>10, <1>11 DEF WindowsInvariant


(* What every step starts from. *)
LEMMA Known ==
  ASSUME WindowsInvariant, NEW t \in Threads
  PROVE  /\ WindowTypes /\ StagesKept /\ RepliesAwaited /\ RowsAgree
         /\ CopiesAgree /\ PointerFollows /\ PointerFreed
         /\ Legal(t, calls[t]) /\ StagesOf(calls[t]) /\ calls[t] \in ThreadCalls
         /\ Win(t) \in All /\ Win(t) = calls[t].win /\ calls[t].row \in SUBSET ShortcutRows
         /\ mem[Win(t)] \in Runtimes /\ web[Win(t)] \in SUBSET Pages
  <1>1. /\ WindowTypes /\ StagesKept /\ RepliesAwaited /\ RowsAgree
        /\ CopiesAgree /\ PointerFollows /\ PointerFreed /\ Legal(t, calls[t])
    BY CallsAreLegal DEF WindowsInvariant
  <1>2. calls[t] \in ThreadCalls /\ StagesOf(calls[t])  BY <1>1 DEF Legal
  <1>3. Win(t) = calls[t].win /\ calls[t].win \in All /\ calls[t].row \in SUBSET ShortcutRows
    BY <1>2 DEF Win, ThreadCalls
  <1> QED  BY <1>1, <1>2, <1>3 DEF WindowTypes

(* Adopting the row that was read into memory.                               *)
LEMMA AdoptKeeps ==
  ASSUME WindowsInvariant, NEW t \in Threads, Adopt(t)  PROVE WindowsInvariant'
  <1> DEFINE w == Win(t)
  <1> DEFINE call == [calls[t] EXCEPT !.at = Hydrated(calls[t].op), !.row = {}]
  <1> DEFINE m == Adopted(mem[w], calls[t].row)
  <1>1. /\ WindowTypes /\ RowsAgree /\ CopiesAgree /\ Legal(t, calls[t]) /\ StagesOf(calls[t])
        /\ calls[t] \in ThreadCalls /\ w \in All /\ mem[w] \in Runtimes
        /\ calls[t].win = w /\ calls[t].row \in SUBSET ShortcutRows
    BY Known
  <1>2. /\ calls[t].at = "stored" /\ calls[t].op \in {"launch", "open", "look", "short"}
        /\ mem' = [mem EXCEPT ![w] = m] /\ calls' = [calls EXCEPT ![t].at = Hydrated(calls[t].op), ![t].row = {}]
        /\ web' = web /\ main' = main /\ crossed' = crossed /\ refused' = refused /\ disk' = disk /\ stale' = stale
        /\ kept' = kept /\ bound' = bound /\ requests' = requests
    BY <1>1 DEF Adopt, At, GotoWith, StagesOf, pointerVars, rowVars, hotkeyVars
  <1>3. /\ Hydrated(calls[t].op) \in {"build", "rebind", "set"}
        /\ Hydrated(calls[t].op) = "build" => calls[t].op = "open"
        /\ Hydrated(calls[t].op) = "set" => calls[t].op \in {"look", "short"}
        /\ Hydrated(calls[t].op) = "rebind" => calls[t].op = "launch"
    BY <1>2 DEF Hydrated
  <1>4. Legal(t, call) /\ call.at \in {"build", "rebind", "set"} /\ call.win = w /\ call.op # "restore"
    <2>1. Hydrated(calls[t].op) \in Stages  BY <1>3 DEF Stages
    <2>2. /\ call \in ThreadCalls /\ call.op = calls[t].op /\ call.win = calls[t].win
          /\ call.at = Hydrated(calls[t].op) /\ call.arg = calls[t].arg
      BY <1>1, <2>1 DEF ThreadCalls
    <2> QED  BY <1>1, <1>2, <1>3, <2>2 DEF Legal, StagesOf
  <1>5. calls' = [calls EXCEPT ![t] = call]  BY <1>1, <1>2 DEF WindowTypes
  <1>6. /\ m \in Runtimes /\ m.loaded /\ m.through = mem[w].through
        /\ mem[w].loaded => m = mem[w]
        /\ ~mem[w].loaded => \/ calls[t].row = {} /\ m.row = mem[w].row
                             \/ m.row \in calls[t].row
    <2>1. calls[t].row # {} => (CHOOSE r \in calls[t].row : TRUE) \in calls[t].row  OBVIOUS
    <2>2. CASE mem[w].loaded  BY <1>1, <2>2 DEF Adopted, Runtimes
    <2>3. CASE ~mem[w].loaded /\ calls[t].row = {}  BY <1>1, <2>3 DEF Adopted, Runtimes
    <2>4. CASE ~mem[w].loaded /\ calls[t].row # {}
      <3>1. PICK r \in calls[t].row : r = CHOOSE q \in calls[t].row : TRUE  BY <2>1, <2>4
      <3>2. m = [mem[w] EXCEPT !.loaded = TRUE, !.row = r]  BY <2>4, <3>1 DEF Adopted
      <3>3. r \in ShortcutRows  BY <1>1, <3>1
      <3>4. m \in Runtimes /\ m.loaded = TRUE /\ m.through = mem[w].through /\ m.row = r
        BY <1>1, <3>2, <3>3 DEF Runtimes
      <3> QED  BY <2>4, <3>1, <3>4
    <2> QED  BY <2>2, <2>3, <2>4
  <1> HIDE DEF call, m
  <1>7. mem'[w] = m /\ \A v \in All \ {w} : mem'[v] = mem[v]  BY <1>1, <1>2 DEF WindowTypes
  <1>8. /\ WindowTypes' /\ StagesKept' /\ RepliesAwaited' /\ PointerFollows' /\ PointerFreed'
        /\ calls'[t] = call /\ \A u \in Threads \ {t} : calls'[u] = calls[u]
    <2>1. \A v \in All : \A page \in web'[v] : \E old \in web[v] : old.ignores = page.ignores
      BY <1>2
    <2>2. /\ web' \in [All -> SUBSET Pages] /\ mem' \in [All -> Runtimes]
          /\ disk' \in [All -> SUBSET ShortcutRows] /\ kept' \in [All -> Looks]
      BY <1>1, <1>2, <1>6 DEF WindowTypes
    <2>3. \A v \in All : mem'[v].through = mem[v].through  BY <1>6, <1>7
    <2> QED  BY <1>2, <1>4, <1>5, <2>1, <2>2, <2>3, ThreadAside
  <1>9. \A v \in All : Copied(v)' = Copied(v)  BY <1>2, <1>4, <1>8 DEF Copied, Win
  <1>10. \A v \in All : mem[v].loaded => mem'[v] = mem[v]  BY <1>6, <1>7
  <1>11. ~mem[w].loaded => Copied(w) = {}  BY <1>1 DEF RowsAgree, Copied
  <1>12. RowsAgree'
    <2>1. \A v \in All : web'[v] # {} => mem'[v].loaded  BY <1>1, <1>2, <1>10 DEF RowsAgree
    <2>2. ASSUME NEW u \in Threads, calls'[u].at \in {"set", "top", "persist", "build"}
          PROVE  mem'[Win(u)'].loaded
      <3>1. CASE u = t  BY <1>4, <1>6, <1>7, <1>8, <3>1 DEF Win
      <3>2. CASE u # t  BY <1>1, <1>8, <1>10, <2>2, <3>2, Known DEF RowsAgree, Win
      <3> QED  BY <3>1, <3>2
    <2>3. ASSUME NEW v \in All
          PROVE  /\ ~mem'[v].loaded => mem'[v].row.look = DefaultLook
                 /\ v \notin stale /\ mem'[v].loaded /\ Copied(v) = {} => mem'[v].row.look = kept[v]
      <3>1. CASE mem[v].loaded \/ v # w  BY <1>1, <1>7, <1>10, <3>1 DEF RowsAgree
      <3>2. CASE ~mem[v].loaded /\ v = w
        <4>1. CASE v \in stale  BY <1>6, <1>7, <3>2, <4>1
        <4>2. CASE v \notin stale
          <5>1. /\ calls[t].row = {} => kept[w] = DefaultLook
                /\ \A r \in calls[t].row : r.look = kept[w]
            BY <1>1, <1>2, <3>2, <4>2 DEF CopiesAgree, At
          <5>2. mem[w].row.look = DefaultLook  BY <1>1, <3>2 DEF RowsAgree
          <5> QED  BY <1>6, <1>7, <3>2, <5>1, <5>2
        <4> QED  BY <4>1, <4>2
      <3> QED  BY <3>1, <3>2
    <2>4. /\ \A v \in All : disk'[v] = {} => kept'[v] = DefaultLook
          /\ \A v \in All : \A r, q \in disk'[v] : r = q
          /\ \A v \in All \ stale' : \A r \in disk'[v] : r.look = kept'[v]
      BY <1>1, <1>2 DEF RowsAgree
    <2>5. \A v \in All \ stale' : mem'[v].loaded /\ Copied(v)' = {} => mem'[v].row.look = kept'[v]
      BY <1>2, <1>9, <2>3
    <2> QED  BY <2>1, <2>2, <2>3, <2>4, <2>5 DEF RowsAgree
  <1>13. CopiesAgree'
    <2>1. \A v \in All \ stale : \A x, u \in Copied(v) : x = u  BY <1>1 DEF CopiesAgree
    <2>2. ASSUME NEW u \in Threads, Win(u)' \notin stale, calls'[u].at \in {"top", "persist"},
                 NEW r \in calls'[u].row
          PROVE  r.look = mem'[Win(u)'].row.look /\ (calls'[u].op # "look" => r.look = kept[Win(u)'])
      <3>1. u # t /\ calls'[u] = calls[u]  BY <1>4, <1>8, <2>2
      <3>2. mem'[Win(u)] = mem[Win(u)]  BY <1>1, <1>10, <2>2, <3>1, Known DEF RowsAgree
      <3> QED  BY <1>1, <2>2, <3>1, <3>2 DEF CopiesAgree, Win
    <2>3. ASSUME NEW u \in Threads, Win(u)' \notin stale, calls'[u].at = "stored", ~mem'[Win(u)'].loaded
          PROVE  /\ calls'[u].row = {} => kept[Win(u)'] = DefaultLook
                 /\ \A r \in calls'[u].row : r.look = kept[Win(u)']
      <3>1. u # t /\ calls'[u] = calls[u]  BY <1>4, <1>8, <2>3
      <3>2. ~mem[Win(u)].loaded  BY <1>10, <2>3, <3>1, Known DEF Win
      <3> QED  BY <1>1, <2>3, <3>1, <3>2 DEF CopiesAgree, Win, At
    <2>4. \A v \in All \ stale' : \A x, u \in Copied(v)' : x = u  BY <1>2, <1>9, <2>1
    <2> QED  BY <1>2, <2>2, <2>3, <2>4 DEF CopiesAgree, At
  <1> QED  BY <1>8, <1>12, <1>13 DEF WindowsInvariant

(* Setting a look or a shortcut in memory, and copying the row to be stored. *)
LEMMA SetKeeps ==
  ASSUME WindowsInvariant, NEW t \in Threads, Set(t)  PROVE WindowsInvariant'
  <1> DEFINE w == Win(t)
  <1> DEFINE row == IF calls[t].op = "look" THEN [mem[w].row EXCEPT !.look = calls[t].arg]
                                            ELSE [mem[w].row EXCEPT !.on = calls[t].arg]
  <1> DEFINE at == IF calls[t].op = "look" THEN "top" ELSE "persist"
  <1> DEFINE call == [calls[t] EXCEPT !.at = at, !.row = {row}]
  <1>1. /\ WindowTypes /\ RowsAgree /\ CopiesAgree /\ Legal(t, calls[t]) /\ StagesOf(calls[t])
        /\ calls[t] \in ThreadCalls /\ w \in All /\ mem[w] \in Runtimes
        /\ calls[t].win = w
    BY Known
  <1>2. /\ calls[t].at = "set" /\ calls[t].op \in {"look", "short"}
        /\ mem' = [mem EXCEPT ![w].row = row] /\ calls' = [calls EXCEPT ![t].at = at, ![t].row = {row}]
        /\ stale' = (IF Copied(w) = {} THEN stale ELSE stale \cup {w})
        /\ web' = web /\ main' = main /\ crossed' = crossed /\ refused' = refused /\ disk' = disk
        /\ kept' = kept /\ bound' = bound /\ requests' = requests
    BY <1>1 DEF Set, At, GotoWith, StagesOf, pointerVars, hotkeyVars
  <1>3. row \in ShortcutRows /\ (calls[t].op # "look" => row.look = mem[w].row.look)
    <2>1. mem[w].row \in ShortcutRows  BY <1>1 DEF Runtimes
    <2>2. CASE calls[t].op = "look"  BY <1>1, <2>1, <2>2 DEF StagesOf, ShortcutRows
    <2>3. CASE calls[t].op # "look"
      <3>1. calls[t].arg \in BOOLEAN  BY <1>1, <1>2, <2>3 DEF StagesOf
      <3> QED  BY <2>1, <2>3, <3>1 DEF ShortcutRows
    <2> QED  BY <2>2, <2>3
  <1>4. /\ Legal(t, call) /\ call.at \in {"top", "persist"} /\ call.win = w
        /\ call.op = calls[t].op /\ call.op # "restore" /\ call.row = {row}
    <2>1. at \in Stages /\ {row} \in SUBSET ShortcutRows  BY <1>3 DEF Stages
    <2> HIDE DEF at, row
    <2>2. /\ call \in ThreadCalls /\ call.op = calls[t].op /\ call.win = calls[t].win
          /\ call.at = at /\ call.arg = calls[t].arg /\ call.row = {row}
      BY <1>1, <2>1 DEF ThreadCalls
    <2>3. at \in {"top", "persist"} /\ (at = "top" <=> calls[t].op = "look")  BY DEF at
    <2> QED  BY <1>1, <1>2, <2>2, <2>3 DEF Legal, StagesOf
  <1>5. calls' = [calls EXCEPT ![t] = call]  BY <1>1, <1>2 DEF WindowTypes
  <1> HIDE DEF row, at, call
  <1>6. /\ mem' \in [All -> Runtimes]
        /\ mem'[w].row = row /\ mem'[w].loaded = mem[w].loaded /\ mem'[w].through = mem[w].through
        /\ \A v \in All \ {w} : mem'[v] = mem[v]
    BY <1>1, <1>2, <1>3 DEF WindowTypes, Runtimes
  <1>7. /\ WindowTypes' /\ StagesKept' /\ RepliesAwaited' /\ PointerFollows' /\ PointerFreed'
        /\ calls'[t] = call /\ \A u \in Threads \ {t} : calls'[u] = calls[u]
    <2>1. \A v \in All : \A page \in web'[v] : \E old \in web[v] : old.ignores = page.ignores
      BY <1>2
    <2>2. /\ web' \in [All -> SUBSET Pages] /\ disk' \in [All -> SUBSET ShortcutRows]
          /\ kept' \in [All -> Looks]
      BY <1>1, <1>2 DEF WindowTypes
    <2>3. \A v \in All : mem'[v].through = mem[v].through  BY <1>6
    <2> QED  BY <1>2, <1>4, <1>5, <1>6, <2>1, <2>2, <2>3, ThreadAside
  <1>8. /\ \A v \in All \ {w} : Copied(v)' = Copied(v)
        /\ \A v \in All : v = w => Copied(v)' = Copied(v) \cup {t}
    BY <1>1, <1>4, <1>7, Known DEF Copied, Win
  <1>9. stale \subseteq stale' /\ (w \notin stale' => Copied(w) = {})  BY <1>2
  <1>10. mem[w].loaded /\ \A v \in All : mem'[v].loaded = mem[v].loaded
    BY <1>1, <1>2, <1>6 DEF RowsAgree
  <1>11. RowsAgree'
    <2>1. \A v \in All : web'[v] # {} => mem'[v].loaded  BY <1>1, <1>2, <1>10 DEF RowsAgree
    <2>2. ASSUME NEW u \in Threads, calls'[u].at \in {"set", "top", "persist", "build"}
          PROVE  mem'[Win(u)'].loaded
      <3>1. CASE u = t  BY <1>4, <1>7, <1>10, <1>1, <3>1 DEF Win
      <3>2. CASE u # t  BY <1>1, <1>7, <1>10, <2>2, <3>2, Known DEF RowsAgree, Win
      <3> QED  BY <3>1, <3>2
    <2>3. /\ \A v \in All : disk'[v] = {} => kept'[v] = DefaultLook
          /\ \A v \in All : \A r, q \in disk'[v] : r = q
          /\ \A v \in All \ stale' : \A r \in disk'[v] : r.look = kept'[v]
      BY <1>1, <1>2, <1>9 DEF RowsAgree
    <2>4. \A v \in All : ~mem'[v].loaded => mem'[v].row.look = DefaultLook
      BY <1>1, <1>6, <1>10 DEF RowsAgree
    <2>5. \A v \in All \ stale' : mem'[v].loaded /\ Copied(v)' = {} => mem'[v].row.look = kept'[v]
      <3> SUFFICES ASSUME NEW v \in All \ stale', mem'[v].loaded, Copied(v)' = {}
                   PROVE  mem'[v].row.look = kept[v]
        BY <1>2
      <3>1. v # w  BY <1>8
      <3>2. Copied(v) = {} /\ v \notin stale /\ mem'[v] = mem[v]  BY <1>6, <1>8, <1>9, <3>1
      <3> QED  BY <1>1, <1>2, <3>2 DEF RowsAgree
    <2> QED  BY <2>1, <2>2, <2>3, <2>4, <2>5 DEF RowsAgree
  <1>12. CopiesAgree'
    <2>1. \A v \in All \ stale' : \A x, u \in Copied(v)' : x = u
      <3> SUFFICES ASSUME NEW v \in All \ stale', NEW x \in Copied(v)', NEW u \in Copied(v)'
                   PROVE  x = u
        OBVIOUS
      <3>1. CASE v = w  BY <1>8, <1>9, <3>1
      <3>2. CASE v # w
        <4>1. v \in All \ stale /\ x \in Copied(v) /\ u \in Copied(v)  BY <1>8, <1>9, <3>2
        <4> QED  BY <1>1, <4>1 DEF CopiesAgree
      <3> QED  BY <3>1, <3>2
    <2>2. ASSUME NEW u \in Threads, Win(u)' \notin stale', calls'[u].at \in {"top", "persist"},
                 NEW r \in calls'[u].row
          PROVE  r.look = mem'[Win(u)'].row.look /\ (calls'[u].op # "look" => r.look = kept'[Win(u)'])
      <3>1. CASE u = t
        <4>1. Win(u)' = w /\ r = row /\ calls'[u].op = calls[t].op  BY <1>4, <1>7, <2>2, <3>1 DEF Win
        <4>2. mem[w].row.look = kept[w]  BY <1>1, <1>9, <1>10, <2>2, <4>1 DEF RowsAgree
        <4> QED  BY <1>2, <1>3, <1>6, <4>1, <4>2
      <3>2. CASE u # t
        <4>1. calls'[u] = calls[u] /\ Win(u)' = Win(u) /\ Win(u) \in All  BY <1>7, <3>2, Known DEF Win
        <4>2. u \in Copied(Win(u))  BY <2>2, <4>1 DEF Copied
        <4>3. Win(u) # w  BY <1>9, <2>2, <4>1, <4>2
        <4> QED  BY <1>1, <1>2, <1>6, <1>9, <2>2, <4>1, <4>3 DEF CopiesAgree
      <3> QED  BY <3>1, <3>2
    <2>3. ASSUME NEW u \in Threads, Win(u)' \notin stale', calls'[u].at = "stored", ~mem'[Win(u)'].loaded
          PROVE  /\ calls'[u].row = {} => kept'[Win(u)'] = DefaultLook
                 /\ \A r \in calls'[u].row : r.look = kept'[Win(u)']
      <3>1. u # t /\ calls'[u] = calls[u]  BY <1>4, <1>7, <2>3
      <3>2. ~mem[Win(u)].loaded /\ Win(u)' = Win(u)  BY <1>10, <2>3, <3>1, Known DEF Win
      <3> QED  BY <1>1, <1>2, <1>9, <2>3, <3>1, <3>2 DEF CopiesAgree, At
    <2> QED  BY <2>1, <2>2, <2>3 DEF CopiesAgree, At
  <1> QED  BY <1>7, <1>11, <1>12 DEF WindowsInvariant

(* Applying a look to the native window.                                     *)
LEMMA TopKeeps ==
  ASSUME WindowsInvariant, NEW t \in Threads, Top(t)  PROVE WindowsInvariant'
  <1> DEFINE w == Win(t)
  <1>1. /\ WindowTypes /\ RowsAgree /\ CopiesAgree /\ Legal(t, calls[t]) /\ StagesOf(calls[t])
        /\ calls[t] \in ThreadCalls /\ w \in All /\ calls[t].win = w
    BY Known
  <1>2. /\ calls[t].at = "top" /\ calls[t].op = "look"
        /\ web' = web /\ main' = main /\ crossed' = crossed /\ refused' = refused /\ disk' = disk /\ mem' = mem
        /\ kept' = kept /\ bound' = bound /\ requests' = requests
    BY <1>1 DEF Top, At, StagesOf, pointerVars, hotkeyVars
  <1>3. \E call : /\ Legal(t, call) /\ calls' = [calls EXCEPT ![t] = call] /\ call.op # "restore"
                  /\ \/ /\ stale' = stale /\ call.at = "persist"
                        /\ call.win = w /\ call.op = calls[t].op /\ call.row = calls[t].row
                     \/ stale' = stale \cup {w} /\ call.at = "idle"
    <2>1. CASE Goto(t, "persist") /\ stale' = stale
      <3> DEFINE call == [calls[t] EXCEPT !.at = "persist"]
      <3>1. "persist" \in Stages  BY DEF Stages
      <3>2. /\ call \in ThreadCalls /\ call.op = calls[t].op /\ call.win = w
            /\ call.at = "persist" /\ call.arg = calls[t].arg /\ call.row = calls[t].row
        BY <1>1, <3>1, GoneTo
      <3>3. Legal(t, call)  BY <1>1, <1>2, <3>2 DEF Legal, StagesOf
      <3>4. calls' = [calls EXCEPT ![t] = call]  BY <2>1 DEF Goto
      <3> QED  BY <1>2, <2>1, <3>2, <3>3, <3>4
    <2>2. CASE Done(t) /\ stale' = stale \cup {w}
      BY <2>2, IdleFields DEF Done
    <2> QED  BY <1>2, <2>1, <2>2 DEF Top
  <1>4. PICK call : /\ Legal(t, call) /\ calls' = [calls EXCEPT ![t] = call] /\ call.op # "restore"
                    /\ \/ /\ stale' = stale /\ call.at = "persist"
                          /\ call.win = w /\ call.op = calls[t].op /\ call.row = calls[t].row
                       \/ stale' = stale \cup {w} /\ call.at = "idle"
    BY <1>3
  <1>5. /\ WindowTypes' /\ StagesKept' /\ RepliesAwaited' /\ PointerFollows' /\ PointerFreed'
        /\ calls'[t] = call /\ \A u \in Threads \ {t} : calls'[u] = calls[u]
    <2>1. \A v \in All : \A page \in web'[v] : \E old \in web[v] : old.ignores = page.ignores
      BY <1>2
    <2>2. /\ web' \in [All -> SUBSET Pages] /\ disk' \in [All -> SUBSET ShortcutRows]
          /\ kept' \in [All -> Looks] /\ mem' \in [All -> Runtimes]
      BY <1>1, <1>2 DEF WindowTypes
    <2> QED  BY <1>2, <1>4, <2>1, <2>2, ThreadAside
  <1>6. /\ stale \subseteq stale'
        /\ \A v \in All \ stale' : Copied(v)' = Copied(v)
    BY <1>1, <1>2, <1>4, <1>5 DEF Copied, Win
  <1>7. RowsAgree'
    <2>1. \A v \in All : web'[v] # {} => mem'[v].loaded  BY <1>1, <1>2 DEF RowsAgree
    <2>2. ASSUME NEW u \in Threads, calls'[u].at \in {"set", "top", "persist", "build"}
          PROVE  mem'[Win(u)'].loaded
      BY <1>1, <1>2, <1>4, <1>5, <2>2 DEF RowsAgree, Win
    <2>3. /\ \A v \in All : disk'[v] = {} => kept'[v] = DefaultLook
          /\ \A v \in All : \A r, q \in disk'[v] : r = q
          /\ \A v \in All \ stale' : \A r \in disk'[v] : r.look = kept'[v]
      BY <1>1, <1>2, <1>6 DEF RowsAgree
    <2>4. \A v \in All : ~mem'[v].loaded => mem'[v].row.look = DefaultLook
      BY <1>1, <1>2 DEF RowsAgree
    <2>5. \A v \in All \ stale' : mem'[v].loaded /\ Copied(v)' = {} => mem'[v].row.look = kept'[v]
      BY <1>1, <1>2, <1>6 DEF RowsAgree
    <2> QED  BY <2>1, <2>2, <2>3, <2>4, <2>5 DEF RowsAgree
  <1>8. CopiesAgree'
    <2>1. \A v \in All \ stale' : \A x, u \in Copied(v)' : x = u
      BY <1>1, <1>6 DEF CopiesAgree
    <2>2. ASSUME NEW u \in Threads, Win(u)' \notin stale', calls'[u].at \in {"top", "persist"},
                 NEW r \in calls'[u].row
          PROVE  r.look = mem'[Win(u)'].row.look /\ (calls'[u].op # "look" => r.look = kept'[Win(u)'])
      <3>1. /\ calls[u].at \in {"top", "persist"} /\ calls[u].win = calls'[u].win
            /\ calls[u].op = calls'[u].op /\ r \in calls[u].row
        BY <1>1, <1>2, <1>4, <1>5, <2>2
      <3> QED  BY <1>1, <1>2, <1>6, <2>2, <3>1 DEF CopiesAgree, Win
    <2>3. ASSUME NEW u \in Threads, Win(u)' \notin stale', calls'[u].at = "stored", ~mem'[Win(u)'].loaded
          PROVE  /\ calls'[u].row = {} => kept'[Win(u)'] = DefaultLook
                 /\ \A r \in calls'[u].row : r.look = kept'[Win(u)']
      BY <1>1, <1>2, <1>4, <1>5, <1>6, <2>3 DEF CopiesAgree, At, Win
    <2> QED  BY <2>1, <2>2, <2>3 DEF CopiesAgree, At
  <1> QED  BY <1>5, <1>7, <1>8 DEF WindowsInvariant

(* Storing the copy of a row.                                                *)
LEMMA PersistKeeps ==
  ASSUME WindowsInvariant, NEW t \in Threads, Persist(t)  PROVE WindowsInvariant'
  <1> DEFINE w == Win(t)
  <1>1. /\ WindowTypes /\ RowsAgree /\ CopiesAgree /\ Legal(t, calls[t]) /\ StagesOf(calls[t])
        /\ calls[t] \in ThreadCalls /\ w \in All /\ calls[t].win = w
        /\ calls[t].row \in SUBSET ShortcutRows
    BY Known
  <1>2. /\ calls[t].at = "persist" /\ calls[t].op \in {"look", "short", "move", "shut"}
        /\ main' = main /\ crossed' = crossed /\ refused' = refused /\ mem' = mem
        /\ bound' = bound /\ requests' = requests
        /\ web' = [web EXCEPT ![w] = IF calls[t].op = "shut" THEN {} ELSE @]
    BY <1>1 DEF Persist, At, StagesOf, hotkeyVars
  <1>3. PICK row \in calls[t].row :
          \/ /\ disk' = [disk EXCEPT ![w] = {row}]
             /\ kept' = IF calls[t].op = "look" THEN [kept EXCEPT ![w] = row.look] ELSE kept
             /\ IF calls[t].op = "short" THEN GotoWith(t, "rebind", {}) ELSE Done(t)
             /\ stale' = stale
          \/ disk' = disk /\ kept' = kept /\ Done(t) /\ stale' = stale \cup {w}
    BY DEF Persist
  <1>4. row \in ShortcutRows /\ row.look \in Looks  BY <1>1, <1>3 DEF ShortcutRows
  <1>5. \E call : /\ Legal(t, call) /\ calls' = [calls EXCEPT ![t] = call]
                  /\ call.op # "restore" /\ call.at \in {"idle", "rebind"}
    <2>1. CASE GotoWith(t, "rebind", {}) /\ calls[t].op = "short"
      <3> DEFINE call == [calls[t] EXCEPT !.at = "rebind", !.row = {}]
      <3>1. "rebind" \in Stages  BY DEF Stages
      <3>2. /\ call \in ThreadCalls /\ call.op = calls[t].op /\ call.win = w
            /\ call.at = "rebind" /\ call.arg = calls[t].arg
        BY <1>1, <3>1 DEF ThreadCalls
      <3>3. Legal(t, call)  BY <1>1, <2>1, <3>2 DEF Legal, StagesOf
      <3>4. calls' = [calls EXCEPT ![t] = call]  BY <1>1, <2>1 DEF GotoWith, WindowTypes
      <3> QED  BY <2>1, <3>2, <3>3, <3>4
    <2>2. CASE Done(t)  BY <2>2, IdleFields DEF Done
    <2> QED  BY <1>3, <2>1, <2>2
  <1>6. PICK call : /\ Legal(t, call) /\ calls' = [calls EXCEPT ![t] = call]
                    /\ call.op # "restore" /\ call.at \in {"idle", "rebind"}
    BY <1>5
  <1>7. /\ web' \in [All -> SUBSET Pages] /\ mem' \in [All -> Runtimes]
        /\ disk' \in [All -> SUBSET ShortcutRows] /\ kept' \in [All -> Looks]
    BY <1>1, <1>2, <1>3, <1>4 DEF WindowTypes
  <1>8. \A v \in All : web'[v] \subseteq web[v]  BY <1>1, <1>2 DEF WindowTypes
  <1>9. /\ WindowTypes' /\ StagesKept' /\ RepliesAwaited' /\ PointerFollows' /\ PointerFreed'
        /\ calls'[t] = call /\ \A u \in Threads \ {t} : calls'[u] = calls[u]
    <2>1. \A v \in All : \A page \in web'[v] : \E old \in web[v] : old.ignores = page.ignores
      BY <1>8
    <2>2. /\ calls[t].at \notin {"reply", "native", "flag", "match", "ignore"}
          /\ call.at \notin {"native", "flag", "match", "ignore"} /\ calls[t].op # "restore"
      BY <1>2, <1>6
    <2> QED  BY <1>2, <1>6, <1>7, <2>1, <2>2, ThreadAside
  <1>10. t \in Copied(w) /\ mem[w].loaded  BY <1>1, <1>2 DEF Copied, RowsAgree
  <1>11. /\ stale \subseteq stale'
         /\ \A v \in All \ {w} : Copied(v)' = Copied(v) /\ kept'[v] = kept[v] /\ disk'[v] = disk[v]
    <2>1. \A v \in All \ {w} : Copied(v)' = Copied(v)  BY <1>1, <1>6, <1>9 DEF Copied, Win
    <2>2. \A v \in All \ {w} : kept'[v] = kept[v] /\ disk'[v] = disk[v]
      BY <1>1, <1>3 DEF WindowTypes
    <2> QED  BY <1>3, <2>1, <2>2
  <1>12. w \notin stale' =>
           /\ Copied(w) = {t} /\ disk'[w] = {row} /\ row.look = kept'[w]
           /\ mem'[w].row.look = kept'[w]
    <2> SUFFICES ASSUME w \notin stale'
                 PROVE  /\ Copied(w) = {t} /\ disk'[w] = {row} /\ row.look = kept'[w]
                        /\ mem'[w].row.look = kept'[w]
      OBVIOUS
    <2>1. /\ w \notin stale /\ disk' = [disk EXCEPT ![w] = {row}]
          /\ kept' = IF calls[t].op = "look" THEN [kept EXCEPT ![w] = row.look] ELSE kept
      BY <1>3
    <2>2. row.look = mem[w].row.look /\ (calls[t].op # "look" => row.look = kept[w])
      BY <1>1, <1>2, <1>3, <2>1 DEF CopiesAgree
    <2>3. Copied(w) = {t}  BY <1>1, <1>10, <2>1 DEF CopiesAgree
    <2>4. kept'[w] = row.look  BY <1>1, <2>1, <2>2 DEF WindowTypes
    <2>5. disk'[w] = {row}  BY <1>1, <2>1 DEF WindowTypes
    <2> QED  BY <1>2, <2>2, <2>3, <2>4, <2>5
  <1>13. RowsAgree'
    <2>1. \A v \in All : web'[v] # {} => mem'[v].loaded  BY <1>1, <1>2, <1>8 DEF RowsAgree
    <2>2. ASSUME NEW u \in Threads, calls'[u].at \in {"set", "top", "persist", "build"}
          PROVE  mem'[Win(u)'].loaded
      BY <1>1, <1>2, <1>6, <1>9, <2>2 DEF RowsAgree, Win
    <2>3. \A v \in All : disk'[v] = {} => kept'[v] = DefaultLook
      <3>1. disk'[w] = {} => kept' = kept /\ disk' = disk  BY <1>1, <1>3 DEF WindowTypes
      <3> QED  BY <1>1, <1>11, <3>1 DEF RowsAgree
    <2>4. \A v \in All : \A r, q \in disk'[v] : r = q
      <3>1. disk'[w] = {row} \/ disk'[w] = disk[w]  BY <1>1, <1>3 DEF WindowTypes
      <3> QED  BY <1>1, <1>11, <3>1 DEF RowsAgree
    <2>5. \A v \in All \ stale' : \A r \in disk'[v] : r.look = kept'[v]
      <3> SUFFICES ASSUME NEW v \in All \ stale', NEW r \in disk'[v]  PROVE r.look = kept'[v]
        OBVIOUS
      <3>1. CASE v = w  BY <1>12, <3>1
      <3>2. CASE v # w  BY <1>1, <1>11, <3>2 DEF RowsAgree
      <3> QED  BY <3>1, <3>2
    <2>6. \A v \in All : ~mem'[v].loaded => mem'[v].row.look = DefaultLook
      BY <1>1, <1>2 DEF RowsAgree
    <2>7. \A v \in All \ stale' : mem'[v].loaded /\ Copied(v)' = {} => mem'[v].row.look = kept'[v]
      <3> SUFFICES ASSUME NEW v \in All \ stale', mem'[v].loaded, Copied(v)' = {}
                   PROVE  mem'[v].row.look = kept'[v]
        OBVIOUS
      <3>1. CASE v = w  BY <1>12, <3>1
      <3>2. CASE v # w  BY <1>1, <1>2, <1>11, <3>2 DEF RowsAgree
      <3> QED  BY <3>1, <3>2
    <2> QED  BY <2>1, <2>2, <2>3, <2>4, <2>5, <2>6, <2>7 DEF RowsAgree
  <1>14. CopiesAgree'
    <2>1. \A v \in All \ stale' : \A x, u \in Copied(v)' : x = u
      <3>1. \A v \in All : Copied(v)' \subseteq Copied(v)  BY <1>1, <1>6, <1>9 DEF Copied, Win
      <3> QED  BY <1>1, <1>11, <3>1 DEF CopiesAgree
    <2>2. ASSUME NEW u \in Threads, Win(u)' \notin stale', calls'[u].at \in {"top", "persist"},
                 NEW r \in calls'[u].row
          PROVE  r.look = mem'[Win(u)'].row.look /\ (calls'[u].op # "look" => r.look = kept'[Win(u)'])
      <3>1. u # t  BY <1>6, <1>9, <2>2
      <3>2. calls'[u] = calls[u] /\ Win(u)' = Win(u) /\ Win(u) \in All  BY <1>9, <3>1, Known DEF Win
      <3>3. u \in Copied(Win(u))  BY <2>2, <3>2 DEF Copied
      <3>4. Win(u) # w  BY <1>12, <2>2, <3>1, <3>2, <3>3
      <3> QED  BY <1>1, <1>2, <1>11, <2>2, <3>2, <3>4 DEF CopiesAgree
    <2>3. ASSUME NEW u \in Threads, Win(u)' \notin stale', calls'[u].at = "stored", ~mem'[Win(u)'].loaded
          PROVE  /\ calls'[u].row = {} => kept'[Win(u)'] = DefaultLook
                 /\ \A r \in calls'[u].row : r.look = kept'[Win(u)']
      <3>1. u # t  BY <1>6, <1>9, <2>3
      <3>2. calls'[u] = calls[u] /\ Win(u)' = Win(u) /\ Win(u) \in All  BY <1>9, <3>1, Known DEF Win
      <3>3. Win(u) # w  BY <1>2, <1>10, <2>3, <3>2
      <3> QED  BY <1>1, <1>2, <1>11, <2>3, <3>2, <3>3 DEF CopiesAgree, At
    <2> QED  BY <2>1, <2>2, <2>3 DEF CopiesAgree, At
  <1> QED  BY <1>9, <1>13, <1>14 DEF WindowsInvariant

(* Recording where a window was moved or closed.                             *)
LEMMA RecordGeometryKeeps ==
  ASSUME WindowsInvariant, NEW w \in All, NEW op \in {"move", "shut"}, RecordGeometry(w, op)
  PROVE  WindowsInvariant'
  <1> DEFINE call == [Begin(op, w, "persist", FALSE) EXCEPT !.row = {mem[w].row}]
  <1>1. /\ WindowTypes /\ RowsAgree /\ CopiesAgree /\ "ui" \in Threads
        /\ StagesOf(calls["ui"]) /\ mem[w] \in Runtimes
    BY Known, ThreadsDiffer DEF WindowTypes
  <1>2. /\ calls["ui"].at = "idle" /\ calls["ui"].op = "none" /\ web[w] # {} /\ mem[w].loaded
        /\ calls' = [calls EXCEPT !["ui"] = call]
        /\ stale' = (IF Copied(w) = {} THEN stale ELSE stale \cup {w})
        /\ web' = web /\ main' = main /\ crossed' = crossed /\ refused' = refused /\ disk' = disk /\ mem' = mem
        /\ kept' = kept /\ bound' = bound /\ requests' = requests
    BY <1>1 DEF RecordGeometry, UiFree, At, StagesOf, pointerVars, hotkeyVars, RowsAgree
  <1>3. /\ Legal("ui", call) /\ call.at = "persist" /\ call.win = w /\ call.op = op
        /\ call.row = {mem[w].row}
    <2>1. op \in Operations /\ "persist" \in Stages /\ FALSE \in Looks \cup BOOLEAN
      BY DEF Operations, Stages
    <2>2. {mem[w].row} \in SUBSET ShortcutRows  BY <1>1 DEF Runtimes
    <2>3. /\ call \in ThreadCalls /\ call.at = "persist" /\ call.win = w /\ call.op = op
          /\ call.row = {mem[w].row}
      BY <2>1, <2>2 DEF Begin, ThreadCalls
    <2> QED  BY <2>3 DEF Legal, StagesOf
  <1> HIDE DEF call
  <1>4. /\ WindowTypes' /\ StagesKept' /\ RepliesAwaited' /\ PointerFollows' /\ PointerFreed'
        /\ calls'["ui"] = call /\ \A u \in Threads \ {"ui"} : calls'[u] = calls[u]
    <2>1. \A v \in All : \A page \in web'[v] : \E old \in web[v] : old.ignores = page.ignores
      BY <1>2
    <2>2. /\ web' \in [All -> SUBSET Pages] /\ disk' \in [All -> SUBSET ShortcutRows]
          /\ kept' \in [All -> Looks] /\ mem' \in [All -> Runtimes]
      BY <1>1, <1>2 DEF WindowTypes
    <2> QED  BY <1>1, <1>2, <1>3, <2>1, <2>2, ThreadAside
  <1>5. /\ \A v \in All \ {w} : Copied(v)' = Copied(v)
        /\ Copied(w)' = Copied(w) \cup {"ui"}
    BY <1>1, <1>2, <1>3, <1>4 DEF Copied, Win
  <1>6. stale \subseteq stale' /\ (w \notin stale' => Copied(w) = {})  BY <1>2
  <1>7. RowsAgree'
    <2>1. \A v \in All : web'[v] # {} => mem'[v].loaded  BY <1>1, <1>2 DEF RowsAgree
    <2>2. ASSUME NEW u \in Threads, calls'[u].at \in {"set", "top", "persist", "build"}
          PROVE  mem'[Win(u)'].loaded
      BY <1>1, <1>2, <1>3, <1>4, <2>2 DEF RowsAgree, Win
    <2>3. /\ \A v \in All : disk'[v] = {} => kept'[v] = DefaultLook
          /\ \A v \in All : \A r, q \in disk'[v] : r = q
          /\ \A v \in All \ stale' : \A r \in disk'[v] : r.look = kept'[v]
      BY <1>1, <1>2, <1>6 DEF RowsAgree
    <2>4. \A v \in All : ~mem'[v].loaded => mem'[v].row.look = DefaultLook
      BY <1>1, <1>2 DEF RowsAgree
    <2>5. \A v \in All \ stale' : mem'[v].loaded /\ Copied(v)' = {} => mem'[v].row.look = kept'[v]
      <3> SUFFICES ASSUME NEW v \in All \ stale', mem'[v].loaded, Copied(v)' = {}
                   PROVE  mem'[v].row.look = kept[v]
        BY <1>2
      <3>1. v # w  BY <1>5
      <3> QED  BY <1>1, <1>2, <1>5, <1>6, <3>1 DEF RowsAgree
    <2> QED  BY <2>1, <2>2, <2>3, <2>4, <2>5 DEF RowsAgree
  <1>8. CopiesAgree'
    <2>1. \A v \in All \ stale' : \A x, u \in Copied(v)' : x = u
      <3> SUFFICES ASSUME NEW v \in All \ stale', NEW x \in Copied(v)', NEW u \in Copied(v)'
                   PROVE  x = u
        OBVIOUS
      <3>1. CASE v = w  BY <1>5, <1>6, <3>1
      <3>2. CASE v # w
        <4>1. v \in All \ stale /\ x \in Copied(v) /\ u \in Copied(v)  BY <1>5, <1>6, <3>2
        <4> QED  BY <1>1, <4>1 DEF CopiesAgree
      <3> QED  BY <3>1, <3>2
    <2>2. ASSUME NEW u \in Threads, Win(u)' \notin stale', calls'[u].at \in {"top", "persist"},
                 NEW r \in calls'[u].row
          PROVE  r.look = mem'[Win(u)'].row.look /\ (calls'[u].op # "look" => r.look = kept'[Win(u)'])
      <3>1. CASE u = "ui"
        <4>1. Win(u)' = w /\ r = mem[w].row  BY <1>3, <1>4, <2>2, <3>1 DEF Win
        <4>2. mem[w].row.look = kept[w]  BY <1>1, <1>2, <1>6, <2>2, <4>1 DEF RowsAgree
        <4> QED  BY <1>2, <4>1, <4>2
      <3>2. CASE u # "ui"
        <4>1. calls'[u] = calls[u] /\ Win(u)' = Win(u)  BY <1>4, <3>2 DEF Win
        <4> QED  BY <1>1, <1>2, <1>6, <2>2, <4>1 DEF CopiesAgree
      <3> QED  BY <3>1, <3>2
    <2>3. ASSUME NEW u \in Threads, Win(u)' \notin stale', calls'[u].at = "stored", ~mem'[Win(u)'].loaded
          PROVE  /\ calls'[u].row = {} => kept'[Win(u)'] = DefaultLook
                 /\ \A r \in calls'[u].row : r.look = kept'[Win(u)']
      <3>1. u # "ui" /\ calls'[u] = calls[u] /\ Win(u)' = Win(u)  BY <1>3, <1>4, <2>3 DEF Win
      <3> QED  BY <1>1, <1>2, <1>6, <2>3, <3>1 DEF CopiesAgree, At
    <2> QED  BY <2>1, <2>2, <2>3 DEF CopiesAgree, At
  <1> QED  BY <1>4, <1>7, <1>8 DEF WindowsInvariant

(* The steps that change neither a row nor a pointer. *)
LEMMA QuietStep ==
  ASSUME WindowsInvariant, NEW t \in Threads, NEW call, Legal(t, call),
         calls' = [calls EXCEPT ![t] = call], requests' = requests,
         calls[t].at \notin {"reply", "native", "flag", "match", "ignore", "top", "persist"},
         call.at \notin {"native", "flag", "match", "ignore", "stored", "set", "top", "persist", "build"},
         calls[t].op # "restore", call.op # "restore",
         main' = main, crossed' = crossed /\ refused' = refused, disk' = disk, kept' = kept, stale' = stale,
         web' \in [All -> SUBSET Pages],
         \A w \in All : \A page \in web'[w] : \E old \in web[w] : old.ignores = page.ignores,
         mem' \in [All -> Runtimes],
         \A w \in All : /\ mem'[w].through = mem[w].through
                        /\ mem'[w].row = mem[w].row /\ mem'[w].loaded = mem[w].loaded
  PROVE  WindowsInvariant'
  <1>1. WindowTypes  BY DEF WindowsInvariant
  <1>2. disk' \in [All -> SUBSET ShortcutRows] /\ kept' \in [All -> Looks]  BY <1>1 DEF WindowTypes
  <1>3. /\ WindowTypes' /\ StagesKept' /\ RepliesAwaited' /\ PointerFollows' /\ PointerFreed'
        /\ calls'[t] = call /\ \A u \in Threads \ {t} : calls'[u] = calls[u]
    BY <1>2, ThreadAside
  <1>4. \A w \in All : web'[w] # {} => web[w] # {}  OBVIOUS
  <1>5. RowsAgree' /\ CopiesAgree'  BY <1>3, <1>4, RowsAside
  <1> QED  BY <1>3, <1>5 DEF WindowsInvariant

(* A command that begins.                                                    *)
LEMMA CommandedKeeps ==
  ASSUME WindowsInvariant, NEW c \in Commands, NEW w \in All, Commanded(c, w)
  PROVE  WindowsInvariant'
  <1>1. c \in Threads /\ c # "ui"  BY WindowsAssumption DEF Threads
  <1>2. WindowTypes /\ StagesOf(calls[c])  BY <1>1, Known
  <1>3. \E op \in {"open", "click", "look", "short"}, at \in {"seek", "check", "hydrate"},
           arg \in Looks \cup BOOLEAN :
             /\ Call(c, op, w, at, arg)
             /\ at = "seek" <=> op = "open"
             /\ at = "check" <=> op = "click"
             /\ op \in {"click", "short"} => arg \in BOOLEAN
             /\ op = "look" => arg \in Looks
    <2>1. CASE Call(c, "open", w, "seek", FALSE)  BY <2>1
    <2>2. CASE \E through \in BOOLEAN : Call(c, "click", w, "check", through)
      BY <2>2
    <2>3. CASE \E look \in Looks : Call(c, "look", w, "hydrate", look)  BY <2>3
    <2>4. CASE \E on \in BOOLEAN : Call(c, "short", w, "hydrate", on)  BY <2>4
    <2> QED  BY <2>1, <2>2, <2>3, <2>4 DEF Commanded, ShortcutStart
  <1>4. PICK op \in {"open", "click", "look", "short"}, at \in {"seek", "check", "hydrate"},
             arg \in Looks \cup BOOLEAN :
             /\ Call(c, op, w, at, arg)
             /\ at = "seek" <=> op = "open"
             /\ at = "check" <=> op = "click"
             /\ op \in {"click", "short"} => arg \in BOOLEAN
             /\ op = "look" => arg \in Looks
    BY <1>3
  <1> DEFINE call == Begin(op, w, at, arg)
  <1>5. /\ calls[c].at = "idle" /\ calls[c].op = "none" /\ calls' = [calls EXCEPT ![c] = call]
        /\ web' = web /\ main' = main /\ crossed' = crossed /\ refused' = refused /\ disk' = disk /\ mem' = mem
        /\ kept' = kept /\ stale' = stale /\ bound' = bound /\ requests' = requests
    BY <1>2, <1>4 DEF Call, At, StagesOf, pointerVars, rowVars, hotkeyVars
  <1>6. Legal(c, call) /\ call.at = at /\ call.op = op
    <2>1. op \in Operations /\ at \in Stages  BY DEF Operations, Stages
    <2>2. call \in ThreadCalls /\ call.op = op /\ call.win = w /\ call.at = at /\ call.arg = arg
      BY <2>1, BeginFields
    <2> QED  BY <1>1, <1>4, <2>2 DEF Legal, StagesOf
  <1> HIDE DEF call
  <1>7. \A v \in All : \A page \in web'[v] : \E old \in web[v] : old.ignores = page.ignores
    BY <1>5
  <1>8. web' \in [All -> SUBSET Pages] /\ mem' \in [All -> Runtimes]  BY <1>2, <1>5 DEF WindowTypes
  <1> QED  BY <1>1, <1>5, <1>6, <1>7, <1>8, QuietStep

(* The steps of the reply channel: one thread waits, or is waited for no more. *)
LEMMA ReplyStep ==
  ASSUME WindowsInvariant, calls' \in [Threads -> ThreadCalls], NEW t \in Threads,
         \A u \in Threads \ {t} : calls'[u] = calls[u],
         calls'[t] = calls[t] \/
           (/\ calls[t].at \in {"rebind", "reply"} /\ calls'[t].at \in {"reply", "answered"}
            /\ calls'[t].op = calls[t].op /\ calls'[t].win = calls[t].win /\ calls'[t].arg \in BOOLEAN),
         requests' \in Seq(Requests), RepliesAwaited',
         web' = web, main' = main, crossed' = crossed /\ refused' = refused, disk' = disk, kept' = kept,
         stale' = stale, mem' = mem
  PROVE  WindowsInvariant'
  <1>1. /\ WindowTypes /\ StagesKept /\ RowsAgree /\ CopiesAgree /\ PointerFollows /\ PointerFreed
    BY DEF WindowsInvariant
  <1>2. WindowTypes'  BY <1>1 DEF WindowTypes
  <1>3. StagesKept'
    <2>1. StagesOf(calls'[t])  BY <1>1 DEF StagesKept, StagesOf
    <2> QED  BY <1>1, <2>1, ThreadsDiffer DEF StagesKept
  <1>4. PointerKept
    <2>1. /\ \A w \in All : \A page \in web'[w] : \E old \in web[w] : old.ignores = page.ignores
          /\ \A w \in All : mem'[w].through = mem[w].through
      OBVIOUS
    <2>2. CASE calls'[t] = calls[t]
      <3>1. \A u \in Threads : calls'[u] = calls[u]  BY <2>2
      <3>2. /\ \A w \in All : Restoring(w, "unflag")' <=> Restoring(w, "unflag")
            /\ \A w \in All : Passed(w)' <=> Passed(w)
        BY <3>1, ThreadsDiffer DEF Restoring, Passed, Win
      <3> QED  BY <2>1, <3>1, <3>2, ThreadsDiffer DEF PointerKept, PointerKeptOf
    <2>3. CASE calls'[t] # calls[t]
      <3>1. calls[t].op # "restore" /\ calls'[t].op # "restore"
        BY <1>1, <2>3 DEF StagesKept, StagesOf
      <3> QED  BY <1>1, <1>3, <2>1, <2>3, <3>1, PointerAside
    <2> QED  BY <2>2, <2>3
  <1>5. RowsKept
    <2>1. /\ \A u \in Threads :
               calls'[u].at \in {"stored", "set", "top", "persist", "build"} => calls'[u] = calls[u]
          /\ \A u \in Threads : calls[u].at \in {"top", "persist"} => calls'[u] = calls[u]
      OBVIOUS
    <2> QED  BY <2>1 DEF RowsKept
  <1>6. PointerFollows' /\ PointerFreed'  BY <1>1, <1>3, <1>4, PointerFrame
  <1>7. RowsAgree' /\ CopiesAgree'  BY <1>1, <1>5, RowsFrame
  <1> QED  BY <1>2, <1>3, <1>6, <1>7 DEF WindowsInvariant

(* Asking the main thread to register a shortcut.                            *)
LEMMA RebindKeeps ==
  ASSUME WindowsInvariant, NEW t \in Threads, Rebind(t)  PROVE WindowsInvariant'
  <1>1. /\ WindowTypes /\ RepliesAwaited /\ StagesOf(calls[t])
        /\ calls[t] \in ThreadCalls /\ Win(t) \in All /\ mem[Win(t)] \in Runtimes
        /\ requests \in Seq(Requests)
    BY Known DEF WindowTypes
  <1>2. /\ calls[t].at = "rebind" /\ calls[t].op \in {"launch", "short"}
        /\ web' = web /\ main' = main /\ crossed' = crossed /\ refused' = refused /\ disk' = disk /\ mem' = mem
        /\ kept' = kept /\ stale' = stale
    BY <1>1 DEF Rebind, At, StagesOf, pointerVars, rowVars
  <1>3. CASE Done(t) /\ requests' = requests
    <2>1. \A v \in All : \A page \in web'[v] : \E old \in web[v] : old.ignores = page.ignores
      BY <1>2
    <2>2. web' \in [All -> SUBSET Pages] /\ mem' \in [All -> Runtimes]  BY <1>1, <1>2 DEF WindowTypes
    <2>3. calls' = [calls EXCEPT ![t] = Idle]  BY <1>3 DEF Done
    <2> QED  BY <1>2, <1>3, <2>1, <2>2, <2>3, IdleFields, QuietStep
  <1>4. CASE /\ requests' = Append(requests, [win |-> Win(t), on |-> mem[Win(t)].row.on, by |-> t])
             /\ Goto(t, "reply")
    <2> DEFINE request == [win |-> Win(t), on |-> mem[Win(t)].row.on, by |-> t]
    <2> DEFINE call == [calls[t] EXCEPT !.at = "reply"]
    <2>1. request \in Requests /\ request.by = t
      <3>1. mem[Win(t)].row.on \in BOOLEAN  BY <1>1 DEF Runtimes, ShortcutRows
      <3> QED  BY <1>1, <3>1 DEF Requests
    <2>2. /\ call \in ThreadCalls /\ call.op = calls[t].op /\ call.win = calls[t].win
          /\ call.at = "reply" /\ call.arg = calls[t].arg
      <3>1. "reply" \in Stages  BY DEF Stages
      <3> QED  BY <1>1, <3>1, GoneTo
    <2>3. calls[t].arg \in BOOLEAN  BY <1>1, <1>2 DEF StagesOf
    <2>4. calls' = [calls EXCEPT ![t] = call] /\ requests' = Append(requests, request)
      BY <1>4 DEF Goto
    <2> HIDE DEF request, call
    <2>5. /\ calls' \in [Threads -> ThreadCalls] /\ calls'[t] = call
          /\ \A u \in Threads \ {t} : calls'[u] = calls[u]
      BY <1>1, <2>2, <2>4 DEF WindowTypes
    <2>6. /\ requests' \in Seq(Requests) /\ DOMAIN requests' = 1..Len(requests) + 1
          /\ Len(requests) \in Nat /\ DOMAIN requests = 1..Len(requests)
          /\ \A i \in DOMAIN requests : requests'[i] = requests[i]
          /\ requests'[Len(requests) + 1] = request
      BY <1>1, <2>1, <2>4
    <2>7. RepliesAwaited'
      <3>1. \A i \in DOMAIN requests : requests[i].by # t
        BY <1>1, <1>2 DEF RepliesAwaited, At
      <3>2. \A i \in DOMAIN requests' : i \in DOMAIN requests \/ i = Len(requests) + 1  BY <2>6
      <3>3. \A i \in DOMAIN requests' : requests'[i].by \in Threads => calls'[requests'[i].by].at = "reply"
        <4> SUFFICES ASSUME NEW i \in DOMAIN requests', requests'[i].by \in Threads
                     PROVE  calls'[requests'[i].by].at = "reply"
          OBVIOUS
        <4>1. CASE i = Len(requests) + 1  BY <2>1, <2>2, <2>5, <2>6, <4>1
        <4>2. CASE i \in DOMAIN requests
          BY <1>1, <2>5, <2>6, <3>1, <4>2 DEF RepliesAwaited, At
        <4> QED  BY <3>2, <4>1, <4>2
      <3>4. \A i, j \in DOMAIN requests' :
              requests'[i].by = requests'[j].by /\ requests'[i].by \in Threads => i = j
        <4> SUFFICES ASSUME NEW i \in DOMAIN requests', NEW j \in DOMAIN requests',
                            requests'[i].by = requests'[j].by, requests'[i].by \in Threads
                     PROVE  i = j
          OBVIOUS
        <4>1. requests'[Len(requests) + 1].by = t  BY <2>1, <2>6
        <4>2. CASE i \in DOMAIN requests /\ j \in DOMAIN requests
          BY <1>1, <2>6, <4>2 DEF RepliesAwaited
        <4>3. CASE i \notin DOMAIN requests \/ j \notin DOMAIN requests
          BY <2>6, <3>1, <3>2, <4>1, <4>3
        <4> QED  BY <4>2, <4>3
      <3> QED  BY <3>3, <3>4 DEF RepliesAwaited, At
    <2> QED  BY <1>2, <2>2, <2>3, <2>5, <2>6, <2>7, ReplyStep
  <1> QED  BY <1>3, <1>4 DEF Rebind

(* Giving up the wait for a registration.                                    *)
LEMMA TimeoutKeeps ==
  ASSUME WindowsInvariant, NEW t \in Threads, Timeout(t)  PROVE WindowsInvariant'
  <1> DEFINE call == [calls[t] EXCEPT !.at = "answered", !.arg = FALSE]
  <1>1. /\ WindowTypes /\ RepliesAwaited /\ StagesOf(calls[t])
        /\ calls[t] \in ThreadCalls /\ requests \in Seq(Requests)
    BY Known DEF WindowTypes
  <1>2. /\ calls[t].at = "reply"
        /\ requests' = [i \in DOMAIN requests |->
                          IF requests[i].by = t THEN [requests[i] EXCEPT !.by = "nobody"] ELSE requests[i]]
        /\ calls' = [calls EXCEPT ![t].at = "answered", ![t].arg = FALSE]
        /\ web' = web /\ main' = main /\ crossed' = crossed /\ refused' = refused /\ disk' = disk /\ mem' = mem
        /\ kept' = kept /\ stale' = stale
    BY DEF Timeout, Impatient, At, pointerVars, rowVars
  <1>3. calls' = [calls EXCEPT ![t] = call]  BY <1>1, <1>2 DEF WindowTypes
  <1>4. /\ call \in ThreadCalls /\ call.op = calls[t].op /\ call.win = calls[t].win
        /\ call.at = "answered" /\ call.arg = FALSE
    <2>1. "answered" \in Stages /\ FALSE \in Looks \cup BOOLEAN  BY DEF Stages
    <2> QED  BY <1>1, <2>1 DEF ThreadCalls
  <1> HIDE DEF call
  <1>5. /\ calls' \in [Threads -> ThreadCalls] /\ calls'[t] = call
        /\ \A u \in Threads \ {t} : calls'[u] = calls[u]
    BY <1>1, <1>3, <1>4 DEF WindowTypes
  <1>6. \A i \in DOMAIN requests : requests[i] \in Requests  BY <1>1
  <1>7. /\ DOMAIN requests' = DOMAIN requests
        /\ \A i \in DOMAIN requests :
             /\ requests'[i] \in Requests
             /\ requests[i].by = t => requests'[i].by = "nobody"
             /\ requests[i].by # t => requests'[i] = requests[i]
    <2>1. \A i \in DOMAIN requests :
            /\ [requests[i] EXCEPT !.by = "nobody"] \in Requests
            /\ [requests[i] EXCEPT !.by = "nobody"].by = "nobody"
      BY <1>6 DEF Requests
    <2> QED  BY <1>2, <1>6, <2>1
  <1>8. requests' \in Seq(Requests)
    <2>1. DOMAIN requests = 1..Len(requests) /\ Len(requests) \in Nat  BY <1>1
    <2>2. requests' \in [1..Len(requests) -> Requests]
      <3>1. requests' = [i \in DOMAIN requests |-> requests'[i]]  BY <1>2
      <3> QED  BY <1>7, <2>1, <3>1
    <2> QED  BY <2>1, <2>2
  <1>9. RepliesAwaited'
    <2>1. \A i \in DOMAIN requests' : requests'[i].by \in Threads =>
            requests'[i] = requests[i] /\ requests[i].by # t
      BY <1>7, ThreadsDiffer
    <2> QED  BY <1>1, <1>5, <1>7, <2>1 DEF RepliesAwaited, At
  <1> QED  BY <1>2, <1>4, <1>5, <1>8, <1>9, ReplyStep

(* The main thread registers, and answers whoever still waits.               *)
LEMMA ServeKeeps ==
  ASSUME WindowsInvariant, Serve  PROVE WindowsInvariant'
  <1>1. WindowTypes /\ RepliesAwaited /\ requests \in Seq(Requests) /\ StagesKept
    BY DEF WindowsInvariant, WindowTypes
  <1>2. PICK accepted \in BOOLEAN :
          /\ requests # <<>> /\ requests' = Tail(requests)
          /\ calls' = [u \in Threads |->
                         IF u = Head(requests).by
                           THEN [calls[u] EXCEPT !.at = "answered", !.arg = Head(requests).on /\ accepted]
                           ELSE calls[u]]
          /\ web' = web /\ main' = main /\ crossed' = crossed /\ refused' = refused /\ disk' = disk /\ mem' = mem
          /\ kept' = kept /\ stale' = stale
    BY DEF Serve, pointerVars, rowVars
  <1>3. /\ Len(requests) \in Nat \ {0} /\ DOMAIN requests = 1..Len(requests)
        /\ requests[1] \in Requests /\ Head(requests) = requests[1] /\ 1 \in DOMAIN requests
        /\ requests' \in Seq(Requests) /\ DOMAIN requests' = 1..Len(requests) - 1
        /\ \A i \in DOMAIN requests' : i + 1 \in DOMAIN requests /\ requests'[i] = requests[i + 1]
    <2>1. requests \in Seq(Requests) /\ requests # <<>> /\ requests' = Tail(requests)  BY <1>1, <1>2
    <2>2. /\ Len(requests) \in Nat \ {0} /\ DOMAIN requests = 1..Len(requests)
          /\ Head(requests) = requests[1] /\ 1 \in DOMAIN requests /\ requests[1] \in Requests
      BY <2>1
    <2>3. requests' \in Seq(Requests) /\ Len(requests') = Len(requests) - 1  BY <2>1
    <2>4. DOMAIN requests' = 1..Len(requests) - 1  BY <2>3
    <2>5. \A i \in 1..Len(requests) - 1 : requests'[i] = requests[i + 1]  BY <2>1, <2>2
    <2>6. \A i \in 1..Len(requests) - 1 : i + 1 \in 1..Len(requests)  BY <2>2
    <2> QED  BY <2>2, <2>3, <2>4, <2>5, <2>6
  <1> DEFINE b == requests[1].by
  <1> DEFINE arg == requests[1].on /\ accepted
  <1>4. b \in Threads \cup {"nobody"} /\ requests[1].on \in BOOLEAN  BY <1>3 DEF Requests
  <1>5. arg \in BOOLEAN  OBVIOUS
  <1>6. \A u \in Threads : calls'[u] = IF u = b THEN [calls[u] EXCEPT !.at = "answered", !.arg = arg]
                                               ELSE calls[u]
    BY <1>2, <1>3
  <1> HIDE DEF b, arg
  <1>7. \A u \in Threads : calls[u] \in ThreadCalls  BY <1>1 DEF WindowTypes
  <1>8. \A u \in Threads :
          LET call == [calls[u] EXCEPT !.at = "answered", !.arg = arg]
          IN /\ call \in ThreadCalls /\ call.op = calls[u].op /\ call.win = calls[u].win
             /\ call.at = "answered" /\ call.arg = arg
    <2>1. "answered" \in Stages /\ arg \in Looks \cup BOOLEAN  BY <1>5 DEF Stages
    <2> QED  BY <1>7, <2>1 DEF ThreadCalls
  <1>9. calls' \in [Threads -> ThreadCalls]
    <2>1. \A u \in Threads : calls'[u] \in ThreadCalls  BY <1>6, <1>7, <1>8
    <2>2. DOMAIN calls' = Threads /\ calls' = [u \in Threads |-> calls'[u]]  BY <1>2
    <2> QED  BY <2>1, <2>2
  <1>10. RepliesAwaited'
    <2>1. \A i \in DOMAIN requests' : requests'[i].by \in Threads =>
             At(requests'[i].by, "reply") /\ requests'[i].by # b
      <3> SUFFICES ASSUME NEW i \in DOMAIN requests', requests'[i].by \in Threads
                   PROVE  At(requests'[i].by, "reply") /\ requests'[i].by # b
        OBVIOUS
      <3>1. /\ i + 1 \in DOMAIN requests /\ requests'[i] = requests[i + 1] /\ i + 1 # 1
            /\ requests[i + 1].by \in Threads
        BY <1>3
      <3>2. At(requests[i + 1].by, "reply")  BY <1>1, <3>1 DEF RepliesAwaited
      <3>3. requests[i + 1].by # requests[1].by
        BY <1>1, <1>3, <3>1 DEF RepliesAwaited
      <3> QED  BY <3>1, <3>2, <3>3 DEF b
    <2>2. \A i \in DOMAIN requests' :
            requests'[i].by \in Threads => calls'[requests'[i].by].at = "reply"
      BY <1>6, <2>1 DEF At
    <2>3. ASSUME NEW i \in DOMAIN requests', NEW j \in DOMAIN requests',
                 requests'[i].by = requests'[j].by, requests'[i].by \in Threads
          PROVE  i = j
      <3>1. /\ i + 1 \in DOMAIN requests /\ requests'[i] = requests[i + 1] /\ i \in Int
            /\ j + 1 \in DOMAIN requests /\ requests'[j] = requests[j + 1] /\ j \in Int
        BY <1>3
      <3>2. i + 1 = j + 1  BY <1>1, <2>3, <3>1 DEF RepliesAwaited
      <3> QED  BY <3>1, <3>2
    <2> QED  BY <2>2, <2>3 DEF RepliesAwaited, At
  <1>11. CASE b \in Threads
    <2>1. calls[b].at = "reply"  BY <1>1, <1>3, <1>11 DEF RepliesAwaited, At, b
    <2>2. /\ calls'[b].at = "answered" /\ calls'[b].op = calls[b].op
          /\ calls'[b].win = calls[b].win /\ calls'[b].arg \in BOOLEAN
      BY <1>5, <1>6, <1>8, <1>11
    <2>3. \A u \in Threads \ {b} : calls'[u] = calls[u]  BY <1>6
    <2> QED  BY <1>2, <1>3, <1>9, <1>10, <1>11, <2>1, <2>2, <2>3, ReplyStep
  <1>12. CASE b \notin Threads
    <2>1. \A u \in Threads : calls'[u] = calls[u]  BY <1>6, <1>12
    <2> QED  BY <1>2, <1>3, <1>9, <1>10, <2>1, ThreadsDiffer, ReplyStep
  <1> QED  BY <1>11, <1>12

(* Taking the answer to a registration.                                      *)
LEMMA AnsweredKeeps ==
  ASSUME WindowsInvariant, NEW t \in Threads, Answered(t)  PROVE WindowsInvariant'
  <1>1. /\ WindowTypes /\ StagesKept /\ StagesOf(calls[t]) /\ Legal(t, calls[t])
        /\ Win(t) \in All /\ mem[Win(t)] \in Runtimes
    BY Known
  <1>2. /\ calls[t].at = "answered" /\ calls[t].op \in {"launch", "short"} /\ calls[t].arg \in BOOLEAN
        /\ mem' = [mem EXCEPT ![Win(t)].registered = calls[t].arg]
        /\ web' = web /\ main' = main /\ crossed' = crossed /\ refused' = refused /\ disk' = disk
        /\ kept' = kept /\ stale' = stale /\ bound' = bound /\ requests' = requests
    BY <1>1 DEF Answered, At, StagesOf, pointerVars, rowVars, hotkeyVars
  <1>3. \E call : /\ Legal(t, call) /\ calls' = [calls EXCEPT ![t] = call]
                  /\ call.at \in {"idle", "hydrate"} /\ call.op # "restore"
    <2>1. CASE t = "ui" /\ NextWindow("hydrate")
      <3>1. PICK i \in 1..Len(Windows) :
              \/ /\ i < Len(Windows) /\ Windows[i + 1] \in All
                 /\ calls' = [calls EXCEPT !["ui"] = Begin(calls["ui"].op, Windows[i + 1], "hydrate", FALSE)]
              \/ i = Len(Windows) /\ calls' = [calls EXCEPT !["ui"] = Idle]
        BY <1>1, <2>1, NextWindowGoes
      <3>2. CASE calls' = [calls EXCEPT !["ui"] = Idle]  BY <2>1, <3>2, IdleFields
      <3>3. CASE /\ Windows[i + 1] \in All
                 /\ calls' = [calls EXCEPT !["ui"] = Begin(calls["ui"].op, Windows[i + 1], "hydrate", FALSE)]
        <4> DEFINE call == Begin("launch", Windows[i + 1], "hydrate", FALSE)
        <4>1. calls["ui"].op = "launch"  BY <1>1, <1>2, <2>1 DEF StagesKept
        <4>2. "launch" \in Operations /\ "hydrate" \in Stages /\ FALSE \in Looks \cup BOOLEAN
          BY DEF Operations, Stages
        <4>3. /\ call \in ThreadCalls /\ call.op = "launch" /\ call.at = "hydrate" /\ call.arg = FALSE
          BY <3>3, <4>2 DEF Begin, ThreadCalls
        <4>4. Legal(t, call)  BY <2>1, <4>3 DEF Legal, StagesOf
        <4>5. calls' = [calls EXCEPT ![t] = call]  BY <2>1, <3>3, <4>1
        <4> QED  BY <4>3, <4>4, <4>5
      <3> QED  BY <3>1, <3>2, <3>3
    <2>2. CASE Done(t)  BY <2>2, IdleFields DEF Done
    <2> QED  BY <2>1, <2>2 DEF Answered
  <1>4. PICK call : /\ Legal(t, call) /\ calls' = [calls EXCEPT ![t] = call]
                    /\ call.at \in {"idle", "hydrate"} /\ call.op # "restore"
    BY <1>3
  <1>5. /\ mem' \in [All -> Runtimes]
        /\ \A v \in All : /\ mem'[v].through = mem[v].through
                          /\ mem'[v].row = mem[v].row /\ mem'[v].loaded = mem[v].loaded
    BY <1>1, <1>2 DEF WindowTypes, Runtimes
  <1>6. \A v \in All : \A page \in web'[v] : \E old \in web[v] : old.ignores = page.ignores
    BY <1>2
  <1>7. web' \in [All -> SUBSET Pages]  BY <1>1, <1>2 DEF WindowTypes
  <1> QED  BY <1>2, <1>4, <1>5, <1>6, <1>7, QuietStep

(* A pressed shortcut that is dispatched.                                    *)
LEMMA PressKeeps ==
  ASSUME WindowsInvariant, NEW w \in All, Press(w)  PROVE WindowsInvariant'
  <1> DEFINE call == Begin("toggle", w, "ask", FALSE)
  <1>1. "hot" \in Threads /\ "hot" # "ui"  BY ThreadsDiffer
  <1>2. WindowTypes /\ StagesOf(calls["hot"])  BY <1>1, Known
  <1>3. /\ calls["hot"].at = "idle" /\ calls["hot"].op = "none" /\ calls' = [calls EXCEPT !["hot"] = call]
        /\ web' = web /\ main' = main /\ crossed' = crossed /\ refused' = refused /\ disk' = disk /\ mem' = mem
        /\ kept' = kept /\ stale' = stale /\ bound' = bound /\ requests' = requests
    BY <1>2 DEF Press, At, StagesOf, pointerVars, rowVars, hotkeyVars
  <1>4. Legal("hot", call) /\ call.at = "ask" /\ call.op = "toggle"
    <2>1. "toggle" \in Operations /\ "ask" \in Stages /\ FALSE \in Looks \cup BOOLEAN
      BY DEF Operations, Stages
    <2>2. call \in ThreadCalls /\ call.op = "toggle" /\ call.at = "ask"
      BY <2>1 DEF Begin, ThreadCalls
    <2> QED  BY <2>2 DEF Legal, StagesOf
  <1> HIDE DEF call
  <1>5. \A v \in All : \A page \in web'[v] : \E old \in web[v] : old.ignores = page.ignores
    BY <1>3
  <1>6. web' \in [All -> SUBSET Pages] /\ mem' \in [All -> Runtimes]  BY <1>2, <1>3 DEF WindowTypes
  <1> QED  BY <1>1, <1>3, <1>4, <1>5, <1>6, QuietStep

(* Showing and hiding a window. *)
LEMMA PagesChange ==
  ASSUME WindowTypes, NEW w \in All, NEW S, web' = [web EXCEPT ![w] = S],
         \A page \in S : page \in Pages /\ \E old \in web[w] : old.ignores = page.ignores
  PROVE  /\ web' \in [All -> SUBSET Pages]
         /\ \A v \in All : \A page \in web'[v] : \E old \in web[v] : old.ignores = page.ignores
  <1>1. web \in [All -> SUBSET Pages]  BY DEF WindowTypes
  <1>2. S \in SUBSET Pages  OBVIOUS
  <1>3. web'[w] = S /\ \A v \in All \ {w} : web'[v] = web[v]  BY <1>1
  <1>4. web' \in [All -> SUBSET Pages]  BY <1>1, <1>2
  <1>5. ASSUME NEW v \in All, NEW page \in web'[v]  PROVE \E old \in web[v] : old.ignores = page.ignores
    <2>1. CASE v = w  BY <1>3, <2>1
    <2>2. CASE v # w  BY <1>3, <2>2
    <2> QED  BY <2>1, <2>2
  <1> QED  BY <1>4, <1>5

(* Showing or hiding a page does not change whether it ignores the pointer.  *)
LEMMA Flipped ==
  ASSUME NEW page \in Pages, NEW visible \in BOOLEAN
  PROVE  /\ [page EXCEPT !.visible = visible] \in Pages
         /\ [page EXCEPT !.visible = visible].ignores = page.ignores
  BY DEF Pages

(* A shortcut that shows or hides its window.                                *)
LEMMA ToggleKeeps ==
  ASSUME WindowsInvariant, Toggle  PROVE WindowsInvariant'
  <1> DEFINE w == Win("hot")
  <1>1. "hot" \in Threads /\ "hot" # "ui"  BY ThreadsDiffer
  <1>2. WindowTypes /\ StagesKept /\ StagesOf(calls["hot"]) /\ w \in All  BY <1>1, Known
  <1>3. /\ calls["hot"].at = "ask" /\ calls["hot"].op # "restore"
        /\ main' = main /\ crossed' = crossed /\ refused' = refused /\ disk' = disk /\ mem' = mem
        /\ kept' = kept /\ stale' = stale /\ bound' = bound /\ requests' = requests
    BY <1>1, <1>2 DEF Toggle, At, StagesKept, rowVars, hotkeyVars
  <1>4. mem' \in [All -> Runtimes]  BY <1>2, <1>3 DEF WindowTypes
  <1>5. CASE calls' = [calls EXCEPT !["hot"] = Begin("open", w, "seek", FALSE)] /\ web' = web
    <2> DEFINE call == Begin("open", w, "seek", FALSE)
    <2>1. Legal("hot", call) /\ call.at = "seek" /\ call.op = "open"
      <3>1. "open" \in Operations /\ "seek" \in Stages /\ FALSE \in Looks \cup BOOLEAN
        BY DEF Operations, Stages
      <3>2. call \in ThreadCalls /\ call.op = "open" /\ call.at = "seek"
        BY <1>2, <3>1 DEF Begin, ThreadCalls
      <3> QED  BY <3>2 DEF Legal, StagesOf
    <2> HIDE DEF call
    <2>2. calls' = [calls EXCEPT !["hot"] = call]  BY <1>5 DEF call
    <2>3. \A v \in All : \A page \in web'[v] : \E old \in web[v] : old.ignores = page.ignores
      BY <1>5
    <2>4. web' \in [All -> SUBSET Pages]  BY <1>2, <1>5 DEF WindowTypes
    <2> QED  BY <1>1, <1>3, <1>4, <2>1, <2>2, <2>3, <2>4, QuietStep
  <1>6. CASE Done("hot") /\ web' = [web EXCEPT ![w] = {[page EXCEPT !.visible = ~@] : page \in @}]
    <2> DEFINE S == {[page EXCEPT !.visible = ~@] : page \in web[w]}
    <2>1. web' = [web EXCEPT ![w] = S]  BY <1>6
    <2>2. \A page \in S : page \in Pages /\ \E old \in web[w] : old.ignores = page.ignores
      <3>1. \A old \in web[w] : old \in Pages /\ old.visible \in BOOLEAN
        BY <1>2 DEF WindowTypes, Pages
      <3>2. \A old \in web[w] : /\ [old EXCEPT !.visible = ~@] \in Pages
                               /\ [old EXCEPT !.visible = ~@].ignores = old.ignores
        BY <3>1 DEF Pages
      <3> QED  BY <3>2
    <2> HIDE DEF S
    <2>4. /\ web' \in [All -> SUBSET Pages]
          /\ \A v \in All : \A page \in web'[v] : \E old \in web[v] : old.ignores = page.ignores
      BY <1>2, <2>1, <2>2, PagesChange
    <2>5. calls' = [calls EXCEPT !["hot"] = Idle]  BY <1>6 DEF Done
    <2> QED  BY <1>1, <1>3, <1>4, <2>4, <2>5, IdleFields, QuietStep
  <1>7. CASE Done("hot") /\ web' = web
    <2>1. /\ web' \in [All -> SUBSET Pages]
          /\ \A v \in All : \A page \in web'[v] : \E old \in web[v] : old.ignores = page.ignores
      BY <1>2, <1>7 DEF WindowTypes
    <2>2. calls' = [calls EXCEPT !["hot"] = Idle]  BY <1>7 DEF Done
    <2> QED  BY <1>1, <1>3, <1>4, <2>1, <2>2, IdleFields, QuietStep
  <1> QED  BY <1>5, <1>6, <1>7 DEF Toggle

(* A call that ends by showing its window.                                   *)
LEMMA ShownKeeps ==
  ASSUME WindowsInvariant, NEW t \in Threads, calls[t].at \in {"seek", "appear"},
         Shown(Win(t)), Done(t), main' = main, crossed' = crossed /\ refused' = refused, UNCHANGED <<rowVars, hotkeyVars, mem>>
  PROVE  WindowsInvariant'
  <1>1. WindowTypes /\ StagesOf(calls[t]) /\ Win(t) \in All  BY Known
  <1>4. /\ web' \in [All -> SUBSET Pages]
        /\ \A v \in All : \A page \in web'[v] : \E old \in web[v] : old.ignores = page.ignores
    <2> DEFINE S == {[page EXCEPT !.visible = TRUE] : page \in web[Win(t)]}
    <2>1. web' = [web EXCEPT ![Win(t)] = S] \/ web' = web  BY DEF Shown
    <2>2. \A page \in S : page \in Pages /\ \E old \in web[Win(t)] : old.ignores = page.ignores
      <3>1. \A old \in web[Win(t)] : old \in Pages  BY <1>1 DEF WindowTypes
      <3> QED  BY <3>1, Flipped
    <2> HIDE DEF S
    <2>3. CASE web' = [web EXCEPT ![Win(t)] = S]  BY <1>1, <2>2, <2>3, PagesChange
    <2>4. CASE web' = web  BY <1>1, <2>4 DEF WindowTypes
    <2> QED  BY <2>1, <2>3, <2>4
  <1>5. /\ disk' = disk /\ mem' = mem /\ kept' = kept /\ stale' = stale
        /\ bound' = bound /\ requests' = requests /\ calls' = [calls EXCEPT ![t] = Idle]
        /\ calls[t].op # "restore" /\ mem' \in [All -> Runtimes]
    BY <1>1 DEF Done, rowVars, hotkeyVars, StagesOf, WindowTypes
  <1> QED  BY <1>4, <1>5, IdleFields, QuietStep

(* Opening a window looks whether it exists.                                 *)
LEMMA SeekKeeps ==
  ASSUME WindowsInvariant, NEW t \in Threads, Seek(t)  PROVE WindowsInvariant'
  <1>1. WindowTypes /\ StagesOf(calls[t]) /\ Legal(t, calls[t]) /\ calls[t] \in ThreadCalls  BY Known
  <1>2. /\ calls[t].at = "seek" /\ calls[t].op = "open"
        /\ main' = main /\ crossed' = crossed /\ refused' = refused /\ disk' = disk /\ mem' = mem
        /\ kept' = kept /\ stale' = stale /\ bound' = bound /\ requests' = requests
    BY <1>1 DEF Seek, At, StagesOf, rowVars, hotkeyVars
  <1>3. CASE Goto(t, "hydrate") /\ web' = web
    <2> DEFINE call == [calls[t] EXCEPT !.at = "hydrate"]
    <2>1. "hydrate" \in Stages  BY DEF Stages
    <2>2. /\ call \in ThreadCalls /\ call.op = calls[t].op /\ call.win = calls[t].win
          /\ call.at = "hydrate" /\ call.arg = calls[t].arg
      BY <1>1, <2>1, GoneTo
    <2>3. Legal(t, call)  BY <1>1, <1>2, <2>2 DEF Legal, StagesOf
    <2>4. calls' = [calls EXCEPT ![t] = call]  BY <1>3 DEF Goto
    <2>5. \A v \in All : \A page \in web'[v] : \E old \in web[v] : old.ignores = page.ignores
      BY <1>3
    <2>6. web' \in [All -> SUBSET Pages] /\ mem' \in [All -> Runtimes]  BY <1>1, <1>2, <1>3 DEF WindowTypes
    <2> HIDE DEF call
    <2> QED  BY <1>2, <2>2, <2>3, <2>4, <2>5, <2>6, QuietStep
  <1>4. CASE Shown(Win(t)) /\ Done(t)
    BY <1>2, <1>4, ShownKeeps DEF rowVars, hotkeyVars
  <1> QED  BY <1>3, <1>4 DEF Seek

(* One thread changes the pointer of one window. *)
LEMMA PointerStep ==
  ASSUME WindowsInvariant, NEW t \in Threads, NEW w \in All, w = Win(t),
         NEW call, Legal(t, call), calls' = [calls EXCEPT ![t] = call], requests' = requests,
         calls[t].op # "restore", call.op # "restore",
         calls[t].at \notin {"reply", "top", "persist"},
         call.at \notin {"stored", "set", "top", "persist", "build"},
         call.at \in {"native", "flag", "match", "ignore"} => call.win = w,
         main' = main, disk' = disk, kept' = kept, stale' = stale,
         crossed \subseteq crossed', refused' = refused,
         web' \in [All -> SUBSET Pages], mem' \in [All -> Runtimes],
         \A v \in All : mem'[v].row = mem[v].row /\ mem'[v].loaded = mem[v].loaded,
         \A v \in All \ {w} : web'[v] = web[v] /\ mem'[v].through = mem[v].through,
         web'[w] # {} => web[w] # {} \/ mem[w].loaded,
         w \notin crossed' => PointerOf(w)',
         main = "gone" /\ w \notin crossed' \cup refused => FreedOf(w)'
  PROVE  WindowsInvariant'
  <1>1. WindowTypes /\ StagesKept /\ RepliesAwaited /\ PointerFollows /\ PointerFreed
    BY DEF WindowsInvariant
  <1>2. /\ calls' \in [Threads -> ThreadCalls] /\ StagesKept' /\ RepliesAwaited'
        /\ calls'[t] = call /\ \A u \in Threads \ {t} : calls'[u] = calls[u]
    BY <1>1, ThreadGoesOn DEF At
  <1>3. WindowTypes'  BY <1>1, <1>2 DEF WindowTypes
  <1>4. RowsAgree' /\ CopiesAgree'
    <2>1. \A v \in All : web'[v] # {} => web[v] # {} \/ mem[v].loaded  OBVIOUS
    <2> QED  BY <1>2, <2>1, RowsAside
  <1>5. \A v \in All \ {w} : PointerKeptOf(v) /\ (Passed(v)' => Passed(v))
    <2>1. /\ \A v \in All : Restoring(v, "unflag")' <=> Restoring(v, "unflag")
          /\ \A v \in All : Passed(v)' <=> Passed(v)
      BY <1>1, <1>2, RestorationAside
    <2>2. ASSUME NEW v \in All \ {w}, NEW u \in Threads
          PROVE  \/ calls'[u] = calls[u]
                 \/ /\ calls[u].win = v => calls[u].at \notin {"native", "flag", "match", "ignore"}
                    /\ calls'[u].win = v => calls'[u].at \notin {"native", "flag", "match", "ignore"}
      BY <1>2 DEF Win
    <2>3. \A v \in All \ {w} : \A page \in web'[v] : \E old \in web[v] : old.ignores = page.ignores
      OBVIOUS
    <2> QED  BY <2>1, <2>2, <2>3 DEF PointerKeptOf
  <1>6. PointerFollows'
    <2>1. \A v \in All \ crossed' : v # w => PointerOf(v)'
      BY <1>1, <1>5, PointerOfFrame DEF PointerFollows
    <2> QED  BY <2>1 DEF PointerFollows
  <1>7. PointerFreed'
    <2>1. main = "gone" => \A v \in All \ (crossed' \cup refused) : v # w => FreedOf(v)'
      BY <1>1, <1>5, FreedOfFrame DEF PointerFreed
    <2> QED  BY <2>1 DEF PointerFreed
  <1> QED  BY <1>2, <1>3, <1>4, <1>6, <1>7 DEF WindowsInvariant

(* One thread's step changes what that thread is changing, and nothing else. *)
LEMMA ChangesOf ==
  ASSUME NEW t \in Threads, NEW w \in All, \A u \in Threads \ {t} : calls'[u] = calls[u]
  PROVE  /\ \A through \in BOOLEAN :
              LET before == calls[t].win = w /\ calls[t].at = "flag" /\ calls[t].arg = through
                  after  == calls'[t].win = w /\ calls'[t].at = "flag" /\ calls'[t].arg = through
              IN /\ before => Halfway(w, through) # {}
                 /\ after => Halfway(w, through)' # {}
                 /\ ~after => Halfway(w, through)' \subseteq Halfway(w, through)
                 /\ ~before /\ ~after => Halfway(w, through)' = Halfway(w, through)
         /\ LET before == calls[t].win = w /\ calls[t].at = "ignore"
                after  == calls'[t].win = w /\ calls'[t].at = "ignore"
            IN /\ before => Following(w) # {}
               /\ ~after => Following(w)' \subseteq Following(w)
               /\ ~before /\ ~after => Following(w)' = Following(w)
         /\ w \in SwitchedOn' => \/ w \in SwitchedOn
                                 \/ calls'[t].win = w /\ calls'[t].at \in {"native", "flag"} /\ calls'[t].arg = TRUE
         /\ calls[t].win = w /\ calls[t].at \in {"native", "flag"} /\ calls[t].arg = TRUE => w \in SwitchedOn
  <1>1. ASSUME NEW through \in BOOLEAN
        PROVE  LET before == calls[t].win = w /\ calls[t].at = "flag" /\ calls[t].arg = through
                   after  == calls'[t].win = w /\ calls'[t].at = "flag" /\ calls'[t].arg = through
               IN /\ before => Halfway(w, through) # {}
                  /\ after => Halfway(w, through)' # {}
                  /\ ~after => Halfway(w, through)' \subseteq Halfway(w, through)
                  /\ ~before /\ ~after => Halfway(w, through)' = Halfway(w, through)
    BY DEF Halfway, At, Win
  <1>2. LET before == calls[t].win = w /\ calls[t].at = "ignore"
            after  == calls'[t].win = w /\ calls'[t].at = "ignore"
        IN /\ before => Following(w) # {}
           /\ ~after => Following(w)' \subseteq Following(w)
           /\ ~before /\ ~after => Following(w)' = Following(w)
    BY DEF Following, At, Win
  <1>3. w \in SwitchedOn' => \/ w \in SwitchedOn
                             \/ calls'[t].win = w /\ calls'[t].at \in {"native", "flag"} /\ calls'[t].arg = TRUE
    BY DEF SwitchedOn, Win
  <1>4. calls[t].win = w /\ calls[t].at \in {"native", "flag"} /\ calls[t].arg = TRUE => w \in SwitchedOn
    BY DEF SwitchedOn, Win
  <1> QED  BY <1>1, <1>2, <1>3, <1>4

(* The step of a thread that changes no pointer leaves every change alone.   *)
LEMMA NothingChanging ==
  ASSUME NEW t \in Threads, \A u \in Threads \ {t} : calls'[u] = calls[u],
         calls[t].at \notin {"native", "flag", "ignore"}, calls'[t].at \notin {"native", "flag", "ignore"}
  PROVE  \A v \in All : /\ \A through \in BOOLEAN : Halfway(v, through)' = Halfway(v, through)
                        /\ Following(v)' = Following(v)
                        /\ v \in SwitchedOn' => v \in SwitchedOn
  BY ChangesOf

(* A thread other than the event loop leaves the restoration where it is.    *)
LEMMA RestorationWaits ==
  ASSUME NEW t \in Threads \ {"ui"}, NEW w \in All, \A u \in Threads \ {t} : calls'[u] = calls[u]
  PROVE  /\ Restoring(w, "unflag")' <=> Restoring(w, "unflag")
         /\ Passed(w)' <=> Passed(w)
  <1>1. calls'["ui"] = calls["ui"]  BY ThreadsDiffer
  <1> QED  BY <1>1 DEF Restoring, Passed, Win

(* Creating the native window.                                               *)
LEMMA BuildKeeps ==
  ASSUME WindowsInvariant, NEW t \in Threads, Build(t)  PROVE WindowsInvariant'
  <1>0. PICK w \in All : w = Win(t)  BY Known
  <1>1. /\ WindowTypes /\ StagesKept /\ RowsAgree /\ PointerFollows /\ PointerFreed
        /\ StagesOf(calls[t]) /\ Legal(t, calls[t]) /\ calls[t] \in ThreadCalls /\ calls[t].win = w
    BY <1>0, Known
  <1>2. /\ calls[t].at = "build" /\ calls[t].op = "open"
        /\ main' = main /\ crossed' = crossed /\ refused' = refused /\ disk' = disk /\ mem' = mem
        /\ kept' = kept /\ stale' = stale /\ bound' = bound /\ requests' = requests
    BY <1>0, <1>1 DEF Build, At, StagesOf, rowVars, hotkeyVars
  <1>3. t # "ui"  BY <1>1, <1>2 DEF StagesKept
  <1>4. mem' \in [All -> Runtimes]  BY <1>1, <1>2 DEF WindowTypes
  <1>5. CASE Done(t) /\ web' = web
    <2>1. \A v \in All : \A page \in web'[v] : \E old \in web[v] : old.ignores = page.ignores
      BY <1>5
    <2>2. web' \in [All -> SUBSET Pages]  BY <1>1, <1>5 DEF WindowTypes
    <2>3. calls' = [calls EXCEPT ![t] = Idle]  BY <1>5 DEF Done
    <2> QED  BY <1>2, <1>4, <2>1, <2>2, <2>3, IdleFields, QuietStep
  <1>6. CASE /\ web[w] = {} /\ web' = [web EXCEPT ![w] = {[visible |-> FALSE, ignores |-> FALSE]}]
             /\ Goto(t, "match")
    <2> DEFINE call == [calls[t] EXCEPT !.at = "match"]
    <2> DEFINE page0 == [visible |-> FALSE, ignores |-> FALSE]
    <2>1. /\ call \in ThreadCalls /\ call.op = calls[t].op /\ call.win = w
          /\ call.at = "match" /\ call.arg = calls[t].arg
      <3>1. "match" \in Stages  BY DEF Stages
      <3> QED  BY <1>1, <3>1, GoneTo
    <2>2. Legal(t, call)  BY <1>1, <1>2, <2>1 DEF Legal, StagesOf
    <2>3. calls' = [calls EXCEPT ![t] = call]  BY <1>6 DEF Goto
    <2>4. page0 \in Pages /\ page0.ignores = FALSE  BY DEF Pages
    <2> HIDE DEF call, page0
    <2>5. calls'[t] = call /\ \A u \in Threads \ {t} : calls'[u] = calls[u]
      BY <1>1, <2>3 DEF WindowTypes
    <2>6. /\ web' \in [All -> SUBSET Pages] /\ web'[w] = {page0}
          /\ \A v \in All \ {w} : web'[v] = web[v]
      BY <1>1, <1>6, <2>4 DEF WindowTypes, page0
    <2>7. mem[w].loaded  BY <1>0, <1>1, <1>2 DEF RowsAgree
    <2>8. Following(w)' = Following(w) /\ (w \in SwitchedOn' => w \in SwitchedOn)
      BY <1>2, <2>1, <2>5, ChangesOf
    <2>9. w \notin crossed' => PointerOf(w)'
      BY <1>1, <1>2, <2>4, <2>6, <2>8 DEF PointerFollows, PointerOf
    <2>10. main = "gone" /\ w \notin crossed' \cup refused => FreedOf(w)'
      BY <1>1, <1>2, <1>3, <2>5, <2>8, RestorationWaits DEF PointerFreed, FreedOf
    <2>11. crossed \subseteq crossed'  BY <1>2
    <2> QED  BY <1>0, <1>2, <1>4, <2>1, <2>2, <2>3, <2>6, <2>7, <2>9, <2>10, <2>11, PointerStep
  <1> QED  BY <1>0, <1>5, <1>6 DEF Build

(* Giving the new window the pointer mode of its flag.                       *)
LEMMA MatchKeeps ==
  ASSUME WindowsInvariant, NEW t \in Threads, Match(t)  PROVE WindowsInvariant'
  <1>0. PICK w \in All : w = Win(t)  BY Known
  <1> DEFINE at == IF mem[w].through THEN "ignore" ELSE "appear"
  <1> DEFINE call == [calls[t] EXCEPT !.at = at]
  <1>1. /\ WindowTypes /\ StagesKept /\ PointerFollows /\ PointerFreed
        /\ StagesOf(calls[t]) /\ Legal(t, calls[t]) /\ calls[t] \in ThreadCalls /\ calls[t].win = w
    BY <1>0, Known
  <1>2. /\ calls[t].at = "match" /\ calls[t].op = "open" /\ calls' = [calls EXCEPT ![t] = call]
        /\ web' = web /\ main' = main /\ crossed' = crossed /\ refused' = refused /\ disk' = disk /\ mem' = mem
        /\ kept' = kept /\ stale' = stale /\ bound' = bound /\ requests' = requests
    BY <1>0, <1>1 DEF Match, At, Goto, StagesOf, pointerVars, rowVars, hotkeyVars
  <1>3. at \in {"ignore", "appear"} /\ (at = "ignore" <=> mem[w].through)  OBVIOUS
  <1>4. /\ call \in ThreadCalls /\ call.op = calls[t].op /\ call.win = w
        /\ call.at = at /\ call.arg = calls[t].arg
    <2>1. at \in Stages  BY DEF Stages
    <2> QED  BY <1>1, <2>1, GoneTo
  <1> HIDE DEF at, call
  <1>5. Legal(t, call)  BY <1>1, <1>2, <1>3, <1>4 DEF Legal, StagesOf
  <1>6. calls'[t] = call /\ \A u \in Threads \ {t} : calls'[u] = calls[u]  BY <1>1, <1>2 DEF WindowTypes
  <1>7. web' \in [All -> SUBSET Pages] /\ mem' \in [All -> Runtimes]  BY <1>1, <1>2 DEF WindowTypes
  <1>8. t # "ui"  BY <1>1, <1>2 DEF StagesKept
  <1>9. w \notin crossed' => PointerOf(w)'
    <2>1. /\ \A through \in BOOLEAN : Halfway(w, through)' = Halfway(w, through)
          /\ Following(w)' # {} => Following(w) # {} \/ mem[w].through
      BY <1>2, <1>3, <1>4, <1>6, ChangesOf
    <2>2. Restoring(w, "unflag")' <=> Restoring(w, "unflag")  BY <1>6, <1>8, RestorationWaits
    <2>3. Halfway(w, TRUE)' = Halfway(w, TRUE) /\ Halfway(w, FALSE)' = Halfway(w, FALSE)  BY <2>1
    <2> QED  BY <1>1, <1>2, <2>1, <2>2, <2>3 DEF PointerFollows, PointerOf
  <1>10. main = "gone" /\ w \notin crossed' \cup refused => FreedOf(w)'
    <2>1. w \in SwitchedOn' => w \in SwitchedOn  BY <1>3, <1>4, <1>6, ChangesOf
    <2> QED  BY <1>1, <1>2, <1>6, <1>8, <2>1, RestorationWaits DEF PointerFreed, FreedOf
  <1>11. /\ call.op # "restore" /\ calls[t].op # "restore" /\ calls[t].at \notin {"reply", "top", "persist"}
         /\ call.at \notin {"stored", "set", "top", "persist", "build"} /\ crossed \subseteq crossed'
    BY <1>2, <1>3, <1>4
  <1> QED  BY <1>0, <1>2, <1>4, <1>5, <1>7, <1>9, <1>10, <1>11, PointerStep

(* Pages whose pointer is set. *)
LEMMA IgnoringPages ==
  ASSUME WindowTypes, NEW w \in All, NEW through \in BOOLEAN, Ignoring(w, through)
  PROVE  /\ web' \in [All -> SUBSET Pages]
         /\ \A page \in web'[w] : page.ignores = through
         /\ web'[w] # {} <=> web[w] # {}
         /\ \A v \in All \ {w} : web'[v] = web[v]
  <1> DEFINE S == {[page EXCEPT !.ignores = through] : page \in web[w]}
  <1>1. web \in [All -> SUBSET Pages]  BY DEF WindowTypes
  <1>2. web' = [web EXCEPT ![w] = S]  BY DEF Ignoring
  <1>3. \A old \in Pages : /\ [old EXCEPT !.ignores = through] \in Pages
                          /\ [old EXCEPT !.ignores = through].ignores = through
    BY DEF Pages
  <1>4. \A page \in S : page \in Pages /\ page.ignores = through  BY <1>1, <1>3
  <1>5. S # {} <=> web[w] # {}  OBVIOUS
  <1> HIDE DEF S
  <1>6. web'[w] = S /\ \A v \in All \ {w} : web'[v] = web[v]  BY <1>1, <1>2
  <1>7. web' \in [All -> SUBSET Pages]  BY <1>1, <1>2, <1>4
  <1> QED  BY <1>4, <1>5, <1>6, <1>7

(* Showing the new window.                                                   *)
LEMMA AppearKeeps ==
  ASSUME WindowsInvariant, NEW t \in Threads, Appear(t)  PROVE WindowsInvariant'
  <1>0. PICK w \in All : w = Win(t)  BY Known
  <1>1. /\ WindowTypes /\ StagesKept /\ PointerFollows /\ PointerFreed
        /\ StagesOf(calls[t]) /\ Legal(t, calls[t]) /\ calls[t] \in ThreadCalls /\ calls[t].win = w
    BY <1>0, Known
  <1>2. /\ calls["ui"].at = "idle" /\ main' = main /\ refused' = refused /\ disk' = disk /\ mem' = mem
        /\ kept' = kept /\ stale' = stale /\ bound' = bound /\ requests' = requests
    BY DEF Appear, At, UiFree, rowVars, hotkeyVars
  <1>3. CASE At(t, "appear") /\ Shown(Win(t)) /\ Done(t) /\ crossed' = crossed
    BY <1>2, <1>3, ShownKeeps DEF At, rowVars, hotkeyVars
  <1>4. CASE /\ At(t, "ignore") /\ Goto(t, "appear")
             /\ \/ Ignoring(w, TRUE) /\ SetCrossing(w)
                \/ UNCHANGED <<web, crossed>>
    <2> DEFINE call == [calls[t] EXCEPT !.at = "appear"]
    <2>1. /\ call \in ThreadCalls /\ call.op = calls[t].op /\ call.win = w
          /\ call.at = "appear" /\ call.arg = calls[t].arg
      <3>1. "appear" \in Stages  BY DEF Stages
      <3> QED  BY <1>1, <3>1, GoneTo
    <2>2. calls' = [calls EXCEPT ![t] = call]  BY <1>4 DEF Goto
    <2> HIDE DEF call
    <2>3. calls[t].at = "ignore" /\ calls[t].op = "open"  BY <1>1, <1>4 DEF At, StagesOf
    <2>4. Legal(t, call)  BY <1>1, <2>1, <2>3 DEF Legal, StagesOf
    <2>5. calls'[t] = call /\ \A u \in Threads \ {t} : calls'[u] = calls[u]
      BY <1>1, <2>2 DEF WindowTypes
    <2>6. /\ web' \in [All -> SUBSET Pages] /\ (web'[w] # {} <=> web[w] # {})
          /\ \A v \in All \ {w} : web'[v] = web[v]
      <3>1. CASE Ignoring(w, TRUE)
        <4>1. TRUE \in BOOLEAN  OBVIOUS
        <4> QED  BY <1>1, <3>1, <4>1, IgnoringPages
      <3>2. CASE web' = web  BY <1>1, <3>2 DEF WindowTypes
      <3> QED  BY <1>4, <3>1, <3>2
    <2>7. mem' \in [All -> Runtimes]  BY <1>1, <1>2 DEF WindowTypes
    <2>8. t # "ui"  BY <1>1, <2>3 DEF StagesKept
    <2>9. /\ \A through \in BOOLEAN : Halfway(w, through)' = Halfway(w, through)
          /\ Following(w)' \subseteq Following(w) /\ Following(w) # {}
          /\ w \in SwitchedOn' => w \in SwitchedOn
      BY <1>1, <2>1, <2>3, <2>5, ChangesOf
    <2>10. ~Restoring(w, "unflag") /\ ~Restoring(w, "unflag")'
      BY <1>2, <2>5, <2>8, RestorationWaits DEF Restoring
    <2>11. crossed \subseteq crossed'  BY <1>4 DEF SetCrossing
    <2>12. ASSUME w \notin crossed'  PROVE PointerOf(w)'
      <3>1. PointerOf(w) /\ mem'[w].through  BY <1>1, <1>2, <2>9, <2>11, <2>12 DEF PointerFollows, PointerOf
      <3>2. Halfway(w, TRUE)' = Halfway(w, TRUE) /\ Halfway(w, FALSE)' = Halfway(w, FALSE)  BY <2>9
      <3>3. CASE SetCrossing(w)
        <4>1. Halfway(w, FALSE) = {}  BY <2>12, <3>3 DEF SetCrossing
        <4> QED  BY <2>10, <3>1, <3>2, <4>1 DEF PointerOf
      <3>4. CASE web' = web  BY <2>10, <3>1, <3>2, <3>4 DEF PointerOf
      <3> QED  BY <1>4, <3>3, <3>4
    <2>13. main = "gone" /\ w \notin crossed' \cup refused => FreedOf(w)'
      BY <1>1, <1>2, <2>5, <2>8, <2>9, <2>11, RestorationWaits DEF PointerFreed, FreedOf
    <2>14. /\ call.op # "restore" /\ calls[t].op # "restore" /\ calls[t].at \notin {"reply", "top", "persist"}
           /\ call.at \notin {"stored", "set", "top", "persist", "build"}
           /\ \A v \in All : mem'[v].row = mem[v].row /\ mem'[v].loaded = mem[v].loaded
           /\ \A v \in All \ {w} : mem'[v].through = mem[v].through
      BY <1>2, <2>1, <2>3
    <2> QED  BY <1>0, <1>2, <2>1, <2>2, <2>4, <2>6, <2>7, <2>11, <2>12, <2>13, <2>14, PointerStep
  <1> QED  BY <1>0, <1>3, <1>4 DEF Appear

(* The check of the main window before the pointer is given up.              *)
LEMMA CheckKeeps ==
  ASSUME WindowsInvariant, NEW t \in Threads, Check(t)  PROVE WindowsInvariant'
  <1>0. PICK w \in All : w = Win(t)  BY Known
  <1>1. /\ WindowTypes /\ StagesKept /\ PointerFollows /\ PointerFreed
        /\ StagesOf(calls[t]) /\ Legal(t, calls[t]) /\ calls[t] \in ThreadCalls /\ calls[t].win = w
    BY <1>0, Known
  <1>2. /\ calls[t].at = "check" /\ calls[t].op = "click" /\ calls[t].arg \in BOOLEAN
        /\ main' = main /\ crossed' = crossed /\ refused' = refused /\ web' = web /\ disk' = disk /\ mem' = mem
        /\ kept' = kept /\ stale' = stale /\ bound' = bound /\ requests' = requests
    BY <1>1 DEF Check, At, StagesOf, pointerVars, rowVars, hotkeyVars
  <1>3. t # "ui"  BY <1>1, <1>2 DEF StagesKept
  <1>4. \A v \in All : \A page \in web'[v] : \E old \in web[v] : old.ignores = page.ignores
    BY <1>2
  <1>5. web' \in [All -> SUBSET Pages] /\ mem' \in [All -> Runtimes]  BY <1>1, <1>2 DEF WindowTypes
  <1>6. CASE Done(t)
    <2>1. calls' = [calls EXCEPT ![t] = Idle]  BY <1>6 DEF Done
    <2> QED  BY <1>2, <1>4, <1>5, <2>1, IdleFields, QuietStep
  <1>7. CASE Recoverable(calls[t].arg) /\ Goto(t, "native")
    <2> DEFINE call == [calls[t] EXCEPT !.at = "native"]
    <2>1. /\ call \in ThreadCalls /\ call.op = calls[t].op /\ call.win = w
          /\ call.at = "native" /\ call.arg = calls[t].arg
      <3>1. "native" \in Stages  BY DEF Stages
      <3> QED  BY <1>1, <3>1, GoneTo
    <2>2. calls' = [calls EXCEPT ![t] = call]  BY <1>7 DEF Goto
    <2> HIDE DEF call
    <2>3. Legal(t, call)  BY <1>1, <1>2, <2>1 DEF Legal, StagesOf
    <2>4. calls'[t] = call /\ \A u \in Threads \ {t} : calls'[u] = calls[u]
      BY <1>1, <2>2 DEF WindowTypes
    <2>5. /\ \A through \in BOOLEAN : Halfway(w, through)' = Halfway(w, through)
          /\ Following(w)' = Following(w)
          /\ w \in SwitchedOn' => w \in SwitchedOn \/ calls[t].arg = TRUE
      BY <1>2, <2>1, <2>4, ChangesOf
    <2>6. Restoring(w, "unflag")' <=> Restoring(w, "unflag")  BY <1>3, <2>4, RestorationWaits
    <2>7. w \notin crossed' => PointerOf(w)'
      <3>1. Halfway(w, TRUE)' = Halfway(w, TRUE) /\ Halfway(w, FALSE)' = Halfway(w, FALSE)  BY <2>5
      <3> QED  BY <1>1, <1>2, <2>5, <2>6, <3>1 DEF PointerFollows, PointerOf
    <2>8. main = "gone" => calls[t].arg # TRUE  BY <1>7 DEF Recoverable
    <2>9. main = "gone" /\ w \notin crossed' \cup refused => FreedOf(w)'
      BY <1>1, <1>2, <1>3, <2>4, <2>5, <2>8, RestorationWaits DEF PointerFreed, FreedOf
    <2>10. /\ call.op # "restore" /\ calls[t].op # "restore" /\ calls[t].at \notin {"reply", "top", "persist"}
           /\ call.at \notin {"stored", "set", "top", "persist", "build"} /\ crossed \subseteq crossed'
      BY <1>2, <2>1
    <2> QED  BY <1>0, <1>2, <1>5, <2>1, <2>2, <2>3, <2>7, <2>9, <2>10, PointerStep
  <1> QED  BY <1>0, <1>6, <1>7 DEF Check

(* Setting the pointer mode of the native window.                            *)
LEMMA ApplyNativeKeeps ==
  ASSUME WindowsInvariant, NEW t \in Threads, ApplyNative(t)  PROVE WindowsInvariant'
  <1>0. PICK w \in All : w = Win(t)  BY Known
  <1>1. /\ WindowTypes /\ StagesKept /\ PointerFollows /\ PointerFreed
        /\ StagesOf(calls[t]) /\ Legal(t, calls[t]) /\ calls[t] \in ThreadCalls /\ calls[t].win = w
    BY <1>0, Known
  <1>2. /\ calls[t].at = "native" /\ calls[t].op = "click" /\ calls[t].arg \in BOOLEAN
        /\ main' = main /\ disk' = disk /\ mem' = mem /\ refused' = refused
        /\ kept' = kept /\ stale' = stale /\ bound' = bound /\ requests' = requests
    BY <1>0, <1>1 DEF ApplyNative, At, StagesOf, rowVars, hotkeyVars
  <1>3. PICK through \in BOOLEAN : through = calls[t].arg  BY <1>2
  <1>4. t # "ui" /\ mem' \in [All -> Runtimes]  BY <1>1, <1>2 DEF StagesKept, WindowTypes
  <1>5. \/ web[w] = {} /\ Goto(t, "flag") /\ UNCHANGED <<web, crossed>>
        \/ /\ UiFree /\ Ignoring(w, through) /\ Goto(t, "flag")
           /\ IF through THEN SetCrossing(w) ELSE UNCHANGED crossed
        \/ Done(t) /\ UNCHANGED <<web, crossed>>
    BY <1>0, <1>3 DEF ApplyNative
  <1>6. crossed \subseteq crossed'  BY <1>5 DEF SetCrossing
  <1>7. /\ web' \in [All -> SUBSET Pages] /\ (web'[w] # {} => web[w] # {})
        /\ \A v \in All \ {w} : web'[v] = web[v]
    <2>1. CASE Ignoring(w, through)  BY <1>1, <2>1, IgnoringPages
    <2>2. CASE web' = web  BY <1>1, <2>2 DEF WindowTypes
    <2> QED  BY <1>5, <2>1, <2>2
  <1>8. CASE Goto(t, "flag")
    <2> DEFINE call == [calls[t] EXCEPT !.at = "flag"]
    <2>1. /\ call \in ThreadCalls /\ call.op = calls[t].op /\ call.win = w
          /\ call.at = "flag" /\ call.arg = calls[t].arg
      <3>1. "flag" \in Stages  BY DEF Stages
      <3> QED  BY <1>1, <3>1, GoneTo
    <2>2. calls' = [calls EXCEPT ![t] = call]  BY <1>8 DEF Goto
    <2> HIDE DEF call
    <2>3. Legal(t, call)  BY <1>1, <1>2, <2>1 DEF Legal, StagesOf
    <2>4. calls'[t] = call /\ \A u \in Threads \ {t} : calls'[u] = calls[u]
      BY <1>1, <2>2 DEF WindowTypes
    <2>5. /\ through => Halfway(w, TRUE)' # {} /\ Halfway(w, FALSE)' = Halfway(w, FALSE)
          /\ Following(w)' = Following(w)
          /\ w \in SwitchedOn' => w \in SwitchedOn
      BY <1>1, <1>2, <1>3, <2>1, <2>4, ChangesOf
    <2>6. Restoring(w, "unflag")' <=> Restoring(w, "unflag")  BY <1>4, <2>4, RestorationWaits
    <2>7. ASSUME w \notin crossed'  PROVE PointerOf(w)'
      <3>1. PointerOf(w)  BY <1>1, <1>6, <2>7 DEF PointerFollows
      <3>2. Following(w)' # {} => mem'[w].through  BY <1>2, <2>5, <3>1 DEF PointerOf
      <3>3. CASE web'[w] = {}  BY <3>2, <3>3 DEF PointerOf
      <3>4. CASE UiFree /\ Ignoring(w, through) /\ IF through THEN SetCrossing(w) ELSE UNCHANGED crossed
        <4>1. \A page \in web'[w] : page.ignores = through  BY <1>1, <3>4, IgnoringPages
        <4>2. through => Halfway(w, FALSE) = {}  BY <2>7, <3>4 DEF SetCrossing
        <4>3. ~Restoring(w, "unflag")'  BY <2>6, <3>4 DEF UiFree, At, Restoring
        <4> QED  BY <2>5, <3>2, <4>1, <4>2, <4>3 DEF PointerOf
      <3>5. CASE Done(t)
        <4>1. calls'[t] = Idle  BY <1>1, <3>5 DEF Done, WindowTypes
        <4> QED  BY <2>1, <2>4, <4>1, IdleFields
      <3> QED  BY <1>5, <3>3, <3>4, <3>5
    <2>8. main = "gone" /\ w \notin crossed' \cup refused => FreedOf(w)'
      BY <1>1, <1>2, <1>4, <1>6, <2>4, <2>5, RestorationWaits DEF PointerFreed, FreedOf
    <2>9. /\ call.op # "restore" /\ calls[t].op # "restore" /\ calls[t].at \notin {"reply", "top", "persist"}
          /\ call.at \notin {"stored", "set", "top", "persist", "build"}
      BY <1>2, <2>1
    <2> QED  BY <1>0, <1>2, <1>4, <1>6, <1>7, <2>1, <2>2, <2>3, <2>7, <2>8, <2>9, PointerStep
  <1>9. CASE Done(t) /\ UNCHANGED <<web, crossed>>
    <2>1. calls' = [calls EXCEPT ![t] = Idle]  BY <1>9 DEF Done
    <2>2. calls'[t] = Idle /\ \A u \in Threads \ {t} : calls'[u] = calls[u]
      BY <1>1, <2>1 DEF WindowTypes
    <2>3. /\ \A b \in BOOLEAN : Halfway(w, b)' = Halfway(w, b)
          /\ Following(w)' = Following(w)
          /\ w \in SwitchedOn' => w \in SwitchedOn
      BY <1>2, <2>2, IdleFields, ChangesOf
    <2>4. Restoring(w, "unflag")' <=> Restoring(w, "unflag")  BY <1>4, <2>2, RestorationWaits
    <2>5. w \notin crossed' => PointerOf(w)'
      <3>1. Halfway(w, TRUE)' = Halfway(w, TRUE) /\ Halfway(w, FALSE)' = Halfway(w, FALSE)  BY <2>3
      <3> QED  BY <1>1, <1>2, <1>9, <2>3, <2>4, <3>1 DEF PointerFollows, PointerOf
    <2>6. main = "gone" /\ w \notin crossed' \cup refused => FreedOf(w)'
      BY <1>1, <1>2, <1>4, <1>6, <2>2, <2>3, RestorationWaits DEF PointerFreed, FreedOf
    <2> QED  BY <1>0, <1>2, <1>4, <1>6, <1>7, <2>1, <2>5, <2>6, IdleFields, PointerStep
  <1> QED  BY <1>5, <1>8, <1>9

(* Setting the flag after it.                                                *)
LEMMA ApplyFlagKeeps ==
  ASSUME WindowsInvariant, NEW t \in Threads, ApplyFlag(t)  PROVE WindowsInvariant'
  <1>0. PICK w \in All : w = Win(t)  BY Known
  <1>1. /\ WindowTypes /\ StagesKept /\ PointerFollows /\ PointerFreed
        /\ StagesOf(calls[t]) /\ calls[t].win = w
    BY <1>0, Known
  <1>2. /\ calls[t].at = "flag" /\ calls[t].op = "click" /\ calls[t].arg \in BOOLEAN
        /\ calls' = [calls EXCEPT ![t] = Idle] /\ mem' = [mem EXCEPT ![w].through = calls[t].arg]
        /\ main' = main /\ disk' = disk /\ refused' = refused /\ web' = web
        /\ kept' = kept /\ stale' = stale /\ bound' = bound /\ requests' = requests
    BY <1>0, <1>1 DEF ApplyFlag, Done, At, StagesOf, rowVars, hotkeyVars
  <1>3. PICK through \in BOOLEAN : through = calls[t].arg  BY <1>2
  <1>4. /\ mem' \in [All -> Runtimes] /\ mem'[w].through = through
        /\ \A v \in All : mem'[v].row = mem[v].row /\ mem'[v].loaded = mem[v].loaded
        /\ \A v \in All \ {w} : mem'[v].through = mem[v].through
    BY <1>1, <1>2, <1>3 DEF WindowTypes, Runtimes
  <1>5. calls'[t] = Idle /\ \A u \in Threads \ {t} : calls'[u] = calls[u]  BY <1>1, <1>2 DEF WindowTypes
  <1>6. t # "ui" /\ web' \in [All -> SUBSET Pages]  BY <1>1, <1>2 DEF StagesKept, WindowTypes
  <1>7. IF through THEN crossed' = crossed ELSE ClearCrossing(w)
    BY <1>0, <1>3 DEF ApplyFlag
  <1>8. crossed \subseteq crossed'  BY <1>7 DEF ClearCrossing
  <1>9. /\ Halfway(w, FALSE)' \subseteq Halfway(w, FALSE) /\ Following(w)' = Following(w)
        /\ w \in SwitchedOn' => w \in SwitchedOn
        /\ IF through THEN w \in SwitchedOn ELSE Halfway(w, FALSE) # {}
    BY <1>1, <1>2, <1>3, <1>5, IdleFields, ChangesOf
  <1>10. ASSUME w \notin crossed'  PROVE PointerOf(w)'
    <2>1. PointerOf(w)  BY <1>1, <1>8, <1>10 DEF PointerFollows
    <2>2. Restoring(w, "unflag")' <=> Restoring(w, "unflag")  BY <1>5, <1>6, RestorationWaits
    <2>3. CASE through
      <3>1. mem'[w].through  BY <1>4, <2>3
      <3>2. \A page \in web'[w] : page.ignores => Halfway(w, FALSE)' = {} /\ ~Restoring(w, "unflag")'
        BY <1>2, <1>9, <2>1, <2>2 DEF PointerOf
      <3> QED  BY <3>1, <3>2 DEF PointerOf
    <2>4. CASE ~through
      <3>1. Following(w) = {}  BY <1>7, <1>10, <2>4 DEF ClearCrossing
      <3>2. \A page \in web'[w] : ~page.ignores  BY <1>2, <1>9, <2>1, <2>4 DEF PointerOf
      <3> QED  BY <1>9, <3>1, <3>2 DEF PointerOf
    <2> QED  BY <2>3, <2>4
  <1>11. main = "gone" /\ w \notin crossed' \cup refused => FreedOf(w)'
    <2> SUFFICES ASSUME main = "gone", w \notin crossed' \cup refused  PROVE FreedOf(w)'
      OBVIOUS
    <2>1. FreedOf(w)  BY <1>1, <1>8 DEF PointerFreed
    <2>2. ~through  BY <1>9, <2>1 DEF FreedOf
    <2> QED  BY <1>4, <1>9, <2>1, <2>2 DEF FreedOf
  <1>12. calls[t].op # "restore" /\ calls[t].at \notin {"reply", "top", "persist"}
    BY <1>2
  <1>13. /\ \A v \in All \ {w} : web'[v] = web[v]
         /\ web'[w] # {} => web[w] # {}
    BY <1>2
  <1> QED  BY <1>0, <1>2, <1>4, <1>6, <1>8, <1>10, <1>11, <1>12, <1>13, IdleFields, PointerStep

(* One step of the restoration, at the window that it has come to.           *)
LEMMA RestorationStep ==
  ASSUME WindowsInvariant, NEW w \in All, w = Win("ui"),
         calls["ui"].at \in {"engaged", "clear", "unflag"},
         NEW call, Legal("ui", call), calls' = [calls EXCEPT !["ui"] = call],
         call.at \in {"engaged", "clear", "unflag", "idle"}, call.at = "unflag" => call.win = w,
         requests' = requests, main' = main, disk' = disk, kept' = kept, stale' = stale,
         crossed \subseteq crossed', refused \subseteq refused',
         web' \in [All -> SUBSET Pages], mem' \in [All -> Runtimes],
         \A v \in All : mem'[v].row = mem[v].row /\ mem'[v].loaded = mem[v].loaded,
         \A v \in All \ {w} : web'[v] = web[v] /\ mem'[v].through = mem[v].through,
         web'[w] # {} => web[w] # {},
         mem'[w].through => mem[w].through,
         \A v \in All : Passed(v)' => Passed(v) \/ ~mem'[v].through \/ v \in refused',
         w \notin crossed' /\ PointerOf(w) =>
           \/ /\ \A page \in web'[w] : page.ignores => page \in web[w] /\ mem'[w].through = mem[w].through
              /\ call.at # "unflag" /\ calls["ui"].at # "unflag"
              /\ Following(w) # {} => mem'[w].through
           \/ /\ \A page \in web'[w] : ~page.ignores
              /\ Following(w) # {} => mem'[w].through
  PROVE  WindowsInvariant'
  <1>1. /\ WindowTypes /\ StagesKept /\ RepliesAwaited /\ PointerFollows /\ PointerFreed
        /\ StagesOf(calls["ui"]) /\ "ui" \in Threads
    BY ThreadsDiffer, Known
  <1>2. /\ WindowTypes' /\ StagesKept' /\ RepliesAwaited'
        /\ calls'["ui"] = call /\ \A u \in Threads \ {"ui"} : calls'[u] = calls[u]
    <2>1. /\ calls' \in [Threads -> ThreadCalls] /\ StagesKept' /\ RepliesAwaited'
          /\ calls'["ui"] = call /\ \A u \in Threads \ {"ui"} : calls'[u] = calls[u]
      BY <1>1, ThreadGoesOn DEF At
    <2> QED  BY <1>1, <2>1 DEF WindowTypes
  <1>3. RowsAgree' /\ CopiesAgree'
    <2>1. \A v \in All : web'[v] # {} => web[v] # {} \/ mem[v].loaded  OBVIOUS
    <2> QED  BY <1>1, <1>2, <2>1, RowsAside
  <1>4. \A v \in All : /\ \A through \in BOOLEAN : Halfway(v, through)' = Halfway(v, through)
                       /\ Following(v)' = Following(v)
                       /\ v \in SwitchedOn' => v \in SwitchedOn
    <2>1. /\ calls["ui"].at \notin {"native", "flag", "ignore"}
          /\ calls'["ui"].at \notin {"native", "flag", "ignore"} /\ "ui" \in Threads
      BY <1>1, <1>2
    <2> QED  BY <1>2, <2>1, NothingChanging
  <1>5. ASSUME NEW v \in All \ crossed', v # w  PROVE PointerOf(v)'
    <2>1. Restoring(v, "unflag")' <=> Restoring(v, "unflag")
      BY <1>2, <1>5 DEF Restoring, Win
    <2>2. \A t \in Threads :
       \/ calls'[t] = calls[t]
       \/ /\ calls[t].win = v => calls[t].at \notin {"native", "flag", "match", "ignore"}
          /\ calls'[t].win = v => calls'[t].at \notin {"native", "flag", "match", "ignore"}
      BY <1>2
    <2>3. PointerKeptOf(v)  BY <1>5, <2>1, <2>2 DEF PointerKeptOf
    <2> QED  BY <1>1, <1>5, <2>3, PointerOfFrame DEF PointerFollows
  <1>6. ASSUME w \notin crossed'  PROVE PointerOf(w)'
    <2>1. PointerOf(w)  BY <1>1, <1>6 DEF PointerFollows
    <2>2. /\ Halfway(w, TRUE)' = Halfway(w, TRUE) /\ Halfway(w, FALSE)' = Halfway(w, FALSE)
          /\ Following(w)' = Following(w)
      BY <1>4
    <2>3. CASE \A page \in web'[w] : ~page.ignores
      BY <1>6, <2>1, <2>2, <2>3 DEF PointerOf
    <2>4. CASE /\ \A page \in web'[w] : page.ignores => page \in web[w] /\ mem'[w].through = mem[w].through
               /\ call.at # "unflag" /\ calls["ui"].at # "unflag"
               /\ Following(w) # {} => mem'[w].through
      <3>1. ~Restoring(w, "unflag")'  BY <1>2, <2>4 DEF Restoring
      <3> QED  BY <2>1, <2>2, <2>4, <3>1 DEF PointerOf
    <2> QED  BY <1>6, <2>1, <2>3, <2>4
  <1>7. PointerFollows'  BY <1>5, <1>6 DEF PointerFollows
  <1>8. ASSUME main = "gone", NEW v \in All \ (crossed' \cup refused')  PROVE FreedOf(v)'
    <2>1. FreedOf(v)  BY <1>1, <1>8 DEF PointerFreed
    <2>2. mem'[v].through => mem[v].through  OBVIOUS
    <2>3. Passed(v)' => ~mem'[v].through  BY <1>8, <2>1, <2>2 DEF FreedOf
    <2> QED  BY <1>4, <2>1, <2>3 DEF FreedOf
  <1>9. PointerFreed'  BY <1>8 DEF PointerFreed
  <1> QED  BY <1>2, <1>3, <1>7, <1>9 DEF WindowsInvariant

(* Going on to the next window, the restoration has one more behind it.      *)
LEMMA RestorationGoesOn ==
  ASSUME WindowsInvariant, NEW w \in All, w = Win("ui"), calls["ui"].op = "restore", NextWindow("engaged")
  PROVE  /\ \E call : /\ Legal("ui", call) /\ calls' = [calls EXCEPT !["ui"] = call]
                      /\ call.at \in {"engaged", "idle"}
         /\ \A v \in All : Passed(v)' => Passed(v) \/ v = w
  <1>1. WindowTypes /\ "ui" \in Threads  BY ThreadsDiffer DEF WindowsInvariant
  <1>2. PICK i \in 1..Len(Windows) :
           /\ Windows[i] = Win("ui")
           /\ \A k \in DOMAIN Windows : Windows[k] = Win("ui") => k = i
           /\ \/ /\ i < Len(Windows) /\ Windows[i + 1] \in All
                 /\ calls' = [calls EXCEPT !["ui"] = Begin(calls["ui"].op, Windows[i + 1], "engaged", FALSE)]
              \/ i = Len(Windows) /\ calls' = [calls EXCEPT !["ui"] = Idle]
    BY <1>1, NextWindowGoes
  <1>3. /\ Windows \in Seq(ToSet(Windows)) /\ IsInjective(Windows)
        /\ DOMAIN Windows = 1..Len(Windows) /\ Len(Windows) \in Nat
    BY WindowsAssumption
  <1>4. \A v \in All : \E j \in 1..Len(Windows) : Windows[j] = v  BY <1>3 DEF All, ToSet
  <1>5. CASE i < Len(Windows)
    <2>0. PICK next \in All : next = Windows[i + 1]
      <3>1. i + 1 \in 1..Len(Windows)  BY <1>3, <1>5
      <3>2. Windows[i + 1] \in All  BY <1>3, <3>1 DEF All, ToSet
      <3> QED  BY <3>2
    <2> DEFINE call == Begin("restore", next, "engaged", FALSE)
    <2>1. calls' = [calls EXCEPT !["ui"] = call]  
      <3>1. i # Len(Windows)
        <4>1. \A n \in Nat : \A k \in 1..n : k < n => k # n  OBVIOUS
        <4> QED  BY <1>3, <1>5, <4>1, Zenon
      <3> QED  BY <1>2, <2>0, <3>1
    <2>2. /\ call \in ThreadCalls /\ call.op = "restore" /\ call.win = next
          /\ call.at = "engaged" /\ call.arg = FALSE
      <3>1. "restore" \in Operations /\ "engaged" \in Stages /\ FALSE \in Looks \cup BOOLEAN
        BY DEF Operations, Stages
      <3> QED  BY <3>1 DEF Begin, ThreadCalls
    <2> HIDE DEF call
    <2>3. Legal("ui", call)  BY <2>2 DEF Legal, StagesOf
    <2>4. calls'["ui"] = call  BY <1>1, <2>1 DEF WindowTypes
    <2>5. ASSUME NEW v \in All, Passed(v)'  PROVE Passed(v) \/ v = w
      <3>1. PICK j, k \in DOMAIN Windows : j < k /\ Windows[j] = v /\ Windows[k] = next
        BY <2>2, <2>4, <2>5 DEF Passed, Win
      <3>2. i + 1 \in DOMAIN Windows  BY <1>3, <1>5
      <3>3. k = i + 1  BY <1>3, <2>0, <3>1, <3>2 DEF IsInjective
      <3>4. j < i \/ j = i  BY <1>3, <3>1, <3>3
      <3>5. CASE j = i  BY <1>2, <3>1, <3>5
      <3>6. CASE j < i  BY <1>2, <1>3, <3>1, <3>6 DEF Passed
      <3> QED  BY <3>4, <3>5, <3>6
    <2> QED  BY <2>1, <2>2, <2>3, <2>5
  <1>6. CASE i = Len(Windows)
    <2>0. ~(i < Len(Windows))  BY <1>3, <1>6
    <2>1. calls' = [calls EXCEPT !["ui"] = Idle]  BY <1>2, <2>0
    <2>2. ASSUME NEW v \in All  PROVE Passed(v) \/ v = w
      <3>1. PICK j \in 1..Len(Windows) : Windows[j] = v  BY <1>4
      <3>2. j < i \/ j = i
        <4>1. \A n \in Nat : \A k \in 1..n : k < n \/ k = n  OBVIOUS
        <4> QED  BY <1>3, <1>6, <4>1, Zenon
      <3>3. CASE j = i  BY <1>2, <3>1, <3>3
      <3>4. CASE j < i  BY <1>2, <1>3, <3>1, <3>4 DEF Passed
      <3> QED  BY <3>2, <3>3, <3>4
    <2> QED  BY <1>1, <2>1, <2>2, IdleFields
  <1> QED  BY <1>2, <1>5, <1>6, <1>3

(* Restoring the pointer of every window without the main one.               *)
LEMMA RestoreInteractionKeeps ==
  ASSUME WindowsInvariant, RestoreInteraction  PROVE WindowsInvariant'
  <1>0. PICK w \in All : w = Win("ui")  BY ThreadsDiffer, Known
  <1>1. /\ WindowTypes /\ StagesKept /\ "ui" \in Threads
        /\ StagesOf(calls["ui"]) /\ Legal("ui", calls["ui"]) /\ calls["ui"] \in ThreadCalls
        /\ calls["ui"].win = w
    BY <1>0, ThreadsDiffer, Known
  <1>2. /\ main' = main /\ disk' = disk /\ kept' = kept /\ stale' = stale /\ requests' = requests
    BY DEF RestoreInteraction, rowVars, hotkeyVars
  <1>3. web \in [All -> SUBSET Pages] /\ mem \in [All -> Runtimes]  BY <1>1 DEF WindowTypes
  <1>4. ASSUME NEW at \in {"clear", "unflag"}, Goto("ui", at), calls["ui"].op = "restore"
        PROVE  \E call : /\ Legal("ui", call) /\ calls' = [calls EXCEPT !["ui"] = call]
                         /\ call.at = at /\ call.win = w
                         /\ \A v \in All : Passed(v)' => Passed(v)
    <2> DEFINE call == [calls["ui"] EXCEPT !.at = at]
    <2>1. /\ call \in ThreadCalls /\ call.op = calls["ui"].op /\ call.win = w
          /\ call.at = at /\ call.arg = calls["ui"].arg
      <3>1. at \in Stages  BY DEF Stages
      <3> QED  BY <1>1, <3>1, GoneTo
    <2>2. calls' = [calls EXCEPT !["ui"] = call]  BY <1>4 DEF Goto
    <2> HIDE DEF call
    <2>3. Legal("ui", call)  BY <1>4, <2>1 DEF Legal, StagesOf
    <2>4. calls'["ui"] = call  BY <1>1, <2>2 DEF WindowTypes
    <2>5. \A v \in All : Passed(v)' => Passed(v)  BY <1>1, <1>4, <2>1, <2>4 DEF Passed, Win
    <2> QED  BY <2>1, <2>2, <2>3, <2>5
  <1>5. CASE /\ At("ui", "engaged") /\ mem[w].through /\ Goto("ui", "clear")
             /\ UNCHANGED <<web, mem, crossed, refused>>
    <2>1. calls["ui"].at = "engaged" /\ calls["ui"].op = "restore"  BY <1>1, <1>5 DEF At, StagesOf
    <2>2. PICK call : /\ Legal("ui", call) /\ calls' = [calls EXCEPT !["ui"] = call]
                      /\ call.at = "clear" /\ call.win = w
                      /\ \A v \in All : Passed(v)' => Passed(v)
      BY <1>4, <1>5, <2>1
    <2>3. web' = web /\ mem' = mem /\ crossed' = crossed /\ refused' = refused  BY <1>5
    <2> QED  BY <1>0, <1>2, <1>3, <1>5, <2>1, <2>2, <2>3, RestorationStep
  <1>6. CASE /\ At("ui", "engaged") /\ ~mem[w].through /\ NextWindow("engaged")
             /\ UNCHANGED <<web, mem, crossed, refused>>
    <2>1. calls["ui"].at = "engaged" /\ calls["ui"].op = "restore"  BY <1>1, <1>6 DEF At, StagesOf
    <2>2. PICK call : /\ Legal("ui", call) /\ calls' = [calls EXCEPT !["ui"] = call]
                      /\ call.at \in {"engaged", "idle"}
      BY <1>0, <1>6, <2>1, RestorationGoesOn
    <2>3. \A v \in All : Passed(v)' => Passed(v) \/ v = w  BY <1>0, <1>6, <2>1, RestorationGoesOn
    <2>4. web' = web /\ mem' = mem /\ crossed' = crossed /\ refused' = refused  BY <1>6
    <2>5. \A v \in All : Passed(v)' => Passed(v) \/ ~mem'[v].through  BY <1>6, <2>3, <2>4
    <2>6. w \notin crossed' /\ PointerOf(w) => (Following(w) # {} => mem'[w].through)
      BY <2>4 DEF PointerOf
    <2>7. call.at \in {"engaged", "clear", "unflag", "idle"} /\ call.at # "unflag"  BY <2>2
    <2> QED  BY <1>0, <1>2, <1>3, <2>1, <2>2, <2>4, <2>5, <2>6, <2>7, RestorationStep
  <1>7. CASE /\ At("ui", "clear") /\ Ignoring(w, FALSE) /\ Goto("ui", "unflag")
             /\ UNCHANGED <<mem, crossed, refused>>
    <2>1. calls["ui"].at = "clear" /\ calls["ui"].op = "restore"  BY <1>1, <1>7 DEF At, StagesOf
    <2>2. PICK call : /\ Legal("ui", call) /\ calls' = [calls EXCEPT !["ui"] = call]
                      /\ call.at = "unflag" /\ call.win = w
                      /\ \A v \in All : Passed(v)' => Passed(v)
      BY <1>4, <1>7, <2>1
    <2>3. /\ web' \in [All -> SUBSET Pages] /\ \A page \in web'[w] : page.ignores = FALSE
          /\ web'[w] # {} <=> web[w] # {}
          /\ \A v \in All \ {w} : web'[v] = web[v]
      <3>1. FALSE \in BOOLEAN  OBVIOUS
      <3> QED  BY <1>1, <1>7, <3>1, IgnoringPages
    <2>4. mem' = mem /\ crossed' = crossed /\ refused' = refused  BY <1>7
    <2>5. PointerOf(w) => (Following(w) # {} => mem'[w].through)  BY <2>4 DEF PointerOf
    <2> QED  BY <1>0, <1>2, <1>3, <2>1, <2>2, <2>3, <2>4, <2>5, RestorationStep
  <1>8. CASE /\ At("ui", "clear") /\ refused' = refused \cup {w} /\ NextWindow("engaged")
             /\ UNCHANGED <<web, mem, crossed>>
    <2>1. calls["ui"].at = "clear" /\ calls["ui"].op = "restore"  BY <1>1, <1>8 DEF At, StagesOf
    <2>2. PICK call : /\ Legal("ui", call) /\ calls' = [calls EXCEPT !["ui"] = call]
                      /\ call.at \in {"engaged", "idle"}
      BY <1>0, <1>8, <2>1, RestorationGoesOn
    <2>3. \A v \in All : Passed(v)' => Passed(v) \/ v = w  BY <1>0, <1>8, <2>1, RestorationGoesOn
    <2>4. web' = web /\ mem' = mem /\ crossed' = crossed /\ refused \subseteq refused' /\ w \in refused'
      BY <1>8
    <2>5. \A v \in All : Passed(v)' => Passed(v) \/ v \in refused'  BY <2>3, <2>4
    <2>6. PointerOf(w) => (Following(w) # {} => mem'[w].through)  BY <2>4 DEF PointerOf
    <2>7. call.at \in {"engaged", "clear", "unflag", "idle"} /\ call.at # "unflag"  BY <2>2
    <2> QED  BY <1>0, <1>2, <1>3, <2>1, <2>2, <2>4, <2>5, <2>6, <2>7, RestorationStep
  <1>9. CASE /\ At("ui", "unflag") /\ mem' = [mem EXCEPT ![w].through = FALSE]
             /\ NextWindow("engaged") /\ ClearCrossing(w) /\ UNCHANGED <<web, refused>>
    <2>1. calls["ui"].at = "unflag" /\ calls["ui"].op = "restore"  BY <1>1, <1>9 DEF At, StagesOf
    <2>2. PICK call : /\ Legal("ui", call) /\ calls' = [calls EXCEPT !["ui"] = call]
                      /\ call.at \in {"engaged", "idle"}
      BY <1>0, <1>9, <2>1, RestorationGoesOn
    <2>3. \A v \in All : Passed(v)' => Passed(v) \/ v = w  BY <1>0, <1>9, <2>1, RestorationGoesOn
    <2>4. /\ mem' \in [All -> Runtimes] /\ mem'[w].through = FALSE
          /\ \A v \in All : mem'[v].row = mem[v].row /\ mem'[v].loaded = mem[v].loaded
          /\ \A v \in All \ {w} : mem'[v].through = mem[v].through
      BY <1>3, <1>9 DEF Runtimes
    <2>5. \A v \in All : Passed(v)' => Passed(v) \/ ~mem'[v].through  BY <2>3, <2>4
    <2>6. crossed \subseteq crossed' /\ (w \notin crossed' => Following(w) = {})  BY <1>9 DEF ClearCrossing
    <2>7. PointerOf(w) => \A page \in web'[w] : ~page.ignores
      BY <1>0, <1>9, <2>1 DEF PointerOf, Restoring
    <2>8. call.at \in {"engaged", "clear", "unflag", "idle"} /\ call.at # "unflag"  BY <2>2
    <2>9. web' = web /\ refused' = refused /\ web' \in [All -> SUBSET Pages]  BY <1>3, <1>9
    <2> QED  BY <1>0, <1>2, <2>1, <2>2, <2>4, <2>5, <2>6, <2>7, <2>8, <2>9, RestorationStep
  <1> QED  BY <1>0, <1>5, <1>6, <1>7, <1>8, <1>9 DEF RestoreInteraction, Restore

(* The main window closes.                                                   *)
LEMMA CloseMainKeeps ==
  ASSUME WindowsInvariant, CloseMain  PROVE WindowsInvariant'
  <1>0. PICK w \in All : w = First  BY FirstIsAWindow
  <1> DEFINE call == Begin("restore", w, "engaged", FALSE)
  <1>1. /\ WindowTypes /\ StagesKept /\ RepliesAwaited /\ PointerFollows
        /\ StagesOf(calls["ui"]) /\ "ui" \in Threads
    BY ThreadsDiffer, Known
  <1>2. /\ calls["ui"].at = "idle" /\ calls' = [calls EXCEPT !["ui"] = call]
        /\ main' \in {"closing", "gone"} /\ (main' = "gone" => crossed' = crossed \cup SwitchedOn)
        /\ crossed \subseteq crossed' /\ refused' = {}
        /\ web' = web /\ disk' = disk /\ mem' = mem /\ kept' = kept /\ stale' = stale
        /\ requests' = requests
    <2>1. main \in {"open", "closing"}  BY <1>1 DEF CloseMain, WindowTypes
    <2> QED  BY <1>0, <2>1 DEF CloseMain, MainEvent, UiFree, At, rowVars, hotkeyVars
  <1>3. /\ call \in ThreadCalls /\ call.op = "restore" /\ call.win = w
        /\ call.at = "engaged" /\ call.arg = FALSE
    <2>1. "restore" \in Operations /\ "engaged" \in Stages /\ FALSE \in Looks \cup BOOLEAN
      BY DEF Operations, Stages
    <2> QED  BY <2>1 DEF Begin, ThreadCalls
  <1> HIDE DEF call
  <1>4. Legal("ui", call)  BY <1>3 DEF Legal, StagesOf
  <1>5. /\ calls' \in [Threads -> ThreadCalls] /\ StagesKept' /\ RepliesAwaited'
        /\ calls'["ui"] = call /\ \A u \in Threads \ {"ui"} : calls'[u] = calls[u]
    BY <1>1, <1>2, <1>4, ThreadGoesOn DEF At
  <1>6. WindowTypes'  BY <1>1, <1>2, <1>5 DEF WindowTypes
  <1>7. RowsAgree' /\ CopiesAgree'
    <2>1. /\ calls["ui"].at \notin {"top", "persist"}
          /\ calls'["ui"].at \notin {"stored", "set", "top", "persist", "build"}
      BY <1>2, <1>3, <1>5
    <2> QED  BY <1>1, <1>2, <1>5, <2>1, RowsAside
  <1>8. \A v \in All : /\ \A through \in BOOLEAN : Halfway(v, through)' = Halfway(v, through)
                       /\ Following(v)' = Following(v)
                       /\ v \in SwitchedOn' => v \in SwitchedOn
    BY <1>1, <1>2, <1>3, <1>5, ChangesOf
  <1>9. PointerFollows'
    <2> SUFFICES ASSUME NEW v \in All \ crossed'  PROVE PointerOf(v)'
      BY DEF PointerFollows
    <2>1. PointerOf(v)  BY <1>1, <1>2 DEF PointerFollows
    <2>2. ~Restoring(v, "unflag")'  BY <1>3, <1>5 DEF Restoring
    <2>3. Halfway(v, TRUE)' = Halfway(v, TRUE) /\ Halfway(v, FALSE)' = Halfway(v, FALSE)  BY <1>8
    <2> QED  BY <1>2, <1>8, <2>1, <2>2, <2>3 DEF PointerOf
  <1>10. PointerFreed'
    <2> SUFFICES ASSUME main' = "gone", NEW v \in All \ crossed'  PROVE FreedOf(v)'
      BY <1>2 DEF PointerFreed
    <2>1. ~Passed(v)'
      <3>1. Windows[1] = w /\ 1 \in DOMAIN Windows /\ IsInjective(Windows) /\ DOMAIN Windows = 1..Len(Windows)
        <4>1. Windows # <<>> /\ Windows \in Seq(ToSet(Windows)) /\ IsInjective(Windows)  BY WindowsAssumption
        <4>2. Len(Windows) >= 1 /\ First = Windows[1]  BY <4>1 DEF First
        <4> QED  BY <1>0, <4>1, <4>2
      <3>2. \A k \in DOMAIN Windows : Windows[k] = w => k = 1  BY <3>1 DEF IsInjective
      <3>3. \A i \in DOMAIN Windows : ~(i < 1)  BY <3>1
      <3> QED  BY <1>3, <1>5, <3>2, <3>3 DEF Passed, Win
    <2>2. v \notin SwitchedOn'  BY <1>2, <1>8
    <2> QED  BY <2>1, <2>2 DEF FreedOf
  <1> QED  BY <1>5, <1>6, <1>7, <1>9, <1>10 DEF WindowsInvariant

----------------------------------------------------------------------------
(* Detached windows: theorems.                                              *)

(* Every row that an earlier process stored is well formed, and kept is the   *)
(* look of the stored row.                                                  *)
LEMMA WindowsInvariantInitially == WindowsInit => WindowsInvariant
  <1> SUFFICES ASSUME WindowsInit  PROVE WindowsInvariant
    OBVIOUS
  <1>1. /\ web = [w \in All |-> {}] /\ main = "open" /\ mem = [w \in All |-> NewRuntime]
        /\ disk \in [All -> {{}} \cup {{row} : row \in Remembered}]
        /\ requests = <<>> /\ calls \in {Launching, WithoutHotkeys} /\ crossed = {} /\ refused = {} /\ stale = {}
        /\ kept = [w \in All |-> IF disk[w] = {} THEN DefaultLook
                                 ELSE CHOOSE look \in Looks : \E row \in disk[w] : row.look = look]
    BY DEF WindowsInit
  <1>2. DefaultLook \in Looks /\ Remembered \subseteq ShortcutRows
    BY WindowsAssumption DEF ShortcutRows
  <1>3. DefaultRow \in ShortcutRows /\ NewRuntime \in Runtimes
        /\ NewRuntime.loaded = FALSE /\ NewRuntime.through = FALSE /\ NewRuntime.row.look = DefaultLook
    BY <1>2 DEF DefaultRow, NewRuntime, Runtimes, ShortcutRows
  <1>4. ASSUME NEW w \in All
        PROVE  \/ disk[w] = {} /\ kept[w] = DefaultLook
               \/ \E row \in ShortcutRows : disk[w] = {row} /\ kept[w] = row.look /\ row.look \in Looks
    <2>1. CASE disk[w] = {}  BY <1>1, <2>1
    <2>2. CASE disk[w] # {}
      <3>1. PICK row \in Remembered : disk[w] = {row}  BY <1>1, <2>2
      <3>2. row \in ShortcutRows /\ row.look \in Looks  BY <1>2, <3>1 DEF ShortcutRows
      <3>3. kept[w] = CHOOSE look \in Looks : \E r \in disk[w] : r.look = look  BY <1>1, <2>2
      <3>4. \E look \in Looks : \E r \in disk[w] : r.look = look  BY <3>1, <3>2
      <3>5. \E r \in disk[w] : r.look = kept[w]  BY <3>3, <3>4
      <3> QED  BY <3>1, <3>2, <3>5
    <2> QED  BY <2>1, <2>2
  <1>5. /\ calls \in [Threads -> ThreadCalls]
        /\ \A t \in Threads : StagesOf(calls[t]) /\ calls[t].at \in {"idle", "absent", "hydrate"}
        /\ calls["ui"].op \in {"launch", "none"}
        /\ \A t \in Threads \ {"ui"} : calls[t].op = "none"
    <2>1. PICK f \in All : f = First  BY FirstIsAWindow
    <2>2. {"launch", "none"} \subseteq Operations /\ {"hydrate", "absent"} \subseteq Stages
          /\ FALSE \in Looks \cup BOOLEAN
      BY DEF Operations, Stages
    <2> DEFINE L == Begin("launch", First, "hydrate", FALSE)
               N == Begin("none", First, "absent", FALSE)
    <2>3. L \in ThreadCalls /\ L.op = "launch" /\ L.at = "hydrate" /\ L.arg = FALSE
      BY <2>1, <2>2 DEF Begin, ThreadCalls
    <2>4. N \in ThreadCalls /\ N.op = "none" /\ N.at = "absent"
      BY <2>1, <2>2 DEF Begin, ThreadCalls
    <2>5. /\ Launching = [t \in Threads |-> IF t = "ui" THEN L ELSE Idle]
          /\ WithoutHotkeys = [t \in Threads |-> IF t = "hot" THEN N ELSE Idle]
      BY DEF Launching, WithoutHotkeys
    <2> HIDE DEF L, N
    <2>6. StagesOf(L) /\ StagesOf(N) /\ StagesOf(Idle)  BY <2>3, <2>4, IdleFields DEF StagesOf
    <2>7. CASE calls = Launching
      BY <2>3, <2>5, <2>6, <2>7, IdleFields, ThreadsDiffer
    <2>8. CASE calls = WithoutHotkeys
      BY <2>4, <2>5, <2>6, <2>8, IdleFields, ThreadsDiffer
    <2> QED  BY <1>1, <2>7, <2>8
  <1>6. WindowTypes
    <2>1. web \in [All -> SUBSET Pages] /\ mem \in [All -> Runtimes]  BY <1>1, <1>3
    <2>2. disk \in [All -> SUBSET ShortcutRows] /\ kept \in [All -> Looks]
      <3>1. \A w \in All : disk[w] \in SUBSET ShortcutRows /\ kept[w] \in Looks  BY <1>2, <1>4
      <3>2. disk = [w \in All |-> disk[w]] /\ kept = [w \in All |-> kept[w]]  BY <1>1
      <3> QED  BY <3>1, <3>2
    <2>3. requests \in Seq(Requests)  BY <1>1
    <2> QED  BY <1>1, <1>5, <2>1, <2>2, <2>3 DEF WindowTypes
  <1>7. StagesKept  BY <1>5 DEF StagesKept
  <1>8. RepliesAwaited  BY <1>1 DEF RepliesAwaited
  <1>9. \A w \in All : Copied(w) = {} /\ Following(w) = {}
    BY <1>5 DEF Copied, Following, At
  <1>10. RowsAgree
    <2>1. \A w \in All : web[w] = {} /\ mem[w].loaded = FALSE /\ mem[w].row.look = DefaultLook
      BY <1>1, <1>3
    <2>2. \A w \in All : /\ disk[w] = {} => kept[w] = DefaultLook
                         /\ \A r, q \in disk[w] : r = q
                         /\ \A r \in disk[w] : r.look = kept[w]
      BY <1>4
    <2> QED  BY <1>5, <2>1, <2>2 DEF RowsAgree
  <1>11. CopiesAgree  BY <1>5, <1>9 DEF CopiesAgree, At
  <1>12. PointerFollows
    <2>1. \A w \in All : web[w] = {}  BY <1>1
    <2> QED  BY <1>9, <2>1 DEF PointerFollows, PointerOf
  <1>13. PointerFreed  BY <1>1 DEF PointerFreed
  <1> QED  BY <1>6, <1>7, <1>8, <1>10, <1>11, <1>12, <1>13 DEF WindowsInvariant

(* What is proved of the step holds of a step that changes nothing too.      *)
LEMMA WindowsInvariantStutters ==
  ASSUME WindowsInvariant, UNCHANGED windowVars  PROVE WindowsInvariant'
  <1>1. /\ web' = web /\ main' = main /\ crossed' = crossed /\ refused' = refused /\ disk' = disk /\ stale' = stale
        /\ kept' = kept /\ requests' = requests /\ mem' = mem /\ calls' = calls
    BY DEF windowVars, pointerVars, rowVars, hotkeyVars
  <1>2. /\ WindowTypes /\ StagesKept /\ RepliesAwaited /\ RowsAgree
        /\ CopiesAgree /\ PointerFollows /\ PointerFreed
    BY DEF WindowsInvariant
  <1>3. PointerKept  BY <1>1 DEF PointerKept, PointerKeptOf, Restoring, Passed, Win
  <1>4. RowsKept  BY <1>1 DEF RowsKept
  <1>5. WindowTypes' /\ StagesKept' /\ RepliesAwaited'
    BY <1>1, <1>2 DEF WindowTypes, StagesKept, RepliesAwaited, At
  <1> QED  BY <1>2, <1>3, <1>4, <1>5, PointerFrame, RowsFrame DEF WindowsInvariant

(* Every step of the windows keeps their invariant.                          *)
LEMMA WindowsInvariantKept ==
  ASSUME WindowsInvariant, WindowsNext  PROVE WindowsInvariant'
  <1>1. ASSUME NEW t \in Threads, ThreadStep(t)  PROVE WindowsInvariant'
    BY <1>1, HydrateKeeps, AdoptKeeps, SetKeeps, TopKeeps, PersistKeeps, RebindKeeps, TimeoutKeeps,
       AnsweredKeeps, SeekKeeps, BuildKeeps, MatchKeeps, AppearKeeps, CheckKeeps, ApplyNativeKeeps,
       ApplyFlagKeeps
    DEF ThreadStep
  <1>2. Addressed \subseteq All  BY WindowsAssumption DEF All
  <1>3. ASSUME NEW c \in Commands, NEW w \in Addressed, Commanded(c, w)  PROVE WindowsInvariant'
    BY <1>2, <1>3, CommandedKeeps
  <1>4. ASSUME NEW w \in Addressed,
               Press(w) \/ RecordGeometry(w, "move") \/ RecordGeometry(w, "shut")
        PROVE  WindowsInvariant'
    <2>1. w \in All  BY <1>2
    <2>2. CASE Press(w)  BY <2>1, <2>2, PressKeeps
    <2>3. CASE RecordGeometry(w, "move")  BY <2>1, <2>3, RecordGeometryKeeps
    <2>4. CASE RecordGeometry(w, "shut")  BY <2>1, <2>4, RecordGeometryKeeps
    <2> QED  BY <1>4, <2>2, <2>3, <2>4
  <1> QED
    BY <1>1, <1>3, <1>4, ServeKeeps, ToggleKeeps, RestoreInteractionKeeps, CloseMainKeeps DEF WindowsNext

(* The invariant of the detached windows, whatever the commands, the         *)
(* shortcuts, the window events and the start do in whatever order           *)
(* (windows/mod.rs, windows/hotkey.rs).                                      *)
THEOREM WindowsInvariantHolds == WindowsSpec => []WindowsInvariant
  <1>1. WindowsInvariant /\ [WindowsNext]_windowVars => WindowsInvariant'
    BY WindowsInvariantKept, WindowsInvariantStutters
  <1> QED  BY <1>1, WindowsInvariantInitially, PTL DEF WindowsSpec

(* Without the main window no detached window ignores the pointer, though    *)
(* native calls fail and threads open windows and change flags side by side, *)
(* but for the windows that refused the restoration and those where changes  *)
(* crossed (restore_interaction_without_main_window).                        *)
THEOREM PointerIsRestored == WindowsSpec => []PointerRestored
  <1>1. WindowsInvariant => PointerRestored
    <2> SUFFICES ASSUME WindowsInvariant, main = "gone", UiFree,
                        NEW w \in All \ (crossed \cup refused), NEW page \in web[w], page.ignores
                 PROVE  FALSE
      BY DEF PointerRestored
    <2>1. /\ PointerOf(w) /\ FreedOf(w) /\ StagesOf(calls["ui"])
      BY ThreadsDiffer DEF WindowsInvariant, PointerFollows, PointerFreed, StagesKept
    <2>2. calls["ui"].at = "idle" /\ calls["ui"].op = "none"  BY <2>1 DEF UiFree, At, StagesOf
    <2>3. ~mem[w].through  BY <2>1, <2>2 DEF FreedOf, Passed
    <2>4. Halfway(w, TRUE) # {}  BY <2>1, <2>3 DEF PointerOf
    <2>5. w \in SwitchedOn  BY <2>4 DEF Halfway, SwitchedOn, At
    <2> QED  BY <2>1, <2>5 DEF FreedOf
  <1> QED  BY <1>1, WindowsInvariantHolds, PTL

(* A window that ignores the pointer has its flag on, whatever native calls  *)
(* fail, unless changes crossed at it (set_click_through, open).             *)
THEOREM PointerIsAsShown == WindowsSpec => []PointerAsShown
  <1>1. WindowsInvariant => PointerAsShown
    BY DEF WindowsInvariant, PointerFollows, PointerOf, PointerAsShown
  <1> QED  BY <1>1, WindowsInvariantHolds, PTL

(* The look stored for a window is the one the user last set (hydrated,      *)
(* record_geometry, persist).                                                *)
THEOREM LooksAreRemembered == WindowsSpec => []RowRemembered
  <1>1. WindowsInvariant => RowRemembered  BY DEF WindowsInvariant, RowsAgree, RowRemembered
  <1> QED  BY <1>1, WindowsInvariantHolds, PTL

----------------------------------------------------------------------------
(* Settings, projects and their indexes: the state.                          *)

Versions == [rev : Nat, ws : Workspaces, note : {0, 1}, valid : BOOLEAN]
Contents == SUBSET (Nat \cup {Damaged})
ProjectFiles == [doc : Contents, backup : Contents, temp : Contents]
ProjectIndexes == [fresh : BOOLEAN, key : SUBSET Workspaces, rows : [Projects -> Contents]]
SessionStates == {"none", "active", "paused", "ended"}
SessionIndexes == [fresh : BOOLEAN, key : SUBSET Workspaces, rows : [Projects -> SessionStates]]

(* A client holds no revision later than the newest version, and that one    *)
(* with its content.                                                        *)
SettingsNamed ==
  /\ rows \in Seq(Versions) /\ Len(rows) <= 3 /\ view \in SUBSET Versions
  /\ ~quarantined =>
       \A held \in view :
         /\ rows # <<>> /\ held.rev <= rows[1].rev
         /\ held.rev = rows[1].rev /\ rows[1].valid => held = rows[1]

(* No backup is damaged, nor a document that no other program touched.       *)
SoundFile(f) ==
  /\ f \in ProjectFiles /\ f.backup # {Damaged}
  /\ \A n, m \in f.doc : n = m
  /\ \A n, m \in f.backup : n = m

FilesSound(fs, bad) ==
  /\ fs \in [Projects -> ProjectFiles]
  /\ \A p \in Projects : SoundFile(fs[p]) /\ (p \notin bad => fs[p].doc # {Damaged})

(* What a fresh index says of the workspace it describes.                    *)
IndexAgrees(ix, fs, places, bad) ==
  /\ ix \in ProjectIndexes
  /\ ix.fresh =>
       \A w \in Workspaces : ix.key = {w} =>
         /\ \A p \in Projects \ bad :
              ix.rows[p] = IF places[p] = "live" /\ Home[p] = w THEN Recovered(fs[p]).doc ELSE {}
         /\ \A p \in Projects : ix.rows[p] # {} => Home[p] = w

ProjectsIndexed ==
  /\ place \in [Projects -> {"none", "live", "trash"}]
  /\ FilesSound(files, hurt) /\ IndexAgrees(index, files, place, hurt)

(* At most one session is written, its folder is in place and its record     *)
(* says so; so does an index of its workspace.                               *)
WriterListed ==
  /\ record \in [Projects -> SessionStates] /\ listing \in SessionIndexes
  /\ writer \in SUBSET Projects /\ (~up => writer = {})
  /\ \A p, q \in writer : p = q
  /\ \A p \in writer :
       /\ Live(p) /\ record[p] = "active"
       /\ listing.fresh /\ listing.key = {Home[p]} => listing.rows[p] = "active"

LibraryInvariant == SettingsNamed /\ ProjectsIndexed /\ WriterListed

----------------------------------------------------------------------------
(* Settings: lemmas.                                                         *)

(* A sequence that has a first element. *)
LEMMA FirstOf ==
  ASSUME NEW S, NEW s \in Seq(S)
  PROVE  /\ Len(s) \in Nat /\ DOMAIN s = 1..Len(s)
         /\ s # <<>> <=> Len(s) >= 1
         /\ s # <<>> => Head(s) = s[1] /\ s[1] \in S
  <1>1. Len(s) \in Nat /\ DOMAIN s = 1..Len(s)  OBVIOUS
  <1>2. s = <<>> => Len(s) = 0  OBVIOUS
  <1>3. Len(s) = 0 => s = <<>>  OBVIOUS
  <1>4. s # <<>> => Head(s) = s[1] /\ s[1] \in S  OBVIOUS
  <1> QED  BY <1>1, <1>2, <1>3, <1>4

(* store_settings puts a version first and keeps at most three.              *)
LEMMA StoredIsFirst ==
  ASSUME NEW row \in Versions, NEW versions \in Seq(Versions)
  PROVE  /\ Stored(row, versions) \in Seq(Versions)
         /\ Len(Stored(row, versions)) <= 3 /\ Stored(row, versions) # <<>>
         /\ Stored(row, versions)[1] = row
         /\ Head(Stored(row, versions)) = row
  <1> DEFINE whole == <<row>> \o versions
             n == IF Len(versions) < 3 THEN Len(versions) + 1 ELSE 3
  <1>1. /\ whole \in Seq(Versions) /\ Len(whole) = Len(versions) + 1 /\ whole[1] = row
        /\ Len(versions) \in Nat
    <2>1. <<row>> \in Seq(Versions) /\ Len(<<row>>) = 1 /\ <<row>>[1] = row  OBVIOUS
    <2> QED  BY <2>1
  <1>2. n \in 1..3 /\ n <= Len(versions) + 1  BY <1>1
  <1>3. Stored(row, versions) = SubSeq(whole, 1, n)  BY DEF Stored
  <1> HIDE DEF whole, n
  <1>4. /\ SubSeq(whole, 1, n) \in Seq(Versions) /\ Len(SubSeq(whole, 1, n)) = n
        /\ SubSeq(whole, 1, n)[1] = whole[1]
    BY <1>1, <1>2
  <1>5. n <= 3 /\ n >= 1  BY <1>2
  <1>6. Head(SubSeq(whole, 1, n)) = SubSeq(whole, 1, n)[1]
    BY <1>4, <1>5, FirstOf
  <1>7. SubSeq(whole, 1, n) # <<>>  BY <1>4, <1>5, FirstOf
  <1> QED  BY <1>1, <1>3, <1>4, <1>5, <1>6, <1>7

(* load_or_recover finds a valid version, and a recovered one has a revision  *)
(* that no version had.                                                     *)
LEMMA LoadedIsValid ==
  ASSUME rows \in Seq(Versions), Len(rows) <= 3
  PROVE  /\ Loaded \in Seq(Versions) /\ Len(Loaded) <= 3 /\ Loaded # <<>>
         /\ Head(Loaded) = Loaded[1] /\ Head(Loaded) \in Versions /\ Chosen \in Workspaces
         /\ rows # <<>> =>
              /\ rows[1].valid => Loaded = rows
              /\ ~rows[1].valid => Head(Loaded).rev = rows[1].rev + 1
         /\ Head(Loaded).valid
  <1>1. \A rev \in Nat : Foundation(rev) \in Versions /\ Foundation(rev).valid /\ Foundation(rev).rev = rev
    BY LibraryAssumption DEF Foundation, Row, Versions
  <1>2. CASE rows = <<>>
    <2>1. Loaded = <<Foundation(0)>>  BY <1>2 DEF Loaded
    <2>2. Foundation(0) \in Versions /\ Foundation(0).valid  BY <1>1
    <2> HIDE DEF Foundation
    <2>3. Loaded \in Seq(Versions) /\ Len(Loaded) = 1 /\ Head(Loaded) = Loaded[1] /\ Loaded[1] = Foundation(0)
      BY <2>1, <2>2
    <2>4. Chosen \in Workspaces  BY <2>2, <2>3 DEF Chosen, Versions
    <2>5. Len(Loaded) <= 3 /\ Loaded # <<>>  BY <2>3, FirstOf
    <2> QED  BY <1>2, <2>2, <2>3, <2>4, <2>5
  <1>3. ASSUME rows # <<>>
        PROVE  Len(rows) >= 1 /\ Head(rows) = rows[1] /\ rows[1] \in Versions /\ rows[1].rev \in Nat
    <2>1. Len(rows) \in Nat /\ Len(rows) >= 1 /\ Head(rows) = rows[1] /\ rows[1] \in Versions
      BY <1>3, FirstOf
    <2> QED  BY <2>1 DEF Versions
  <1>4. CASE rows # <<>> /\ rows[1].valid
    <2>1. Loaded = rows  BY <1>4 DEF Loaded
    <2> QED  BY <1>3, <1>4, <2>1 DEF Chosen, Versions
  <1>5. CASE rows # <<>> /\ ~rows[1].valid
    <2>1. PICK row \in Versions : Loaded = Stored(row, rows) /\ row.rev = rows[1].rev + 1 /\ row.valid
      <3>1. CASE ValidRows = {}
        <4>1. Loaded = Stored(Foundation(RecoveredRevision(1)), rows)  BY <1>5, <3>1 DEF Loaded
        <4>2. RecoveredRevision(1) = rows[1].rev + 1 /\ rows[1].rev + 1 \in Nat
          BY <1>3, <1>5 DEF RecoveredRevision
        <4> QED  BY <1>1, <4>1, <4>2
      <3>2. CASE ValidRows # {}
        <4> DEFINE i == CHOOSE k \in ValidRows : \A j \in ValidRows : k <= j
        <4>1. ValidRows \subseteq 1..3
          <5>1. DOMAIN rows = 1..Len(rows) /\ Len(rows) \in Nat  OBVIOUS
          <5> QED  BY <5>1 DEF ValidRows
        <4>2. \E k \in ValidRows : \A j \in ValidRows : k <= j
          <5>1. CASE 1 \in ValidRows
            <6>1. \A j \in ValidRows : 1 <= j  BY <4>1
            <6> QED  BY <5>1, <6>1
          <5>2. CASE 1 \notin ValidRows /\ 2 \in ValidRows
            <6>1. \A j \in ValidRows : 2 <= j  BY <4>1, <5>2
            <6> QED  BY <5>2, <6>1
          <5>3. CASE 1 \notin ValidRows /\ 2 \notin ValidRows
            <6>1. \A j \in ValidRows : j = 3  BY <4>1, <5>3
            <6>2. 3 \in ValidRows /\ \A j \in ValidRows : 3 <= j  BY <3>2, <6>1
            <6> QED  BY <6>2
          <5> QED  BY <5>1, <5>2, <5>3
        <4>3. i \in ValidRows  BY <4>2
        <4>4. Loaded = Stored([rows[i] EXCEPT !.rev = RecoveredRevision(i)], rows)
          BY <1>5, <3>2 DEF Loaded
        <4> HIDE DEF i
        <4>5. rows[i] \in Versions /\ rows[i].valid  BY <4>3 DEF ValidRows
        <4>6. RecoveredRevision(i) = rows[1].rev + 1 /\ rows[1].rev + 1 \in Nat
          BY <1>3, <1>5 DEF RecoveredRevision
        <4>7. PICK row : row = [rows[i] EXCEPT !.rev = RecoveredRevision(i)]  OBVIOUS
        <4>8. row \in Versions /\ row.rev = rows[1].rev + 1 /\ row.valid  BY <4>5, <4>6, <4>7 DEF Versions
        <4> QED  BY <4>4, <4>7, <4>8
      <3> QED  BY <3>1, <3>2
    <2>2. /\ Loaded \in Seq(Versions) /\ Len(Loaded) <= 3 /\ Loaded # <<>> /\ Loaded[1] = row /\ Head(Loaded) = row
      BY <2>1, StoredIsFirst
    <2> QED  BY <1>5, <2>1, <2>2 DEF Chosen, Versions
  <1> QED  BY <1>2, <1>4, <1>5

(* The newest version is no older for having been loaded.                    *)
LEMMA LoadingKeepsNames ==
  ASSUME SettingsNamed
  PROVE  ~quarantined => \A held \in view :
           /\ held.rev \in Nat /\ held.rev <= Loaded[1].rev
           /\ held.rev = Loaded[1].rev => held = Loaded[1]
  <1>1. /\ rows \in Seq(Versions) /\ Len(rows) <= 3 /\ view \in SUBSET Versions
    BY DEF SettingsNamed
  <1>2. /\ Head(Loaded) = Loaded[1] /\ Loaded[1] \in Versions
        /\ rows # <<>> => /\ rows[1].valid => Loaded = rows
                          /\ ~rows[1].valid => Head(Loaded).rev = rows[1].rev + 1
    BY <1>1, LoadedIsValid
  <1> SUFFICES ASSUME ~quarantined, NEW held \in view
               PROVE  /\ held.rev \in Nat /\ held.rev <= Loaded[1].rev
                      /\ held.rev = Loaded[1].rev => held = Loaded[1]
    OBVIOUS
  <1>3. /\ rows # <<>> /\ held.rev <= rows[1].rev
        /\ held.rev = rows[1].rev /\ rows[1].valid => held = rows[1]
    BY DEF SettingsNamed
  <1>4. held.rev \in Nat  BY <1>1 DEF Versions
  <1>5. rows[1].rev \in Nat
    <2>1. rows[1] \in Versions  BY <1>1, <1>3, FirstOf
    <2> QED  BY <2>1 DEF Versions
  <1>6. CASE rows[1].valid  BY <1>2, <1>3, <1>4, <1>6
  <1>7. CASE ~rows[1].valid
    <2>1. Loaded[1].rev = rows[1].rev + 1  BY <1>2, <1>3, <1>7
    <2> QED  BY <1>3, <1>4, <1>5, <2>1
  <1> QED  BY <1>6, <1>7

(* A command that changes no setting.                                        *)
LEMMA LoadKeepsSettings ==
  ASSUME SettingsNamed, rows' = Loaded, view' = view, quarantined' = quarantined
  PROVE  SettingsNamed'
  <1>1. rows \in Seq(Versions) /\ Len(rows) <= 3 /\ view \in SUBSET Versions  BY DEF SettingsNamed
  <1>2. Loaded \in Seq(Versions) /\ Len(Loaded) <= 3 /\ Loaded # <<>>  BY <1>1, LoadedIsValid
  <1> QED  BY <1>1, <1>2, LoadingKeepsNames DEF SettingsNamed

(* Every step keeps the versions of the settings in order, each revision of  *)
(* one content.                                                              *)
LEMMA SettingsKept ==
  ASSUME SettingsNamed, LibraryNext  PROVE SettingsNamed'
  <1>1. rows \in Seq(Versions) /\ Len(rows) <= 3 /\ view \in SUBSET Versions  BY DEF SettingsNamed
  <1>2. /\ Loaded \in Seq(Versions) /\ Len(Loaded) <= 3 /\ Loaded # <<>> /\ Head(Loaded) = Loaded[1]
        /\ Loaded[1] \in Versions /\ Loaded[1].rev \in Nat
    BY <1>1, LoadedIsValid DEF Versions
  <1>3. CASE GetSettings
    <2>1. rows' = Loaded /\ view' = {Loaded[1]}  BY <1>2, <1>3 DEF GetSettings, Load
    <2> QED  BY <1>2, <2>1 DEF SettingsNamed
  <1>4. ASSUME NEW row \in Versions, Saved(row)
        PROVE  /\ rows' \in Seq(Versions) /\ Len(rows') <= 3 /\ rows' # <<>> /\ Head(rows') = rows'[1]
               /\ rows'[1] \in Versions /\ rows'[1].rev = Loaded[1].rev + 1 /\ quarantined' = quarantined
    <2>1. PICK new : new = [row EXCEPT !.rev = Loaded[1].rev + 1]  OBVIOUS
    <2>2. new \in Versions /\ new.rev = Loaded[1].rev + 1  BY <1>2, <2>1 DEF Versions
    <2>3. rows' = Stored(new, Loaded) /\ quarantined' = quarantined  BY <1>2, <1>4, <2>1 DEF Saved
    <2>4. rows' \in Seq(Versions) /\ Len(rows') <= 3 /\ rows' # <<>> /\ rows'[1] = new /\ Head(rows') = new
      BY <1>2, <2>2, <2>3, StoredIsFirst
    <2> QED  BY <2>2, <2>3, <2>4
  <1>5. ASSUME NEW note \in {0, 1}, UpdateSettings(note)  PROVE SettingsNamed'
    <2>1. PICK row : row = Edited(Loaded[1], note)  OBVIOUS
    <2>2. row \in Versions  BY <1>2, <2>1 DEF Edited, Versions
    <2>3. Saved(row) /\ view' = {Head(rows')}  BY <1>2, <1>5, <2>1 DEF UpdateSettings
    <2>4. /\ rows' \in Seq(Versions) /\ Len(rows') <= 3 /\ rows' # <<>> /\ view' = {rows'[1]}
          /\ rows'[1] \in Versions /\ rows'[1].rev = Loaded[1].rev + 1
      BY <1>4, <2>2, <2>3
    <2>5. rows'[1].rev <= rows'[1].rev  BY <1>2, <2>4
    <2> QED  BY <2>4, <2>5 DEF SettingsNamed
  <1>6. ASSUME NEW w \in Workspaces, ChooseWorkspace(w)  PROVE SettingsNamed'
    <2>1. PICK row : row = [Loaded[1] EXCEPT !.ws = w]  OBVIOUS
    <2>2. row \in Versions  BY <1>2, <2>1 DEF Versions
    <2>3. Saved(row) /\ view' = view  BY <1>2, <1>6, <2>1 DEF ChooseWorkspace
    <2>4. /\ rows' \in Seq(Versions) /\ Len(rows') <= 3 /\ rows' # <<>> /\ quarantined' = quarantined
          /\ rows'[1].rev = Loaded[1].rev + 1
      BY <1>4, <2>2, <2>3
    <2>5. ~quarantined => \A held \in view : held.rev <= rows'[1].rev /\ held.rev # rows'[1].rev
      BY <1>2, <2>4, LoadingKeepsNames
    <2> QED  BY <1>1, <2>3, <2>4, <2>5 DEF SettingsNamed
  <1>7. CASE SettingsDamaged
    <2>1. view' = view /\ rows # <<>>  BY <1>7 DEF SettingsDamaged
    <2>2. CASE rows' = <<>> /\ quarantined' = TRUE
      <3>1. rows' \in Seq(Versions) /\ Len(rows') = 0  BY <2>2
      <3> QED  BY <1>1, <2>1, <2>2, <3>1 DEF SettingsNamed
    <2>3. ASSUME NEW n \in 1..Len(rows), quarantined' = quarantined,
                 rows' = [i \in DOMAIN rows |-> IF i <= n THEN [rows[i] EXCEPT !.valid = FALSE] ELSE rows[i]]
          PROVE  SettingsNamed'
      <3>1. \A v \in Versions : [v EXCEPT !.valid = FALSE] \in Versions  BY DEF Versions
      <3>2. DOMAIN rows = 1..Len(rows) /\ Len(rows) \in Nat /\ \A i \in DOMAIN rows : rows[i] \in Versions
        BY <1>1
      <3>3. rows' \in [1..Len(rows) -> Versions]  BY <2>3, <3>1, <3>2
      <3>4. rows' \in Seq(Versions) /\ Len(rows') = Len(rows)  BY <3>2, <3>3
      <3>5. 1 \in DOMAIN rows /\ 1 <= n  BY <2>1, <3>2, <1>1
      <3>6. rows'[1].rev = rows[1].rev /\ ~rows'[1].valid /\ rows' # <<>>
        <4>1. rows'[1] = [rows[1] EXCEPT !.valid = FALSE]  BY <2>3, <3>5
        <4>2. rows[1] \in Versions  BY <3>2, <3>5
        <4>3. rows' # <<>>  BY <3>2, <3>4, <3>5
        <4> QED  BY <4>1, <4>2, <4>3 DEF Versions
      <3>7. ~quarantined => \A held \in view : held.rev <= rows[1].rev  BY DEF SettingsNamed
      <3> QED  BY <1>1, <2>1, <2>3, <3>4, <3>6, <3>7 DEF SettingsNamed
    <2> QED  BY <1>7, <2>2, <2>3 DEF SettingsDamaged
  <1>8. CASE rows' = Loaded /\ view' = view /\ quarantined' = quarantined
    BY <1>8, LoadKeepsSettings
  <1>9. CASE UNCHANGED settingsVars
    BY <1>9 DEF settingsVars, SettingsNamed
  <1>10. ListProjects \/ Rescan \/ Startup =>
           rows' = Loaded /\ view' = view /\ quarantined' = quarantined
    BY DEF ListProjects, Rescan, Startup, Load
  <1>11. Exit \/ Quarantine => UNCHANGED settingsVars
    BY DEF Exit, Quarantine, settingsVars
  <1>12. ASSUME NEW p \in Projects
         PROVE  /\ CreateProject(p) \/ GetProject(p) \/ UpdateProject(p) \/ DeleteProject(p)
                   \/ StartRun(p) \/ StopRun(p) \/ FinishRun(p) \/ StopPaused(p) =>
                     rows' = Loaded /\ view' = view /\ quarantined' = quarantined
                /\ Damage(p) \/ TakeBack(p) => UNCHANGED settingsVars
    BY DEF CreateProject, GetProject, UpdateProject, DeleteProject, StartRun, StopRun, FinishRun,
           StopPaused, Opens, Load, Damage, TakeBack, settingsVars
  <1> QED
    BY <1>3, <1>5, <1>6, <1>7, <1>8, <1>9, <1>10, <1>11, <1>12 DEF LibraryNext

----------------------------------------------------------------------------
(* Projects: lemmas.                                                         *)

(* read_project_with_recovery changes nothing that it has changed before.    *)
LEMMA RecoveredOnce ==
  ASSUME NEW f, SoundFile(f)
  PROVE  /\ SoundFile(Recovered(f)) /\ Recovered(Recovered(f)) = Recovered(f)
         /\ Recovered(f).backup = f.backup
         /\ f.doc # {Damaged} => Recovered(f).doc # {Damaged}
  <1>1. f \in ProjectFiles /\ f.backup # {Damaged}  BY DEF SoundFile
  <1>2. CASE Valid(f.doc)
    <2>1. PICK g : g = [f EXCEPT !.temp = {}]  OBVIOUS
    <2>2. g \in ProjectFiles /\ g.doc = f.doc /\ g.backup = f.backup /\ g.temp = {}
      BY <1>1, <2>1 DEF ProjectFiles, Contents
    <2>3. Recovered(f) = g  BY <1>2, <2>1 DEF Recovered
    <2>4. Recovered(g) = [g EXCEPT !.temp = {}]  BY <1>2, <2>2 DEF Recovered
    <2>5. [g EXCEPT !.temp = {}] = g  BY <2>2 DEF ProjectFiles
    <2> QED  BY <1>1, <2>2, <2>3, <2>4, <2>5 DEF SoundFile
  <1>3. CASE ~Valid(f.doc) /\ Valid(f.backup)
    <2>1. PICK g : g = [f EXCEPT !.doc = f.backup, !.temp = {}]  OBVIOUS
    <2>2. g \in ProjectFiles /\ g.doc = f.backup /\ g.backup = f.backup /\ g.temp = {}
      BY <1>1, <2>1 DEF ProjectFiles, Contents
    <2>3. Recovered(f) = g  BY <1>3, <2>1 DEF Recovered
    <2>4. Recovered(g) = [g EXCEPT !.temp = {}]  BY <1>3, <2>2 DEF Recovered
    <2>5. [g EXCEPT !.temp = {}] = g  BY <2>2 DEF ProjectFiles
    <2> QED  BY <1>1, <2>2, <2>3, <2>4, <2>5 DEF SoundFile
  <1>4. CASE ~Valid(f.doc) /\ ~Valid(f.backup)
    <2>1. Recovered(f) = f  BY <1>4 DEF Recovered
    <2> QED  BY <1>1, <2>1 DEF SoundFile
  <1> QED  BY <1>2, <1>3, <1>4

(* A discovery repairs documents and shows the same ones.                    *)
LEMMA DiscoveredIsSound ==
  ASSUME NEW fs, NEW bad, FilesSound(fs, bad)
  PROVE  /\ FilesSound(Discovered(fs), bad)
         /\ \A p \in Projects : Recovered(Discovered(fs)[p]) = Recovered(fs[p])
  <1>1. fs \in [Projects -> ProjectFiles] /\ \A p \in Projects : SoundFile(fs[p])
    BY DEF FilesSound
  <1>2. \A p \in Projects : Discovered(fs)[p] = Recovered(fs[p]) \/ Discovered(fs)[p] = fs[p]
    BY DEF Discovered
  <1>3. \A p \in Projects : /\ SoundFile(Discovered(fs)[p])
                            /\ Recovered(Discovered(fs)[p]) = Recovered(fs[p])
                            /\ fs[p].doc # {Damaged} => Discovered(fs)[p].doc # {Damaged}
    BY <1>1, <1>2, RecoveredOnce
  <1>4. Discovered(fs) \in [Projects -> ProjectFiles]
    <2>1. \A p \in Projects : Discovered(fs)[p] \in ProjectFiles  BY <1>3 DEF SoundFile
    <2>2. Discovered(fs) = [p \in Projects |-> Discovered(fs)[p]]  BY DEF Discovered
    <2> QED  BY <2>1, <2>2
  <1> QED  BY <1>3, <1>4 DEF FilesSound

(* rebuild_on_connection lists the documents that can be read.               *)
LEMMA RebuiltAgrees ==
  ASSUME SettingsNamed, NEW fs, NEW places, NEW bad, FilesSound(fs, bad)
  PROVE  IndexAgrees(Rebuilt(fs, places), fs, places, bad)
  <1>1. Chosen \in Workspaces  BY LoadedIsValid DEF SettingsNamed
  <1>2. \A p \in Projects : Recovered(fs[p]) \in ProjectFiles /\ (p \notin bad => Recovered(fs[p]).doc # {Damaged})
    BY RecoveredOnce DEF FilesSound, SoundFile
  <1>3. \A p \in Projects : Found(fs, places)[p] = IF places[p] = "live" /\ Home[p] = Chosen /\ Valid(Recovered(fs[p]).doc)
                        THEN Recovered(fs[p]).doc ELSE {}
    BY DEF Found
  <1>4. Found(fs, places) \in [Projects -> Contents]
    <2>1. \A p \in Projects : Found(fs, places)[p] \in Contents  BY <1>2, <1>3 DEF ProjectFiles, Contents
    <2>2. Found(fs, places) = [p \in Projects |-> Found(fs, places)[p]]  BY DEF Found
    <2> QED  BY <2>1, <2>2
  <1>5. Rebuilt(fs, places) \in ProjectIndexes /\ Rebuilt(fs, places).key = {Chosen}
        /\ Rebuilt(fs, places).rows = Found(fs, places)
    BY <1>1, <1>4 DEF Rebuilt, ProjectIndexes
  <1>6. \A p \in Projects \ bad :
          Found(fs, places)[p] = IF places[p] = "live" /\ Home[p] = Chosen THEN Recovered(fs[p]).doc ELSE {}
    BY <1>2, <1>3 DEF Valid
  <1>7. \A p \in Projects : Found(fs, places)[p] # {} => Home[p] = Chosen  BY <1>3
  <1> QED  BY <1>5, <1>6, <1>7 DEF IndexAgrees

(* An index keeps agreeing with documents that read the same.               *)
LEMMA AgreesWithTheSame ==
  ASSUME NEW ix, NEW fs, NEW gs, NEW places, NEW bad, IndexAgrees(ix, fs, places, bad),
         \A p \in Projects \ bad : Recovered(gs[p]).doc = Recovered(fs[p]).doc
  PROVE  IndexAgrees(ix, gs, places, bad)
  BY DEF IndexAgrees

(* A rebuild finds what a recovering read of each document finds.            *)
LEMMA RebuiltTheSame ==
  ASSUME NEW fs, NEW gs, NEW places, \A p \in Projects : Recovered(gs[p]) = Recovered(fs[p])
  PROVE  Rebuilt(gs, places) = Rebuilt(fs, places)
  BY DEF Rebuilt, Found

(* After a discovery nothing is excused that it saw.                         *)
LEMMA SeenIsSound ==
  ASSUME SettingsNamed, NEW fs, FilesSound(fs, hurt)
  PROVE  /\ FilesSound(Discovered(fs), Seen(fs))
         /\ \A places : IndexAgrees(Rebuilt(fs, places), Discovered(fs), places, Seen(fs))
  <1>1. /\ FilesSound(Discovered(fs), hurt)
        /\ \A p \in Projects : Recovered(Discovered(fs)[p]) = Recovered(fs[p])
    BY DiscoveredIsSound
  <1>2. ASSUME NEW p \in Projects, p \notin Seen(fs)  PROVE Discovered(fs)[p].doc # {Damaged}
    <2>1. CASE p \notin hurt  BY <1>1, <2>1 DEF FilesSound
    <2>2. CASE p \in hurt
      <3>1. Live(p) /\ Home[p] = Chosen /\ \E n \in Recovered(fs[p]).doc : n # Damaged
        BY <1>2, <2>2 DEF Seen
      <3>2. Discovered(fs)[p] = Recovered(fs[p])  BY <3>1 DEF Discovered
      <3> QED  BY <3>1, <3>2
    <2> QED  BY <2>1, <2>2
  <1>3. FilesSound(Discovered(fs), Seen(fs))  BY <1>1, <1>2 DEF FilesSound
  <1>4. ASSUME NEW places  PROVE IndexAgrees(Rebuilt(fs, places), Discovered(fs), places, Seen(fs))
    <2>1. Rebuilt(Discovered(fs), places) = Rebuilt(fs, places)  BY <1>1, RebuiltTheSame
    <2> QED  BY <1>3, <2>1, RebuiltAgrees
  <1> QED  BY <1>3, <1>4

(* What a command finds: an index of the chosen workspace, as it stands or    *)
(* rebuilt.                                                                 *)
LEMMA ProjectionAgrees ==
  ASSUME SettingsNamed, ProjectsIndexed
  PROVE  /\ IndexAgrees(Projection, files, place, hurt)
         /\ Projection.fresh /\ Projection.key = {Chosen} /\ Chosen \in Workspaces
  <1>1. Chosen \in Workspaces  BY LoadedIsValid DEF SettingsNamed
  <1>2. FilesSound(files, hurt) /\ IndexAgrees(index, files, place, hurt)  BY DEF ProjectsIndexed
  <1>3. CASE HasProjection(index)  BY <1>1, <1>2, <1>3 DEF Projection, HasProjection
  <1>4. CASE ~HasProjection(index)
    <2>1. Projection = Rebuilt(files, place)  BY <1>4 DEF Projection
    <2>2. IndexAgrees(Rebuilt(files, place), files, place, hurt)  BY <1>2, RebuiltAgrees
    <2>3. Rebuilt(files, place).fresh /\ Rebuilt(files, place).key = {Chosen}  BY DEF Rebuilt
    <2> QED  BY <1>1, <2>1, <2>2, <2>3
  <1> QED  BY <1>3, <1>4

(* A project is read from the chosen workspace, repaired.                    *)
LEMMA ReadAgrees ==
  ASSUME SettingsNamed, ProjectsIndexed, NEW p \in Projects, Reads(p)
  PROVE  /\ FilesSound(Read(p).files, hurt)
         /\ IndexAgrees(Read(p).index, Read(p).files, place, hurt)
         /\ Read(p).files[p] = Recovered(files[p]) /\ Valid(Recovered(files[p]).doc)
         /\ Live(p) /\ Home[p] = Chosen
  <1>1. /\ IndexAgrees(Projection, files, place, hurt) /\ FilesSound(files, hurt)
        /\ Projection.fresh /\ Projection.key = {Chosen} /\ Chosen \in Workspaces
    BY ProjectionAgrees DEF ProjectsIndexed
  <1>2. Live(p) /\ Home[p] = Chosen /\ Valid(Recovered(files[p]).doc)
    BY <1>1 DEF Reads, IndexAgrees
  <1> DEFINE same == Projection.rows[p] = Recovered(files[p]).doc
  <1>3. /\ Read(p).files = IF HasProjection(index) /\ same
                             THEN [files EXCEPT ![p] = Recovered(files[p])] ELSE Discovered(files)
        /\ Read(p).index = IF same THEN Projection ELSE Rebuilt(files, place)
    BY DEF Read
  <1>4. IndexAgrees(Rebuilt(files, place), files, place, hurt)  BY <1>1, RebuiltAgrees
  <1>5. IndexAgrees(Read(p).index, files, place, hurt)  BY <1>1, <1>3, <1>4
  <1>6. CASE HasProjection(index) /\ same
    <2>1. PICK g : g = Recovered(files[p])  OBVIOUS
    <2>2. SoundFile(g) /\ Recovered(g) = Recovered(files[p]) /\ (files[p].doc # {Damaged} => g.doc # {Damaged})
      BY <1>1, <2>1, RecoveredOnce DEF FilesSound
    <2>3. Read(p).files = [files EXCEPT ![p] = g]  BY <1>3, <1>6, <2>1
    <2>4. FilesSound(Read(p).files, hurt)  BY <1>1, <2>2, <2>3 DEF FilesSound, SoundFile
    <2>5. \A q \in Projects : Recovered(Read(p).files[q]) = Recovered(files[q])
      BY <1>1, <2>2, <2>3 DEF FilesSound
    <2>6. Read(p).files[p] = g  BY <1>1, <2>3 DEF FilesSound
    <2>7. IndexAgrees(Read(p).index, Read(p).files, place, hurt)  BY <1>5, <2>5, AgreesWithTheSame
    <2> QED  BY <1>2, <2>1, <2>4, <2>6, <2>7
  <1>7. CASE ~(HasProjection(index) /\ same)
    <2>1. Read(p).files = Discovered(files)  BY <1>3, <1>7
    <2>2. /\ FilesSound(Discovered(files), hurt)
          /\ \A q \in Projects : Recovered(Discovered(files)[q]) = Recovered(files[q])
      BY <1>1, DiscoveredIsSound
    <2>3. Discovered(files)[p] = Recovered(files[p])  BY <1>2 DEF Discovered
    <2>4. IndexAgrees(Read(p).index, Discovered(files), place, hurt)  BY <1>5, <2>2, AgreesWithTheSame
    <2> QED  BY <1>2, <2>1, <2>2, <2>3, <2>4
  <1> QED  BY <1>6, <1>7

(* A write that reached the index, and one that did not.                     *)
LEMMA AcknowledgedAgrees ==
  ASSUME SettingsNamed, NEW p \in Projects, NEW rev, NEW fs, FilesSound(fs, hurt),
         NEW places, Acknowledge(p, rev, fs, places), place' = places,
         places \in [Projects -> {"none", "live", "trash"}]
  PROVE  ProjectsIndexed'
  <1>0. PICK g : g = Recovered(fs[p])  OBVIOUS
  <1>1. SoundFile(g) /\ Recovered(g) = g /\ (fs[p].doc # {Damaged} => g.doc # {Damaged})
    BY <1>0, RecoveredOnce DEF FilesSound
  <1>2. PICK gs : gs = [fs EXCEPT ![p] = g]  OBVIOUS
  <1>3. FilesSound(gs, hurt) /\ \A q \in Projects : Recovered(gs[q]) = Recovered(fs[q])
    BY <1>0, <1>1, <1>2 DEF FilesSound, SoundFile
  <1>4. files' = Discovered(gs) /\ index' = Rebuilt(fs, places) /\ hurt' = Seen(fs)
    BY <1>0, <1>2 DEF Acknowledge
  <1>5. Rebuilt(gs, places) = Rebuilt(fs, places)  BY <1>3, RebuiltTheSame
  <1>6. /\ FilesSound(Discovered(gs), hurt)
        /\ \A q \in Projects : Recovered(Discovered(gs)[q]) = Recovered(gs[q])
    BY <1>3, DiscoveredIsSound
  <1>7. /\ FilesSound(Discovered(fs), Seen(fs))
        /\ IndexAgrees(Rebuilt(fs, places), Discovered(fs), places, Seen(fs))
        /\ \A q \in Projects : Recovered(Discovered(fs)[q]) = Recovered(fs[q])
    BY SeenIsSound, DiscoveredIsSound
  <1>8. FilesSound(Discovered(gs), Seen(fs))
    <2>1. ASSUME NEW q \in Projects, q \notin Seen(fs)  PROVE Discovered(gs)[q].doc # {Damaged}
      <3>1. CASE q \notin hurt  BY <1>6, <3>1 DEF FilesSound
      <3>2. CASE q \in hurt
        <4>1. Live(q) /\ Home[q] = Chosen /\ \E n \in Recovered(fs[q]).doc : n # Damaged
          BY <2>1, <3>2 DEF Seen
        <4>2. Discovered(gs)[q] = Recovered(gs[q])  BY <4>1 DEF Discovered
        <4> QED  BY <1>3, <4>1, <4>2
      <3> QED  BY <3>1, <3>2
    <2> QED  BY <1>6, <2>1 DEF FilesSound
  <1>9. IndexAgrees(Rebuilt(fs, places), Discovered(gs), places, Seen(fs))
    BY <1>3, <1>6, <1>7, AgreesWithTheSame
  <1> QED  BY <1>4, <1>8, <1>9 DEF ProjectsIndexed, FilesSound, IndexAgrees

(* A change that is not acknowledged leaves an index that is not fresh.      *)
LEMMA UnacknowledgedAgrees ==
  ASSUME ProjectsIndexed, Unacknowledged, FilesSound(files', hurt),
         place' \in [Projects -> {"none", "live", "trash"}]
  PROVE  ProjectsIndexed'
  <1>1. index \in ProjectIndexes  BY DEF ProjectsIndexed, IndexAgrees
  <1>2. index' = [index EXCEPT !.fresh = FALSE] /\ hurt' = hurt  BY DEF Unacknowledged
  <1>3. index' \in ProjectIndexes /\ ~index'.fresh  BY <1>1, <1>2 DEF ProjectIndexes
  <1> QED  BY <1>2, <1>3 DEF ProjectsIndexed, FilesSound, IndexAgrees

(* One whose documents and index agree afterwards.                           *)
LEMMA ProjectsStay ==
  ASSUME ProjectsIndexed, FilesSound(files', hurt), IndexAgrees(index', files', place, hurt),
         place' = place, hurt' = hurt
  PROVE  ProjectsIndexed'
  BY DEF ProjectsIndexed, FilesSound, IndexAgrees

(* Opening a project may recover its document, which the index already       *)
(* shows.                                                                    *)
LEMMA OpensAgrees ==
  ASSUME SettingsNamed, ProjectsIndexed, NEW p \in Projects, Opens(p), place' = place, hurt' = hurt
  PROVE  ProjectsIndexed'
  BY ReadAgrees, ProjectsStay DEF Opens

(* The files that a step of create_project or update_project leaves.         *)
LEMMA PutIsSound ==
  ASSUME NEW fs, NEW bad, FilesSound(fs, bad), NEW p \in Projects, NEW f,
         SoundFile(f), f.doc # {Damaged}
  PROVE  FilesSound([fs EXCEPT ![p] = f], bad)
  BY DEF FilesSound, SoundFile

(* Whatever a creation leaves can be read or is not there.                   *)
LEMMA CreateIsSound ==
  /\ \A f \in CreateLeft : SoundFile(f) /\ f.doc # {Damaged}
  /\ SoundFile([NoFiles EXCEPT !.doc = {1}]) /\ [NoFiles EXCEPT !.doc = {1}].doc # {Damaged}
  <1>1. 1 # Damaged  BY LibraryAssumption
  <1>2. \A f : f = NoFiles \/ f = [NoFiles EXCEPT !.temp = {1}] \/ f = [NoFiles EXCEPT !.doc = {1}]
          => /\ f \in [doc : {{}, {1}}, backup : {{}}, temp : {{}, {1}}]
    BY DEF NoFiles
  <1>3. \A f \in [doc : {{}, {1}}, backup : {{}}, temp : {{}, {1}}] : SoundFile(f) /\ f.doc # {Damaged}
    BY <1>1 DEF SoundFile, ProjectFiles, Contents
  <1> QED  BY <1>2, <1>3 DEF CreateLeft

(* So can whatever an update leaves at any of its steps.                     *)
LEMMA UpdateIsSound ==
  ASSUME NEW f, SoundFile(f), f.doc # {Damaged}, NEW n \in Nat
  PROVE  \A g \in UpdateSteps(f, n) \cup UpdateFailed(f, n) : SoundFile(g) /\ g.doc # {Damaged}
  <1>1. n # Damaged /\ f \in ProjectFiles  BY LibraryAssumption DEF SoundFile
  <1> DEFINE F == [doc : {{}, {n}, f.doc}, backup : {{}, f.doc, f.backup}, temp : {{}, {n}, f.temp}]
  <1>2. f \in F /\ f.doc \in {{}, {n}, f.doc} /\ f.backup \in {{}, f.doc, f.backup}
    BY <1>1 DEF ProjectFiles
  <1>3. \A g \in F : SoundFile(g) /\ g.doc # {Damaged}
    BY <1>1 DEF SoundFile, ProjectFiles, Contents
  <1>4. /\ [f EXCEPT !.temp = {n}] \in F /\ [f EXCEPT !.temp = {n}, !.backup = {}] \in F
        /\ [doc |-> {}, backup |-> f.doc, temp |-> {}] \in F /\ Replaced(f, n) \in F
    BY <1>2 DEF Replaced
  <1>5. \A g \in F : [g EXCEPT !.temp = {}] \in F  OBVIOUS
  <1>6. [f EXCEPT !.backup = f.doc, !.temp = {}] \in F  BY <1>2
  <1> HIDE DEF F
  <1>7. UpdateSteps(f, n) \subseteq F  BY <1>2, <1>4 DEF UpdateSteps
  <1>8. UpdateFailed(f, n) \subseteq F  BY <1>5, <1>6, <1>7 DEF UpdateFailed
  <1> QED  BY <1>3, <1>7, <1>8

(* Every step keeps a fresh index equal to the documents.                    *)
LEMMA ProjectsKeptIndexed ==
  ASSUME SettingsNamed, ProjectsIndexed, LibraryNext  PROVE ProjectsIndexed'
  <1>1. /\ FilesSound(files, hurt) /\ IndexAgrees(index, files, place, hurt)
        /\ place \in [Projects -> {"none", "live", "trash"}]
    BY DEF ProjectsIndexed
  <1>2. /\ IndexAgrees(Projection, files, place, hurt)
        /\ IndexAgrees(Projection, Discovered(files), place, hurt)
        /\ FilesSound(Discovered(files), hurt)
    BY <1>1, ProjectionAgrees, DiscoveredIsSound, AgreesWithTheSame
  <1>3. CASE UNCHANGED projectVars
    BY <1>1, <1>3, ProjectsStay DEF projectVars
  <1>4. CASE ListProjects
    <2>1. index' = Projection /\ place' = place  BY <1>4 DEF ListProjects
    <2>2. CASE HasProjection(index)
      <3>1. files' = files /\ hurt' = hurt  BY <1>4, <2>2 DEF ListProjects
      <3> QED  BY <1>1, <1>2, <2>1, <3>1, ProjectsStay
    <2>3. CASE ~HasProjection(index)
      <3>1. files' = Discovered(files) /\ hurt' = Seen(files) /\ index' = Rebuilt(files, place)
        BY <1>4, <2>1, <2>3 DEF ListProjects, Projection
      <3>2. /\ FilesSound(Discovered(files), Seen(files))
            /\ IndexAgrees(Rebuilt(files, place), Discovered(files), place, Seen(files))
        BY <1>1, SeenIsSound
      <3> QED  BY <1>1, <2>1, <3>1, <3>2 DEF ProjectsIndexed, FilesSound, IndexAgrees
    <2> QED  BY <2>2, <2>3
  <1>5. CASE Rescan
    <2>1. /\ files' = Discovered(files) /\ hurt' = Seen(files) /\ index' = Rebuilt(files, place)
          /\ place' = place
      BY <1>5 DEF Rescan
    <2>2. /\ FilesSound(Discovered(files), Seen(files))
          /\ IndexAgrees(Rebuilt(files, place), Discovered(files), place, Seen(files))
      BY <1>1, SeenIsSound
    <2> QED  BY <1>1, <2>1, <2>2 DEF ProjectsIndexed, FilesSound, IndexAgrees
  <1>6. CASE Quarantine
    <2>1. files' = files /\ place' = place /\ hurt' = hurt /\ (index' = NoIndex({}) \/ index' = index)
      BY <1>6 DEF Quarantine
    <2>2. NoIndex({}) \in ProjectIndexes /\ ~NoIndex({}).fresh
      BY DEF NoIndex, ProjectIndexes, Contents
    <2>3. IndexAgrees(NoIndex({}), files, place, hurt)  BY <2>2 DEF IndexAgrees
    <2> QED  BY <1>1, <2>1, <2>3, ProjectsStay
  <1>7. ASSUME NEW p \in Projects, GetProject(p)  PROVE ProjectsIndexed'
    BY <1>7, ReadAgrees, ProjectsStay DEF GetProject
  <1>8. ASSUME NEW p \in Projects, CreateProject(p)  PROVE ProjectsIndexed'
    <2>1. PICK new : new = [NoFiles EXCEPT !.doc = {1}]  OBVIOUS
    <2>2. PICK places : places = [place EXCEPT ![p] = "live"]  OBVIOUS
    <2>3. places \in [Projects -> {"none", "live", "trash"}]  BY <1>1, <2>2
    <2>4. SoundFile(new) /\ new.doc # {Damaged} /\ \A f \in CreateLeft : SoundFile(f) /\ f.doc # {Damaged}
      BY <2>1, CreateIsSound
    <2>5. FilesSound([files EXCEPT ![p] = new], hurt)  BY <1>1, <2>4, PutIsSound
    <2>6. CASE place' = places /\ Acknowledge(p, 1, [files EXCEPT ![p] = new], places)
      BY <2>3, <2>5, <2>6, AcknowledgedAgrees
    <2>7. CASE place' = places /\ Put(p, new, files) /\ Unacknowledged
      BY <2>3, <2>5, <2>7, UnacknowledgedAgrees DEF Put
    <2>8. ASSUME NEW f \in CreateLeft, place' = places, Put(p, f, files), Unacknowledged
          PROVE  ProjectsIndexed'
      <3>1. FilesSound([files EXCEPT ![p] = f], hurt)  BY <1>1, <2>4, PutIsSound
      <3> QED  BY <2>3, <2>8, <3>1, UnacknowledgedAgrees DEF Put
    <2>9. CASE Unacknowledged /\ files' = files /\ place' = place
      BY <1>1, <2>9, UnacknowledgedAgrees
    <2>10. \/ place' = places /\ Acknowledge(p, 1, [files EXCEPT ![p] = new], places)
           \/ place' = places /\ Put(p, new, files) /\ Unacknowledged
           \/ \E f \in CreateLeft : place' = places /\ Put(p, f, files) /\ Unacknowledged
           \/ Unacknowledged /\ files' = files /\ place' = place
      BY <1>8, <2>1, <2>2 DEF CreateProject, Refuse, Perish
    <2> QED  BY <2>6, <2>7, <2>8, <2>9, <2>10
  <1>9. ASSUME NEW p \in Projects, UpdateProject(p)  PROVE ProjectsIndexed'
    <2>1. PICK fs : fs = Read(p).files  OBVIOUS
    <2>2. PICK f : f = fs[p]  OBVIOUS
    <2>3. Reads(p) /\ place' = place  BY <1>9 DEF UpdateProject
    <2>4. FilesSound(fs, hurt) /\ f = Recovered(files[p]) /\ Valid(f.doc)
      BY <2>1, <2>2, <2>3, ReadAgrees
    <2>5. SoundFile(f) /\ f.doc # {Damaged} /\ f.doc \in Contents
      BY <2>2, <2>4 DEF FilesSound, Valid, SoundFile, ProjectFiles
    <2>6. PICK n \in f.doc :
            \/ Acknowledge(p, n + 1, [fs EXCEPT ![p] = Replaced(f, n + 1)], place')
            \/ \E g \in UpdateFailed(f, n + 1) : Put(p, g, fs) /\ Unacknowledged
            \/ \E g \in UpdateSteps(f, n + 1) : Put(p, g, fs) /\ Unacknowledged
      BY <1>9, <2>1, <2>2, <2>3 DEF UpdateProject, Refuse, Perish
    <2>7. n + 1 \in Nat
      <3>1. n # Damaged  BY <2>5 DEF SoundFile
      <3>2. n \in Nat  BY <2>5, <3>1 DEF Contents
      <3> QED  BY <3>2
    <2>8. PICK m \in Nat : m = n + 1  BY <2>7
    <2>9. /\ \A g \in UpdateSteps(f, m) \cup UpdateFailed(f, m) : SoundFile(g) /\ g.doc # {Damaged}
          /\ Replaced(f, m) \in UpdateSteps(f, m)
      BY <2>5, UpdateIsSound DEF UpdateSteps
    <2>10. \A g \in UpdateSteps(f, m) \cup UpdateFailed(f, m) : FilesSound([fs EXCEPT ![p] = g], hurt)
      BY <2>4, <2>9, PutIsSound
    <2>11. CASE Acknowledge(p, m, [fs EXCEPT ![p] = Replaced(f, m)], place')
      <3>1. FilesSound([fs EXCEPT ![p] = Replaced(f, m)], hurt)  BY <2>9, <2>10
      <3> QED  BY <1>1, <2>3, <2>11, <3>1, AcknowledgedAgrees
    <2>12. ASSUME NEW g \in UpdateSteps(f, m) \cup UpdateFailed(f, m), Put(p, g, fs), Unacknowledged
           PROVE  ProjectsIndexed'
      BY <1>1, <2>3, <2>10, <2>12, UnacknowledgedAgrees DEF Put
    <2> QED  BY <2>6, <2>8, <2>11, <2>12
  <1>10. ASSUME NEW p \in Projects, DeleteProject(p)  PROVE ProjectsIndexed'
    <2>1. PICK places : places = [place EXCEPT ![p] = "trash"]  OBVIOUS
    <2>2. places \in [Projects -> {"none", "live", "trash"}]  BY <1>1, <2>1
    <2>3. /\ FilesSound(Read(p).files, hurt)
          /\ IndexAgrees(Read(p).index, Read(p).files, place, hurt)
      BY <1>10, ReadAgrees DEF DeleteProject
    <2>4. \/ files' = Read(p).files /\ index' = Read(p).index /\ place' = place /\ hurt' = hurt
          \/ place' = places /\ Acknowledge(p, acked[p], Read(p).files, places)
          \/ place' \in {place, places} /\ files' = Read(p).files /\ Unacknowledged
      BY <1>10, <2>1 DEF DeleteProject, MoveToTrash, Refuse, Perish
    <2>5. CASE files' = Read(p).files /\ index' = Read(p).index /\ place' = place /\ hurt' = hurt
      BY <2>3, <2>5, ProjectsStay
    <2>6. CASE place' = places /\ Acknowledge(p, acked[p], Read(p).files, places)
      BY <2>2, <2>3, <2>6, AcknowledgedAgrees
    <2>7. CASE place' \in {place, places} /\ files' = Read(p).files /\ Unacknowledged
      BY <1>1, <2>2, <2>3, <2>7, UnacknowledgedAgrees
    <2> QED  BY <2>4, <2>5, <2>6, <2>7
  <1>11. ASSUME NEW p \in Projects, StartRun(p) \/ StopRun(p) \/ StopPaused(p)  PROVE ProjectsIndexed'
    BY <1>11, OpensAgrees DEF StartRun, StopRun, StopPaused
  <1>12. ASSUME NEW p \in Projects, FinishRun(p)  PROVE ProjectsIndexed'
    <2>1. place' = place /\ hurt' = hurt  BY <1>12 DEF FinishRun
    <2>2. CASE Opens(p)  BY <2>1, <2>2, OpensAgrees
    <2>3. CASE index' = Projection /\ files' \in {files, Discovered(files)}
      BY <1>1, <1>2, <2>1, <2>3, ProjectsStay
    <2> QED  BY <1>12, <2>2, <2>3 DEF FinishRun
  <1>13. ASSUME NEW p \in Projects, Damage(p)  PROVE ProjectsIndexed'
    <2>1. PICK bytes \in {{}, {Damaged}} : files' = [files EXCEPT ![p].doc = bytes]
      BY <1>13 DEF Damage
    <2>2. hurt' = hurt \cup {p} /\ place' = place /\ index' = index  BY <1>13 DEF Damage
    <2>3. PICK f : f = [files[p] EXCEPT !.doc = bytes]  OBVIOUS
    <2>4. SoundFile(f)
      BY <1>1, <2>3 DEF FilesSound, SoundFile, ProjectFiles, Contents
    <2>5. files' = [files EXCEPT ![p] = f]  BY <2>1, <2>3
    <2>6. FilesSound(files', hurt')
      BY <1>1, <2>2, <2>4, <2>5 DEF FilesSound, SoundFile
    <2>7. \A q \in Projects \ hurt' : Recovered(files'[q]).doc = Recovered(files[q]).doc
      BY <1>1, <2>2, <2>5 DEF FilesSound
    <2>8. IndexAgrees(index, files, place, hurt')  BY <1>1, <2>2 DEF IndexAgrees
    <2>9. IndexAgrees(index, files', place, hurt')
      BY <2>7, <2>8 DEF IndexAgrees
    <2> QED  BY <1>1, <2>2, <2>6, <2>9 DEF ProjectsIndexed, FilesSound, IndexAgrees
  <1>14. ASSUME NEW p \in Projects, TakeBack(p)  PROVE ProjectsIndexed'
    <2>1. /\ hurt' = hurt \cup {p} /\ place' = [place EXCEPT ![p] = "live"]
          /\ files' = files /\ index' = index
      BY <1>14 DEF TakeBack
    <2>2. place' \in [Projects -> {"none", "live", "trash"}]  BY <1>1, <2>1
    <2>3. \A q \in Projects \ hurt' : q \notin hurt /\ place'[q] = place[q]  BY <1>1, <2>1
    <2>4. IndexAgrees(index, files, place', hurt')  BY <1>1, <2>3 DEF IndexAgrees
    <2>5. FilesSound(files, hurt')  BY <1>1, <2>1 DEF FilesSound
    <2> QED  BY <2>1, <2>2, <2>4, <2>5 DEF ProjectsIndexed, FilesSound, IndexAgrees
  <1>15. GetSettings \/ SettingsDamaged \/ Exit \/ Startup => UNCHANGED projectVars
    BY DEF GetSettings, SettingsDamaged, Exit, Startup
  <1>16. \A note, w : UpdateSettings(note) \/ ChooseWorkspace(w) => UNCHANGED projectVars
    BY DEF UpdateSettings, ChooseWorkspace, Saved
  <1> QED
    BY <1>3, <1>4, <1>5, <1>6, <1>7, <1>8, <1>9, <1>10, <1>11, <1>12, <1>13, <1>14, <1>15, <1>16
    DEF LibraryNext

(* The session index, rebuilt, says of a session that is written what its     *)
(* record says.                                                             *)
LEMMA SessionsAreListed ==
  ASSUME SettingsNamed, NEW records \in [Projects -> SessionStates]
  PROVE  /\ SessionsRebuilt(records) \in SessionIndexes
         /\ \A p \in Projects : Live(p) /\ SessionsRebuilt(records).key = {Home[p]} =>
              SessionsRebuilt(records).rows[p] = records[p]
         /\ SessionsRebuilt(records).key = {Chosen}
  <1>1. Chosen \in Workspaces  BY LoadedIsValid DEF SettingsNamed
  <1>2. \A p \in Projects :
          SessionsFound(records, place)[p] = IF place[p] = "live" /\ Home[p] = Chosen THEN records[p] ELSE "none"
    BY DEF SessionsFound
  <1>3. SessionsFound(records, place) \in [Projects -> SessionStates]
    <2>1. "none" \in SessionStates  BY DEF SessionStates
    <2> QED  BY <2>1 DEF SessionsFound
  <1>4. SessionsRebuilt(records).rows = SessionsFound(records, place)
        /\ SessionsRebuilt(records).key = {Chosen}
    BY DEF SessionsRebuilt
  <1>5. SessionsRebuilt(records) \in SessionIndexes
    BY <1>1, <1>3 DEF SessionsRebuilt, SessionIndexes
  <1> QED  BY <1>2, <1>4, <1>5 DEF Live

(* A step that leaves the writer and the folders, or ends the run.           *)
LEMMA WriterStays ==
  ASSUME WriterListed, writer' \in SUBSET writer, up' = up \/ writer' = {},
         record' \in [Projects -> SessionStates], listing' \in SessionIndexes,
         \A p \in writer' : /\ place'[p] = place[p] /\ record'[p] = record[p]
                            /\ listing'.fresh /\ listing'.key = {Home[p]} => listing'.rows[p] = "active"
  PROVE  WriterListed'
  BY DEF WriterListed, Live

(* delete_project does not find the session of a run idle.                   *)
LEMMA WriterIsRunning ==
  ASSUME SettingsNamed, ProjectsIndexed, WriterListed, NEW p \in writer, Reads(p)
  PROVE  SessionListing.rows[p] = "active"
  <1>1. /\ p \in Projects /\ Live(p) /\ record[p] = "active" /\ record \in [Projects -> SessionStates]
        /\ listing.fresh /\ listing.key = {Home[p]} => listing.rows[p] = "active"
    BY DEF WriterListed
  <1>2. Home[p] = Chosen  BY <1>1, ReadAgrees
  <1>3. CASE listing.fresh /\ listing.key = {Chosen}
    BY <1>1, <1>2, <1>3 DEF SessionListing
  <1>4. CASE ~(listing.fresh /\ listing.key = {Chosen})
    <2>1. SessionListing = SessionsRebuilt(record)  BY <1>4 DEF SessionListing
    <2> QED  BY <1>1, <1>2, <2>1, SessionsAreListed
  <1> QED  BY <1>3, <1>4

(* Every step keeps a session that is being written in its place and listed. *)
LEMMA WriterKeptListed ==
  ASSUME SettingsNamed, ProjectsIndexed, WriterListed, LibraryNext  PROVE WriterListed'
  <1>1. /\ record \in [Projects -> SessionStates] /\ listing \in SessionIndexes
        /\ writer \in SUBSET Projects /\ (~up => writer = {})
        /\ \A p, q \in writer : p = q
        /\ \A p \in writer : /\ Live(p) /\ record[p] = "active"
                             /\ listing.fresh /\ listing.key = {Home[p]} => listing.rows[p] = "active"
    BY DEF WriterListed
  <1>2. /\ SessionsRebuilt(record) \in SessionIndexes
        /\ \A p \in writer : SessionsRebuilt(record).key = {Home[p]} =>
             SessionsRebuilt(record).rows[p] = "active"
    BY <1>1, SessionsAreListed
  <1>3. [listing EXCEPT !.fresh = FALSE] \in SessionIndexes /\ ~[listing EXCEPT !.fresh = FALSE].fresh
    BY <1>1 DEF SessionIndexes
  <1>4. place \in [Projects -> {"none", "live", "trash"}]  BY DEF ProjectsIndexed
  <1>5. CASE place' = place /\ UNCHANGED <<record, listing, writer, up>>
    BY <1>1, <1>5, WriterStays
  <1>6. CASE Rescan
    <2>1. /\ place' = place /\ record' = record /\ listing' = SessionsRebuilt(record)
          /\ writer' = writer /\ up' = up
      BY <1>6 DEF Rescan, runVars
    <2> QED  BY <1>1, <1>2, <2>1, WriterStays
  <1>7. CASE Exit
    <2>1. writer' = {} /\ record' = record /\ listing' = listing  BY <1>7 DEF Exit
    <2> QED  BY <1>1, <2>1, WriterStays
  <1>8. CASE Startup
    <2>1. writer = {} /\ writer' = {}  BY <1>1, <1>8 DEF Startup
    <2>2. PICK done \in SUBSET Projects, state \in {"paused", "ended"} :
            /\ record' = [p \in Projects |-> IF p \in done THEN state ELSE record[p]]
            /\ listing' \in {listing, SessionsRebuilt(record')}
      BY <1>8 DEF Startup
    <2>3. record' \in [Projects -> SessionStates]
      <3>1. state \in SessionStates  BY DEF SessionStates
      <3> QED  BY <1>1, <2>2, <3>1
    <2>4. listing' \in SessionIndexes  BY <1>1, <2>2, <2>3, SessionsAreListed
    <2> QED  BY <2>1, <2>3, <2>4, WriterStays
  <1>9. CASE Quarantine
    <2>1. /\ place' = place /\ record' = record /\ writer' = writer /\ up' = up
          /\ listing' = listing \/ listing' = NoIndex("none")
      BY <1>9 DEF Quarantine, runVars
    <2>2. NoIndex("none") \in SessionIndexes /\ ~NoIndex("none").fresh
      BY DEF NoIndex, SessionIndexes, SessionStates
    <2> QED  BY <1>1, <2>1, <2>2, WriterStays
  <1>10. ASSUME NEW p \in Projects, CreateProject(p)  PROVE WriterListed'
    <2>1. place[p] = "none" /\ place' \in {place, [place EXCEPT ![p] = "live"]}
          /\ record' = record /\ listing' = listing
      BY <1>10 DEF CreateProject
    <2>2. (writer' = writer /\ up' = up) \/ writer' = {}
      BY <1>10 DEF CreateProject, Acknowledge, Refuse, Perish, runVars
    <2>3. \A q \in writer : place'[q] = place[q]  BY <1>1, <1>4, <2>1 DEF Live
    <2> QED  BY <1>1, <2>1, <2>2, <2>3, WriterStays
  <1>11. ASSUME NEW p \in Projects, UpdateProject(p)  PROVE WriterListed'
    <2>1. place' = place /\ record' = record /\ listing' = listing  BY <1>11 DEF UpdateProject
    <2>2. (writer' = writer /\ up' = up) \/ writer' = {}
      BY <1>11 DEF UpdateProject, Acknowledge, Refuse, Perish, runVars
    <2> QED  BY <1>1, <2>1, <2>2, WriterStays
  <1>12. ASSUME NEW p \in Projects, DeleteProject(p)  PROVE WriterListed'
    <2>1. Reads(p) /\ record' = record /\ listing' = SessionListing  BY <1>12 DEF DeleteProject
    <2>2. /\ listing' \in SessionIndexes
          /\ \A q \in writer : listing'.fresh /\ listing'.key = {Home[q]} => listing'.rows[q] = "active"
      BY <1>1, <1>2, <2>1 DEF SessionListing
    <2>3. (writer' = writer /\ up' = up) \/ writer' = {}
      BY <1>12 DEF DeleteProject, Acknowledge, Refuse, Perish, runVars
    <2>4. \A q \in writer : place'[q] = place[q]
      <3>1. CASE place' = place  BY <3>1
      <3>2. CASE ~Running(SessionListing.rows[p]) /\ MoveToTrash(p)
        <4>1. p \notin writer  BY <2>1, <3>2, WriterIsRunning DEF Running
        <4> QED  BY <1>1, <1>4, <3>2, <4>1 DEF MoveToTrash
      <3> QED  BY <1>12, <3>1, <3>2 DEF DeleteProject
    <2> QED  BY <1>1, <2>1, <2>2, <2>3, <2>4, WriterStays
  <1>13. ASSUME NEW p \in Projects, NEW state \in SessionStates, Moves(p, state),
                place' = place, up' = up, writer' \in SUBSET writer, p \notin writer'
         PROVE  WriterListed'
    <2>1. record' = [record EXCEPT ![p] = state] /\ listing' = SessionsRebuilt(record')
      BY <1>13 DEF Moves
    <2>2. record' \in [Projects -> SessionStates] /\ \A q \in writer' : record'[q] = record[q]
      BY <1>1, <1>13, <2>1
    <2>3. /\ listing' \in SessionIndexes
          /\ \A q \in Projects : Live(q) /\ listing'.key = {Home[q]} => listing'.rows[q] = record'[q]
      BY <2>1, <2>2, SessionsAreListed
    <2>4. \A q \in writer' : q \in writer /\ q \in Projects /\ Live(q) /\ record[q] = "active"
      BY <1>1, <1>13
    <2> QED  BY <1>13, <2>2, <2>3, <2>4, WriterStays
  <1>14. ASSUME NEW p \in Projects, NEW state \in SessionStates, Sticks(p, state),
                place' = place, up' = up, writer' \in SUBSET writer, p \notin writer'
         PROVE  WriterListed'
    <2>1. record' = [record EXCEPT ![p] = state] /\ listing' = [listing EXCEPT !.fresh = FALSE]
      BY <1>14 DEF Sticks
    <2>2. record' \in [Projects -> SessionStates] /\ \A q \in writer' : record'[q] = record[q]
      BY <1>1, <1>14, <2>1
    <2>3. listing' \in SessionIndexes /\ ~listing'.fresh  BY <1>3, <2>1
    <2> QED  BY <1>14, <2>2, <2>3, WriterStays
  <1>15. {"active", "paused", "ended"} \subseteq SessionStates  BY DEF SessionStates
  <1>16. ASSUME NEW p \in Projects, StartRun(p)  PROVE WriterListed'
    <2>1. /\ Reads(p) /\ Load /\ writer = {} /\ place' = place /\ up' = up
      BY <1>16 DEF StartRun, Opens
    <2>2. CASE Moves(p, "active") /\ writer' = {p}
      <3>1. record' = [record EXCEPT ![p] = "active"] /\ listing' = SessionsRebuilt(record')
        BY <2>2 DEF Moves
      <3>2. record' \in [Projects -> SessionStates] /\ record'[p] = "active"  BY <1>1, <1>15, <3>1
      <3>3. /\ listing' \in SessionIndexes
            /\ Live(p) /\ listing'.key = {Home[p]} => listing'.rows[p] = "active"
        BY <3>1, <3>2, SessionsAreListed
      <3>4. Live(p) /\ Live(p)'  BY <2>1, ReadAgrees DEF Live
      <3>5. up'  BY <2>1 DEF Load
      <3> QED  BY <2>1, <2>2, <3>2, <3>3, <3>4, <3>5 DEF WriterListed
    <2>3. ASSUME NEW state \in {record[p], "active", "ended"}, Sticks(p, state), writer' = writer
          PROVE  WriterListed'
      <3>1. state \in SessionStates  BY <1>1, <1>15
      <3> QED  BY <1>14, <2>1, <2>3, <3>1
    <2> QED  BY <1>16, <2>2, <2>3 DEF StartRun
  <1>17. ASSUME NEW p \in Projects, StopRun(p)  PROVE WriterListed'
    <2>1. place' = place /\ UNCHANGED <<record, listing, writer, up>>  BY <1>17 DEF StopRun
    <2> QED  BY <1>5, <2>1
  <1>18. ASSUME NEW p \in Projects, FinishRun(p)  PROVE WriterListed'
    <2>1. writer' = {} /\ place' = place /\ up' = up  BY <1>18 DEF FinishRun
    <2>2. CASE \E state \in {"paused", "ended"} : Moves(p, state)
      BY <1>13, <1>15, <2>1, <2>2
    <2>3. CASE \E state \in {"active", "paused", "ended"} : Sticks(p, state)
      BY <1>14, <1>15, <2>1, <2>3
    <2>4. CASE UNCHANGED <<record, listing>>
      BY <1>1, <2>1, <2>4, WriterStays
    <2> QED  BY <1>18, <2>2, <2>3, <2>4 DEF FinishRun
  <1>19. ASSUME NEW p \in Projects, StopPaused(p)  PROVE WriterListed'
    <2>1. writer = {} /\ writer' = writer /\ place' = place /\ up' = up  BY <1>19 DEF StopPaused, runVars
    <2>2. CASE Moves(p, "ended")  BY <1>13, <1>15, <2>1, <2>2
    <2>3. CASE \E state \in {"paused", "ended"} : Sticks(p, state)
      BY <1>14, <1>15, <2>1, <2>3
    <2> QED  BY <1>19, <2>2, <2>3 DEF StopPaused
  <1>20. ASSUME NEW p \in Projects, TakeBack(p)  PROVE WriterListed'
    <2>1. /\ place[p] = "trash" /\ place' = [place EXCEPT ![p] = "live"]
          /\ UNCHANGED <<record, listing, writer, up>>
      BY <1>20 DEF TakeBack, sessionVars
    <2>2. \A q \in writer : place'[q] = place[q]  BY <1>1, <1>4, <2>1 DEF Live
    <2> QED  BY <1>1, <2>1, <2>2, WriterStays
  <1>21. GetSettings \/ SettingsDamaged \/ ListProjects =>
           place' = place /\ UNCHANGED <<record, listing, writer, up>>
    BY DEF GetSettings, SettingsDamaged, ListProjects, projectVars, sessionVars
  <1>22. \A note, w : UpdateSettings(note) \/ ChooseWorkspace(w) =>
           place' = place /\ UNCHANGED <<record, listing, writer, up>>
    BY DEF UpdateSettings, ChooseWorkspace, Saved, projectVars, sessionVars
  <1>23. \A p : GetProject(p) \/ Damage(p) => place' = place /\ UNCHANGED <<record, listing, writer, up>>
    BY DEF GetProject, Damage, sessionVars
  <1> QED
    BY <1>5, <1>6, <1>7, <1>8, <1>9, <1>10, <1>11, <1>12, <1>16, <1>17, <1>18, <1>19, <1>20, <1>21,
       <1>22, <1>23
    DEF LibraryNext

----------------------------------------------------------------------------
(* Settings, projects and their indexes: theorems.                           *)

(* The invariant of the library, whatever the commands, faults, crashes and   *)
(* other programs do (settings_store.rs, project_store.rs, project_index.rs). *)
THEOREM LibraryInvariantHolds == LibrarySpec => []LibraryInvariant
  <1>1. LibraryInit => LibraryInvariant
    <2> SUFFICES ASSUME LibraryInit  PROVE LibraryInvariant
      OBVIOUS
    <2>1. SettingsNamed  BY DEF LibraryInit, SettingsNamed
    <2>2. NoFiles \in ProjectFiles /\ SoundFile(NoFiles) /\ NoFiles.doc # {Damaged}
      BY DEF NoFiles, ProjectFiles, Contents, SoundFile
    <2>3. FilesSound(files, hurt)  BY <2>2 DEF LibraryInit, FilesSound
    <2>4. NoIndex({}) \in ProjectIndexes /\ ~NoIndex({}).fresh
      BY DEF NoIndex, ProjectIndexes, Contents
    <2>5. ProjectsIndexed  BY <2>3, <2>4 DEF LibraryInit, ProjectsIndexed, IndexAgrees
    <2>6. NoIndex("none") \in SessionIndexes /\ "none" \in SessionStates
      BY DEF NoIndex, SessionIndexes, SessionStates
    <2>7. WriterListed  BY <2>6 DEF LibraryInit, WriterListed
    <2> QED  BY <2>1, <2>5, <2>7 DEF LibraryInvariant
  <1>2. LibraryInvariant /\ [LibraryNext]_libraryVars => LibraryInvariant'
    <2> SUFFICES ASSUME LibraryInvariant, [LibraryNext]_libraryVars  PROVE LibraryInvariant'
      OBVIOUS
    <2>1. SettingsNamed /\ ProjectsIndexed /\ WriterListed  BY DEF LibraryInvariant
    <2>2. CASE LibraryNext
      BY <2>1, <2>2, SettingsKept, ProjectsKeptIndexed, WriterKeptListed DEF LibraryInvariant
    <2>3. CASE UNCHANGED libraryVars
      <3>1. UNCHANGED settingsVars /\ UNCHANGED projectVars /\ UNCHANGED sessionVars /\ up' = up
        BY <2>3 DEF libraryVars
      <3>2. SettingsNamed'  BY <2>1, <3>1 DEF settingsVars, SettingsNamed
      <3>3. ProjectsIndexed'  BY <2>1, <3>1, ProjectsStay DEF projectVars, ProjectsIndexed
      <3>4. WriterListed'  BY <2>1, <3>1 DEF sessionVars, projectVars, WriterListed, Live
      <3> QED  BY <3>2, <3>3, <3>4 DEF LibraryInvariant
    <2> QED  BY <2>2, <2>3
  <1> QED  BY <1>1, <1>2, PTL DEF LibrarySpec

(* What a client read at a settings revision is the content while that        *)
(* revision is current (load_or_recover, update_settings_on_connection).     *)
THEOREM RevisionsNameContent == LibrarySpec => []RevisionNamesContent
  <1>1. LibraryInvariant => RevisionNamesContent
    <2> SUFFICES ASSUME LibraryInvariant  PROVE RevisionNamesContent
      OBVIOUS
    <2>1. SettingsNamed /\ rows \in Seq(Versions) /\ Len(rows) <= 3
      BY DEF LibraryInvariant, SettingsNamed
    <2>2. Head(Loaded) = Loaded[1]  BY <2>1, LoadedIsValid
    <2> QED  BY <2>1, <2>2, LoadingKeepsNames DEF RevisionNamesContent
  <1> QED  BY <1>1, LibraryInvariantHolds, PTL

(* A folder that a run writes to is never in the trash (delete_project,       *)
(* project_has_running_session).                                            *)
THEOREM WritersStayInPlace == LibrarySpec => []NoWriterInTrash
  <1>1. LibraryInvariant => NoWriterInTrash
    BY DEF LibraryInvariant, WriterListed, NoWriterInTrash
  <1> QED  BY <1>1, LibraryInvariantHolds, PTL

(* A list shows the documents of the selected workspace                       *)
(* (list_projects_locked, index_has_projection).                             *)
THEOREM ListsShowTheChosen == LibrarySpec => ListedAsChosen
  <1> DEFINE Listed ==
        ListProjects =>
          \A p \in Projects \ hurt :
            index'.rows[p] = IF Live(p) /\ Home[p] = Chosen THEN Recovered(files[p]).doc ELSE {}
  <1>1. LibraryInvariant /\ [LibraryNext]_libraryVars => [Listed]_libraryVars
    <2> SUFFICES ASSUME LibraryInvariant, ListProjects, NEW p \in Projects \ hurt
                 PROVE  index'.rows[p] = IF Live(p) /\ Home[p] = Chosen THEN Recovered(files[p]).doc ELSE {}
      OBVIOUS
    <2>1. /\ IndexAgrees(Projection, files, place, hurt)
          /\ Projection.fresh /\ Projection.key = {Chosen} /\ Chosen \in Workspaces
      BY ProjectionAgrees DEF LibraryInvariant
    <2>2. index' = Projection  BY DEF ListProjects
    <2> QED  BY <2>1, <2>2 DEF IndexAgrees, Live
  <1> QED  BY <1>1, LibraryInvariantHolds, PTL DEF LibrarySpec, ListedAsChosen

=============================================================================
