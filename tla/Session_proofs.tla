---------------------------- MODULE Session_proofs ----------------------------
(***************************************************************************)
(* Proofs about a persisted session, for any sessions, events, outcomes of *)
(* durable writes, batches and intervals of the writer, and any number of  *)
(* I/O faults, foreign edits and disturbing reads.                         *)
(*                                                                         *)
(* The run of a session: four properties rest on one inductive invariant,  *)
(* which says which operation may hold the lock in which phase of the      *)
(* process (Exclusive), how far each operation has brought the journal and *)
(* the runtime (Progress), and what the startup pass has already settled   *)
(* (Recovered).                                                            *)
(*                                                                         *)
(* Its files: the journal implements the durable log of DurableLog, alone  *)
(* and under the writer and the commands that append to it (the refinement *)
(* mapping is `Log` of SessionJournal).  And a lifecycle boundary that was *)
(* the last thing written is in transcript.md, by an invariant that        *)
(* follows the flush the boundary starts until it is published or has      *)
(* failed.                                                                 *)
(*                                                                         *)
(* The journal is read by two walks over its records, which rebuild the    *)
(* transcript and one segment's history.  That they agree is shown last,   *)
(* by induction over the records.                                          *)
(***************************************************************************)
EXTENDS SessionLifecycle, SessionWriter, SequenceTheorems, FiniteSetTheorems, TLAPS

-----------------------------------------------------------------------------
(* The run of a session.                                                     *)

RecordStates == {"Idle", "Transcribing", "Paused", "Completed", "Failed"}

JournalStates == RecordStates \cup {"Preparing", "Capturing", "Stopping"}

Operations ==
  [session : Sessions, by : {"start", "finish", "giveup", "recover"},
   goal : RecordStates, at : JournalStates, read : RecordStates,
   pc : {"append", "launch", "halt", "stop", "open", "update", "pump"}]

LifecycleTypes ==
  /\ journal \in [Sessions -> JournalStates]
  /\ record \in [Sessions -> [state : RecordStates, marked : BOOLEAN]]
  /\ runtime \subseteq Sessions /\ active \subseteq Sessions
  /\ op \subseteq Operations /\ \A o, p \in op : o = p
  /\ app \in {"recovering", "up"} /\ todo \subseteq Sessions

(* While an operation holds the lock there is no active run; the startup    *)
(* pass runs alone, with nothing captured, and only it recovers.            *)
Exclusive ==
  /\ op # {} => active = {}
  /\ app = "recovering" => runtime = {} /\ active = {}
  /\ \A o \in op : o.by = "recover" <=> app = "recovering"

Begun(o) == o.at \notin {"Idle", "Paused"}

StartProgress(o) ==
  /\ o.goal = "Transcribing" /\ o.pc \in {"append", "launch", "update", "pump"}
  /\ Begun(o) => journal[o.session] = o.at /\ o.at \in {"Preparing", "Capturing", "Transcribing"}
  /\ o.pc = "launch" => o.at = "Preparing"
  /\ o.pc = "append" => o.at # "Transcribing"
  /\ o.pc \in {"update", "pump"} => o.at = "Transcribing"
  /\ o.pc = "pump" => record[o.session].state = "Transcribing"
  /\ runtime = IF Begun(o) /\ o.pc # "launch" THEN {o.session} ELSE {}

(* A start is undone only after its first boundary. *)
GiveUpProgress(o) ==
  /\ o.goal = "Failed" /\ o.pc \in {"halt", "append", "update"}
  /\ journal[o.session] \notin {"Idle", "Completed"}
  /\ o.pc # "halt" => runtime = {}

FinishProgress(o) ==
  /\ o.goal \in {"Paused", "Completed", "Failed"} /\ o.pc \in {"stop", "open", "append", "update"}
  /\ o.pc = "update" => journal[o.session] = o.goal
  /\ o.pc # "stop" => runtime = {}

RecoverProgress(o) ==
  /\ o.goal \in Settled /\ o.pc \in {"append", "update"}
  /\ o.pc = "update" => journal[o.session] = o.goal
  /\ o.session \in todo /\ runtime = {}

Progress ==
  \A o \in op :
    /\ o.by = "start" => StartProgress(o)
    /\ o.by = "giveup" => GiveUpProgress(o)
    /\ o.by = "finish" => FinishProgress(o)
    /\ o.by = "recover" => RecoverProgress(o)

(* A session whose journal is empty was never touched, and what the startup *)
(* pass has gone through agrees.                                            *)
Recovered ==
  /\ \A s \in Sessions : journal[s] = "Idle" => record[s].state = "Idle"
  /\ app = "recovering" =>
       \A s \in Sessions \ todo :
         journal[s] = record[s].state /\ journal[s] \in Settled \cup {"Idle"}

LifecycleInv == LifecycleTypes /\ Exclusive /\ Progress /\ Recovered /\ RunOwned

----------------------------------------------------------------------------
(* The initial state. *)
LEMMA InitHolds == LifecycleInit => LifecycleInv
BY DEF LifecycleInit, LifecycleInv, LifecycleTypes, Exclusive, Progress, Recovered, RunOwned,
       RecordStates, JournalStates

(* What an operation is after a step of it. *)
LEMMA SameOperation ==
  ASSUME NEW p \in Operations, op' = {p}
  PROVE  op' \subseteq Operations /\ \A o, q \in op' : o = q
OBVIOUS

(* The operations that begin: nothing holds the lock and nothing is        *)
(* captured for them.                                                      *)
LEMMA StartStep ==
  ASSUME LifecycleInv, NEW s \in Sessions, StartOrResume(s)
  PROVE  LifecycleInv'
<1> DEFINE begun == [session |-> s, by |-> "start", goal |-> "Transcribing", at |-> record[s].state,
                     read |-> record[s].state, pc |-> "append"]
<1>1. op = {} /\ op' = {begun} /\ active = {} /\ runtime = {} /\ app = "up"
  BY DEF StartOrResume, Accepts, Operation, LifecycleInv, RunOwned
<1>2. record[s].state \in RecordStates /\ record[s].state \in {"Idle", "Paused"}
  BY DEF StartOrResume, LifecycleInv, LifecycleTypes
<1>3. begun \in Operations
  BY <1>2 DEF Operations, RecordStates, JournalStates
<1>p. PICK p \in Operations : p = begun
  BY <1>3
<1>4. UNCHANGED <<journal, record, runtime, active, app, todo>>
  BY DEF StartOrResume
<1>5. LifecycleTypes'
  BY <1>p, <1>1, <1>3, <1>4 DEF LifecycleInv, LifecycleTypes
<1>6. Exclusive'
  BY <1>1, <1>4 DEF LifecycleInv, Exclusive
<1>7. StartProgress(p)'
  BY <1>p, <1>1, <1>2, <1>4 DEF StartProgress, Begun
<1>8. Progress'
  BY <1>p, <1>1, <1>7 DEF Progress
<1>9. Recovered' /\ RunOwned'
  BY <1>1, <1>4 DEF LifecycleInv, Recovered, RunOwned
<1> QED
  BY <1>5, <1>6, <1>8, <1>9 DEF LifecycleInv

(* A pause or a stop that begins.                                            *)
LEMMA PauseOrStopStep ==
  ASSUME LifecycleInv, NEW s \in Sessions, NEW goal \in {"Paused", "Completed"}, PauseOrStop(s, goal)
  PROVE  LifecycleInv'
<1> DEFINE begun == [session |-> s, by |-> "finish", goal |-> goal, at |-> "Transcribing",
                     read |-> record[s].state, pc |-> "stop"]
<1>1. op = {} /\ op' = {begun} /\ active' = {} /\ app = "up"
  BY DEF PauseOrStop, Accepts, Operation
<1>2. record[s].state \in RecordStates
  BY DEF LifecycleInv, LifecycleTypes
<1>3. begun \in Operations
  BY <1>2 DEF Operations, RecordStates, JournalStates
<1>p. PICK p \in Operations : p = begun
  BY <1>3
<1>4. UNCHANGED <<journal, record, runtime, app, todo>>
  BY DEF PauseOrStop
<1>5. LifecycleTypes'
  BY <1>p, <1>1, <1>3, <1>4 DEF LifecycleInv, LifecycleTypes
<1>6. Exclusive'
  BY <1>1, <1>4 DEF LifecycleInv, Exclusive
<1>7. FinishProgress(p)'
  BY <1>p DEF FinishProgress
<1>8. Progress'
  BY <1>p, <1>1, <1>7 DEF Progress
<1>9. Recovered' /\ RunOwned'
  BY <1>1, <1>4 DEF LifecycleInv, Recovered, RunOwned
<1> QED
  BY <1>5, <1>6, <1>8, <1>9 DEF LifecycleInv

(* Stopping a session that is paused.                                        *)
LEMMA StopPausedStep ==
  ASSUME LifecycleInv, NEW s \in Sessions, StopPaused(s)
  PROVE  LifecycleInv'
<1> DEFINE begun == [session |-> s, by |-> "finish", goal |-> "Completed", at |-> "Paused",
                     read |-> record[s].state, pc |-> "append"]
<1>1. op = {} /\ op' = {begun} /\ active = {} /\ runtime = {} /\ app = "up"
  BY DEF StopPaused, Accepts, Operation, LifecycleInv, RunOwned
<1>2. record[s].state \in RecordStates
  BY DEF LifecycleInv, LifecycleTypes
<1>3. begun \in Operations
  BY <1>2 DEF Operations, RecordStates, JournalStates
<1>p. PICK p \in Operations : p = begun
  BY <1>3
<1>4. UNCHANGED <<journal, record, runtime, active, app, todo>>
  BY DEF StopPaused
<1>5. LifecycleTypes'
  BY <1>p, <1>1, <1>3, <1>4 DEF LifecycleInv, LifecycleTypes
<1>6. Exclusive'
  BY <1>1, <1>4 DEF LifecycleInv, Exclusive
<1>7. FinishProgress(p)'
  BY <1>p, <1>1, <1>4 DEF FinishProgress
<1>8. Progress'
  BY <1>p, <1>1, <1>7 DEF Progress
<1>9. Recovered' /\ RunOwned'
  BY <1>1, <1>4 DEF LifecycleInv, Recovered, RunOwned
<1> QED
  BY <1>5, <1>6, <1>8, <1>9 DEF LifecycleInv

(* The startup pass takes up a session, or passes over one that agrees. *)
LEMMA RecoverStep ==
  ASSUME LifecycleInv, NEW s \in Sessions, Recover(s)
  PROVE  LifecycleInv'
<1>1. /\ app = "recovering" /\ op = {} /\ runtime = {} /\ active = {} /\ s \in todo
      /\ UNCHANGED <<journal, record, runtime, active, app>>
  BY DEF Recover, LifecycleInv, Exclusive
<1>2. journal[s] \in JournalStates /\ record[s].state \in RecordStates
  BY DEF LifecycleInv, LifecycleTypes
<1>3. CASE Skips(s) /\ todo' = todo \ {s} /\ op' = op
  <2>1. journal[s] = record[s].state /\ journal[s] \in Settled \cup {"Idle"}
    BY <1>3 DEF Skips, LifecycleInv, Recovered
  <2>2. LifecycleTypes' /\ Exclusive' /\ Progress' /\ RunOwned'
    BY <1>1, <1>3 DEF LifecycleInv, LifecycleTypes, Exclusive, Progress, RunOwned
  <2>3. Recovered'
    BY <1>1, <1>3, <2>1 DEF LifecycleInv, Recovered
  <2> QED
    BY <2>2, <2>3 DEF LifecycleInv
<1>4. ASSUME ~Skips(s), todo' = todo,
             op' = Operation(s, "recover", RecoveryTarget(journal[s]), journal[s],
                             IF RecoveryChange(journal[s], RecoveryTarget(journal[s]))
                               THEN "append" ELSE "update")
      PROVE  LifecycleInv'
  <2> DEFINE goal == RecoveryTarget(journal[s])
             pc == IF RecoveryChange(journal[s], goal) THEN "append" ELSE "update"
             begun == [session |-> s, by |-> "recover", goal |-> goal, at |-> journal[s],
                       read |-> record[s].state, pc |-> pc]
  <2>1. op' = {begun}
    BY <1>4 DEF Operation
  <2>2. goal \in Settled /\ (pc = "update" => journal[s] = goal)
    BY <1>2, <1>4 DEF RecoveryTarget, RecoveryChange, Skips, Settled, JournalStates, RecordStates
  <2>3. pc \in {"append", "update"}
    OBVIOUS
  <2> HIDE DEF goal, pc
  <2>4. begun \in Operations
    BY <1>2, <2>2, <2>3 DEF Operations, RecordStates, Settled
  <2>p. PICK p \in Operations : p = begun
    BY <2>4
  <2>5. LifecycleTypes'
    BY <1>1, <1>4, <2>1, <2>p DEF LifecycleInv, LifecycleTypes
  <2>6. Exclusive'
    BY <1>1, <2>1 DEF LifecycleInv, Exclusive
  <2>7. RecoverProgress(p)'
    BY <1>1, <1>4, <2>2, <2>3, <2>p DEF RecoverProgress
  <2>8. Progress'
    BY <2>1, <2>7, <2>p DEF Progress
  <2>9. Recovered' /\ RunOwned'
    BY <1>1, <1>4, <2>1 DEF LifecycleInv, Recovered, RunOwned
  <2> QED
    BY <2>5, <2>6, <2>8, <2>9 DEF LifecycleInv
<1> QED
  BY <1>3, <1>4 DEF Recover

----------------------------------------------------------------------------
(* The steps of the operation that holds the lock.  First what every one of *)
(* them starts from.                                                        *)
LEMMA Holding ==
  ASSUME LifecycleInv, NEW o \in op
  PROVE  /\ o \in Operations /\ op = {o} /\ active = {} /\ o.session \in Sessions
         /\ journal[o.session] \in JournalStates /\ record[o.session].state \in RecordStates
         /\ o.by = "recover" <=> app = "recovering"
         /\ o.by = "start" => StartProgress(o)
         /\ o.by = "giveup" => GiveUpProgress(o)
         /\ o.by = "finish" => FinishProgress(o)
         /\ o.by = "recover" => RecoverProgress(o)
<1>1. o \in Operations /\ op = {o} /\ o.session \in Sessions
  BY DEF LifecycleInv, LifecycleTypes, Operations
<1>2. journal[o.session] \in JournalStates /\ record[o.session].state \in RecordStates
  BY <1>1 DEF LifecycleInv, LifecycleTypes
<1> QED
  BY <1>1, <1>2 DEF LifecycleInv, Exclusive, Progress

(* The operation returns: nothing may be captured any more. *)
LEMMA ReturnStep ==
  ASSUME LifecycleInv, op' = {}, active' = {}, runtime' = {}, todo' \subseteq Sessions,
         app' \in {"recovering", "up"},
         journal' \in [Sessions -> JournalStates],
         record' \in [Sessions -> [state : RecordStates, marked : BOOLEAN]],
         Recovered'
  PROVE  LifecycleInv'
BY DEF LifecycleInv, LifecycleTypes, Exclusive, Progress, RunOwned

(* The operation goes on as `p`. *)
LEMMA GoOnStep ==
  ASSUME LifecycleInv, NEW p \in Operations, op' = {p}, active' = {}, runtime' \subseteq Sessions,
         todo' \subseteq Sessions, app' = app,
         p.by = "recover" <=> app = "recovering",
         journal' \in [Sessions -> JournalStates],
         record' \in [Sessions -> [state : RecordStates, marked : BOOLEAN]],
         app = "recovering" => runtime' = {},
         p.by = "start" => StartProgress(p)',
         p.by = "giveup" => GiveUpProgress(p)',
         p.by = "finish" => FinishProgress(p)',
         p.by = "recover" => RecoverProgress(p)',
         Recovered'
  PROVE  LifecycleInv'
<1>1. LifecycleTypes'
  BY DEF LifecycleInv, LifecycleTypes
<1>2. Exclusive'
  BY DEF Exclusive
<1>3. Progress'
  BY DEF Progress
<1>4. RunOwned'
  BY DEF RunOwned
<1> QED
  BY <1>1, <1>2, <1>3, <1>4 DEF LifecycleInv

(* A boundary that is accepted continues the journal, never from or to the  *)
(* end of a session by a start, nor to its beginning.                       *)
LEMMA BoundaryFacts ==
  ASSUME NEW o \in Operations, o.goal # "Idle"
  PROVE  /\ Boundary(o.at, o.goal) \in JournalStates \ {"Idle"}
         /\ o.goal = "Failed" => Boundary(o.at, o.goal) = "Failed"
         /\ o.goal = "Transcribing" => Boundary(o.at, o.goal) \in {"Preparing", "Capturing", "Transcribing"}
         /\ o.goal = "Transcribing" /\ o.at \in {"Idle", "Paused"} => Boundary(o.at, o.goal) = "Preparing"
BY DEF Boundary, Operations, RecordStates, JournalStates

(* A boundary is appended, or fails to be. *)
LEMMA WriteBoundaryStep ==
  ASSUME LifecycleInv, NEW o \in op, NEW outcome \in {"ok", "lost", "late"},
         WriteBoundary(o, outcome)
  PROVE  LifecycleInv'
<1> DEFINE s == o.session
           next == Boundary(o.at, o.goal)
<1>1. /\ o.pc = "append" /\ UNCHANGED <<record, runtime, broken, active, todo, elsewhere>>
      /\ outcome # "lost" => Continues(s, o.at, next)
      /\ journal' = IF outcome = "lost" THEN journal ELSE [journal EXCEPT ![s] = next]
  BY DEF WriteBoundary
<1>2. o \in Operations /\ op = {o} /\ active = {} /\ s \in Sessions /\ journal[s] \in JournalStates
  BY Holding
<1>3. o.goal # "Idle"
  BY <1>1, <1>2, Holding DEF StartProgress, GiveUpProgress, FinishProgress, RecoverProgress, Operations, Settled
<1>4. /\ next \in JournalStates \ {"Idle"}
      /\ o.goal = "Failed" => next = "Failed"
      /\ o.goal = "Transcribing" => next \in {"Preparing", "Capturing", "Transcribing"}
      /\ o.goal = "Transcribing" /\ o.at \in {"Idle", "Paused"} => next = "Preparing"
  BY <1>2, <1>3, BoundaryFacts
<1> HIDE DEF next
<1>5. journal'[s] \in {journal[s], next} /\ \A t \in Sessions \ {s} : journal'[t] = journal[t]
  BY <1>1, <1>2 DEF LifecycleInv, LifecycleTypes
<1>6. journal' \in [Sessions -> JournalStates]
  BY <1>1, <1>2, <1>4 DEF LifecycleInv, LifecycleTypes
<1>7. outcome # "lost" => journal'[s] = next
  BY <1>1, <1>2 DEF LifecycleInv, LifecycleTypes
<1>8. record' \in [Sessions -> [state : RecordStates, marked : BOOLEAN]] /\ runtime' \subseteq Sessions
      /\ todo' \subseteq Sessions
  BY <1>1 DEF LifecycleInv, LifecycleTypes
<1>9. app' \in {app, "up"} => Recovered'
  <2>1. ASSUME NEW t \in Sessions, journal'[t] = "Idle" PROVE record'[t].state = "Idle"
    BY <1>1, <1>4, <1>5, <2>1 DEF LifecycleInv, Recovered
  <2>2. ASSUME app = "recovering", NEW t \in Sessions \ todo
        PROVE  journal'[t] = record'[t].state /\ journal'[t] \in Settled \cup {"Idle"}
    <3>1. t # s
      BY <2>2, Holding DEF RecoverProgress
    <3> QED
      BY <1>1, <1>5, <2>2, <3>1 DEF LifecycleInv, Recovered
  <2> QED
    BY <1>1, <2>1, <2>2 DEF Recovered
<1>10. ASSUME outcome = "ok",
              op' = {[o EXCEPT !.at = next,
                               !.pc = CASE o.by = "start" /\ next = "Preparing" -> "launch"
                                        [] next = o.goal -> "update"
                                        [] OTHER -> "append"]},
              app' = app
       PROVE  LifecycleInv'
  <2> DEFINE pc == CASE o.by = "start" /\ next = "Preparing" -> "launch"
                     [] next = o.goal -> "update"
                     [] OTHER -> "append"
  <2>0. o.by = "start" => o.goal = "Transcribing"
    BY Holding DEF StartProgress
  <2>1. /\ pc \in {"launch", "update", "append"}
        /\ pc = "update" => next = o.goal
        /\ pc = "launch" <=> o.by = "start" /\ next = "Preparing"
        /\ o.by = "start" /\ next = o.goal => pc = "update"
    <3>1. CASE o.by = "start" /\ next = "Preparing"
      BY <2>0, <3>1
    <3>2. CASE ~(o.by = "start" /\ next = "Preparing") /\ next = o.goal
      BY <3>2
    <3>3. CASE ~(o.by = "start" /\ next = "Preparing") /\ next # o.goal
      BY <3>3
    <3> QED
      BY <3>1, <3>2, <3>3
  <2> HIDE DEF pc
  <2>2. [o EXCEPT !.at = next, !.pc = pc] \in Operations
    BY <1>2, <1>4, <2>1 DEF Operations
  <2>3. PICK p \in Operations : p = [o EXCEPT !.at = next, !.pc = pc]
    BY <2>2
  <2>4. op' = {p} /\ p.session = s /\ p.by = o.by /\ p.goal = o.goal /\ p.at = next /\ p.pc = pc
    BY <1>2, <1>10, <2>3 DEF pc, Operations
  <2>5. journal[s] = o.at /\ journal'[s] = next
    BY <1>1, <1>7, <1>10 DEF Continues
  <2>6. ASSUME p.by = "start" PROVE StartProgress(p)'
    <3>1. /\ o.by = "start" /\ o.goal = "Transcribing" /\ o.at # "Transcribing"
          /\ Begun(o) => o.at \in {"Preparing", "Capturing", "Transcribing"}
          /\ runtime' = IF Begun(o) THEN {s} ELSE {}
      BY <1>1, <2>4, <2>6, Holding DEF StartProgress
    <3>2. next \in {"Preparing", "Capturing", "Transcribing"} /\ (next = "Preparing" <=> ~Begun(o))
      <4>1. ASSUME Begun(o) PROVE next \in {"Capturing", "Transcribing"}
        BY <1>4, <1>1, <1>10, <2>5, <3>1, <4>1 DEF Continues, ValidTransition
      <4>2. ~Begun(o) => next = "Preparing"
        BY <1>4, <3>1 DEF Begun
      <4> QED
        BY <4>1, <4>2
    <3>3. pc # "update" <=> next # "Transcribing"
      BY <2>1, <2>4, <2>6, <3>1
    <3>4. (pc = "launch" <=> next = "Preparing") /\ pc \in {"launch", "update", "append"}
      BY <2>1, <3>1
    <3>5. runtime' = IF pc # "launch" THEN {s} ELSE {}
      BY <3>1, <3>2, <3>4
    <3> QED
      BY <2>4, <2>5, <3>1, <3>2, <3>3, <3>4, <3>5 DEF StartProgress, Begun
  <2>7. p.by = "giveup" => GiveUpProgress(p)'
    BY <1>1, <1>4, <2>1, <2>4, <2>5, Holding DEF GiveUpProgress
  <2>8. p.by = "finish" => FinishProgress(p)'
    BY <1>1, <2>1, <2>4, <2>5, Holding DEF FinishProgress
  <2>9. p.by = "recover" => RecoverProgress(p)'
    BY <1>1, <2>1, <2>4, <2>5, Holding DEF RecoverProgress
  <2>10. app = "recovering" => runtime' = {}
    BY <1>1, Holding DEF RecoverProgress
  <2> QED
    BY <1>1, <1>2, <1>6, <1>8, <1>9, <1>10, <2>4, <2>6, <2>7, <2>8, <2>9, <2>10, Holding, GoOnStep
<1>11. ASSUME outcome # "ok", Fails(o) PROVE LifecycleInv'
  <2>1. op' = AfterFailure(o) /\ app' = IF o.by = "recover" THEN "up" ELSE app
    BY <1>11 DEF Fails
  <2>2. CASE o.by = "start" /\ Begun(o)
    <3>1. [o EXCEPT !.by = "giveup", !.goal = "Failed", !.pc = "halt"] \in Operations
      BY <1>2 DEF Operations, RecordStates
    <3>2. PICK p \in Operations : p = [o EXCEPT !.by = "giveup", !.goal = "Failed", !.pc = "halt"]
      BY <3>1
    <3>3. op' = {p} /\ p.session = s /\ p.by = "giveup" /\ p.goal = "Failed" /\ p.pc = "halt"
      BY <1>2, <2>1, <2>2, <3>2 DEF AfterFailure, Abandon, Begun, Operations
    <3>4. journal'[s] \notin {"Idle", "Completed"}
      BY <1>4, <1>5, <2>2, Holding DEF StartProgress
    <3>5. GiveUpProgress(p)'
      BY <3>3, <3>4 DEF GiveUpProgress
    <3>6. app' = app /\ app # "recovering"
      BY <2>1, <2>2, Holding
    <3> QED
      BY <1>1, <1>2, <1>6, <1>8, <1>9, <3>3, <3>5, <3>6, GoOnStep
  <2>3. CASE o.by = "giveup"
    <3>1. [o EXCEPT !.pc = "update"] \in Operations
      BY <1>2 DEF Operations
    <3>2. PICK p \in Operations : p = [o EXCEPT !.pc = "update"]
      BY <3>1
    <3>3. op' = {p} /\ p.session = s /\ p.by = "giveup" /\ p.goal = o.goal /\ p.pc = "update"
      BY <1>1, <1>2, <2>1, <2>3, <3>2 DEF AfterFailure, Operations
    <3>4. journal'[s] \notin {"Idle", "Completed"} /\ o.goal = "Failed" /\ runtime' = {}
      BY <1>1, <1>4, <1>5, <2>3, Holding DEF GiveUpProgress
    <3>5. GiveUpProgress(p)'
      BY <3>3, <3>4 DEF GiveUpProgress
    <3>6. app' = app /\ app # "recovering"
      BY <2>1, <2>3, Holding
    <3> QED
      BY <1>1, <1>2, <1>6, <1>8, <1>9, <3>3, <3>5, <3>6, GoOnStep
  <2>4. CASE ~(o.by = "start" /\ Begun(o)) /\ o.by # "giveup"
    <3>1. op' = {}
      BY <2>1, <2>4 DEF AfterFailure, Begun
    <3>2. runtime' = {}
      BY <1>1, <1>2, <2>4, Holding DEF StartProgress, FinishProgress, RecoverProgress, Operations
    <3>3. app' \in {app, "up"} /\ app' \in {"recovering", "up"}
      BY <2>1 DEF LifecycleInv, LifecycleTypes
    <3> QED
      BY <1>1, <1>2, <1>6, <1>8, <1>9, <3>1, <3>2, <3>3, ReturnStep
  <2> QED
    BY <2>2, <2>3, <2>4
<1> QED
  BY <1>10, <1>11 DEF WriteBoundary, next

(* A start is undone: its first boundary is durable, and the runtime is      *)
(* either about to be stopped or was never started.                          *)
LEMMA UndoStep ==
  ASSUME LifecycleInv, NEW o \in op, o.by = "start", NEW pc \in {"halt", "append"},
         op' = Abandon(o, pc), pc = "append" => runtime = {},
         runtime' = runtime, active' = {}, app' = app, todo' = todo, journal' = journal,
         record' \in [Sessions -> [state : RecordStates, marked : BOOLEAN]],
         journal[o.session] \notin {"Idle", "Completed"},
         Recovered'
  PROVE  LifecycleInv'
<1>1. o \in Operations /\ app # "recovering"
  BY Holding
<1>2. [o EXCEPT !.by = "giveup", !.goal = "Failed", !.pc = pc] \in Operations
  BY <1>1 DEF Operations, RecordStates
<1>3. PICK p \in Operations : p = [o EXCEPT !.by = "giveup", !.goal = "Failed", !.pc = pc]
  BY <1>2
<1>4. op' = {p} /\ p.session = o.session /\ p.by = "giveup" /\ p.goal = "Failed" /\ p.pc = pc
  BY <1>1, <1>3 DEF Abandon, Operations
<1>5. GiveUpProgress(p)'
  BY <1>4 DEF GiveUpProgress
<1>6. journal' \in [Sessions -> JournalStates] /\ runtime' \subseteq Sessions /\ todo' \subseteq Sessions
  BY DEF LifecycleInv, LifecycleTypes
<1> QED
  BY <1>1, <1>4, <1>5, <1>6, GoOnStep

(* session.md is rewritten, or fails to be: only to the state the journal    *)
(* already holds, or by the undo of a start to failed.                       *)
LEMMA UpdateRecordStep ==
  ASSUME LifecycleInv, NEW o \in op, NEW outcome \in {"ok", "lost", "late"},
         UpdateRecord(o, outcome)
  PROVE  LifecycleInv'
<1> DEFINE s == o.session
           rewritten == [state |-> o.goal, marked |-> o.by = "recover"]
<1>1. /\ o.pc = "update" /\ UNCHANGED <<journal, runtime, broken, active, elsewhere>>
      /\ record' = IF outcome = "lost" THEN record ELSE [record EXCEPT ![s] = rewritten]
  BY DEF UpdateRecord
<1>2. o \in Operations /\ op = {o} /\ active = {} /\ s \in Sessions /\ journal[s] \in JournalStates
  BY Holding
<1>3. rewritten \in [state : RecordStates, marked : BOOLEAN]
  BY <1>2 DEF Operations
<1>4. record' \in [Sessions -> [state : RecordStates, marked : BOOLEAN]]
  BY <1>1, <1>2, <1>3 DEF LifecycleInv, LifecycleTypes
<1>5. /\ \A t \in Sessions \ {s} : record'[t] = record[t]
      /\ record'[s].state \in {record[s].state, o.goal}
      /\ outcome # "lost" => record'[s].state = o.goal
  BY <1>1, <1>2 DEF LifecycleInv, LifecycleTypes
<1>6. /\ journal[s] # "Idle"
      /\ o.by # "giveup" => journal[s] = o.goal
      /\ o.by = "recover" => o.goal \in Settled
      /\ o.by # "start" => runtime = {}
  BY <1>1, <1>2, Holding DEF StartProgress, Begun, GiveUpProgress, FinishProgress, RecoverProgress,
     Operations, Settled
<1>7. \A t \in Sessions : journal'[t] = "Idle" => record'[t].state = "Idle"
  BY <1>1, <1>5, <1>6 DEF LifecycleInv, Recovered
<1>8. app \in {"recovering", "up"} /\ (o.by = "recover" <=> app = "recovering") /\ todo \subseteq Sessions
      /\ journal' \in [Sessions -> JournalStates] /\ runtime' \subseteq Sessions
  BY <1>1, Holding DEF LifecycleInv, LifecycleTypes
<1>9. ASSUME outcome = "ok", app' = app,
             op' = IF o.by = "start" THEN {[o EXCEPT !.pc = "pump"]} ELSE {},
             todo' = IF o.by = "recover" THEN todo \ {s} ELSE todo
      PROVE  LifecycleInv'
  <2>1. Recovered'
    <3>1. ASSUME app = "recovering", NEW t \in Sessions \ todo'
          PROVE  journal'[t] = record'[t].state /\ journal'[t] \in Settled \cup {"Idle"}
      <4>1. CASE t = s
        BY <1>1, <1>5, <1>6, <1>8, <1>9, <3>1, <4>1
      <4>2. CASE t # s
        BY <1>1, <1>5, <1>8, <1>9, <3>1, <4>2 DEF LifecycleInv, Recovered
      <4> QED
        BY <4>1, <4>2
    <3> QED
      BY <1>7, <1>9, <3>1 DEF Recovered
  <2>2. CASE o.by = "start"
    <3>1. [o EXCEPT !.pc = "pump"] \in Operations
      BY <1>2 DEF Operations
    <3>2. PICK p \in Operations : p = [o EXCEPT !.pc = "pump"]
      BY <3>1
    <3>3. op' = {p} /\ p.session = s /\ p.by = "start" /\ p.goal = o.goal /\ p.at = o.at /\ p.pc = "pump"
      BY <1>2, <1>9, <2>2, <3>2 DEF Operations
    <3>4. StartProgress(o)
      BY <2>2, Holding
    <3>5. StartProgress(p)'
      BY <1>1, <1>5, <1>9, <3>3, <3>4 DEF StartProgress, Begun
    <3> QED
      BY <1>1, <1>2, <1>4, <1>8, <1>9, <2>1, <2>2, <3>3, <3>5, GoOnStep
  <2>3. CASE o.by # "start"
    BY <1>1, <1>2, <1>4, <1>6, <1>8, <1>9, <2>1, <2>3, ReturnStep
  <2> QED
    BY <2>2, <2>3
<1>10. ASSUME Fails(o), todo' = todo PROVE LifecycleInv'
  <2>1. op' = AfterFailure(o) /\ app' = IF o.by = "recover" THEN "up" ELSE app
    BY <1>10 DEF Fails
  <2>2. Recovered'
    BY <1>7, <1>8, <2>1 DEF Recovered
  <2>3. CASE o.by = "start"
    <3>1. journal[s] = "Transcribing" /\ o.at = "Transcribing"
      BY <1>1, <2>3, Holding DEF StartProgress, Begun
    <3>2. op' = Abandon(o, "halt") /\ app' = app
      BY <2>1, <2>3, <3>1 DEF AfterFailure
    <3> QED
      BY <1>1, <1>2, <1>4, <1>10, <2>2, <2>3, <3>1, <3>2, UndoStep
  <2>4. CASE o.by # "start"
    <3>1. op' = {} /\ app' \in {"recovering", "up"}
      BY <1>1, <1>8, <2>1, <2>4 DEF AfterFailure
    <3> QED
      BY <1>1, <1>2, <1>4, <1>6, <1>8, <1>10, <2>2, <2>4, <3>1, ReturnStep
  <2> QED
    BY <2>3, <2>4
<1> QED
  BY <1>9, <1>10 DEF UpdateRecord

(* The runtime is started, or the start is undone.                           *)
LEMMA LaunchStep ==
  ASSUME LifecycleInv, NEW o \in op, Launch(o)
  PROVE  LifecycleInv'
<1>1. o.pc = "launch" /\ UNCHANGED <<journal, record, active, app, todo, elsewhere>>
  BY DEF Launch
<1>2. /\ o \in Operations /\ op = {o} /\ active = {} /\ o.session \in Sessions
      /\ o.by = "start" /\ app # "recovering" /\ StartProgress(o)
      /\ journal[o.session] = "Preparing" /\ o.at = "Preparing" /\ runtime = {}
  BY <1>1, Holding DEF StartProgress, GiveUpProgress, FinishProgress, RecoverProgress, Begun, Operations
<1>3. /\ journal' \in [Sessions -> JournalStates] /\ todo' \subseteq Sessions /\ Recovered'
      /\ record' \in [Sessions -> [state : RecordStates, marked : BOOLEAN]]
  BY <1>1 DEF LifecycleInv, LifecycleTypes, Recovered
<1>4. ASSUME runtime' = {o.session}, op' = {[o EXCEPT !.pc = "append"]} PROVE LifecycleInv'
  <2>1. [o EXCEPT !.pc = "append"] \in Operations
    BY <1>2 DEF Operations
  <2>2. PICK p \in Operations : p = [o EXCEPT !.pc = "append"]
    BY <2>1
  <2>3. op' = {p} /\ p.session = o.session /\ p.by = "start" /\ p.goal = o.goal /\ p.at = o.at /\ p.pc = "append"
    BY <1>2, <1>4, <2>2 DEF Operations
  <2>4. StartProgress(p)'
    BY <1>1, <1>2, <1>4, <2>3 DEF StartProgress, Begun
  <2> QED
    BY <1>1, <1>2, <1>3, <1>4, <2>3, <2>4, GoOnStep
<1>5. ASSUME op' = Abandon(o, "append"), runtime' = runtime PROVE LifecycleInv'
  BY <1>1, <1>2, <1>3, <1>5, UndoStep
<1> QED
  BY <1>4, <1>5 DEF Launch

(* The run is installed as the active one, or the start is undone.           *)
LEMMA PumpStep ==
  ASSUME LifecycleInv, NEW o \in op, Pump(o)
  PROVE  LifecycleInv'
<1>1. o.pc = "pump" /\ UNCHANGED <<journal, record, runtime, broken, app, todo, elsewhere>>
  BY DEF Pump
<1>2. /\ o \in Operations /\ op = {o} /\ active = {} /\ o.session \in Sessions
      /\ o.by = "start" /\ app # "recovering"
      /\ journal[o.session] = "Transcribing" /\ record[o.session].state = "Transcribing"
      /\ runtime = {o.session}
  BY <1>1, Holding DEF StartProgress, GiveUpProgress, FinishProgress, RecoverProgress, Begun, Operations
<1>3. /\ journal' \in [Sessions -> JournalStates] /\ todo' \subseteq Sessions /\ Recovered'
      /\ record' \in [Sessions -> [state : RecordStates, marked : BOOLEAN]]
  BY <1>1 DEF LifecycleInv, LifecycleTypes, Recovered
<1>4. ASSUME active' = {o.session}, op' = {} PROVE LifecycleInv'
  <2>1. LifecycleTypes'
    BY <1>1, <1>2, <1>3, <1>4 DEF LifecycleInv, LifecycleTypes
  <2>2. Exclusive' /\ Progress' /\ RunOwned'
    BY <1>1, <1>2, <1>4 DEF Exclusive, Progress, RunOwned
  <2> QED
    BY <1>3, <2>1, <2>2 DEF LifecycleInv
<1>5. ASSUME op' = Abandon(o, "halt"), active' = active PROVE LifecycleInv'
  BY <1>1, <1>2, <1>3, <1>5, UndoStep
<1> QED
  BY <1>4, <1>5 DEF Pump

(* The undo of a start stops the runtime.                                    *)
LEMMA HaltStep ==
  ASSUME LifecycleInv, NEW o \in op, Halt(o)
  PROVE  LifecycleInv'
<1>1. /\ o.pc = "halt" /\ runtime' = {} /\ op' = {[o EXCEPT !.pc = "append"]}
      /\ UNCHANGED <<journal, record, broken, active, app, todo, elsewhere>>
  BY DEF Halt
<1>2. /\ o \in Operations /\ op = {o} /\ active = {} /\ o.session \in Sessions
      /\ o.by = "giveup" /\ app # "recovering" /\ GiveUpProgress(o)
  BY <1>1, Holding DEF StartProgress, FinishProgress, RecoverProgress, Operations
<1>3. /\ journal' \in [Sessions -> JournalStates] /\ todo' \subseteq Sessions /\ Recovered'
      /\ record' \in [Sessions -> [state : RecordStates, marked : BOOLEAN]]
  BY <1>1 DEF LifecycleInv, LifecycleTypes, Recovered
<1>4. [o EXCEPT !.pc = "append"] \in Operations
  BY <1>2 DEF Operations
<1>5. PICK p \in Operations : p = [o EXCEPT !.pc = "append"]
  BY <1>4
<1>6. op' = {p} /\ p.session = o.session /\ p.by = "giveup" /\ p.goal = o.goal /\ p.pc = "append"
  BY <1>1, <1>2, <1>5 DEF Operations
<1>7. GiveUpProgress(p)'
  BY <1>1, <1>2, <1>6 DEF GiveUpProgress
<1> QED
  BY <1>1, <1>2, <1>3, <1>6, <1>7, GoOnStep

(* Pause and stop: the runtime is stopped, then the session is read again.   *)
LEMMA StopRuntimeStep ==
  ASSUME LifecycleInv, NEW o \in op, StopRuntime(o)
  PROVE  LifecycleInv'
<1>1. /\ o.pc = "stop" /\ runtime' = {} /\ UNCHANGED <<journal, record, broken, active, app, todo, elsewhere>>
      /\ op' \in {{[o EXCEPT !.pc = "open"]}, {[o EXCEPT !.pc = "open", !.goal = "Failed"]}}
  BY DEF StopRuntime
<1>2. /\ o \in Operations /\ op = {o} /\ active = {} /\ o.session \in Sessions
      /\ o.by = "finish" /\ app # "recovering" /\ FinishProgress(o)
  BY <1>1, Holding DEF StartProgress, GiveUpProgress, RecoverProgress, Operations
<1>3. /\ journal' \in [Sessions -> JournalStates] /\ todo' \subseteq Sessions /\ Recovered'
      /\ record' \in [Sessions -> [state : RecordStates, marked : BOOLEAN]]
  BY <1>1 DEF LifecycleInv, LifecycleTypes, Recovered
<1>4. /\ [o EXCEPT !.pc = "open"] \in Operations
      /\ [o EXCEPT !.pc = "open", !.goal = "Failed"] \in Operations
  BY <1>2 DEF Operations, RecordStates
<1>5. PICK p \in Operations : op' = {p} /\ p \in {[o EXCEPT !.pc = "open"], [o EXCEPT !.pc = "open", !.goal = "Failed"]}
  BY <1>1, <1>4
<1>6. p.session = o.session /\ p.by = "finish" /\ p.goal \in {o.goal, "Failed"} /\ p.pc = "open"
  BY <1>2, <1>5 DEF Operations
<1>7. FinishProgress(p)'
  BY <1>1, <1>2, <1>6 DEF FinishProgress
<1> QED
  BY <1>1, <1>2, <1>3, <1>5, <1>6, <1>7, GoOnStep

(* Opening the boundary that ends a run.                                     *)
LEMMA OpenBoundaryStep ==
  ASSUME LifecycleInv, NEW o \in op, OpenBoundary(o)
  PROVE  LifecycleInv'
<1>1. /\ o.pc = "open" /\ UNCHANGED <<journal, record, runtime, broken, active, app, todo, elsewhere>>
      /\ op' \in {{}, {[o EXCEPT !.pc = "append"]}}
  BY DEF OpenBoundary
<1>2. /\ o \in Operations /\ op = {o} /\ active = {} /\ o.session \in Sessions
      /\ o.by = "finish" /\ app # "recovering" /\ FinishProgress(o) /\ runtime = {}
  BY <1>1, Holding DEF StartProgress, GiveUpProgress, RecoverProgress, FinishProgress, Operations
<1>3. /\ journal' \in [Sessions -> JournalStates] /\ todo' \subseteq Sessions /\ Recovered'
      /\ record' \in [Sessions -> [state : RecordStates, marked : BOOLEAN]] /\ app \in {"recovering", "up"}
  BY <1>1 DEF LifecycleInv, LifecycleTypes, Recovered
<1>4. [o EXCEPT !.pc = "append"] \in Operations
  BY <1>2 DEF Operations
<1>5. PICK p \in Operations : p = [o EXCEPT !.pc = "append"]
  BY <1>4
<1>6. p.session = o.session /\ p.by = "finish" /\ p.goal = o.goal /\ p.pc = "append"
  BY <1>2, <1>5 DEF Operations
<1>7. FinishProgress(p)'
  BY <1>1, <1>2, <1>6 DEF FinishProgress
<1>8. CASE op' = {}
  BY <1>1, <1>2, <1>3, <1>8, ReturnStep
<1>9. CASE op' = {p}
  BY <1>1, <1>2, <1>3, <1>6, <1>7, <1>9, GoOnStep
<1> QED
  BY <1>1, <1>5, <1>8, <1>9

----------------------------------------------------------------------------
(* The pass over the sessions, and the environment.                          *)
LEMMA FinishRecoveryStep ==
  ASSUME LifecycleInv, FinishRecovery
  PROVE  LifecycleInv'
BY DEF LifecycleInv, FinishRecovery, LifecycleTypes, Exclusive, Progress, Recovered, RunOwned

(* Neither a failing coordinator nor a change of workspace touches what the  *)
(* invariant speaks of.                                                      *)
LEMMA SameState ==
  ASSUME LifecycleInv, UNCHANGED <<journal, record, runtime, active, op, app, todo>>
  PROVE  LifecycleInv'
<1>1. LifecycleTypes' /\ Exclusive' /\ Recovered' /\ RunOwned'
  BY DEF LifecycleInv, LifecycleTypes, Exclusive, Recovered, RunOwned
<1>2. Progress'
  BY DEF LifecycleInv, Progress, StartProgress, Begun, GiveUpProgress, FinishProgress, RecoverProgress
<1> QED
  BY <1>1, <1>2 DEF LifecycleInv

(* A crash, which loses the runtime and the operation but no boundary.       *)
LEMMA RestartStep ==
  ASSUME LifecycleInv, Restart
  PROVE  LifecycleInv'
BY DEF LifecycleInv, Restart, LifecycleTypes, Exclusive, Progress, Recovered, RunOwned

(* Every step of an operation keeps the invariant.                           *)
LEMMA StepHolds ==
  ASSUME LifecycleInv, NEW o \in op, Step(o)
  PROVE  LifecycleInv'
BY WriteBoundaryStep, UpdateRecordStep, LaunchStep, PumpStep, HaltStep, StopRuntimeStep,
   OpenBoundaryStep DEF Step

(* Every step keeps it.                                                      *)
LEMMA NextHolds ==
  ASSUME LifecycleInv, [LifecycleNext]_vars
  PROVE  LifecycleInv'
<1>1. ASSUME NEW s \in Sessions, StartOrResume(s) \/ StopPaused(s) \/ Recover(s) PROVE LifecycleInv'
  BY <1>1, StartStep, StopPausedStep, RecoverStep
<1>2. ASSUME NEW s \in Sessions, NEW goal \in {"Paused", "Completed"}, PauseOrStop(s, goal)
      PROVE  LifecycleInv'
  BY <1>2, PauseOrStopStep
<1>3. ASSUME NEW o \in op, Step(o) PROVE LifecycleInv'
  BY <1>3, StepHolds
<1>4. CASE Break \/ ChooseWorkspace \/ UNCHANGED vars
  BY <1>4, SameState DEF Break, ChooseWorkspace, vars
<1> QED
  BY <1>1, <1>2, <1>3, <1>4, FinishRecoveryStep, RestartStep DEF LifecycleNext

(* Every reachable state of the persisted session run satisfies the          *)
(* inductive invariant: the operation lock, the journal, session.md, the     *)
(* runtime and the startup pass are where the operation in progress says.    *)
THEOREM LifecycleInvariant == LifecycleSpec => []LifecycleInv
<1>1. LifecycleInit => LifecycleInv
  BY InitHolds
<1>2. LifecycleInv /\ [LifecycleNext]_vars => LifecycleInv'
  BY NextHolds
<1> QED
  BY <1>1, <1>2, PTL DEF LifecycleSpec

(* No capture is left running without an owner, whatever failed.             *)
THEOREM RunsAreOwned == LifecycleSpec => []RunOwned
<1>1. LifecycleInv => RunOwned
  BY DEF LifecycleInv
<1> QED
  BY <1>1, LifecycleInvariant, PTL

----------------------------------------------------------------------------
(* What a step may do to one session: session.md is only rewritten by the    *)
(* operation that holds the lock, to the state the journal holds, unless it  *)
(* undoes a start.                                                           *)
LEMMA RecordChange ==
  ASSUME LifecycleInv, [LifecycleNext]_vars, NEW s \in Sessions,
         record'[s].state # record[s].state
  PROVE  \/ record'[s].state = journal[s]
         \/ record'[s].state = "Failed" /\ journal[s] # "Completed"
<1>1. PICK o \in op, outcome \in {"ok", "lost", "late"} : UpdateRecord(o, outcome)
  BY DEF LifecycleNext, vars, StartOrResume, StopPaused, Recover, PauseOrStop, Step, WriteBoundary,
     Launch, Pump, Halt, StopRuntime, OpenBoundary, FinishRecovery, Break, ChooseWorkspace, Restart
<1>2. /\ o.pc = "update"
      /\ record' = IF outcome = "lost" THEN record
                   ELSE [record EXCEPT ![o.session] = [state |-> o.goal, marked |-> o.by = "recover"]]
  BY <1>1 DEF UpdateRecord
<1>3. s = o.session /\ record'[s].state = o.goal
  BY <1>2 DEF LifecycleInv, LifecycleTypes
<1> QED
  BY <1>2, <1>3, Holding DEF StartProgress, Begun, GiveUpProgress, FinishProgress, RecoverProgress, Operations

(* The journal only moves by a boundary it accepts.                          *)
LEMMA JournalChange ==
  ASSUME LifecycleInv, [LifecycleNext]_vars, NEW s \in Sessions, journal'[s] # journal[s]
  PROVE  \E to \in JournalStates : ValidTransition(journal[s], to) /\ journal'[s] = to
<1>1. PICK o \in op, outcome \in {"ok", "lost", "late"} : WriteBoundary(o, outcome)
  BY DEF LifecycleNext, vars, StartOrResume, StopPaused, Recover, PauseOrStop, Step, UpdateRecord,
     Launch, Pump, Halt, StopRuntime, OpenBoundary, FinishRecovery, Break, ChooseWorkspace, Restart
<1> DEFINE next == Boundary(o.at, o.goal)
<1>2. /\ outcome # "lost" => Continues(o.session, o.at, next)
      /\ journal' = IF outcome = "lost" THEN journal ELSE [journal EXCEPT ![o.session] = next]
  BY <1>1 DEF WriteBoundary
<1> HIDE DEF next
<1>3. s = o.session /\ journal'[s] = next /\ ValidTransition(journal[s], next)
  BY <1>2 DEF LifecycleInv, LifecycleTypes, Continues
<1> QED
  BY <1>3 DEF ValidTransition, JournalStates, RecordStates

(* session.md never runs ahead of the journal.                               *)
THEOREM RecordsFollow == LifecycleSpec => RecordFollowsJournal
<1>1. LifecycleInv /\ [LifecycleNext]_vars =>
        [\A s \in Sessions :
           record'[s].state # record[s].state /\ record'[s].state # "Failed"
             => journal[s] = record'[s].state]_vars
  BY RecordChange
<1> QED
  BY <1>1, LifecycleInvariant, PTL DEF LifecycleSpec, RecordFollowsJournal

(* A meeting whose end reached the journal stays ended.                      *)
THEOREM EndsStay == LifecycleSpec => EndedStaysEnded
<1>1. LifecycleInv /\ [LifecycleNext]_vars =>
        [\A s \in Sessions :
           journal[s] = "Completed"
             => journal'[s] = "Completed" /\ record'[s].state \in {record[s].state, "Completed"}]_vars
  <2>1. ASSUME LifecycleInv, [LifecycleNext]_vars, NEW s \in Sessions, journal[s] = "Completed"
        PROVE  journal'[s] = "Completed" /\ record'[s].state \in {record[s].state, "Completed"}
    <3>1. journal'[s] = "Completed"
      BY <2>1, JournalChange DEF ValidTransition
    <3>2. record'[s].state \in {record[s].state, "Completed"}
      BY <2>1, RecordChange
    <3> QED
      BY <3>1, <3>2
  <2> QED
    BY <2>1
<1> QED
  BY <1>1, LifecycleInvariant, PTL DEF LifecycleSpec, EndedStaysEnded

(* After a complete startup pass the journal and session.md of every session *)
(* agree on a state no run owns.                                             *)
THEOREM RecoverySettles == LifecycleSpec => RecoveredAgrees
<1>1. LifecycleInv =>
        [app = "recovering" /\ app' = "up" /\ todo = {}
           => \A s \in Sessions :
                journal[s] = record[s].state /\ journal[s] \in Settled \cup {"Idle"}]_vars
  BY DEF LifecycleInv, Recovered
<1> QED
  BY <1>1, LifecycleInvariant, PTL DEF RecoveredAgrees

-----------------------------------------------------------------------------
(* The journal and the documents published from it.                          *)

(* The bytes on disk always parse, and what was acknowledged is among them.  *)
JournalInv ==
  /\ file \in [records : Seq(Events), torn : BOOLEAN, garbled : {FALSE}]
  /\ \A e \in acked : Recorded(e)

(* The journal begins with its invariant.                                    *)
LEMMA JournalInitHolds == JournalInit => JournalInv
BY DEF JournalInit, JournalInv

(* What an append that is not refused does to the records. *)
LEMMA AppendFacts ==
  ASSUME JournalInv, NEW e \in Events, NEW o \in Outcomes, Record(e, o)
  PROVE  /\ file' \in [records : Seq(Events), torn : BOOLEAN, garbled : {FALSE}]
         /\ ~Recorded(e)
         /\ o \in {"ok", "late"} => file'.records = Append(file.records, e)
         /\ o \in {"torn", "lost"} => file'.records = file.records
         /\ acked' = IF o = "ok" THEN acked \cup {e} ELSE acked
<1>1. /\ ~Recorded(e) /\ acked' = IF o = "ok" THEN acked \cup {e} ELSE acked
      /\ o = "lost" => file' = file
      /\ o = "torn" => file' = [file EXCEPT !.torn = TRUE]
      /\ o \in {"ok", "late"} => file' = Written(Trimmed(file), e)
  BY DEF Record, Outcomes
<1>2. file.records \in Seq(Events) /\ Append(file.records, e) \in Seq(Events)
  BY DEF JournalInv
<1>3. PICK trimmed \in [records : Seq(Events), torn : {FALSE}, garbled : {FALSE}] :
        trimmed = Trimmed(file) /\ trimmed.records = file.records
  <2>1. PICK f \in [records : Seq(Events), torn : BOOLEAN, garbled : {FALSE}] : f = file
    BY DEF JournalInv
  <2>2. /\ [f EXCEPT !.torn = FALSE] \in [records : Seq(Events), torn : {FALSE}, garbled : {FALSE}]
        /\ [f EXCEPT !.torn = FALSE].records = f.records
    OBVIOUS
  <2> QED
    BY <2>1, <2>2 DEF Trimmed
<1>4. /\ Written(trimmed, e) = [trimmed EXCEPT !.records = Append(@, e)]
      /\ Written(trimmed, e) \in [records : Seq(Events), torn : BOOLEAN, garbled : {FALSE}]
      /\ Written(trimmed, e).records = Append(file.records, e)
  BY <1>2, <1>3 DEF Written
<1>5. CASE o \in {"ok", "late"}
  <2>1. file' = Written(trimmed, e)
    BY <1>1, <1>3, <1>5
  <2> QED
    BY <1>1, <1>4, <1>5, <2>1
<1>6. CASE o \in {"torn", "lost"}
  <2>1. file' \in {file, [file EXCEPT !.torn = TRUE]}
    BY <1>1, <1>6
  <2>2. /\ file' \in [records : Seq(Events), torn : BOOLEAN, garbled : {FALSE}]
        /\ file'.records = file.records
    BY <2>1 DEF JournalInv
  <2> QED
    BY <1>1, <1>6, <2>2
<1> QED
  BY <1>5, <1>6 DEF Outcomes

(* An event that is answered again changes no record. *)
LEMMA AnswerFacts ==
  ASSUME JournalInv, NEW e \in Events, AnswerAgain(e)
  PROVE  /\ file' \in [records : Seq(Events), torn : BOOLEAN, garbled : {FALSE}]
         /\ file'.records = file.records /\ Recorded(e) /\ acked' = acked \cup {e}
BY DEF AnswerAgain, Trimmed, JournalInv

(* Either is a step of the durable log, and keeps the journal sound. *)
LEMMA LogStep ==
  ASSUME JournalInv, NEW e \in Events,
         AnswerAgain(e) \/ \E o \in Outcomes : Record(e, o)
  PROVE  JournalInv' /\ [Log!LogNext]_<<IF Readable THEN file.records ELSE <<>>, acked>>
<1>1. Readable /\ file.records \in Seq(Events)
  BY DEF JournalInv, Readable
<1>2. CASE AnswerAgain(e)
  <2>1. file'.records = file.records /\ Recorded(e) /\ acked' = acked \cup {e} /\ Readable'
        /\ file' \in [records : Seq(Events), torn : BOOLEAN, garbled : {FALSE}]
    BY <1>2, AnswerFacts DEF Readable
  <2>2. JournalInv'
    BY <2>1 DEF JournalInv, Recorded
  <2>3. Log!Confirm(e)
    BY <1>1, <2>1 DEF Log!Confirm, Log!InLog, Recorded
  <2> QED
    BY <2>2, <2>3 DEF Log!LogNext
<1>3. ASSUME NEW o \in Outcomes, Record(e, o)
      PROVE  JournalInv' /\ [Log!LogNext]_<<IF Readable THEN file.records ELSE <<>>, acked>>
  <2>1. /\ file' \in [records : Seq(Events), torn : BOOLEAN, garbled : {FALSE}] /\ Readable'
        /\ ~Recorded(e)
        /\ acked' = IF o = "ok" THEN acked \cup {e} ELSE acked
    BY <1>3, AppendFacts DEF Readable
  <2>2. CASE o \in {"ok", "late"}
    <3>1. file'.records = Append(file.records, e)
      BY <1>3, <2>2, AppendFacts
    <3>2. \A f \in Events : Recorded(f) => Recorded(f)'
      BY <1>1, <3>1 DEF Recorded
    <3>3. Recorded(e)'
      BY <1>1, <3>1 DEF Recorded
    <3>4. \A f \in acked : f \in Events
      BY DEF JournalInv, Recorded
    <3>5. JournalInv'
      BY <2>1, <3>2, <3>3, <3>4 DEF JournalInv
    <3>6. Log!Write(e)
      BY <1>1, <2>1, <3>1 DEF Log!Write, Log!InLog, Recorded
    <3> QED
      BY <3>5, <3>6 DEF Log!LogNext
  <2>3. CASE o \in {"torn", "lost"}
    <3>1. file'.records = file.records
      BY <1>3, <2>3, AppendFacts
    <3> QED
      BY <1>1, <2>1, <2>3, <3>1 DEF JournalInv, Recorded
  <2> QED
    BY <2>2, <2>3 DEF Outcomes
<1> QED
  BY <1>2, <1>3

(* The journal alone is a durable log. *)
THEOREM JournalIsDurable == JournalSpec => JournalDurable
<1>1. JournalInit => Log!LogInit
  BY DEF JournalInit, Log!LogInit, Readable
<1>2. JournalInv /\ [JournalNext]_journalVars =>
        JournalInv' /\ [Log!LogNext]_<<IF Readable THEN file.records ELSE <<>>, acked>>
  <2>1. ASSUME JournalInv, NEW e \in Events, AnswerAgain(e) \/ \E o \in Outcomes : Record(e, o)
        PROVE  JournalInv' /\ [Log!LogNext]_<<IF Readable THEN file.records ELSE <<>>, acked>>
    BY <2>1, LogStep
  <2>2. ASSUME JournalInv, UNCHANGED journalVars
        PROVE  JournalInv' /\ [Log!LogNext]_<<IF Readable THEN file.records ELSE <<>>, acked>>
    BY <2>2 DEF journalVars, JournalInv, Recorded, Readable
  <2> QED
    BY <2>1, <2>2 DEF JournalNext, Refuse
<1> QED
  BY <1>1, <1>2, JournalInitHolds, PTL DEF JournalSpec, JournalDurable, Log!LogSpec

----------------------------------------------------------------------------
(* The writer and the commands.                                              *)

Contents == Nat \cup {Foreign}

WriterRecords ==
  [print : SUBSET Contents, pending : Nat, age : SUBSET Nat, dirty : BOOLEAN,
   failed : BOOLEAN, taken : SUBSET Events]

Annotations == {e \in Events : e.kind \notin {"final", "lifecycle"}}

TaskRecords ==
  [pc : {"render", "compare", "write", "publish", "verify", "adopt", "index", "answer", "append"},
   expects : SUBSET Contents, seen : Nat, retried : BOOLEAN, locked : BOOLEAN,
   event : SUBSET Annotations]

AtMostOne(S) == \A x, y \in S : x = y

WriterTypes ==
  /\ doc \in SUBSET Contents /\ backup \in SUBSET Contents /\ temp \in SUBSET Contents
  /\ writer \in SUBSET WriterRecords /\ AtMostOne(writer)
  /\ task \in [Actors -> SUBSET TaskRecords] /\ \A p \in Actors : AtMostOne(task[p])
  /\ edited \in BOOLEAN
  /\ writer = {} => task["writer"] = {}

(* The journal ends with a lifecycle boundary. *)
Ended == file.records # <<>> /\ Last(file.records).kind = "lifecycle"

(* Behind a boundary no command has written yet, and what the writer has     *)
(* rendered since is the whole journal.                                      *)
BoundaryLast ==
  Ended =>
    /\ \A t \in task["command"] : t.pc = "append"
    /\ \A t \in task["writer"] : t.pc \in {"compare", "write", "publish", "verify"} => t.seen = Length

(* Unless the writer says that it failed, the document is complete when it   *)
(* rests and while it refreshes the index.                                   *)
Caught(w) ==
  /\ Idle("writer") => doc = {Length} /\ (w.dirty \/ indexed = doc)
  /\ \A t \in task["writer"] : t.pc = "index" => doc = {Length}

BoundaryCaught ==
  Ended /\ Last(file.records) \in acked /\ ~edited =>
    \A w \in writer : ~w.failed => Caught(w)

WriterInv == JournalInv /\ WriterTypes /\ BoundaryLast /\ BoundaryCaught

(* So do the writer and its documents.                                       *)
LEMMA WriterInitHolds == WriterInit => WriterInv
<1>1. WriterInit => JournalInv /\ BoundaryLast /\ BoundaryCaught
  BY JournalInitHolds DEF WriterInit, JournalInit, BoundaryLast, BoundaryCaught, Ended
<1>2. WriterInit => WriterTypes
  <2>1. WriterInit => task \in [Actors -> SUBSET TaskRecords] /\ \A p \in Actors : task[p] = {}
    BY DEF WriterInit
  <2>2. WriterInit => edited \in BOOLEAN
    BY DEF WriterInit
  <2> QED
    BY <2>1, <2>2 DEF WriterInit, WriterTypes, AtMostOne, Actors
<1> QED
  BY <1>1, <1>2 DEF WriterInv

(* The one task of an actor, and the one writer. *)
LEMMA TheTask ==
  ASSUME WriterTypes, NEW p \in Actors, task[p] # {}
  PROVE  task[p] = {Now(p)} /\ Now(p) \in TaskRecords
<1>1. PICK t \in task[p] : TRUE
  OBVIOUS
<1>2. task[p] = {t} /\ t \in TaskRecords
  BY <1>1 DEF WriterTypes, AtMostOne
<1>3. Now(p) = t
  BY <1>2 DEF Now
<1> QED
  BY <1>2, <1>3

(* There is one writer.                                                      *)
LEMMA TheWriter ==
  ASSUME WriterTypes, writer # {}
  PROVE  writer = {Writer} /\ Writer \in WriterRecords
<1>1. PICK w \in writer : TRUE
  OBVIOUS
<1>2. writer = {w} /\ w \in WriterRecords
  BY <1>1 DEF WriterTypes, AtMostOne
<1>3. Writer = w
  BY <1>2 DEF Writer
<1> QED
  BY <1>2, <1>3

(* The length of a journal that can be read is a number.                     *)
LEMMA LengthIsNat == JournalInv => Length \in Nat /\ Readable
<1>1. JournalInv => Length \in Nat
  BY DEF JournalInv, Length
<1>2. JournalInv => file.garbled = FALSE
  BY DEF JournalInv
<1> QED
  BY <1>1, <1>2 DEF Readable

(* Reading leaves bytes that were there, and a complete document alone.      *)
LEMMA ReadingFacts ==
  ASSUME JournalInv, WriterTypes
  PROVE  /\ Reading.found \in SUBSET Contents /\ Reading.doc \in SUBSET Contents
         /\ Reading.temp \in SUBSET Contents
         /\ doc = {Length} => Reading.found = doc /\ Reading.doc = doc
         /\ Reading.found = {Length} => Reading.doc = {Length}
<1>1. doc = {Length} => Verifies(doc)
  BY LengthIsNat, WriterAssumption DEF Verifies
<1>2. CASE Verifies(doc)
  <2>1. Reading = [found |-> doc, own |-> TRUE, doc |-> doc, temp |-> {}]
    BY <1>2 DEF Reading
  <2> QED
    BY <2>1 DEF WriterTypes
<1>3. CASE ~Verifies(doc) /\ Verifies(backup) /\ temp = {}
  <2>1. Reading = [found |-> backup, own |-> FALSE, doc |-> backup, temp |-> {}]
    BY <1>3 DEF Reading
  <2> QED
    BY <1>1, <1>3, <2>1 DEF WriterTypes
<1>4. CASE ~Verifies(doc) /\ ~(Verifies(backup) /\ temp = {})
  <2>1. Reading = [found |-> {}, own |-> FALSE, doc |-> doc, temp |-> temp]
    BY <1>4 DEF Reading
  <2> QED
    BY <1>1, <1>4, <2>1 DEF WriterTypes
<1> QED
  BY <1>2, <1>3, <1>4

(* A reading may restore the backup, and finds the document that is          *)
(* complete.                                                                 *)
LEMMA ReadsFacts ==
  ASSUME JournalInv, WriterTypes, Reads
  PROVE  /\ doc' \in SUBSET Contents /\ temp' \in SUBSET Contents /\ backup' = backup
         /\ doc = {Length} => doc' = doc
         /\ Reading.found = {Length} => doc' = {Length}
BY ReadingFacts DEF Reads

(* The journal is left alone: what is said about it stays true.              *)
LEMMA SameJournal ==
  ASSUME JournalInv, UNCHANGED journalVars
  PROVE  JournalInv' /\ Ended' = Ended /\ Length' = Length /\ acked' = acked
         /\ Last(file.records)' = Last(file.records)
BY DEF journalVars, JournalInv, Recorded, Ended, Length

(* A record that is not a boundary: nothing is claimed any more.             *)
LEMMA NotEnded ==
  ASSUME JournalInv, NEW e \in Events, e.kind # "lifecycle", file'.records = Append(file.records, e)
  PROVE  ~Ended'
<1>1. file.records \in Seq(Events)
  BY DEF JournalInv
<1>2. Last(Append(file.records, e)) = e
  BY <1>1 DEF Last
<1> QED
  BY <1>2 DEF Ended

(* An actor gets its next task, or none. *)
LEMMA NextTask ==
  ASSUME WriterTypes, NEW p \in Actors, NEW T \in SUBSET TaskRecords, AtMostOne(T),
         task' = [task EXCEPT ![p] = T]
  PROVE  /\ task' \in [Actors -> SUBSET TaskRecords]
         /\ \A q \in Actors : AtMostOne(task'[q])
         /\ \A q \in Actors : task'[q] = IF q = p THEN T ELSE task[q]
BY DEF WriterTypes

(* An actor that finishes leaves the other's work alone.                     *)
LEMMA NoTask ==
  ASSUME WriterTypes, NEW p \in Actors, Finish(p)
  PROVE  /\ task' \in [Actors -> SUBSET TaskRecords]
         /\ \A q \in Actors : AtMostOne(task'[q])
         /\ \A q \in Actors : task'[q] = IF q = p THEN {} ELSE task[q]
<1>1. AtMostOne({}) /\ {} \in SUBSET TaskRecords
  BY DEF AtMostOne
<1> QED
  BY <1>1, NextTask DEF Finish

(* The types, from those of what a step gives its value to. *)
LEMMA TypesHold ==
  ASSUME WriterTypes, doc' \in SUBSET Contents, backup' \in SUBSET Contents, temp' \in SUBSET Contents,
         NEW W \in SUBSET WriterRecords, AtMostOne(W), writer' = W,
         task' \in [Actors -> SUBSET TaskRecords], \A q \in Actors : AtMostOne(task'[q]),
         W = {} => task'["writer"] = {},
         edited' = edited
  PROVE  WriterTypes'
<1>1. edited' \in BOOLEAN
  BY DEF WriterTypes
<1> QED
  BY <1>1 DEF WriterTypes

(* A step of materialize goes on to the next, by either actor. *)
LEMMA GoesOn ==
  ASSUME WriterInv, NEW p \in Actors, task[p] # {}, p = "command" => Now("command").pc # "append",
         UNCHANGED <<journalVars, edited>>,
         doc' \in SUBSET Contents, backup' \in SUBSET Contents, temp' \in SUBSET Contents,
         NEW x \in TaskRecords, task' = [task EXCEPT ![p] = {x}],
         writer' \in SUBSET WriterRecords, AtMostOne(writer'), writer # {} => writer' # {},
         Ended /\ x.pc \in {"compare", "write", "publish", "verify"} => x.seen = Length,
         Ended /\ x.pc = "index" => doc' = {Length}
  PROVE  WriterInv'
<1>1. /\ task' \in [Actors -> SUBSET TaskRecords] /\ \A q \in Actors : AtMostOne(task'[q])
      /\ \A q \in Actors : task'[q] = IF q = p THEN {x} ELSE task[q]
  <2>1. {x} \in SUBSET TaskRecords /\ AtMostOne({x})
    BY DEF AtMostOne
  <2> QED
    BY <2>1, NextTask DEF WriterInv
<1>2. JournalInv' /\ Ended' = Ended /\ Length' = Length
  BY SameJournal DEF WriterInv
<1>3. WriterTypes'
  BY <1>1 DEF WriterInv, WriterTypes, Actors
<1>4. p = "command" => ~Ended
  BY TheTask DEF WriterInv, BoundaryLast
<1>5. BoundaryLast'
  BY <1>1, <1>2, <1>4 DEF WriterInv, BoundaryLast, Actors
<1>6. BoundaryCaught'
  BY <1>1, <1>2, <1>4 DEF BoundaryCaught, Caught, Idle, Actors
<1> QED
  BY <1>2, <1>3, <1>5, <1>6 DEF WriterInv

(* An error of materialize: the writer says so. *)
LEMMA GivesUp ==
  ASSUME WriterInv, NEW p \in Actors, task[p] # {}, p = "command" => Now("command").pc # "append",
         UNCHANGED <<journalVars, edited>>,
         doc' \in SUBSET Contents, backup' \in SUBSET Contents, temp' \in SUBSET Contents,
         GiveUp(p)
  PROVE  WriterInv'
<1>1. /\ task' \in [Actors -> SUBSET TaskRecords] /\ \A q \in Actors : AtMostOne(task'[q])
      /\ \A q \in Actors : task'[q] = IF q = p THEN {} ELSE task[q]
  BY NextTask DEF WriterInv, AtMostOne, GiveUp, Finish
<1>2. JournalInv' /\ Ended' = Ended /\ Length' = Length
  BY SameJournal DEF WriterInv
<1>3. p = "writer" => /\ writer' \in SUBSET WriterRecords /\ AtMostOne(writer') /\ writer' # {}
                      /\ \A w \in writer' : w.failed
  <2>1. ASSUME p = "writer" PROVE Writer \in WriterRecords
    BY <2>1, TheWriter DEF WriterInv, WriterTypes
  <2>2. ASSUME NEW r \in WriterRecords
        PROVE  [r EXCEPT !.failed = TRUE] \in WriterRecords /\ [r EXCEPT !.failed = TRUE].failed
    BY DEF WriterRecords
  <2> QED
    BY <2>1, <2>2 DEF GiveUp, AtMostOne
<1>4. p = "command" => writer' = writer
  BY DEF GiveUp
<1>5. WriterTypes'
  BY <1>1, <1>3, <1>4 DEF WriterInv, WriterTypes, Actors
<1>6. p = "command" => ~Ended
  BY TheTask DEF WriterInv, BoundaryLast
<1>7. BoundaryLast'
  BY <1>1, <1>2, <1>6 DEF WriterInv, BoundaryLast, Actors
<1>8. BoundaryCaught'
  BY <1>2, <1>3, <1>6 DEF BoundaryCaught, Actors
<1> QED
  BY <1>2, <1>5, <1>7, <1>8 DEF WriterInv

(* Each step of materialize, by the writer or by a command.                  *)
LEMMA MaterializeStep ==
  ASSUME WriterInv, NEW p \in Actors, Materialize(p)
  PROVE  WriterInv'
<1>0. /\ task[p] # {} /\ Now(p) \in TaskRecords /\ UNCHANGED <<journalVars, edited>>
      /\ Now(p).pc \in {"render", "compare", "write", "publish", "verify", "adopt"}
      /\ \A pc : At(p, pc) => Now(p).pc = pc
  <2>1. task[p] # {} /\ UNCHANGED <<journalVars, edited>>
    BY DEF Materialize, Render, Compare, WriteTemp, Publish, Verify, Adopt, At
  <2>2. task[p] = {Now(p)} /\ Now(p) \in TaskRecords
    BY <2>1, TheTask DEF WriterInv
  <2> QED
    BY <2>1, <2>2 DEF Materialize, Render, Compare, WriteTemp, Publish, Verify, Adopt, At
<1>1. p = "command" => Now("command").pc # "append"
  BY <1>0
<1>2. doc \in SUBSET Contents /\ backup \in SUBSET Contents /\ temp \in SUBSET Contents
      /\ writer \in SUBSET WriterRecords /\ AtMostOne(writer)
  BY DEF WriterInv, WriterTypes
<1>3. p = "writer" => Writer \in WriterRecords
  BY <1>0, TheWriter DEF WriterInv, WriterTypes
<1>4. Length \in Nat
  BY LengthIsNat DEF WriterInv
<1>5. Ended /\ Now(p).pc \in {"compare", "write", "publish", "verify"} => Now(p).seen = Length
  <2>1. task[p] = {Now(p)}
    BY <1>0, TheTask DEF WriterInv
  <2> QED
    BY <1>1, <2>1 DEF WriterInv, BoundaryLast, Actors
<1>6. ASSUME NEW pc \in {"write", "publish", "verify", "adopt", "answer"}, Goto(p, pc),
             Ended /\ pc \in {"write", "publish", "verify"} => Now(p).seen = Length,
             doc' \in SUBSET Contents, backup' \in SUBSET Contents, temp' \in SUBSET Contents,
             UNCHANGED writer
      PROVE  WriterInv'
  <2>1. [Now(p) EXCEPT !.pc = pc] \in TaskRecords
    BY <1>0 DEF TaskRecords
  <2>2. PICK x \in TaskRecords : x = [Now(p) EXCEPT !.pc = pc]
    BY <2>1
  <2>3. x.pc = pc /\ x.seen = Now(p).seen /\ task' = [task EXCEPT ![p] = {x}]
    BY <1>0, <1>6, <2>2 DEF TaskRecords, Goto
  <2> QED
    BY <1>0, <1>1, <1>2, <1>6, <2>3, GoesOn
<1>7. ASSUME doc' \in SUBSET Contents, backup' \in SUBSET Contents, temp' \in SUBSET Contents, GiveUp(p)
      PROVE  WriterInv'
  BY <1>0, <1>1, <1>7, GivesUp
<1>8. CASE Render(p)
  <2>1. [Now(p) EXCEPT !.pc = "compare", !.seen = Length] \in TaskRecords
    BY <1>0, <1>4 DEF TaskRecords
  <2>2. PICK x \in TaskRecords : x = [Now(p) EXCEPT !.pc = "compare", !.seen = Length]
    BY <2>1
  <2>3. x.pc = "compare" /\ x.seen = Length /\ task' = [task EXCEPT ![p] = {x}]
    BY <1>0, <1>8, <2>2 DEF TaskRecords, Render
  <2>4. UNCHANGED <<doc, backup, temp, writer>>
    BY <1>8 DEF Render, fileVars
  <2> QED
    BY <1>0, <1>1, <1>2, <2>3, <2>4, GoesOn
<1>9. CASE Compare(p)
  <2>0. Now(p).pc = "compare"
    BY <1>0, <1>9 DEF Compare
  <2>1. UNCHANGED <<doc, backup, temp>>
    BY <1>9 DEF Compare, fileVars
  <2>2. \/ GiveUp(p)
        \/ Goto(p, "write") /\ UNCHANGED writer
        \/ Goto(p, "adopt") /\ UNCHANGED writer
    BY <1>9 DEF Compare, Conflict
  <2> QED
    BY <1>2, <1>5, <1>6, <1>7, <2>0, <2>1, <2>2
<1>10. CASE WriteTemp(p)
  <2>0. Now(p).pc = "write"
    BY <1>0, <1>10 DEF WriteTemp
  <2>1. /\ UNCHANGED <<doc, backup>>
        /\ \/ temp' = {Now(p).seen} /\ Goto(p, "publish") /\ UNCHANGED writer
           \/ temp' = {} /\ GiveUp(p)
    BY <1>10 DEF WriteTemp
  <2>2. temp' \in SUBSET Contents
    BY <1>0, <2>1 DEF TaskRecords, Contents
  <2> QED
    BY <1>2, <1>5, <1>6, <1>7, <2>0, <2>1, <2>2
<1>11. CASE Publish(p)
  <2>0. Now(p).pc = "publish"
    BY <1>0, <1>11 DEF Publish
  <2>1. /\ doc' \in {doc, temp} /\ backup' \in {backup, doc, {}} /\ temp' = {}
        /\ (Goto(p, "verify") /\ UNCHANGED writer) \/ GiveUp(p)
    BY <1>11 DEF Publish
  <2> QED
    BY <2>0, <1>2, <1>5, <1>6, <1>7, <2>1
<1>12. CASE Verify(p)
  <2>0. Now(p).pc = "verify"
    BY <1>0, <1>12 DEF Verify
  <2>1. /\ backup' = backup
        /\ \/ /\ doc = {Now(p).seen} /\ UNCHANGED <<doc, temp>>
              /\ IF p = "writer"
                 THEN /\ writer' = {[Writer EXCEPT !.print = doc, !.pending = 0, !.age = {}, !.dirty = TRUE,
                                                   !.failed = FALSE, !.taken = {}]}
                      /\ Goto(p, "index")
                 ELSE writer' = writer /\ Goto(p, "answer")
           \/ doc' \in {doc, backup} /\ temp' = {} /\ GiveUp(p)
    BY <1>12 DEF Verify, RolledBack
  <2>2. CASE GiveUp(p) /\ doc' \in {doc, backup} /\ temp' = {}
    BY <1>2, <1>7, <2>1, <2>2
  <2>3. CASE p # "writer" /\ writer' = writer /\ Goto(p, "answer") /\ UNCHANGED <<doc, temp>>
    BY <1>2, <1>6, <2>1, <2>3
  <2>4. ASSUME p = "writer", doc = {Now(p).seen}, UNCHANGED <<doc, temp>>, Goto(p, "index"),
               writer' = {[Writer EXCEPT !.print = doc, !.pending = 0, !.age = {}, !.dirty = TRUE,
                                         !.failed = FALSE, !.taken = {}]}
        PROVE  WriterInv'
    <3>1. [Now(p) EXCEPT !.pc = "index"] \in TaskRecords
      BY <1>0 DEF TaskRecords
    <3>2. PICK x \in TaskRecords : x = [Now(p) EXCEPT !.pc = "index"]
      BY <3>1
    <3>3. x.pc = "index" /\ task' = [task EXCEPT ![p] = {x}]
      BY <1>0, <2>4, <3>2 DEF TaskRecords, Goto
    <3>4. [Writer EXCEPT !.print = doc, !.pending = 0, !.age = {}, !.dirty = TRUE,
                         !.failed = FALSE, !.taken = {}] \in WriterRecords
      BY <1>2, <1>3, <2>4 DEF WriterRecords
    <3>5. writer' \in SUBSET WriterRecords /\ AtMostOne(writer') /\ writer' # {}
      BY <2>4, <3>4 DEF AtMostOne
    <3>6. Ended => doc' = {Length}
      BY <1>5, <2>0, <2>1, <2>4
    <3> QED
      BY <1>0, <1>1, <1>2, <2>1, <2>4, <3>3, <3>5, <3>6, GoesOn
  <2> QED
    BY <2>1, <2>2, <2>3, <2>4
<1>13. CASE Adopt(p)
  <2>1. doc' \in SUBSET Contents /\ temp' \in SUBSET Contents /\ backup' = backup
        /\ Reading.found \in SUBSET Contents
    BY <1>13, ReadsFacts, ReadingFacts DEF Adopt, WriterInv
  <2>2. \/ /\ task' = [task EXCEPT ![p] = {[Now(p) EXCEPT !.pc = "render", !.retried = TRUE,
                                                         !.expects = Reading.found]}]
           /\ writer' = IF p = "writer" THEN {[Writer EXCEPT !.print = Reading.found]} ELSE writer
        \/ GiveUp(p)
    BY <1>13 DEF Adopt
  <2>3. ASSUME task' = [task EXCEPT ![p] = {[Now(p) EXCEPT !.pc = "render", !.retried = TRUE,
                                                           !.expects = Reading.found]}],
               writer' = IF p = "writer" THEN {[Writer EXCEPT !.print = Reading.found]} ELSE writer
        PROVE  WriterInv'
    <3>1. PICK found \in SUBSET Contents : found = Reading.found
      BY <2>1
    <3>2. [Now(p) EXCEPT !.pc = "render", !.retried = TRUE, !.expects = found] \in TaskRecords
      BY <1>0 DEF TaskRecords
    <3>3. PICK x \in TaskRecords : x = [Now(p) EXCEPT !.pc = "render", !.retried = TRUE, !.expects = found]
      BY <3>2
    <3>4. x.pc = "render" /\ task' = [task EXCEPT ![p] = {x}]
      BY <1>0, <2>3, <3>1, <3>3 DEF TaskRecords
    <3>5. ASSUME p = "writer" PROVE [Writer EXCEPT !.print = found] \in WriterRecords
      BY <1>3, <3>5 DEF WriterRecords
    <3>6. writer' \in SUBSET WriterRecords /\ AtMostOne(writer') /\ (writer # {} => writer' # {})
      BY <1>2, <2>3, <3>1, <3>5 DEF AtMostOne
    <3> QED
      BY <1>0, <1>1, <1>2, <2>1, <3>4, <3>6, GoesOn
  <2> QED
    BY <1>2, <1>7, <2>1, <2>2, <2>3
<1> QED
  BY <1>8, <1>9, <1>10, <1>11, <1>12, <1>13 DEF Materialize

(* The index is rebuilt from the document that was published.                *)
LEMMA RefreshIndexStep ==
  ASSUME WriterInv, RefreshIndex
  PROVE  WriterInv'
<1>1. /\ task["writer"] # {} /\ task["writer"] = {Now("writer")} /\ Now("writer").pc = "index"
      /\ writer = {Writer} /\ Writer \in WriterRecords
  <2>1. task["writer"] # {} /\ writer # {}
    BY DEF RefreshIndex, At, WriterInv, WriterTypes
  <2>2. task["writer"] = {Now("writer")} /\ writer = {Writer} /\ Writer \in WriterRecords
    BY <2>1, TheTask, TheWriter DEF WriterInv, Actors
  <2> QED
    BY <2>1, <2>2 DEF RefreshIndex, At
<1>2. JournalInv' /\ Ended' = Ended /\ Length' = Length /\ acked' = acked /\ edited' = edited
      /\ Last(file.records)' = Last(file.records)
  BY SameJournal DEF RefreshIndex, WriterInv
<1>3. /\ doc' \in SUBSET Contents /\ temp' \in SUBSET Contents /\ backup' = backup
      /\ doc = {Length} => doc' = doc /\ Reading.found = doc
  BY ReadsFacts, ReadingFacts DEF RefreshIndex, WriterInv
<1>4. /\ task' \in [Actors -> SUBSET TaskRecords] /\ \A q \in Actors : AtMostOne(task'[q])
      /\ task'["writer"] = {} /\ task'["command"] = task["command"]
  BY NoTask DEF WriterInv, RefreshIndex, Actors
<1>5. PICK w \in WriterRecords : w = Writer
  BY <1>1
<1>6. \/ indexed' = Reading.found /\ writer' = {[w EXCEPT !.dirty = FALSE]}
      \/ writer' = {[w EXCEPT !.dirty = TRUE]}
  BY <1>5 DEF RefreshIndex
<1>7. PICK v \in WriterRecords :
        writer' = {v} /\ (v.failed <=> w.failed) /\ (v.dirty \/ indexed' = Reading.found)
  <2>1. [w EXCEPT !.dirty = FALSE] \in WriterRecords /\ ([w EXCEPT !.dirty = FALSE].failed <=> w.failed)
    BY DEF WriterRecords
  <2>2. [w EXCEPT !.dirty = TRUE] \in WriterRecords /\ ([w EXCEPT !.dirty = TRUE].failed <=> w.failed)
        /\ [w EXCEPT !.dirty = TRUE].dirty
    BY DEF WriterRecords
  <2> QED
    BY <1>6, <2>1, <2>2
<1>8. WriterTypes'
  <2>0. {v} \in SUBSET WriterRecords /\ AtMostOne({v})
    BY DEF AtMostOne
  <2>1. PICK W \in SUBSET WriterRecords : W = {v} /\ AtMostOne(W)
    BY <2>0
  <2>2. WriterTypes /\ backup' \in SUBSET Contents
    BY <1>3 DEF WriterInv, WriterTypes
  <2>3. writer' = W /\ W # {} /\ edited' = edited
    BY <1>2, <1>7, <2>1
  <2> QED
    BY <1>3, <1>4, <2>1, <2>2, <2>3, TypesHold
<1>9. BoundaryLast'
  BY <1>2, <1>4 DEF WriterInv, BoundaryLast
<1>10. BoundaryCaught'
  <2>1. ASSUME Ended, Last(file.records) \in acked, ~edited, ~v.failed
        PROVE  doc' = {Length} /\ (v.dirty \/ indexed' = doc')
    <3>1. ~w.failed /\ w \in writer
      BY <1>1, <1>5, <1>7, <2>1
    <3>2. Caught(w)
      BY <2>1, <3>1 DEF WriterInv, BoundaryCaught
    <3>3. doc = {Length}
      BY <1>1, <3>2 DEF Caught
    <3> QED
      BY <1>3, <1>7, <3>3
  <2>2. ASSUME Ended, Last(file.records) \in acked, ~edited, ~v.failed PROVE Caught(v)'
    BY <1>2, <1>4, <2>1, <2>2 DEF Caught
  <2> QED
    BY <1>2, <1>7, <2>2, Zenon DEF BoundaryCaught
<1> QED
  BY <1>2, <1>8, <1>9, <1>10 DEF WriterInv

(* What the writer may begin with. *)
LEMMA FlushTypes ==
  ASSUME NEW expects \in SUBSET Contents, NEW locked \in BOOLEAN
  PROVE  /\ Flush(expects, locked) \in SUBSET TaskRecords /\ AtMostOne(Flush(expects, locked))
         /\ Flush(expects, locked) # {} /\ \A t \in Flush(expects, locked) : t.pc = "render"
         /\ Refresh(locked) \in SUBSET TaskRecords /\ AtMostOne(Refresh(locked))
         /\ Refresh(locked) # {} /\ \A t \in Refresh(locked) : t.pc = "index"
BY DEF Flush, Refresh, TaskRecords, AtMostOne

(* Opening the writer.                                                       *)
LEMMA OpenStep ==
  ASSUME WriterInv, Open
  PROVE  WriterInv'
<1>1. JournalInv' /\ Ended' = Ended /\ Length' = Length /\ edited' = edited
  BY SameJournal DEF Open, WriterInv
<1>2. /\ doc' \in SUBSET Contents /\ temp' \in SUBSET Contents /\ backup' = backup
      /\ Reading.found = {Length} => doc' = {Length}
      /\ Reading.found \in SUBSET Contents
  BY ReadsFacts, ReadingFacts DEF Open, WriterInv
<1>3. PICK T \in SUBSET TaskRecords :
        /\ task' = [task EXCEPT !["writer"] = T] /\ AtMostOne(T) /\ T # {}
        /\ \A t \in T : t.pc = "render" \/ (t.pc = "index" /\ Reading.found = {Length})
  <2>1. CASE Reading.found = {Length}
    <3>1. task' = [task EXCEPT !["writer"] = Refresh(TRUE)]
      BY <2>1 DEF Open
    <3> QED
      BY <1>2, <2>1, <3>1, FlushTypes
  <2>2. CASE Reading.found # {Length}
    <3>1. task' = [task EXCEPT !["writer"] = Flush(Reading.found, TRUE)]
      BY <2>2 DEF Open
    <3> QED
      BY <1>2, <3>1, FlushTypes
  <2> QED
    BY <2>1, <2>2
<1>4. /\ task' \in [Actors -> SUBSET TaskRecords] /\ \A q \in Actors : AtMostOne(task'[q])
      /\ task'["writer"] = T /\ task'["command"] = {}
  BY <1>3, NextTask DEF WriterInv, Open, Idle, Actors
<1>5. writer' \in SUBSET WriterRecords /\ AtMostOne(writer') /\ writer' # {}
  BY <1>2 DEF Open, WriterRecords, AtMostOne
<1>6. WriterTypes'
  BY <1>1, <1>2, <1>4, <1>5 DEF WriterInv, WriterTypes
<1>7. BoundaryLast' /\ BoundaryCaught'
  BY <1>1, <1>2, <1>3, <1>4 DEF BoundaryLast, BoundaryCaught, Caught, Idle
<1> QED
  BY <1>1, <1>6, <1>7 DEF WriterInv

(* What is left as it was by an append that wrote nothing, or only answered. *)
LEMMA SameRecords ==
  ASSUME WriterInv, JournalInv', file'.records = file.records,
         UNCHANGED <<fileVars, indexed, edited, writer, task>>,
         Ended /\ Last(file.records) \in acked' => Last(file.records) \in acked
  PROVE  WriterInv'
<1>1. Ended' = Ended /\ Length' = Length /\ Last(file.records)' = Last(file.records)
  BY DEF Ended, Length
<1>2. WriterTypes'
  BY DEF WriterInv, WriterTypes, fileVars
<1>3. BoundaryLast' /\ BoundaryCaught'
  BY <1>1 DEF WriterInv, BoundaryLast, BoundaryCaught, Caught, Idle, fileVars
<1> QED
  BY <1>2, <1>3 DEF WriterInv

(* The writer takes a final, and flushes when a snapshot is due.             *)
LEMMA AppendFinalStep ==
  ASSUME WriterInv, NEW e \in Events, AppendFinal(e)
  PROVE  WriterInv'
<1>1. /\ writer = {Writer} /\ Writer \in WriterRecords /\ task["writer"] = {} /\ e.kind = "final"
      /\ UNCHANGED <<doc, backup, temp, indexed, edited>>
  BY TheWriter DEF WriterInv, AppendFinal, Idle, fileVars
<1>2. JournalInv'
  <2>1. AnswerAgain(e) \/ \E o \in Outcomes : Record(e, o)
    BY DEF AppendFinal, Outcomes
  <2> QED
    BY <2>1, LogStep DEF WriterInv
<1>3. WithFinal(Writer, e) \in WriterRecords
  <2>1. PICK w \in WriterRecords : w = Writer
    BY <1>1
  <2>2. (IF w.pending < Batch THEN w.pending + 1 ELSE w.pending) \in Nat
        /\ (IF w.age = {} THEN {0} ELSE w.age) \in SUBSET Nat
        /\ w.taken \cup {e} \in SUBSET Events
    BY DEF WriterRecords
  <2> QED
    BY <2>1, <2>2 DEF WithFinal, WriterRecords
<1>4. ASSUME NEW w \in WriterRecords, NEW due, FlushIf(due, w, FALSE)
      PROVE  /\ writer' = {w}
             /\ task' \in [Actors -> SUBSET TaskRecords] /\ \A q \in Actors : AtMostOne(task'[q])
             /\ \/ task' = task
                \/ task'["writer"] # {} /\ \A t \in task'["writer"] : t.pc = "render"
             /\ task'["command"] = task["command"]
  <2>1. w.print \in SUBSET Contents
    BY DEF WriterRecords
  <2>2. CASE task' = [task EXCEPT !["writer"] = Flush(w.print, FALSE)]
    <3>1. PICK T \in SUBSET TaskRecords :
            /\ T = Flush(w.print, FALSE) /\ AtMostOne(T) /\ T # {}
            /\ \A t \in T : t.pc = "render"
      BY <2>1, FlushTypes
    <3>2. WriterTypes /\ "writer" \in Actors /\ "command" \in Actors /\ writer' = {w}
      BY <1>4 DEF WriterInv, Actors, FlushIf
    <3>3. /\ task' \in [Actors -> SUBSET TaskRecords]
          /\ \A q \in Actors : AtMostOne(task'[q])
          /\ task'["writer"] = T /\ task'["command"] = task["command"]
      BY <2>2, <3>1, <3>2, NextTask
    <3> QED
      BY <3>1, <3>2, <3>3
  <2>3. CASE task' = task
    BY <1>4, <2>3 DEF FlushIf, WriterInv, WriterTypes
  <2> QED
    BY <1>4, <2>2, <2>3 DEF FlushIf
<1>5. CASE AnswerAgain(e) /\ FlushIf(Due(Writer), Writer, FALSE)
  <2>1. /\ file'.records = file.records /\ acked' = acked \cup {e}
        /\ Ended' = Ended /\ Length' = Length /\ Last(file.records)' = Last(file.records)
    BY <1>5, AnswerFacts DEF WriterInv, Ended, Length
  <2>2. Ended /\ Last(file.records) \in acked' => Last(file.records) \in acked
    BY <1>1, <2>1 DEF Ended
  <2>3. WriterTypes'
    <3>1. {Writer} \in SUBSET WriterRecords /\ AtMostOne({Writer})
      BY <1>1 DEF AtMostOne
    <3>2. WriterTypes /\ doc' \in SUBSET Contents /\ backup' \in SUBSET Contents /\ temp' \in SUBSET Contents
      BY <1>1 DEF WriterInv, WriterTypes
    <3> QED
      BY <1>1, <1>4, <1>5, <3>1, <3>2, TypesHold
  <2>4. BoundaryLast'
    BY <1>1, <1>4, <1>5, <2>1 DEF WriterInv, BoundaryLast
  <2>5. BoundaryCaught'
    <3>1. CASE task' = task
      BY <1>1, <1>4, <1>5, <2>1, <2>2, <3>1 DEF WriterInv, BoundaryCaught, Caught, Idle
    <3>2. CASE task'["writer"] # {} /\ \A t \in task'["writer"] : t.pc = "render"
      BY <3>2 DEF BoundaryCaught, Caught, Idle
    <3> QED
      BY <1>1, <1>4, <1>5, <3>1, <3>2
  <2> QED
    BY <1>2, <2>3, <2>4, <2>5 DEF WriterInv
<1>6. CASE Record(e, "ok") /\ FlushIf(Due(WithFinal(Writer, e)), WithFinal(Writer, e), FALSE)
  <2>1. ~Ended'
    BY <1>1, <1>6, AppendFacts, NotEnded DEF WriterInv, Outcomes
  <2>2. WriterTypes'
    <3> DEFINE w == WithFinal(Writer, e)
    <3>1. {w} \in SUBSET WriterRecords /\ AtMostOne({w})
      BY <1>3 DEF AtMostOne
    <3>2. WriterTypes /\ doc' \in SUBSET Contents /\ backup' \in SUBSET Contents /\ temp' \in SUBSET Contents
      BY <1>1 DEF WriterInv, WriterTypes
    <3> HIDE DEF w
    <3> QED
      BY <1>1, <1>3, <1>4, <1>6, <3>1, <3>2, TypesHold DEF w
  <2> QED
    BY <1>2, <2>1, <2>2 DEF WriterInv, BoundaryLast, BoundaryCaught
<1>7. ASSUME NEW o \in Outcomes \ {"ok"}, Record(e, o), UNCHANGED <<writer, task>>
      PROVE  WriterInv'
  <2>1. acked' = acked
    BY <1>7, AppendFacts DEF WriterInv
  <2>2. CASE o = "late"
    <3>1. ~Ended'
      BY <1>1, <1>7, <2>2, AppendFacts, NotEnded DEF WriterInv
    <3>2. WriterTypes'
      BY <1>1, <1>7 DEF WriterInv, WriterTypes
    <3> QED
      BY <1>2, <3>1, <3>2 DEF WriterInv, BoundaryLast, BoundaryCaught
  <2>3. CASE o \in {"torn", "lost"}
    <3>1. file'.records = file.records
      BY <1>7, <2>3, AppendFacts DEF WriterInv
    <3> QED
      BY <1>1, <1>2, <1>7, <2>1, <3>1, SameRecords DEF fileVars
  <2> QED
    BY <2>2, <2>3 DEF Outcomes
<1> QED
  BY <1>5, <1>6, <1>7 DEF AppendFinal

(* A lifecycle boundary finds both actors at rest, and always flushes.       *)
LEMMA AppendBoundaryStep ==
  ASSUME WriterInv, NEW e \in Events, AppendBoundary(e)
  PROVE  WriterInv'
<1>1. /\ writer = {Writer} /\ Writer \in WriterRecords
      /\ task["writer"] = {} /\ task["command"] = {}
      /\ UNCHANGED <<doc, backup, temp, indexed, edited>>
  BY TheWriter DEF WriterInv, AppendBoundary, Idle, fileVars
<1>2. JournalInv'
  <2>1. AnswerAgain(e) \/ \E o \in Outcomes : Record(e, o)
    BY DEF AppendBoundary, Outcomes
  <2> QED
    BY <2>1, LogStep DEF WriterInv
<1>3. CASE Record(e, "ok") /\ FlushIf(TRUE, Writer, TRUE)
  <2>1. Writer.print \in SUBSET Contents
    BY <1>1 DEF WriterRecords
  <2>2. PICK T \in SUBSET TaskRecords :
          T = Flush(Writer.print, TRUE) /\ AtMostOne(T) /\ T # {} /\ \A t \in T : t.pc = "render"
    BY <2>1, FlushTypes
  <2>3. WriterTypes /\ "writer" \in Actors /\ writer' = {Writer}
        /\ task' = [task EXCEPT !["writer"] = T]
    BY <1>3, <2>2 DEF WriterInv, Actors, FlushIf
  <2>4. /\ task' \in [Actors -> SUBSET TaskRecords] /\ \A q \in Actors : AtMostOne(task'[q])
        /\ task'["writer"] = T /\ task'["command"] = {}
    BY <1>1, <2>2, <2>3, NextTask DEF Actors
  <2>5. WriterTypes'
    BY <1>1, <2>3, <2>4 DEF WriterTypes
  <2>6. BoundaryLast' /\ BoundaryCaught'
    BY <2>2, <2>4 DEF BoundaryLast, BoundaryCaught, Caught, Idle
  <2> QED
    BY <1>2, <2>5, <2>6 DEF WriterInv
<1>4. ASSUME NEW o \in Outcomes \ {"ok"}, Record(e, o), UNCHANGED <<writer, task>>
      PROVE  WriterInv'
  <2>1. acked' = acked /\ ~Recorded(e)
    BY <1>4, AppendFacts DEF WriterInv
  <2>2. CASE o = "late"
    <3>1. file.records \in Seq(Events) /\ file'.records = Append(file.records, e)
      BY <1>4, <2>2, AppendFacts DEF WriterInv, JournalInv
    <3>2. Last(file.records)' = e
      BY <3>1 DEF Last
    <3>3. e \notin acked'
      BY <2>1 DEF WriterInv, JournalInv
    <3>4. WriterTypes' /\ BoundaryLast'
      BY <1>1, <1>4 DEF WriterInv, WriterTypes, BoundaryLast
    <3> QED
      BY <1>2, <3>2, <3>3, <3>4 DEF WriterInv, BoundaryCaught
  <2>3. CASE o \in {"torn", "lost"}
    <3>1. file'.records = file.records
      BY <1>4, <2>3, AppendFacts DEF WriterInv
    <3> QED
      BY <1>1, <1>2, <1>4, <2>1, <3>1, SameRecords DEF fileVars
  <2> QED
    BY <2>2, <2>3 DEF Outcomes
<1> QED
  BY <1>3, <1>4 DEF AppendBoundary

(* The pump flushes what is due, or refreshes an index that lags behind a    *)
(* complete document.                                                        *)
LEMMA PollStep ==
  ASSUME WriterInv, Poll
  PROVE  WriterInv'
<1>1. /\ writer = {Writer} /\ Writer \in WriterRecords /\ task["writer"] = {}
      /\ UNCHANGED <<doc, backup, temp, indexed, edited, writer>>
  BY TheWriter DEF WriterInv, Poll, Idle, fileVars
<1>2. JournalInv' /\ Ended' = Ended /\ Length' = Length /\ acked' = acked
      /\ Last(file.records)' = Last(file.records)
  BY SameJournal DEF WriterInv, Poll
<1>3. PICK T \in SUBSET TaskRecords :
        /\ task' = [task EXCEPT !["writer"] = T] /\ AtMostOne(T) /\ T # {}
        /\ \A t \in T : t.pc \in {"render", "index"}
  <2>1. PICK expects \in SUBSET Contents : expects = Writer.print
    BY <1>1 DEF WriterRecords
  <2>2. \/ task' = [task EXCEPT !["writer"] = Flush(expects, FALSE)]
        \/ task' = [task EXCEPT !["writer"] = Refresh(FALSE)]
    BY <2>1 DEF Poll
  <2> QED
    BY <2>2, FlushTypes
<1>4. /\ task' \in [Actors -> SUBSET TaskRecords] /\ \A q \in Actors : AtMostOne(task'[q])
      /\ task'["writer"] = T /\ task'["command"] = task["command"]
  BY <1>3, NextTask DEF WriterInv, Actors
<1>5. WriterTypes'
  BY <1>1, <1>4 DEF WriterInv, WriterTypes
<1>6. BoundaryLast'
  BY <1>2, <1>3, <1>4 DEF WriterInv, BoundaryLast
<1>7. BoundaryCaught'
  <2>1. ASSUME Ended, Last(file.records) \in acked, ~edited, NEW w \in writer, ~w.failed
        PROVE  doc = {Length}
    BY <1>1, <2>1 DEF WriterInv, BoundaryCaught, Caught, Idle
  <2> QED
    BY <1>1, <1>2, <1>3, <1>4, <2>1 DEF BoundaryCaught, Caught, Idle
<1> QED
  BY <1>2, <1>5, <1>6, <1>7 DEF WriterInv

(* The interval of the writer.                                               *)
LEMMA TickStep ==
  ASSUME WriterInv, Tick
  PROVE  WriterInv'
<1>1. PICK w \in writer : \E n \in w.age : n < Interval /\ writer' = {[w EXCEPT !.age = {n + 1}]}
  BY DEF Tick
<1>2. PICK n \in w.age : writer' = {[w EXCEPT !.age = {n + 1}]}
  BY <1>1
<1>3. writer = {w} /\ w \in WriterRecords /\ n \in Nat
  BY <1>2 DEF WriterInv, WriterTypes, AtMostOne, WriterRecords
<1>4. {n + 1} \in SUBSET Nat
  BY <1>3
<1>5. PICK v \in WriterRecords :
        writer' = {v} /\ (v.failed <=> w.failed) /\ (v.dirty <=> w.dirty)
  <2>1. /\ [w EXCEPT !.age = {n + 1}] \in WriterRecords
        /\ [w EXCEPT !.age = {n + 1}].failed <=> w.failed
        /\ [w EXCEPT !.age = {n + 1}].dirty <=> w.dirty
    BY <1>3, <1>4 DEF WriterRecords
  <2> QED
    BY <1>2, <2>1
<1>6. JournalInv' /\ Ended' = Ended /\ Length' = Length /\ acked' = acked
      /\ Last(file.records)' = Last(file.records)
  BY SameJournal DEF WriterInv, Tick
<1>7. UNCHANGED <<doc, backup, temp, indexed, edited, task>>
  BY DEF Tick, fileVars
<1>8. writer' \in SUBSET WriterRecords /\ AtMostOne(writer') /\ writer' # {}
  BY <1>5 DEF AtMostOne
<1>9. WriterTypes' /\ BoundaryLast'
  BY <1>6, <1>7, <1>8 DEF WriterInv, WriterTypes, BoundaryLast
<1>10. BoundaryCaught'
  <2>1. Ended /\ Last(file.records) \in acked /\ ~edited /\ ~v.failed =>
          /\ task["writer"] = {} => doc = {Length} /\ (v.dirty \/ indexed = doc)
          /\ \A t \in task["writer"] : t.pc = "index" => doc = {Length}
    BY <1>3, <1>5 DEF WriterInv, BoundaryCaught, Caught, Idle
  <2> QED
    BY <1>5, <1>6, <1>7, <2>1 DEF BoundaryCaught, Caught, Idle
<1> QED
  BY <1>6, <1>9, <1>10 DEF WriterInv

(* Without a writer nothing is promised: the run ended, or the process did.  *)
LEMMA NoWriter ==
  ASSUME WriterInv, writer' = {}, UNCHANGED <<journalVars, fileVars, edited>>,
         task'["writer"] = {}, task'["command"] \in {task["command"], {}},
         task' \in [Actors -> SUBSET TaskRecords]
  PROVE  WriterInv'
<1>1. JournalInv' /\ Ended' = Ended
  BY SameJournal DEF WriterInv
<1>2. WriterTypes'
  BY DEF WriterInv, WriterTypes, AtMostOne, Actors, fileVars
<1>3. BoundaryLast' /\ BoundaryCaught'
  BY <1>1 DEF WriterInv, BoundaryLast, BoundaryCaught
<1> QED
  BY <1>1, <1>2, <1>3 DEF WriterInv

(* A command looks at the document and leaves the writer alone.              *)
LEMMA Looks ==
  ASSUME WriterInv, Reads, UNCHANGED <<journalVars, indexed, writer, edited>>,
         task' \in [Actors -> SUBSET TaskRecords], \A q \in Actors : AtMostOne(task'[q]),
         task'["writer"] = task["writer"],
         Ended => \A t \in task'["command"] : t.pc = "append"
  PROVE  WriterInv'
<1>1. JournalInv' /\ Ended' = Ended /\ Length' = Length /\ acked' = acked
      /\ Last(file.records)' = Last(file.records)
  BY SameJournal DEF WriterInv
<1>2. /\ doc' \in SUBSET Contents /\ temp' \in SUBSET Contents /\ backup' = backup
      /\ doc = {Length} => doc' = doc
  BY ReadsFacts DEF WriterInv
<1>3. WriterTypes'
  BY <1>2 DEF WriterInv, WriterTypes
<1>4. BoundaryLast'
  BY <1>1 DEF WriterInv, BoundaryLast
<1>5. BoundaryCaught'
  BY <1>1, <1>2 DEF WriterInv, BoundaryCaught, Caught, Idle
<1> QED
  BY <1>1, <1>3, <1>4, <1>5 DEF WriterInv

(* A command that annotates.                                                 *)
LEMMA AnnotateStep ==
  ASSUME WriterInv, NEW e \in Events, Annotate(e)
  PROVE  WriterInv'
<1>1. Reads /\ UNCHANGED <<journalVars, indexed, writer, edited>> /\ task["command"] = {}
  BY DEF Annotate, LockFree, Idle
<1>2. CASE task' = task
  BY <1>1, <1>2, Looks DEF WriterInv, WriterTypes, BoundaryLast
<1>3. CASE task' # task
  <2>1. PICK found \in SUBSET Contents : found = Reading.found
    BY ReadingFacts DEF WriterInv
  <2>2. PICK x \in TaskRecords : x.pc = "append" /\ task' = [task EXCEPT !["command"] = {x}]
    <3>1. e \in Annotations
      BY DEF Annotate, Annotations
    <3>2. [pc |-> "append", expects |-> found, seen |-> 0, retried |-> FALSE,
           locked |-> TRUE, event |-> {e}] \in TaskRecords
      BY <3>1 DEF TaskRecords
    <3> QED
      BY <1>3, <2>1, <3>2 DEF Annotate
  <2>3. {x} \in SUBSET TaskRecords /\ AtMostOne({x}) /\ WriterTypes /\ "command" \in Actors
    BY DEF AtMostOne, WriterInv, Actors
  <2>4. /\ task' \in [Actors -> SUBSET TaskRecords] /\ \A q \in Actors : AtMostOne(task'[q])
        /\ task'["command"] = {x} /\ task'["writer"] = task["writer"]
    BY <2>2, <2>3, NextTask DEF Actors
  <2> QED
    BY <1>1, <2>2, <2>4, Looks
<1> QED
  BY <1>2, <1>3

(* An annotation is recorded, late, in part or not at all.                   *)
LEMMA AppendAnnotationStep ==
  ASSUME WriterInv, AppendAnnotation
  PROVE  /\ WriterInv'
         /\ \E e \in Events, o \in Outcomes : Record(e, o)
<1>1. /\ task["command"] = {Now("command")} /\ Now("command") \in TaskRecords
      /\ UNCHANGED <<doc, backup, temp, indexed, edited, writer>>
  BY TheTask DEF WriterInv, AppendAnnotation, At, fileVars, Actors
<1>2. PICK e \in Now("command").event :
        \/ Record(e, "ok") /\ Goto("command", "render")
        \/ \E o \in Outcomes \ {"ok"} : Record(e, o) /\ Finish("command")
  BY DEF AppendAnnotation
<1>3. e \in Events /\ e.kind # "lifecycle"
  BY <1>1, <1>2 DEF TaskRecords, Annotations
<1>4. \E o \in Outcomes : Record(e, o)
  BY <1>2 DEF Outcomes
<1>5. JournalInv'
  BY <1>3, <1>4, LogStep DEF WriterInv
<1>6. CASE Record(e, "ok") /\ Goto("command", "render")
  <2>1. ~Ended'
    BY <1>3, <1>6, AppendFacts, NotEnded DEF WriterInv, Outcomes
  <2>2. PICK x \in TaskRecords : task' = [task EXCEPT !["command"] = {x}]
    <3>1. [Now("command") EXCEPT !.pc = "render"] \in TaskRecords
      BY <1>1 DEF TaskRecords
    <3> QED
      BY <1>6, <3>1 DEF Goto
  <2>3. {x} \in SUBSET TaskRecords /\ AtMostOne({x}) /\ WriterTypes /\ "command" \in Actors
    BY DEF AtMostOne, WriterInv, Actors
  <2>4. /\ task' \in [Actors -> SUBSET TaskRecords] /\ \A q \in Actors : AtMostOne(task'[q])
        /\ task'["writer"] = task["writer"]
    BY <2>2, <2>3, NextTask DEF Actors
  <2>5. WriterTypes'
    BY <1>1, <2>3, <2>4 DEF WriterTypes
  <2> QED
    BY <1>3, <1>4, <1>5, <2>1, <2>5 DEF WriterInv, BoundaryLast, BoundaryCaught
<1>7. ASSUME NEW o \in Outcomes \ {"ok"}, Record(e, o), Finish("command")
      PROVE  WriterInv'
  <2>1. /\ task' \in [Actors -> SUBSET TaskRecords] /\ \A q \in Actors : AtMostOne(task'[q])
        /\ task'["command"] = {} /\ task'["writer"] = task["writer"]
    BY <1>7, NoTask DEF WriterInv, Actors
  <2>2. WriterTypes'
    BY <1>1, <2>1 DEF WriterInv, WriterTypes
  <2>3. acked' = acked
    BY <1>3, <1>7, AppendFacts DEF WriterInv
  <2>4. CASE o = "late"
    <3>1. ~Ended'
      BY <1>3, <1>7, <2>4, AppendFacts, NotEnded DEF WriterInv
    <3> QED
      BY <1>5, <2>2, <3>1 DEF WriterInv, BoundaryLast, BoundaryCaught
  <2>5. CASE o \in {"torn", "lost"}
    <3>1. file'.records = file.records
      BY <1>3, <1>7, <2>5, AppendFacts DEF WriterInv
    <3>2. Ended' = Ended /\ Length' = Length /\ Last(file.records)' = Last(file.records)
      BY <3>1 DEF Ended, Length
    <3>3. BoundaryLast' /\ BoundaryCaught'
      BY <1>1, <2>1, <2>3, <3>2 DEF WriterInv, BoundaryLast, BoundaryCaught, Caught, Idle
    <3> QED
      BY <1>5, <2>2, <3>3 DEF WriterInv
  <2> QED
    BY <2>4, <2>5 DEF Outcomes
<1> QED
  BY <1>2, <1>3, <1>4, <1>6, <1>7

(* The annotated segment is read back: no boundary can be last by then.      *)
LEMMA AnswerStep ==
  ASSUME WriterInv, Answer
  PROVE  WriterInv'
<1>1. /\ Reads /\ UNCHANGED <<journalVars, indexed, writer, edited>> /\ Finish("command")
  BY DEF Answer
<1>2. ~Ended
  BY DEF WriterInv, BoundaryLast, Answer, At
<1>3. /\ task' \in [Actors -> SUBSET TaskRecords] /\ \A q \in Actors : AtMostOne(task'[q])
      /\ task'["writer"] = task["writer"]
  BY <1>1, NoTask DEF WriterInv, Actors
<1> QED
  BY <1>1, <1>2, <1>3, Looks

(* Somebody else touches the document: nothing is promised any more.         *)
LEMMA EditStep ==
  ASSUME WriterInv, Edit
  PROVE  WriterInv'
<1>1. JournalInv' /\ Ended' = Ended /\ Length' = Length
  BY SameJournal DEF WriterInv, Edit
<1>2. doc' \in SUBSET Contents
  BY DEF Edit, Contents
<1>3. WriterTypes' /\ BoundaryLast'
  BY <1>1, <1>2 DEF WriterInv, WriterTypes, BoundaryLast, Edit
<1> QED
  BY <1>1, <1>3 DEF WriterInv, BoundaryCaught, Edit

(* Every step keeps the invariant of writer and documents.                   *)
LEMMA WriterNextHolds ==
  ASSUME WriterInv, [WriterNext]_writerVars
  PROVE  WriterInv'
<1>1. CASE Open
  BY <1>1, OpenStep
<1>2. CASE Poll
  BY <1>2, PollStep
<1>3. CASE Tick
  BY <1>3, TickStep
<1>4. CASE Close
  BY <1>4, NoWriter DEF Close, Idle, WriterInv, WriterTypes
<1>5. CASE WriterStep
  BY <1>5, MaterializeStep, RefreshIndexStep DEF WriterStep, Actors
<1>6. CASE CommandStep
  BY <1>6, AppendAnnotationStep, MaterializeStep, AnswerStep DEF CommandStep, Actors
<1>7. CASE ReadPage
  BY <1>7, Looks DEF ReadPage, WriterInv, WriterTypes, BoundaryLast
<1>8. CASE Edit
  BY <1>8, EditStep
<1>9. CASE Crash
  BY <1>9, NoWriter DEF Crash, Actors
<1>10. ASSUME NEW e \in Events, AppendFinal(e) \/ AppendBoundary(e) \/ Annotate(e)
       PROVE  WriterInv'
  BY <1>10, AppendFinalStep, AppendBoundaryStep, AnnotateStep
<1>11. CASE UNCHANGED writerVars
  BY <1>11, SameRecords DEF writerVars, fileVars, journalVars, WriterInv, JournalInv, Recorded
<1> QED
  BY <1>1, <1>2, <1>3, <1>4, <1>5, <1>6, <1>7, <1>8, <1>9, <1>10, <1>11 DEF WriterNext

(* When a boundary was the last thing written and the writer reports no      *)
(* error, transcript.md and the index it calls fresh hold the whole journal, *)
(* whatever the commands, the page reads and the failing writes did to the   *)
(* writer's fingerprint meanwhile.                                           *)
THEOREM BoundaryIsPublished == WriterSpec => []BoundaryPublished
<1>1. WriterInv /\ [WriterNext]_writerVars => WriterInv'
  BY WriterNextHolds
<1>2. WriterInv => BoundaryPublished
  BY DEF WriterInv, BoundaryPublished, BoundaryCaught, Caught, Ended
<1> QED
  BY <1>1, <1>2, WriterInitHolds, PTL DEF WriterSpec

(* The writer and the commands touch the journal only by appending to it.    *)
LEMMA WriterAppends ==
  ASSUME WriterInv, [WriterNext]_writerVars
  PROVE  \/ \E e \in Events : AnswerAgain(e) \/ \E o \in Outcomes : Record(e, o)
         \/ UNCHANGED journalVars
<1>1. CASE Open \/ Poll \/ Tick \/ Close \/ ReadPage \/ Edit \/ Crash
  BY <1>1 DEF Open, Poll, Tick, Close, ReadPage, Edit, Crash
<1>2. ASSUME NEW p \in Actors, Materialize(p)
      PROVE  UNCHANGED journalVars
  BY <1>2 DEF Materialize, Render, Compare, WriteTemp, Publish, Verify, Adopt
<1>3. CASE WriterStep
  BY <1>2, <1>3 DEF WriterStep, RefreshIndex, Actors
<1>4. CASE CommandStep
  BY <1>2, <1>4, AppendAnnotationStep DEF CommandStep, Answer, Actors
<1>5. ASSUME NEW e \in Events, AppendFinal(e) \/ AppendBoundary(e)
      PROVE  AnswerAgain(e) \/ \E o \in Outcomes : Record(e, o)
  BY <1>5 DEF AppendFinal, AppendBoundary, Outcomes
<1>6. ASSUME NEW e \in Events, Annotate(e)
      PROVE  UNCHANGED journalVars
  BY <1>6 DEF Annotate
<1>7. CASE UNCHANGED writerVars
  BY <1>7 DEF writerVars
<1> QED
  BY <1>1, <1>3, <1>4, <1>5, <1>6, <1>7 DEF WriterNext

(* The writer and the commands together keep the journal a durable log.      *)
THEOREM WriterKeepsLog == WriterSpec => JournalDurable
<1>1. WriterInit => Log!LogInit
  BY DEF WriterInit, JournalInit, Log!LogInit, Readable
<1>2. WriterInv /\ [WriterNext]_writerVars =>
        WriterInv' /\ [Log!LogNext]_<<IF Readable THEN file.records ELSE <<>>, acked>>
  <2> SUFFICES ASSUME WriterInv, [WriterNext]_writerVars
               PROVE  [Log!LogNext]_<<IF Readable THEN file.records ELSE <<>>, acked>>
    BY WriterNextHolds
  <2>1. ASSUME NEW e \in Events, AnswerAgain(e) \/ \E o \in Outcomes : Record(e, o)
        PROVE  [Log!LogNext]_<<IF Readable THEN file.records ELSE <<>>, acked>>
    BY <2>1, LogStep DEF WriterInv
  <2>2. ASSUME UNCHANGED journalVars
        PROVE  [Log!LogNext]_<<IF Readable THEN file.records ELSE <<>>, acked>>
    BY <2>2 DEF journalVars, Readable
  <2> QED
    BY <2>1, <2>2, WriterAppends
<1> QED
  BY <1>1, <1>2, WriterInitHolds, PTL DEF WriterSpec, JournalDurable, Log!LogSpec

-----------------------------------------------------------------------------
(* Two walks over the records.  What they compute is found by induction over *)
(* the records, which rests here on the well-foundedness of inclusion        *)
(* between finite sets.                                                      *)

(* Every inhabited set of numbers has a least member.                        *)
LEMMA LeastNumber ==
  ASSUME NEW T, T \subseteq Nat, T # {}
  PROVE  \E x \in T : \A y \in T : x <= y
<1> DEFINE Below(n) == 0 .. n
           W == {Below(n) : n \in T}
<1>1. IsWellFoundedOn(StrictSubsetOrdering(Nat), FiniteSubsetsOf(Nat))
  BY FS_StrictSubsetOrderingWellFounded
<1>2. W \subseteq FiniteSubsetsOf(Nat)
  <2> SUFFICES ASSUME NEW n \in T
               PROVE  Below(n) \in FiniteSubsetsOf(Nat)
    OBVIOUS
  <2>0. n \in Nat /\ 0 \in Int /\ n \in Int
    OBVIOUS
  <2>1. IsFiniteSet(0 .. n)
    BY <2>0, FS_Interval
  <2>2. 0 .. n \subseteq Nat
    BY <2>0
  <2> QED
    BY <2>1, <2>2 DEF FiniteSubsetsOf
<1>3. W # {}
  OBVIOUS
<1> HIDE DEF W
<1>4. PICK w \in W : \A v \in W : ~(<<v, w>> \in StrictSubsetOrdering(Nat))
  BY <1>1, <1>2, <1>3, WFMin
<1>5. PICK x \in T : w = Below(x)
  BY DEF W
<1>6. ASSUME NEW y \in T
      PROVE  x <= y
  <2>1. Below(y) \in W
    BY DEF W
  <2>2. ~(<<Below(y), Below(x)>> \in StrictSubsetOrdering(Nat))
    BY <1>4, <1>5, <2>1
  <2>3. x \in Nat /\ y \in Nat
    OBVIOUS
  <2>4. CASE y < x
    <3>1. Below(y) \subseteq Below(x) /\ Below(x) \subseteq Nat /\ Below(y) \subseteq Nat
      BY <2>3, <2>4
    <3>2. x \in Below(x) /\ x \notin Below(y)
      BY <2>3, <2>4
    <3> QED
      BY <2>2, <3>1, <3>2 DEF StrictSubsetOrdering
  <2> QED
    BY <2>3, <2>4
<1> QED
  BY <1>6

(* A set that holds zero and, with a number, the next one holds them all.    *)
LEMMA EveryNumber ==
  ASSUME NEW T, 0 \in T, \A k \in Nat : k \in T => k + 1 \in T
  PROVE  Nat \subseteq T
<1> DEFINE others == {k \in Nat : k \notin T}
<1>1. ASSUME others # {} PROVE FALSE
  <2>1. others \subseteq Nat
    OBVIOUS
  <2> HIDE DEF others
  <2>2. PICK k \in others : \A m \in others : k <= m
    BY <1>1, <2>1, LeastNumber
  <2>3. k \in Nat /\ k \notin T
    BY DEF others
  <2>4. k # 0
    BY <2>3
  <2>5. k - 1 \in Nat /\ k - 1 < k /\ (k - 1) + 1 = k
    BY <2>3, <2>4
  <2>6. k - 1 \notin others
    BY <2>2, <2>3, <2>5
  <2>7. k - 1 \in T
    BY <2>5, <2>6 DEF others
  <2> QED
    BY <2>3, <2>5, <2>7
<1> QED
  BY <1>1

(* A step of either walk. *)
Walk(walk, s, x, e) ==
  CASE walk = "replay" -> Applied(x, e)
    [] walk = "history" -> Revised(x, e, s)

WalkFrom(records, walk, s, first, g) ==
  g = [n \in 0 .. Len(records) |-> IF n = 0 THEN first ELSE Walk(walk, s, g[n - 1], records[n])]

(* Either walk has a course over any records.                                *)
LEMMA WalkExists ==
  ASSUME NEW records, Len(records) \in Nat, NEW walk, NEW s, NEW first
  PROVE  \E g : WalkFrom(records, walk, s, first, g)
<1> DEFINE Turn(x, n) == Walk(walk, s, x, records[n])
           Upto(m, g) == g = [n \in 0 .. m |-> IF n = 0 THEN first ELSE Turn(g[n - 1], n)]
           T == {m \in Nat : \E g : Upto(m, g)}
<1> HIDE DEF Turn
<1>1. 0 \in T
  <2>1. Upto(0, [n \in 0 .. 0 |-> first])
    OBVIOUS
  <2> QED
    BY <2>1
<1>2. ASSUME NEW m \in Nat, m \in T PROVE m + 1 \in T
  <2>1. PICK g : Upto(m, g)
    BY <1>2
  <2> DEFINE h == [n \in 0 .. m + 1 |-> IF n = m + 1 THEN Turn(g[m], m + 1) ELSE g[n]]
  <2>2. \A n \in 0 .. m : g[n] = (IF n = 0 THEN first ELSE Turn(g[n - 1], n))
    BY <2>1
  <2>3. \A n \in 0 .. m + 1 : h[n] = (IF n = 0 THEN first ELSE Turn(h[n - 1], n))
    <3> TAKE n \in 0 .. m + 1
    <3>1. CASE n = m + 1
      <4>1. h[n] = Turn(g[m], m + 1) /\ h[n - 1] = g[m] /\ n # 0 /\ n - 1 = m
        BY <3>1
      <4> QED
        BY <3>1, <4>1
    <3>2. CASE n # m + 1 /\ n # 0
      <4>1. n \in 0 .. m /\ n - 1 \in 0 .. m
        BY <3>2
      <4>2. h[n] = g[n] /\ h[n - 1] = g[n - 1]
        BY <3>2, <4>1
      <4>3. g[n] = Turn(g[n - 1], n)
        BY <2>2, <3>2, <4>1
      <4> QED
        BY <3>2, <4>2, <4>3
    <3>3. CASE n = 0
      BY <2>2, <3>3
    <3> QED
      BY <3>1, <3>2, <3>3
  <2>4. Upto(m + 1, h)
    <3> DEFINE k == [n \in 0 .. m + 1 |-> IF n = 0 THEN first ELSE Turn(h[n - 1], n)]
    <3>1. \A n \in 0 .. m + 1 : h[n] = k[n]
      BY <2>3
    <3>2. h = k
      BY <3>1
    <3> QED
      BY <3>2
  <2> HIDE DEF h, Upto
  <2>5. m + 1 \in Nat
    OBVIOUS
  <2> QED
    BY <2>4, <2>5
<1> HIDE DEF T
<1>3. Nat \subseteq T
  BY <1>1, <1>2, EveryNumber
<1>4. Len(records) \in T
  BY <1>3
<1> QED
  BY <1>4 DEF T, Turn, WalkFrom

(* The course of the replay, and where it ends. *)
ReplayCourse(records, g) ==
  /\ g[0] = [x \in {} |-> Spoken("none")]
  /\ \A n \in 1 .. Len(records) : g[n] = Applied(g[n - 1], records[n])
  /\ Replay(records) = g[Len(records)]

(* There is one. *)
LEMMA ReplayWalks ==
  ASSUME NEW records, Len(records) \in Nat
  PROVE  \E g : ReplayCourse(records, g)
<1> DEFINE first == [x \in {} |-> Spoken("none")]
           From(g) == g = [n \in 0 .. Len(records) |->
                             IF n = 0 THEN first ELSE Applied(g[n - 1], records[n])]
           g == CHOOSE f : From(f)
<1>1. \E f : From(f)
  <2> HIDE DEF first
  <2>0. PICK f : WalkFrom(records, "replay", 0, first, f)
    BY WalkExists
  <2>1. \A n \in 0 .. Len(records) :
          f[n] = (IF n = 0 THEN first ELSE Walk("replay", 0, f[n - 1], records[n]))
    BY <2>0 DEF WalkFrom
  <2> DEFINE k == [n \in 0 .. Len(records) |-> IF n = 0 THEN first ELSE Applied(f[n - 1], records[n])]
  <2>2. \A n \in 0 .. Len(records) : Walk("replay", 0, f[n - 1], records[n]) = Applied(f[n - 1], records[n])
    BY DEF Walk
  <2>3. \A n \in 0 .. Len(records) : f[n] = k[n]
    BY <2>1, <2>2
  <2>4. f = k
    BY <2>0, <2>3 DEF WalkFrom
  <2> QED
    BY <2>4
<1>2. From(g)
  BY <1>1
<1>3. Replay(records) = g[Len(records)]
  BY DEF Replay
<1> HIDE DEF g, first
<1>4. \A n \in 0 .. Len(records) : g[n] = (IF n = 0 THEN first ELSE Applied(g[n - 1], records[n]))
  BY <1>2
<1>5. \A n \in 1 .. Len(records) : n \in 0 .. Len(records) /\ n # 0
  OBVIOUS
<1>6. g[0] = first
  BY <1>4
<1>7. \A n \in 1 .. Len(records) : g[n] = Applied(g[n - 1], records[n])
  BY <1>4, <1>5
<1> QED
  BY <1>3, <1>6, <1>7 DEF ReplayCourse, first

(* The course of a segment's history, and where it ends. *)
HistoryCourse(records, s, g) ==
  /\ g[0] = [known |-> FALSE, revisions |-> <<>>]
  /\ \A n \in 1 .. Len(records) : g[n] = Revised(g[n - 1], records[n], s)
  /\ History(records, s) = g[Len(records)]

(* There is one. *)
LEMMA HistoryWalks ==
  ASSUME NEW records, Len(records) \in Nat, NEW s
  PROVE  \E g : HistoryCourse(records, s, g)
<1> DEFINE first == [known |-> FALSE, revisions |-> <<>>]
           From(g) == g = [n \in 0 .. Len(records) |->
                             IF n = 0 THEN first ELSE Revised(g[n - 1], records[n], s)]
           g == CHOOSE f : From(f)
<1>1. \E f : From(f)
  <2> HIDE DEF first
  <2>0. PICK f : WalkFrom(records, "history", s, first, f)
    BY WalkExists
  <2>1. \A n \in 0 .. Len(records) :
          f[n] = (IF n = 0 THEN first ELSE Walk("history", s, f[n - 1], records[n]))
    BY <2>0 DEF WalkFrom
  <2> DEFINE k == [n \in 0 .. Len(records) |-> IF n = 0 THEN first ELSE Revised(f[n - 1], records[n], s)]
  <2>2. \A n \in 0 .. Len(records) : Walk("history", s, f[n - 1], records[n]) = Revised(f[n - 1], records[n], s)
    BY DEF Walk
  <2>3. \A n \in 0 .. Len(records) : f[n] = k[n]
    BY <2>1, <2>2
  <2>4. f = k
    BY <2>0, <2>3 DEF WalkFrom
  <2> QED
    BY <2>4
<1>2. From(g)
  BY <1>1
<1>3. History(records, s) = g[Len(records)]
  BY DEF History
<1> HIDE DEF g, first
<1>4. \A n \in 0 .. Len(records) : g[n] = (IF n = 0 THEN first ELSE Revised(g[n - 1], records[n], s))
  BY <1>2
<1>5. \A n \in 1 .. Len(records) : n \in 0 .. Len(records) /\ n # 0
  OBVIOUS
<1>6. g[0] = first
  BY <1>4
<1>7. \A n \in 1 .. Len(records) : g[n] = Revised(g[n - 1], records[n], s)
  BY <1>4, <1>5
<1> QED
  BY <1>3, <1>6, <1>7 DEF HistoryCourse, first

(* A segment is recorded at most once. *)
RecordedOnce(records) ==
  \A i, j \in DOMAIN records :
    /\ records[i].kind = "final" /\ records[j].kind = "final"
    /\ records[i].segment = records[j].segment
    => i = j

(* The segments that the first n records are about. *)
Heard(records, n) == {records[i].segment : i \in {j \in 1 .. n : records[j].kind = "final"}}

Values(records) == {"none", FALSE} \cup {records[i].value : i \in DOMAIN records}

Replayed(records) ==
  [text : Values(records), corrected : Values(records),
   important : Values(records), bookmark : Values(records)]

(* What the two walks have in common after n records. *)
InStep(records, s, n, replay, history) ==
  /\ replay \in [Heard(records, n) -> Replayed(records)]
  /\ history \in [known : BOOLEAN, revisions : Seq(Values(records))]
  /\ Len(history.revisions) <= MaxRevisions
  /\ history.known <=> s \in Heard(records, n)
  /\ ~history.known => history.revisions = <<>>
  /\ history.known =>
       replay[s].corrected = IF history.revisions = <<>> THEN "none" ELSE Last(history.revisions)

(* What one record adds to the segments. *)
LEMMA HeardGrows ==
  ASSUME NEW records \in Seq(Events), RecordedOnce(records), NEW n \in 1 .. Len(records)
  PROVE  /\ records[n].kind = "final" =>
              /\ Heard(records, n) = Heard(records, n - 1) \cup {records[n].segment}
              /\ records[n].segment \notin Heard(records, n - 1)
         /\ records[n].kind # "final" => Heard(records, n) = Heard(records, n - 1)
<1>0. Len(records) \in Nat /\ DOMAIN records = 1 .. Len(records)
  OBVIOUS
<1>1. 1 .. n = (1 .. n - 1) \cup {n} /\ n \notin 1 .. n - 1 /\ n \in DOMAIN records
  BY <1>0
<1>2. 1 .. n - 1 \subseteq DOMAIN records
  BY <1>0
<1>3. CASE records[n].kind = "final"
  <2>1. Heard(records, n) = Heard(records, n - 1) \cup {records[n].segment}
    BY <1>1, <1>3 DEF Heard
  <2>2. ASSUME NEW i \in 1 .. n - 1, records[i].kind = "final"
        PROVE  records[i].segment # records[n].segment
    BY <1>1, <1>2, <1>3, <2>2 DEF RecordedOnce
  <2> QED
    BY <1>3, <2>1, <2>2 DEF Heard
<1>4. CASE records[n].kind # "final"
  BY <1>1, <1>4 DEF Heard
<1> QED
  BY <1>3, <1>4

(* A record more, and the newest kept.                                       *)
LEMMA NewestKept ==
  ASSUME NEW V, NEW q \in Seq(V), Len(q) <= MaxRevisions, NEW v \in V
  PROVE  /\ Newest(q, v) \in Seq(V) /\ Len(Newest(q, v)) <= MaxRevisions
         /\ Newest(q, v) # <<>> /\ Last(Newest(q, v)) = v
<1> DEFINE longer == Append(q, v)
           kept == IF Len(longer) > MaxRevisions THEN Tail(longer) ELSE longer
<1>0. Newest(q, v) = kept
  BY DEF Newest
<1>1. /\ longer \in Seq(V) /\ Len(longer) = Len(q) + 1 /\ longer[Len(longer)] = v
      /\ longer # <<>> /\ Len(q) \in Nat
  OBVIOUS
<1>2. MaxRevisions \in Nat /\ MaxRevisions >= 1
  BY JournalAssumption
<1>3. CASE Len(longer) > MaxRevisions
  <2>1. kept = Tail(longer) /\ Len(longer) >= 2 /\ Len(longer) = MaxRevisions + 1
    BY <1>1, <1>2, <1>3
  <2> HIDE DEF longer, kept
  <2>2. /\ Tail(longer) \in Seq(V) /\ Len(Tail(longer)) = Len(longer) - 1
        /\ \A i \in 1 .. Len(longer) - 1 : Tail(longer)[i] = longer[i + 1]
    BY <1>1, <2>1
  <2>3. Len(kept) = Len(longer) - 1 /\ Len(kept) >= 1 /\ kept[Len(kept)] = longer[Len(longer)]
    BY <1>1, <2>1, <2>2
  <2>4. kept # <<>>
    BY <2>3
  <2>5. kept \in Seq(V) /\ Len(kept) <= MaxRevisions
    BY <1>2, <2>1, <2>2, <2>3
  <2>6. kept[Len(kept)] = v
    BY <1>1, <2>3
  <2> QED
    BY <1>0, <2>4, <2>5, <2>6 DEF Last
<1>4. CASE ~(Len(longer) > MaxRevisions)
  BY <1>0, <1>1, <1>2, <1>4 DEF Last
<1> QED
  BY <1>3, <1>4

(* Every record keeps the walks together. *)
LEMMA RecordKeepsStep ==
  ASSUME NEW records \in Seq(Events), RecordedOnce(records), NEW s,
         NEW n \in 1 .. Len(records), NEW replay, NEW history,
         InStep(records, s, n - 1, replay, history)
  PROVE  InStep(records, s, n, Applied(replay, records[n]), Revised(history, records[n], s))
<1> DEFINE V == Values(records)
           heard == Heard(records, n - 1)
           R == Replayed(records)
<1>1. PICK e : e = records[n]
  OBVIOUS
<1>2. e \in Events /\ e.kind \in Kinds /\ e.value \in V /\ "none" \in V /\ FALSE \in V
  <2>1. n \in DOMAIN records /\ e \in Events
    BY <1>1
  <2>2. e.kind \in Kinds
    BY <2>1, JournalAssumption
  <2>3. e.value \in V /\ "none" \in V /\ FALSE \in V
    BY <1>1, <2>1 DEF Values
  <2> QED
    BY <2>1, <2>2, <2>3
<1>3. /\ replay \in [heard -> R]
      /\ history \in [known : BOOLEAN, revisions : Seq(V)]
      /\ Len(history.revisions) <= MaxRevisions
      /\ history.known <=> s \in heard
      /\ ~history.known => history.revisions = <<>>
      /\ history.known =>
           replay[s].corrected = IF history.revisions = <<>> THEN "none" ELSE Last(history.revisions)
  BY DEF InStep
<1>4. /\ e.kind = "final" => Heard(records, n) = heard \cup {e.segment} /\ e.segment \notin heard
      /\ e.kind # "final" => Heard(records, n) = heard
  BY <1>1, HeardGrows
<1>5. R = [text : V, corrected : V, important : V, bookmark : V]
  BY DEF Replayed
<1> HIDE DEF V, heard, R
<1>6. CASE e.kind = "final"
  <2>1. Applied(replay, e) = [x \in heard \cup {e.segment} |->
                                 IF x = e.segment THEN Spoken(e.value) ELSE replay[x]]
    BY <1>3, <1>6 DEF Applied
  <2>2. Spoken(e.value) \in R /\ Spoken(e.value).corrected = "none"
    BY <1>2, <1>5 DEF Spoken
  <2>3. Applied(replay, e) \in [heard \cup {e.segment} -> R]
    BY <1>3, <2>1, <2>2
  <2>4. CASE e.segment = s
    <3>1. Revised(history, e, s) = [history EXCEPT !.known = TRUE]
      BY <1>6, <2>4 DEF Revised
    <3>2. history.revisions = <<>> /\ s \notin heard
      BY <1>3, <1>4, <1>6, <2>4
    <3>3. /\ Revised(history, e, s) \in [known : BOOLEAN, revisions : Seq(V)]
          /\ Revised(history, e, s).known /\ Revised(history, e, s).revisions = <<>>
      BY <1>3, <3>1, <3>2
    <3>4. Applied(replay, e)[s].corrected = "none"
      BY <2>1, <2>2, <2>4
    <3>5. Len(<<>>) = 0 /\ 0 <= MaxRevisions
      BY JournalAssumption
    <3> QED
      BY <1>1, <1>4, <1>6, <2>3, <2>4, <3>3, <3>4, <3>5 DEF InStep, V, R
  <2>5. CASE e.segment # s
    <3>1. Revised(history, e, s) = history
      BY <1>6, <2>5 DEF Revised
    <3>2. s \in heard => Applied(replay, e)[s] = replay[s]
      BY <2>1, <2>5
    <3> QED
      BY <1>1, <1>3, <1>4, <1>6, <2>3, <2>5, <3>1, <3>2 DEF InStep, V, R
  <2> QED
    BY <2>4, <2>5
<1>7. CASE e.kind = "correction"
  <2>1. Applied(replay, e) = [replay EXCEPT ![e.segment].corrected = e.value]
    BY <1>7 DEF Applied
  <2>2. Applied(replay, e) \in [heard -> R]
    BY <1>2, <1>3, <1>5, <2>1
  <2>3. CASE e.segment = s /\ history.known
    <3>1. PICK kept : kept = Newest(history.revisions, e.value)
      OBVIOUS
    <3>2. Revised(history, e, s) = [history EXCEPT !.revisions = kept]
      BY <1>7, <2>3, <3>1 DEF Revised
    <3>3. history.revisions \in Seq(V)
      BY <1>3
    <3>4. kept \in Seq(V) /\ Len(kept) <= MaxRevisions /\ kept # <<>> /\ Last(kept) = e.value
      <4>1. e.value \in V /\ Len(history.revisions) <= MaxRevisions
        BY <1>2, <1>3
      <4> QED
        BY <3>1, <3>3, <4>1, NewestKept
    <3>5. /\ Revised(history, e, s) \in [known : BOOLEAN, revisions : Seq(V)]
          /\ Revised(history, e, s).known /\ Revised(history, e, s).revisions = kept
      BY <1>3, <2>3, <3>2, <3>4
    <3>6. s \in heard /\ Applied(replay, e)[s].corrected = e.value
      BY <1>3, <1>5, <2>1, <2>3
    <3> QED
      BY <1>1, <1>4, <1>7, <2>2, <3>4, <3>5, <3>6 DEF InStep, V, R
  <2>4. CASE ~(e.segment = s /\ history.known)
    <3>1. Revised(history, e, s) = history
      BY <1>7, <2>4 DEF Revised
    <3>2. s \in heard => Applied(replay, e)[s] = replay[s]
      BY <1>3, <2>1, <2>4
    <3> QED
      BY <1>1, <1>3, <1>4, <1>7, <2>2, <3>1, <3>2 DEF InStep, V, R
  <2> QED
    BY <2>3, <2>4
<1>8. CASE e.kind \in {"importance", "bookmark", "lifecycle"}
  <2>1. Applied(replay, e) \in {replay, [replay EXCEPT ![e.segment].important = e.value],
                                [replay EXCEPT ![e.segment].bookmark = e.value]}
    BY <1>8 DEF Applied
  <2>2. /\ replay \in [heard -> R]
        /\ [replay EXCEPT ![e.segment].important = e.value] \in [heard -> R]
        /\ [replay EXCEPT ![e.segment].bookmark = e.value] \in [heard -> R]
    BY <1>2, <1>3, <1>5
  <2>3. Applied(replay, e) \in [heard -> R]
    BY <2>1, <2>2
  <2>5. s \in heard => Applied(replay, e)[s].corrected = replay[s].corrected
    BY <1>3, <1>5, <2>1
  <2>4. Revised(history, e, s) = history
    BY <1>8 DEF Revised
  <2> QED
    BY <1>1, <1>3, <1>4, <1>8, <2>3, <2>4, <2>5 DEF InStep, V, R
<1> QED
  BY <1>2, <1>6, <1>7, <1>8 DEF Kinds

(* So they end together. *)
LEMMA WalksEndTogether ==
  ASSUME NEW records \in Seq(Events), RecordedOnce(records), NEW s
  PROVE  InStep(records, s, Len(records), Replay(records), History(records, s))
<1>0. Len(records) \in Nat
  OBVIOUS
<1>1. PICK r : ReplayCourse(records, r)
  BY <1>0, ReplayWalks
<1>2. PICK h : HistoryCourse(records, s, h)
  BY <1>0, HistoryWalks
<1> DEFINE Together(n) == InStep(records, s, n, r[n], h[n])
           T == {n \in Nat : n <= Len(records) => Together(n)}
<1>3. Together(0)
  <2>1. Heard(records, 0) = {}
    BY DEF Heard
  <2>2. r[0] = [x \in {} |-> Spoken("none")] /\ h[0] = [known |-> FALSE, revisions |-> <<>>]
    BY <1>1, <1>2 DEF ReplayCourse, HistoryCourse
  <2>3. r[0] \in [Heard(records, 0) -> Replayed(records)]
    BY <2>1, <2>2
  <2>4. <<>> \in Seq(Values(records)) /\ Len(<<>>) = 0 /\ 0 <= MaxRevisions
    BY JournalAssumption
  <2>5. /\ h[0] \in [known : BOOLEAN, revisions : Seq(Values(records))]
        /\ ~h[0].known /\ h[0].revisions = <<>>
    BY <2>2, <2>4
  <2> QED
    BY <2>1, <2>3, <2>4, <2>5 DEF InStep
<1>4. ASSUME NEW n \in Nat, n \in T PROVE n + 1 \in T
  <2> SUFFICES ASSUME n + 1 <= Len(records) PROVE Together(n + 1)
    OBVIOUS
  <2>1. n + 1 \in 1 .. Len(records) /\ n <= Len(records) /\ (n + 1) - 1 = n
    BY <1>0
  <2>2. InStep(records, s, (n + 1) - 1, r[n], h[n])
    BY <1>4, <2>1
  <2>3. InStep(records, s, n + 1, Applied(r[n], records[n + 1]), Revised(h[n], records[n + 1], s))
    BY <2>1, <2>2, RecordKeepsStep
  <2>4. r[n + 1] = Applied(r[n], records[n + 1]) /\ h[n + 1] = Revised(h[n], records[n + 1], s)
    BY <1>1, <1>2, <2>1 DEF ReplayCourse, HistoryCourse
  <2> QED
    BY <2>3, <2>4
<1>5. 0 \in T
  BY <1>3
<1> HIDE DEF Together
<1>6. Nat \subseteq T
  <2> HIDE DEF T
  <2> QED
    BY <1>4, <1>5, EveryNumber
<1>7. Together(Len(records))
  BY <1>0, <1>6
<1> QED
  BY <1>1, <1>2, <1>7 DEF Together, ReplayCourse, HistoryCourse

(* An append keeps that every segment is recorded once.                      *)
LEMMA AppendKeepsOnce ==
  ASSUME JournalInv, RecordedOnce(file.records), NEW e \in Events,
         AnswerAgain(e) \/ \E o \in Outcomes : Record(e, o)
  PROVE  RecordedOnce(file'.records)
<1>1. CASE AnswerAgain(e)
  BY <1>1, AnswerFacts
<1>2. ASSUME NEW o \in Outcomes, Record(e, o)
      PROVE  RecordedOnce(file'.records)
  <2>1. file.records \in Seq(Events)
    BY DEF JournalInv
  <2>2. e.kind = "final" => e.segment \notin SegmentsOf(file.records)
    BY <1>2 DEF Record, Acceptable
  <2>3. PICK q : q = file.records
    OBVIOUS
  <2>4. CASE file'.records = Append(file.records, e)
    <3>1. /\ DOMAIN Append(q, e) = DOMAIN q \cup {Len(q) + 1}
          /\ Append(q, e)[Len(q) + 1] = e
          /\ \A i \in DOMAIN q : Append(q, e)[i] = q[i]
      BY <2>1, <2>3
    <3>2. \A i \in DOMAIN q : q[i].kind = "final" /\ e.kind = "final" => q[i].segment # e.segment
      BY <2>2, <2>3 DEF SegmentsOf
    <3>3. RecordedOnce(q)
      BY <2>3
    <3>4. RecordedOnce(Append(q, e))
      BY <3>1, <3>2, <3>3 DEF RecordedOnce
    <3> QED
      BY <2>3, <2>4, <3>4
  <2>5. CASE file'.records = file.records
    BY <2>5
  <2> QED
    BY <1>2, <2>4, <2>5, AppendFacts DEF Outcomes
<1> QED
  BY <1>1, <1>2

(* The history that a segment's revisions are shown from ends with the       *)
(* wording that the transcript reads as, and knows the same segments, for    *)
(* every journal that appends can leave and any number of kept revisions     *)
(* (collect_segment_history beside replay_records).                          *)
THEOREM HistoryFollowsReplay == WriterSpec => []HistoryMatchesReplay
<1> DEFINE Once == RecordedOnce(file.records)
<1>1. WriterInit => Once
  <2>1. WriterInit => file.records = <<>>
    BY DEF WriterInit, JournalInit
  <2>2. RecordedOnce(<<>>)
    BY DEF RecordedOnce
  <2> QED
    BY <2>1, <2>2
<1>2. WriterInv /\ Once /\ [WriterNext]_writerVars => WriterInv' /\ Once'
  <2> SUFFICES ASSUME WriterInv, Once, [WriterNext]_writerVars
               PROVE  Once'
    BY WriterNextHolds
  <2>1. ASSUME NEW e \in Events, AnswerAgain(e) \/ \E o \in Outcomes : Record(e, o)
        PROVE  Once'
    BY <2>1, AppendKeepsOnce DEF WriterInv
  <2>2. ASSUME UNCHANGED journalVars
        PROVE  Once'
    BY <2>2 DEF journalVars
  <2> QED
    BY <2>1, <2>2, WriterAppends
<1>3. WriterInv /\ Once => HistoryMatchesReplay
  <2> SUFFICES ASSUME WriterInv, Once
               PROVE  HistoryMatchesReplay
    OBVIOUS
  <2>1. PICK records \in Seq(Events) : records = file.records /\ RecordedOnce(records)
    BY DEF WriterInv, JournalInv
  <2>2. Heard(records, Len(records)) = SegmentsOf(records)
    BY DEF Heard, SegmentsOf
  <2>3. \A s : InStep(records, s, Len(records), Replay(records), History(records, s))
    BY <2>1, WalksEndTogether
  <2>4. DOMAIN Replay(records) = SegmentsOf(records)
    BY <2>2, <2>3 DEF InStep
  <2>5. ASSUME NEW s \in SegmentsOf(records)
        PROVE  /\ History(records, s).known
               /\ Len(History(records, s).revisions) <= MaxRevisions
               /\ Replay(records)[s].corrected =
                    IF History(records, s).revisions = <<>> THEN "none"
                    ELSE Last(History(records, s).revisions)
    BY <2>2, <2>3 DEF InStep
  <2> QED
    BY <2>1, <2>4, <2>5 DEF HistoryMatchesReplay
<1> QED
  BY <1>1, <1>2, <1>3, WriterInitHolds, PTL DEF WriterSpec

=============================================================================
