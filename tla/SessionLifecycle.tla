-------------------------- MODULE SessionLifecycle --------------------------
(***************************************************************************)
(* The persisted session run (persistence/session_lifecycle.rs): start,    *)
(* resume, pause and stop write lifecycle boundaries to the session's      *)
(* journal, drive the transcription runtime, and rewrite session.md; the   *)
(* startup pass repairs what a crash left behind.                          *)
(*                                                                         *)
(* Per session there are two durable states: `journal`, the state replayed *)
(* from the journal, and `record`, the state written in session.md.  An    *)
(* operation is in `op` from its checks to its return; the operation lock  *)
(* admits one.  A durable write may succeed ("ok"), fail with nothing      *)
(* written ("lost"), or be written and still be reported as an error       *)
(* ("late": the checks after sync_all, the index refresh after the         *)
(* replacement).  `Restart` is a crash or an exit at any point.            *)
(***************************************************************************)
EXTENDS Naturals, FiniteSets

CONSTANTS
  Sessions,          (* the sessions of the workspace                        *)
  WriteOutcomes,     (* outcomes a durable write may have                    *)
  WorkspaceMoves     (* may the user select another workspace?               *)

ASSUME LifecycleAssumption ==
  /\ WriteOutcomes \subseteq {"ok", "lost", "late"}
  /\ WorkspaceMoves \in BOOLEAN

VARIABLES
  journal,           (* session -> state replayed from its journal           *)
  record,            (* session -> [state, marked]; marked: recovery_required *)
  runtime,           (* Option: the session LiveTranscriptionService serves  *)
  broken,            (* has the coordinator of the current run failed?       *)
  active,            (* Option: the session of ActiveSessionRun              *)
  op,                (* Option: the operation that holds the lock            *)
  app,               (* "recovering" before commands are served, then "up"   *)
  todo,              (* sessions the startup pass has not finished with      *)
  elsewhere          (* is another workspace selected?                       *)

vars == <<journal, record, runtime, broken, active, op, app, todo, elsewhere>>

Settled == {"Paused", "Completed", "Failed"}

(* Session::apply_runtime_state: the record states a run may write. *)
Allowed(from, to) ==
  \/ from = "Idle" /\ to \in {"Transcribing", "Paused", "Completed", "Failed"}
  \/ from = "Paused" /\ to \in {"Transcribing", "Completed", "Failed"}
  \/ from = "Transcribing" /\ to \in {"Paused", "Completed", "Failed"}

(* valid_transition: the boundaries the journal accepts. *)
ValidTransition(from, to) ==
  \/ <<from, to>> \in {<<"Idle", "Preparing">>, <<"Preparing", "Capturing">>,
                       <<"Capturing", "Transcribing">>, <<"Transcribing", "Paused">>,
                       <<"Paused", "Preparing">>, <<"Stopping", "Completed">>,
                       <<"Failed", "Preparing">>}
  \/ from \in {"Capturing", "Transcribing", "Paused"} /\ to = "Stopping"
  \/ from \in {"Preparing", "Capturing", "Transcribing", "Paused", "Stopping"} /\ to = "Failed"

(* Fault: the state the boundary claims to leave is not compared.          *)
FaultyContinues(s, from, to) == ValidTransition(from, to)

(* A boundary names the state it leaves, which must be the replayed one.   *)
Continues(s, from, to) == journal[s] = from /\ ValidTransition(from, to)

(* The boundary an operation writes next on its way from `at` to `goal`. *)
Boundary(at, goal) ==
  CASE goal = "Transcribing" /\ at \in {"Idle", "Paused"} -> "Preparing"
    [] goal = "Transcribing" /\ at = "Preparing" -> "Capturing"
    [] goal = "Completed" /\ at # "Stopping" -> "Stopping"
    [] OTHER -> goal

Operation(s, by, goal, at, pc) ==
  {[session |-> s, by |-> by, goal |-> goal, at |-> at, read |-> record[s].state, pc |-> pc]}

(* The branch of start_or_resume that undoes a run: `durable_state` -> failed. *)
Abandon(o, pc) == {[o EXCEPT !.by = "giveup", !.goal = "Failed", !.pc = pc]}

LifecycleInit ==
  /\ journal = [s \in Sessions |-> "Idle"]
  /\ record = [s \in Sessions |-> [state |-> "Idle", marked |-> FALSE]]
  /\ runtime = {} /\ broken = FALSE /\ active = {} /\ op = {}
  /\ app = "up" /\ todo = {} /\ elsewhere = FALSE

----------------------------------------------------------------------------
(* Commands: the checks made before anything is written.                    *)

Accepts == app = "up" /\ op = {} /\ ~elsewhere

(* start_session and resume_session, up to the opened writer. *)
StartOrResume(s) ==
  /\ Accepts
  /\ active = {}
  /\ record[s].state \in {"Idle", "Paused"}
  /\ op' = Operation(s, "start", "Transcribing", record[s].state, "append")
  /\ UNCHANGED <<journal, record, runtime, broken, active, app, todo, elsewhere>>

(* pause_session, and stop_session of the active run: validate, take_active, stop the pump. *)
PauseOrStop(s, goal) ==
  /\ Accepts
  /\ active = {s}
  /\ record[s].state = "Transcribing"
  /\ active' = {}
  /\ op' = Operation(s, "finish", goal, "Transcribing", "stop")
  /\ UNCHANGED <<journal, record, runtime, broken, app, todo, elsewhere>>

(* stop_session without an active run: finish_paused. *)
StopPaused(s) ==
  /\ Accepts
  /\ active = {}
  /\ record[s].state = "Paused"
  /\ op' = Operation(s, "finish", "Completed", "Paused", "append")
  /\ UNCHANGED <<journal, record, runtime, broken, active, app, todo, elsewhere>>

----------------------------------------------------------------------------
(* The steps of an operation.                                               *)

(* Fault: every operation whose boundary fails goes on to session.md.      *)
FaultyAfterFailure(o) ==
  CASE o.by = "start" /\ o.at \notin {"Idle", "Paused"} -> Abandon(o, "halt")
    [] o.pc = "append" -> {[o EXCEPT !.pc = "update"]}
    [] OTHER -> {}

(* What an operation does when one of its steps fails: a start whose first   *)
(* boundary is not acknowledged returns, a later failure is undone, the undo *)
(* ignores its own errors, and everything else returns the error.            *)
AfterFailure(o) ==
  CASE o.by = "start" /\ o.at \notin {"Idle", "Paused"} -> Abandon(o, "halt")
    [] o.by = "giveup" /\ o.pc = "append" -> {[o EXCEPT !.pc = "update"]}
    [] OTHER -> {}

Fails(o) ==
  /\ op' = AfterFailure(o)
  /\ app' = IF o.by = "recover" THEN "up" ELSE app

(* append_boundary: PersistedSessionWriter::append of one lifecycle change.  *)
WriteBoundary(o, outcome) ==
  LET s == o.session
      next == Boundary(o.at, o.goal)
      accepted == Continues(s, o.at, next)
  IN
  /\ o.pc = "append"
  /\ outcome # "lost" => accepted
  /\ journal' = IF outcome = "lost" THEN journal ELSE [journal EXCEPT ![s] = next]
  /\ \/ /\ outcome = "ok"
        /\ op' = {[o EXCEPT !.at = next,
                            !.pc = CASE o.by = "start" /\ next = "Preparing" -> "launch"
                                     [] next = o.goal -> "update"
                                     [] OTHER -> "append"]}
        /\ UNCHANGED app
     \/ outcome # "ok" /\ Fails(o)
  /\ \/ outcome \in WriteOutcomes
     \/ outcome = "lost" /\ ~accepted
  /\ UNCHANGED <<record, runtime, broken, active, todo, elsewhere>>

(* runtime.start; its failure goes straight to the failed boundary. *)
Launch(o) ==
  /\ o.pc = "launch"
  /\ \/ /\ runtime = {}
        /\ runtime' = {o.session}
        /\ broken' = FALSE
        /\ op' = {[o EXCEPT !.pc = "append"]}
     \/ op' = Abandon(o, "append") /\ UNCHANGED <<runtime, broken>>
  /\ UNCHANGED <<journal, record, active, app, todo, elsewhere>>

(* apply_runtime_state and update_session against the revision that was read. *)
UpdateRecord(o, outcome) ==
  LET s == o.session
      accepted == record[s].state = o.read /\ Allowed(o.read, o.goal)
  IN
  /\ o.pc = "update"
  /\ outcome # "lost" => accepted
  /\ record' = IF outcome = "lost" THEN record
               ELSE [record EXCEPT ![s] = [state |-> o.goal, marked |-> o.by = "recover"]]
  /\ \/ /\ outcome = "ok"
        /\ op' = IF o.by = "start" THEN {[o EXCEPT !.pc = "pump"]} ELSE {}
        /\ todo' = IF o.by = "recover" THEN todo \ {s} ELSE todo
        /\ UNCHANGED app
     \/ outcome # "ok" /\ Fails(o) /\ UNCHANGED todo
  /\ \/ outcome \in WriteOutcomes
     \/ outcome = "lost" /\ ~accepted
  /\ UNCHANGED <<journal, runtime, broken, active, elsewhere>>

(* spawn_projection_pump, then the run is installed as the active one. *)
Pump(o) ==
  /\ o.pc = "pump"
  /\ \/ active' = {o.session} /\ op' = {}
     \/ op' = Abandon(o, "halt") /\ UNCHANGED active
  /\ UNCHANGED <<journal, record, runtime, broken, app, todo, elsewhere>>

(* Fault: the undo of a start leaves the runtime running.                  *)
FaultyHalt(o) ==
  /\ o.pc = "halt"
  /\ op' = {[o EXCEPT !.pc = "append"]}
  /\ UNCHANGED <<journal, record, runtime, broken, active, app, todo, elsewhere>>

(* runtime.stop of a start that is undone; its error is ignored. *)
Halt(o) ==
  /\ o.pc = "halt"
  /\ runtime' = {}
  /\ op' = {[o EXCEPT !.pc = "append"]}
  /\ UNCHANGED <<journal, record, broken, active, app, todo, elsewhere>>

(* runtime.stop of pause and stop, outside the workspace lock.  It reports a *)
(* run whose coordinator failed as stopped; an error leads to finish_failed. *)
StopRuntime(o) ==
  /\ o.pc = "stop"
  /\ runtime' = {}
  /\ \/ op' = {[o EXCEPT !.pc = "open"]}
     \/ op' = {[o EXCEPT !.pc = "open", !.goal = "Failed"]}
  /\ UNCHANGED <<journal, record, broken, active, app, todo, elsewhere>>

(* finish_boundary and finish_failed: the session is read in the workspace   *)
(* that is selected now, whose lock is held from here on.                    *)
OpenBoundary(o) ==
  /\ o.pc = "open"
  /\ op' = IF elsewhere \/ record[o.session].state # "Transcribing" THEN {}
           ELSE {[o EXCEPT !.pc = "append"]}
  /\ UNCHANGED <<journal, record, runtime, broken, active, app, todo, elsewhere>>

----------------------------------------------------------------------------
(* recover_interrupted_sessions, before commands are served.                *)

RecoveryTarget(state) ==
  CASE state = "Transcribing" -> "Paused"
    [] state \in {"Preparing", "Capturing", "Stopping"} -> "Failed"
    [] OTHER -> state

(* Fault: no boundary is written for an interrupted stop.                  *)
FaultyRecoveryChange(state, target) == state # target /\ state # "Stopping"

(* recovery_change: the boundary that brings the journal to the target. *)
RecoveryChange(state, target) == state # target

Skips(s) ==
  \/ journal[s] = "Idle"
  \/ journal[s] = record[s].state /\ journal[s] \in Settled

Recover(s) ==
  LET target == RecoveryTarget(journal[s]) IN
  /\ app = "recovering" /\ op = {} /\ ~elsewhere
  /\ s \in todo
  /\ \/ /\ Skips(s)
        /\ todo' = todo \ {s}
        /\ UNCHANGED op
     \/ /\ ~Skips(s)
        /\ op' = Operation(s, "recover", target, journal[s],
                           IF RecoveryChange(journal[s], target) THEN "append" ELSE "update")
        /\ UNCHANGED todo
  /\ UNCHANGED <<journal, record, runtime, broken, active, app, elsewhere>>

(* The pass returns; setup serves commands whatever it returned. *)
FinishRecovery ==
  /\ app = "recovering" /\ op = {}
  /\ todo = {} \/ elsewhere
  /\ app' = "up"
  /\ UNCHANGED <<journal, record, runtime, broken, active, op, todo, elsewhere>>

----------------------------------------------------------------------------
(* The environment.                                                         *)

(* The coordinator of the running capture fails; nothing reports it. *)
Break ==
  /\ runtime # {} /\ ~broken
  /\ broken' = TRUE
  /\ UNCHANGED <<journal, record, runtime, active, op, app, todo, elsewhere>>

(* choose_workspace, serialised only with what holds the workspace lock. *)
ChooseWorkspace ==
  /\ WorkspaceMoves
  /\ app = "up"
  /\ \A o \in op : o.pc \in {"stop", "open"}
  /\ elsewhere' = ~elsewhere
  /\ UNCHANGED <<journal, record, runtime, broken, active, op, app, todo>>

(* The process ends at any point and is started again. *)
Restart ==
  /\ runtime' = {} /\ broken' = FALSE /\ active' = {} /\ op' = {}
  /\ app' = "recovering"
  /\ todo' = Sessions
  /\ UNCHANGED <<journal, record, elsewhere>>

Step(o) ==
  \/ \E outcome \in {"ok", "lost", "late"} : WriteBoundary(o, outcome) \/ UpdateRecord(o, outcome)
  \/ Launch(o) \/ Pump(o) \/ Halt(o) \/ StopRuntime(o) \/ OpenBoundary(o)

LifecycleNext ==
  \/ \E s \in Sessions :
       \/ StartOrResume(s) \/ StopPaused(s) \/ Recover(s)
       \/ \E goal \in {"Paused", "Completed"} : PauseOrStop(s, goal)
  \/ \E o \in op : Step(o)
  \/ FinishRecovery \/ Break \/ ChooseWorkspace \/ Restart

LifecycleSpec == LifecycleInit /\ [][LifecycleNext]_vars

----------------------------------------------------------------------------
(* Properties.                                                              *)

(* No capture is left running without an owner: between operations the       *)
(* microphone is captured exactly when there is an active run to stop, also  *)
(* after every failure of start_or_resume, pause_session and stop_session;   *)
(* and the journal and session.md of that run both say transcribing, so that *)
(* pausing or stopping it is accepted.                                       *)
RunOwned ==
  op = {} =>
    /\ runtime = active
    /\ \A s \in active : journal[s] = "Transcribing" /\ record[s].state = "Transcribing"

(* session.md never runs ahead of the journal: it is only rewritten to a     *)
(* state whose boundary is already durable.  The failed state is excepted:   *)
(* the undo of a start writes it even when the journal refused the boundary. *)
RecordFollowsJournal ==
  [][\A s \in Sessions :
       record'[s].state # record[s].state /\ record'[s].state # "Failed"
         => journal[s] = record'[s].state]_vars

(* A meeting whose end reached the journal stays ended: whatever fails or    *)
(* crashes afterwards, it is neither resumed nor reported failed.            *)
EndedStaysEnded ==
  [][\A s \in Sessions :
       journal[s] = "Completed"
         => journal'[s] = "Completed" /\ record'[s].state \in {record[s].state, "Completed"}]_vars

(* When the startup pass has gone through every session, journal and         *)
(* session.md agree on a state no run owns.                                  *)
RecoveredAgrees ==
  [][app = "recovering" /\ app' = "up" /\ todo = {}
       => \A s \in Sessions :
            journal[s] = record[s].state /\ journal[s] \in Settled \cup {"Idle"}]_vars

(* architecture.md:956: "Startup scans authoritative Sessions and journals   *)
(* before serving commands", pauses or fails what was interrupted and copies *)
(* terminal journal states, so that afterwards no session is shown as        *)
(* transcribing.  One session that recovery refuses ends the pass for all    *)
(* that follow.                                                              *)
StartupSettlesRecords ==
  [][app = "recovering" /\ app' = "up" /\ ~elsewhere
       => \A s \in Sessions : record'[s].state # "Transcribing"]_vars

(* architecture.md:956: "runtime failure records failed".  runtime.stop      *)
(* returns Ok for a run whose coordinator failed.                            *)
RuntimeFailureRecordsFailed ==
  [][\A s \in Sessions :
       broken /\ record[s].state = "Transcribing" /\ record'[s].state # "Transcribing"
         => record'[s].state = "Failed"]_vars

=============================================================================
