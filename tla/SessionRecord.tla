----------------------------- MODULE SessionRecord -----------------------------
(***************************************************************************)
(* The records of a session and of a project (domain/projects.rs): how     *)
(* they are made, edited and moved from state to state, and the validation *)
(* that each new version must pass, here and again whenever the document   *)
(* it is written to is read.  Where the documents go is the matter of      *)
(* DocumentStore and ProjectLibrary, when a state changes that of          *)
(* SessionLifecycle.                                                       *)
(*                                                                         *)
(* The times come from the wall clock, which may be set back between any   *)
(* two operations.  The texts, lists, devices and limits of a record are   *)
(* its content, which is sound or not.  The documents are those that the   *)
(* program wrote: nobody changed their times.                              *)
(***************************************************************************)
EXTENDS Naturals

CONSTANTS
  Contents,          (* what a client may send                               *)
  Sound,             (* of it, what the validation accepts                   *)
  Details,           (* detail codes of a state                              *)
  Times,             (* readings of the wall clock                           *)
  LastRevision       (* JSON_SAFE_INTEGER_MAX                                *)

ASSUME RecordAssumption ==
  /\ Sound \subseteq Contents /\ Times \subseteq Nat
  /\ LastRevision \in Nat \ {0}

VARIABLES
  session,           (* Option: the record of a session                      *)
  project            (* Option: the record of its project                    *)

recordVars == <<session, project>>

SessionStates == {"idle", "preparing", "capturing", "transcribing", "paused", "stopping",
                  "processing_summary", "completed", "failed"}

HealthStatuses == {"stopped", "active", "unavailable"}

(* The health of the two channels changes as one. *)
ChannelHealth == [status : HealthStatuses, detail : {{}} \cup {{d} : d \in Details}, at : Times]

(* `started` and `ended` are options. *)
SessionRecords ==
  [content : Contents, state : SessionStates, health : ChannelHealth, created : Times,
   started : SUBSET Times, ended : SUBSET Times, updated : Times, revision : 1..LastRevision]

ProjectRecords == [content : Contents, created : Times, updated : Times, revision : 1..LastRevision]

RecordInit == session = {} /\ project = {}

----------------------------------------------------------------------------
(* Validation.                                                              *)

(* Bounded texts, lists without repetition, a preset, devices, decimals.    *)
Acceptable(content) == content \in Sound

(* valid_lifecycle_timestamps *)
ValidLifecycle(r) ==
  /\ \A start \in r.started : r.created <= start
  /\ \A end \in r.ended :
       \A start \in (IF r.started = {} THEN {r.created} ELSE r.started) : start <= end
  /\ r.state = "completed" => r.ended # {}

ValidSession(r) ==
  /\ Acceptable(r.content) /\ r.revision <= LastRevision
  /\ r.created <= r.updated /\ ValidLifecycle(r)

ValidProject(p) ==
  Acceptable(p.content) /\ p.revision <= LastRevision /\ p.created <= p.updated

----------------------------------------------------------------------------
(* The operations on a record; each yields a new version of it.             *)

(* Fault: the clock's reading is taken as it is.                            *)
FaultyClamped(r, now) == now

(* No version is older than the one before it, whatever the clock says.     *)
Clamped(r, now) == IF now >= r.updated THEN now ELSE r.updated

NewSession(content, now) ==
  [content |-> content, state |-> "idle",
   health |-> [status |-> "stopped", detail |-> {}, at |-> now],
   created |-> now, started |-> {}, ended |-> {}, updated |-> now, revision |-> 1]

(* Only a session that never ran is edited.                                 *)
EditedSession(r, content, now) ==
  [r EXCEPT !.content = content, !.updated = Clamped(r, now), !.revision = @ + 1]

Allowed(from, to) ==
  \/ from = "idle" /\ to \in {"transcribing", "paused", "completed", "failed"}
  \/ from = "paused" /\ to \in {"transcribing", "completed", "failed"}
  \/ from = "transcribing" /\ to \in {"paused", "completed", "failed"}
  \/ from \in {"preparing", "capturing", "stopping"} /\ to = "failed"

HealthOf(state) ==
  CASE state = "transcribing" -> "active"
    [] state = "failed" -> "unavailable"
    [] OTHER -> "stopped"

(* A session starts once, with its first state other than a failure.        *)
ChangedSession(r, state, detail, now) ==
  LET time == Clamped(r, now)
  IN [r EXCEPT !.state = state,
               !.started = IF @ = {} /\ state # "failed" THEN {time} ELSE @,
               !.ended = IF state = "completed" THEN {time} ELSE @,
               !.health = [status |-> HealthOf(state), detail |-> detail, at |-> time],
               !.updated = time, !.revision = @ + 1]

NewProject(content, now) ==
  [content |-> content, created |-> now, updated |-> now, revision |-> 1]

EditedProject(p, content, now) ==
  [p EXCEPT !.content = content, !.updated = Clamped(p, now), !.revision = @ + 1]

----------------------------------------------------------------------------
(* The steps.                                                               *)

CreateSession(content, now) ==
  /\ session = {} /\ project # {}
  /\ ValidSession(NewSession(content, now))
  /\ session' = {NewSession(content, now)}
  /\ UNCHANGED project

UpdateSession(content, now) ==
  /\ \E r \in session :
       /\ r.state = "idle" /\ r.revision < LastRevision
       /\ ValidSession(EditedSession(r, content, now))
       /\ session' = {EditedSession(r, content, now)}
  /\ UNCHANGED project

ChangeState(state, detail, now) ==
  /\ \E r \in session :
       /\ Allowed(r.state, state) /\ r.revision < LastRevision
       /\ ValidSession(ChangedSession(r, state, detail, now))
       /\ session' = {ChangedSession(r, state, detail, now)}
  /\ UNCHANGED project

CreateProject(content, now) ==
  /\ project = {} /\ ValidProject(NewProject(content, now))
  /\ project' = {NewProject(content, now)}
  /\ UNCHANGED session

UpdateProject(content, now) ==
  /\ \E p \in project :
       /\ p.revision < LastRevision
       /\ ValidProject(EditedProject(p, content, now))
       /\ project' = {EditedProject(p, content, now)}
  /\ UNCHANGED session

RecordNext ==
  \E now \in Times :
    \/ \E content \in Contents :
         \/ CreateSession(content, now) \/ UpdateSession(content, now)
         \/ CreateProject(content, now) \/ UpdateProject(content, now)
    \/ \E state \in SessionStates, detail \in {{}} \cup {{d} : d \in Details} :
         ChangeState(state, detail, now)

RecordSpec == RecordInit /\ [][RecordNext]_recordVars

----------------------------------------------------------------------------
(* Properties.                                                              *)

(* A change of state that a session allows, or an edit with sound content   *)
(* before it runs, is never refused because of the record it applies to:    *)
(* whatever the clock showed at any of the earlier changes and shows now,   *)
(* the new version passes the validation, so a run can always be paused,    *)
(* stopped or declared failed on record (apply_runtime_state, validate).    *)
ChangesApply ==
  /\ \A r \in session :
       r.revision < LastRevision =>
         \A now \in Times :
           /\ \A state \in SessionStates :
                Allowed(r.state, state) => ValidSession(ChangedSession(r, state, {}, now))
           /\ \A content \in Sound :
                r.state = "idle" => ValidSession(EditedSession(r, content, now))
  /\ \A p \in project :
       p.revision < LastRevision =>
         \A content \in Sound, now \in Times : ValidProject(EditedProject(p, content, now))

(* The times of a record are in the order of its life, although the         *)
(* validation does not compare a start or an end with the last update.      *)
TimesOrdered ==
  \A r \in session :
    /\ \A start \in r.started : r.created <= start /\ start <= r.updated
    /\ \A end \in r.ended : r.created <= end /\ end <= r.updated
    /\ \A start \in r.started, end \in r.ended : start <= end

=============================================================================
