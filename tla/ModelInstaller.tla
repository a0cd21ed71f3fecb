---------------------------- MODULE ModelInstaller ----------------------------
(***************************************************************************)
(* The Whisper models: their files (models/installer.rs) and the service   *)
(* the model commands share (models/service.rs).  One download runs at a   *)
(* time, in a thread of its own that holds the manager's mutex from Start  *)
(* to its outcome; queue, cancel, delete and set_default run beside it.    *)
(* The process may stop between any two steps: files, the settings and the *)
(* stored jobs survive it.                                                 *)
(*                                                                         *)
(* A file is the number of its chunks and whether they are the model's;    *)
(* resume metadata either matches the catalog or counts as missing.  Of    *)
(* the jobs of a model the latest is kept: an older one never changes.     *)
(* Its status is running (queued, downloading, verifying), stopped (paused,*)
(* cancelled, failed) or completed.                                        *)
(* The times of installation and the byte counts of jobs are left out.     *)
(***************************************************************************)
EXTENDS Naturals, FiniteSets

CONSTANTS
  Models,       (* the catalog                                              *)
  Preset,       (* the default model of a new installation                  *)
  Full,         (* the chunks of a model                                    *)
  MaxTampered   (* bound: files changed from outside                        *)

ASSUME InstallerAssumption ==
  Preset \in Models /\ Full \in Nat \ {0} /\ MaxTampered \in Nat

VARIABLES
  final,      (* model -> "none", "good" or "bad": the published file       *)
  part,       (* model -> [len, good]: the .part file                       *)
  meta,       (* the models with valid resume metadata                      *)
  default,    (* AppSettings::default_transcription_model_id                *)
  selected,   (* ModelManager::selected_model_id, at most one               *)
  jobs,       (* model -> the status of its job                             *)
  active,     (* ActiveDownload: at most one [model, cancel]                *)
  run,        (* the download thread: [at, then, outcome]                   *)
  deleting,   (* the delete command: [at, model]                            *)
  tampered    (* how many files were changed from outside                   *)

fileVars == <<final, part, meta>>
choiceVars == <<default, selected>>
installerVars == <<fileVars, choiceVars, jobs, active, run, deleting, tampered>>

(* The statuses of a job that the steps tell apart. *)
Statuses == {"none", "running", "stopped", "completed"}

NoPart == [len |-> 0, good |-> TRUE]
NoRun == [at |-> "idle", then |-> "idle", outcome |-> "nothing"]
NoDelete == [at |-> "idle", model |-> Preset]

InstallerInit ==
  /\ final = [m \in Models |-> "none"]
  /\ part = [m \in Models |-> NoPart]
  /\ meta = {}
  /\ default = Preset /\ selected = {}
  /\ jobs = [m \in Models |-> "none"]
  /\ active = {} /\ run = NoRun /\ deleting = NoDelete
  /\ tampered = 0

(* The download thread holds the manager's mutex. *)
Installing == run.at \notin {"idle", "queued", "done", "release"}

Chosen == {a.model : a \in active}
Flagged == \E a \in active : a.cancel

----------------------------------------------------------------------------
(* Jobs.                                                                    *)

(* save_model_job *)
Save(m, status) == jobs' = [jobs EXCEPT ![m] = status]

(* transition_job; a job that was deleted stays deleted.                    *)
Transition(m, status) == Save(m, IF jobs[m] = "none" THEN "none" ELSE status)

(* queue_resume is the same, for a model with resumable bytes.              *)
Queue(m) ==
  /\ active = {} /\ final[m] = "none"
  /\ active' = {[model |-> m, cancel |-> FALSE]}
  /\ run' = [NoRun EXCEPT !.at = "queued"]
  /\ Save(m, "running")
  /\ UNCHANGED <<fileVars, choiceVars, deleting, tampered>>

Cancel ==
  \E a \in active :
    /\ active' = {[a EXCEPT !.cancel = TRUE]}
    /\ Transition(a.model, "stopped")
    /\ UNCHANGED <<fileVars, choiceVars, run, deleting, tampered>>

----------------------------------------------------------------------------
(* The download thread, in steps at which it may stop.                      *)

Proceed(place) == run' = [NoRun EXCEPT !.at = place]

(* install returns: installed, cancelled or failed.                         *)
Return(outcome) == run' = [run EXCEPT !.at = "done", !.outcome = outcome]

(* clear_staging, and where the thread goes after it.                       *)
Clear(place) == run' = [run EXCEPT !.at = "clear", !.then = place]

(* The progress callback says nothing once the flag is up.  What it read is *)
(* what it acts on: the job changes in a later step.                        *)
Announce(status, place) ==
  \/ (Flagged \/ status = "downloading") /\ Proceed(place)
  \/ ~Flagged /\ run' = [run EXCEPT !.at = "report", !.then = place]

OnlyRun == UNCHANGED <<choiceVars, jobs, active, deleting, tampered>>

Start(m) ==
  /\ run.at = "queued"
  /\ \/ final[m] = "good" /\ Return("installed") /\ UNCHANGED final
     \/ final[m] # "good" /\ final' = [final EXCEPT ![m] = "none"] /\ Proceed("stage")
  /\ UNCHANGED <<part, meta>> /\ OnlyRun

(* normalize_staging, and the staged file that is already complete.         *)
Stage(m) ==
  /\ run.at = "stage"
  /\ \/ part[m].len = 0 /\ meta' = meta \ {m} /\ Proceed("open")
     \/ /\ part[m].len > 0 /\ UNCHANGED meta
        /\ \/ m \notin meta /\ Clear("open")
           \/ m \in meta /\ part[m].len < Full /\ Proceed("open")
           \/ m \in meta /\ part[m].len = Full /\ ~part[m].good /\ Clear("open")
           \/ m \in meta /\ part[m].len = Full /\ part[m].good /\ Announce("verifying", "ready")
  /\ UNCHANGED <<final, part>> /\ OnlyRun

(* The part goes first, then the metadata.                                  *)
ClearStaging(m) ==
  /\ run.at = "clear"
  /\ \/ part[m].len > 0 /\ part' = [part EXCEPT ![m] = NoPart] /\ UNCHANGED <<meta, run>>
     \/ /\ part[m].len = 0 /\ meta' = meta \ {m} /\ UNCHANGED part
        /\ IF run.then = "failed" THEN Return("failed") ELSE Proceed(run.then)
  /\ UNCHANGED final /\ OnlyRun

(* The server answers with the rest of the file, or with all of it.         *)
Open(m) ==
  /\ run.at = "open"
  /\ \/ Flagged /\ Return("cancelled") /\ UNCHANGED part
     \/ ~Flagged /\ Proceed("forget") /\ (UNCHANGED part \/ part' = [part EXCEPT ![m] = NoPart])
  /\ UNCHANGED <<final, meta>> /\ OnlyRun

(* write_resume_metadata removes the old metadata and moves the new there.  *)
ForgetMetadata(m) ==
  /\ run.at = "forget" /\ meta' = meta \ {m} /\ Proceed("remember")
  /\ UNCHANGED <<final, part>> /\ OnlyRun

WriteMetadata(m) ==
  /\ run.at = "remember" /\ meta' = meta \cup {m} /\ Announce("downloading", "copy")
  /\ UNCHANGED <<final, part>> /\ OnlyRun

(* The bytes are those of whatever the server has there today.              *)
CopyChunk(m) ==
  /\ run.at = "copy"
  /\ \/ Flagged /\ Return("cancelled") /\ UNCHANGED part
     \/ ~Flagged /\ part[m].len < Full /\ Announce("downloading", "copy")
          /\ \E good \in BOOLEAN :
               part' = [part EXCEPT ![m] = [len |-> @.len + 1, good |-> @.good /\ good]]
     \/ ~Flagged /\ part[m].len = Full /\ Clear("failed") /\ UNCHANGED part
  /\ UNCHANGED <<final, meta>> /\ OnlyRun

(* The stream ends, too early or where it should.                           *)
EndCopy(m) ==
  /\ run.at = "copy" /\ ~Flagged
  /\ IF part[m].len < Full THEN Return("failed") ELSE Proceed("verify")
  /\ UNCHANGED fileVars /\ OnlyRun

VerifyPart(m) ==
  /\ run.at = "verify"
  /\ \/ Flagged /\ Return("cancelled")
     \/ ~Flagged /\ Announce("verifying", "hash")
  /\ UNCHANGED fileVars /\ OnlyRun

(* Fault: a complete file is published without a look at its hash.          *)
FaultyHash(m) ==
  /\ run.at = "hash" /\ Proceed("publish")
  /\ UNCHANGED fileVars /\ OnlyRun

Hash(m) ==
  /\ run.at = "hash"
  /\ IF part[m].good THEN Proceed("publish") ELSE Clear("failed")
  /\ UNCHANGED fileVars /\ OnlyRun

(* A file that was complete and right before the download is published      *)
(* unless the flag goes up.                                                 *)
Ready(m) ==
  /\ run.at = "ready"
  /\ IF Flagged THEN Return("cancelled") ELSE Proceed("publish")
  /\ UNCHANGED fileVars /\ OnlyRun

Publish(m) ==
  /\ run.at = "publish"
  /\ final' = [final EXCEPT ![m] = IF part[m].good THEN "good" ELSE "bad"]
  /\ part' = [part EXCEPT ![m] = NoPart]
  /\ Proceed("tidy")
  /\ UNCHANGED meta /\ OnlyRun

Tidy(m) ==
  /\ run.at = "tidy" /\ meta' = meta \ {m} /\ Return("installed")
  /\ UNCHANGED <<final, part>> /\ OnlyRun

(* An operation on a file, the disk space or the connection fails.          *)
FailDownload(m) ==
  /\ Installing /\ run.at # "report" /\ Return("failed")
  /\ UNCHANGED fileVars /\ OnlyRun

Report(m) ==
  /\ run.at = "report" /\ Transition(m, "running") /\ Proceed(run.then)
  /\ UNCHANGED <<fileVars, choiceVars, active, deleting, tampered>>

(* Fault: an error on the way leaves the download active.                   *)
FaultyAccount(m) ==
  /\ run.at = "done"
  /\ \/ run.outcome # "failed" /\ UNCHANGED jobs /\ run' = NoRun
     \/ /\ Transition(m, IF run.outcome = "installed" THEN "completed" ELSE "stopped")
        /\ Proceed("release")
  /\ UNCHANGED <<fileVars, choiceVars, active, deleting, tampered>>

(* The terminal state of the job.  Recording the installation, or reading   *)
(* the staged bytes of a cancelled one, may fail; the job then stays.       *)
Account(m) ==
  /\ run.at = "done" /\ Proceed("release")
  /\ \/ run.outcome # "failed" /\ UNCHANGED jobs
     \/ Transition(m, IF run.outcome = "installed" THEN "completed" ELSE "stopped")
  /\ UNCHANGED <<fileVars, choiceVars, active, deleting, tampered>>

Release ==
  /\ run.at = "release" /\ active' = {} /\ run' = NoRun
  /\ UNCHANGED <<fileVars, choiceVars, jobs, deleting, tampered>>

Download ==
  \/ \E m \in Chosen :
       \/ Start(m) \/ Stage(m) \/ ClearStaging(m) \/ Open(m) \/ ForgetMetadata(m)
       \/ WriteMetadata(m) \/ CopyChunk(m) \/ EndCopy(m) \/ VerifyPart(m) \/ Hash(m)
       \/ Ready(m) \/ Publish(m) \/ Tidy(m) \/ FailDownload(m) \/ Report(m) \/ Account(m)
  \/ Release

----------------------------------------------------------------------------
(* Deletion and the choice of the default model.                            *)

GotoDelete(place, m) == deleting' = [at |-> place, model |-> m]

OnlyDelete == UNCHANGED <<choiceVars, active, run, tampered>>

DeleteAsked(m) ==
  /\ deleting.at = "idle" /\ m \notin Chosen /\ GotoDelete("choice", m)
  /\ UNCHANGED <<fileVars, jobs>> /\ OnlyDelete

DeleteAllowed(m) ==
  /\ deleting = [at |-> "choice", model |-> m]
  /\ IF default = m THEN deleting' = NoDelete ELSE GotoDelete("files", m)
  /\ UNCHANGED <<fileVars, jobs>> /\ OnlyDelete

(* The mutex is free, and the selection is looked at again under it.        *)
DeleteFiles(m) ==
  /\ deleting = [at |-> "files", model |-> m] /\ ~Installing
  /\ \/ selected = {m} /\ deleting' = NoDelete /\ UNCHANGED fileVars
     \/ /\ selected # {m} /\ GotoDelete("jobs", m)
        /\ final' = [final EXCEPT ![m] = "none"]
        /\ part' = [part EXCEPT ![m] = NoPart]
        /\ meta' = meta \ {m}
     \/ /\ selected # {m} /\ deleting' = NoDelete
        /\ final' = [final EXCEPT ![m] = "none"]
        /\ part' \in {part, [part EXCEPT ![m] = NoPart]}
        /\ UNCHANGED meta
  /\ UNCHANGED jobs /\ OnlyDelete

(* The settings may refuse; the jobs then stay.                             *)
DeleteJobs(m) ==
  /\ deleting = [at |-> "jobs", model |-> m] /\ deleting' = NoDelete
  /\ jobs' = [jobs EXCEPT ![m] = "none"] \/ UNCHANGED jobs
  /\ UNCHANGED fileVars /\ OnlyDelete

(* select reads the file once more; that it finds another one there than    *)
(* is_installed a moment before is left out.                                *)
SetDefault(m) ==
  /\ ~Installing /\ final[m] = "good"
  /\ default' = m /\ selected' = {m}
  /\ UNCHANGED <<fileVars, jobs, active, run, deleting, tampered>>

----------------------------------------------------------------------------
(* The world outside.                                                       *)

(* A published file is damaged, or put there by hand.                       *)
Tamper(m) ==
  /\ tampered < MaxTampered /\ tampered' = tampered + 1
  /\ \E content \in {"good", "bad"} \ {final[m]} : final' = [final EXCEPT ![m] = content]
  /\ UNCHANGED <<part, meta, choiceVars, jobs, active, run, deleting>>

(* recover_interrupted_jobs: what was running is paused, and so is what     *)
(* ended without its end being saved.                                       *)
RecoveredJobs ==
  {table \in [Models -> Statuses \ {"running"}] :
     \A m \in Models :
       /\ table[m] = "none" <=> jobs[m] = "none"
       /\ table[m] = "completed" => jobs[m] = "completed"}

(* The process stops and starts.  Chunks not yet synced may be lost.        *)
Restart ==
  /\ part' \in {part} \cup
       {[part EXCEPT ![m] = [len |-> n, good |-> @.good /\ good]] :
          m \in {k \in Chosen : run.at \in {"copy", "report"}}, n \in 0..Full, good \in BOOLEAN}
  /\ \A m \in Models : part'[m].len <= part[m].len
  /\ active' = {} /\ run' = NoRun /\ deleting' = NoDelete /\ selected' = {}
  /\ jobs' \in RecoveredJobs
  /\ UNCHANGED <<final, meta, default, tampered>>

InstallerNext ==
  \/ \E m \in Models :
       \/ Queue(m)
       \/ DeleteAsked(m) \/ DeleteAllowed(m) \/ DeleteFiles(m) \/ DeleteJobs(m)
       \/ SetDefault(m) \/ Tamper(m)
  \/ Cancel \/ Download \/ Restart

(* The thread is given time, and the client's timeout ends every read.      *)
InstallerSpec ==
  InstallerInit /\ [][InstallerNext]_installerVars /\ WF_installerVars(Download)

----------------------------------------------------------------------------
(* Properties.                                                              *)

(* No sequence of cancelled, resumed, restarted and interrupted downloads,  *)
(* from a server whose file may change, publishes a file with other bytes   *)
(* than the catalog's.                                                      *)
PublishedVerified ==
  [][\A m \in Models : final'[m] = "bad" /\ final[m] # "bad" => tampered' # tampered]_installerVars

(* The default model stays installed: a deletion that was allowed when the  *)
(* model was not yet the default does not remove it after it has become so. *)
DefaultKept ==
  [][\A m \in Models :
       default = m /\ final[m] = "good" => final'[m] # "none"]_installerVars

(* Whatever fails on its way, a download ends and the next can be queued.   *)
DownloadEnds == active # {} ~> active = {}

(* "terminally accounts for completed, cancelled/paused, or failed work"    *)
(* (docs/project-memory.md): a job that is shown as running is running.     *)
TerminallyAccounted ==
  \A m \in Models : jobs[m] = "running" => m \in Chosen

=============================================================================
