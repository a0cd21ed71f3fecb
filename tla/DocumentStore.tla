---------------------------- MODULE DocumentStore ----------------------------
(***************************************************************************)
(* The store of session.md documents (persistence/session_store.rs; that   *)
(* of project.md in project_store.rs has the same steps): a document with  *)
(* its backup and temporary file in a folder of its own.                   *)
(*                                                                         *)
(* A file is the option of the revision it holds: {} is missing, {n} the   *)
(* record at revision n, {Damaged} bytes that do not parse.  The store     *)
(* has no lock.  Commands hold the workspace lock, one at a time; `pump`   *)
(* is the discovery that a running session's writer makes for its search   *)
(* index, on its own thread and without that lock.  Each access of an      *)
(* update to the files is a step, and so is each of the pump's recovery;   *)
(* a command that reads recovers in one step.                              *)
(***************************************************************************)
EXTENDS Naturals, FiniteSets

CONSTANTS
  Ids,               (* sessions, each with a folder of its own              *)
  Damaged,           (* what is neither missing nor a valid document         *)
  MaxRevision,       (* bound: revisions of one document                     *)
  MaxTroubles        (* bound: I/O faults and foreign edits                  *)

ASSUME DocumentAssumption ==
  MaxRevision \in Nat /\ MaxTroubles \in Nat /\ Damaged \notin Nat

VARIABLES
  files,             (* id -> [doc, backup, temp]                            *)
  folder,            (* id -> "none", "live" or "trash"                      *)
  task,              (* Option: the command, [op, id, pc, rev]               *)
  pump,              (* Option: the recovery the pump is in, [id, pc, seen,  *)
                     (* missing]                                             *)
  hurt,              (* history: documents that other programs touched,      *)
                     (* whose update lost its temporary file to the pump, or *)
                     (* that the pump put back from a backup no longer there *)
  troubles           (* bound: troubles so far                               *)

storeVars == <<files, folder, task, pump, hurt, troubles>>

NoFiles == [doc |-> {}, backup |-> {}, temp |-> {}]

StoreInit ==
  /\ files = [s \in Ids |-> NoFiles] /\ folder = [s \in Ids |-> "none"]
  /\ task = {} /\ pump = {} /\ hurt = {} /\ troubles = 0

Trouble == troubles < MaxTroubles /\ troubles' = troubles + 1

Live(s) == folder[s] = "live"

(* The document parses and names this session. *)
Valid(file) == file # {} /\ file # {Damaged}

Store(s, f) == files' = [files EXCEPT ![s] = f]

----------------------------------------------------------------------------
(* Reading.                                                                 *)

(* A valid document makes its temporary file garbage; a missing or damaged  *)
(* one is put back from a valid backup.                                     *)
Recovered(f) ==
  IF Valid(f.doc) THEN [f EXCEPT !.temp = {}]
  ELSE IF Valid(f.backup) THEN [f EXCEPT !.doc = f.backup, !.temp = {}]
  ELSE f

NeedsRecovery(f) == ~Valid(f.doc) /\ Valid(f.backup)

(* discover_sessions reads every document that is still in the workspace.   *)
Discovered == [s \in Ids |-> IF Live(s) THEN Recovered(files[s]) ELSE files[s]]

(* What a discovery finds. *)
Found == [s \in Ids |-> IF Live(s) /\ Valid(Discovered[s].doc) THEN Discovered[s].doc ELSE {}]

----------------------------------------------------------------------------
(* The pump's discovery, document by document.                              *)

(* The first reading; only a document that needs recovery takes more steps. *)
PumpRead(s) ==
  /\ pump = {} /\ Live(s)
  /\ IF NeedsRecovery(files[s])
       THEN pump' = {[id |-> s, pc |-> "recheck", seen |-> {}, missing |-> FALSE]} /\ UNCHANGED files
       ELSE Valid(files[s].doc) /\ Store(s, Recovered(files[s])) /\ UNCHANGED pump
  /\ UNCHANGED <<folder, task, hurt, troubles>>

(* The document is read again, and kept open; then its backup. *)
PumpRecheck ==
  /\ \E p \in pump : p.pc = "recheck"
       /\ LET f == files[p.id]
          IN pump' = IF NeedsRecovery(f)
                       THEN {[p EXCEPT !.pc = "temp", !.seen = f.backup, !.missing = f.doc = {}]}
                       ELSE {}
  /\ UNCHANGED <<files, folder, task, hurt, troubles>>

(* write_synced_temporary: any temporary file there is gives way, also that *)
(* of an update, which will then publish what the pump wrote.               *)
Interferes(s) == \E t \in task : t.id = s /\ t.pc \in {"backup", "replace"}

PumpTemp ==
  /\ \E p \in pump : p.pc = "temp"
       /\ \/ Store(p.id, [files[p.id] EXCEPT !.temp = p.seen])
             /\ pump' = {[p EXCEPT !.pc = "publish"]} /\ UNCHANGED troubles
          \/ Store(p.id, [files[p.id] EXCEPT !.temp = {}]) /\ pump' = {} /\ Trouble
       /\ hurt' = IF Interferes(p.id) THEN hurt \cup {p.id} ELSE hurt
  /\ UNCHANGED <<folder, task>>

(* Fault: a missing document is published like a damaged one.              *)
FaultyPublishable(f, missing) == f.temp # {}

(* atomic_publish_new must not find a document, atomic_replace_existing must. *)
Publishable(f, missing) == f.temp # {} /\ (f.doc = {} <=> missing)

PumpPublish ==
  /\ \E p \in pump : p.pc = "publish"
       /\ LET f == files[p.id]
          IN \/ /\ Publishable(f, p.missing)
                /\ Store(p.id, [f EXCEPT !.doc = f.temp, !.temp = {}])
                /\ hurt' = IF p.seen = f.backup THEN hurt ELSE hurt \cup {p.id}
                /\ UNCHANGED troubles
             \/ ~Publishable(f, p.missing) /\ UNCHANGED <<files, hurt, troubles>>
             \/ Publishable(f, p.missing) /\ Trouble /\ UNCHANGED <<files, hurt>>
  /\ pump' = {}
  /\ UNCHANGED <<folder, task>>

Pump == PumpRecheck \/ PumpTemp \/ PumpPublish \/ \E s \in Ids : PumpRead(s)

----------------------------------------------------------------------------
(* The steps of a command that writes a document.  `Goto("refresh")` hands   *)
(* on to the catalog, `task' = {}` is an error.                             *)

At(pc) == \E t \in task : t.pc = pc

Task == CHOOSE t \in task : TRUE

Mine == files[Task.id]

Goto(pc) == task' = {[Task EXCEPT !.pc = pc]}

Fail == task' = {}

(* create_session: the folder must be a new one. *)
MakeFolder ==
  /\ At("make")
  /\ \/ folder' = [folder EXCEPT ![Task.id] = "live"] /\ Goto("new_temp") /\ UNCHANGED troubles
     \/ Fail /\ Trouble /\ UNCHANGED folder
  /\ UNCHANGED <<files, pump, hurt>>

(* What was created so far is removed again. *)
RemoveFolder == Store(Task.id, NoFiles) /\ folder' = [folder EXCEPT ![Task.id] = "none"] /\ Fail

WriteNew ==
  /\ At("new_temp")
  /\ \/ Store(Task.id, [Mine EXCEPT !.temp = {Task.rev}]) /\ Goto("new_publish")
        /\ UNCHANGED <<folder, troubles>>
     \/ RemoveFolder /\ Trouble
  /\ UNCHANGED <<pump, hurt>>

PublishNew ==
  /\ At("new_publish")
  /\ \/ Publishable(Mine, TRUE) /\ Store(Task.id, [Mine EXCEPT !.doc = Mine.temp, !.temp = {}])
        /\ Goto("refresh") /\ UNCHANGED <<folder, troubles>>
     \/ RemoveFolder /\ (IF Publishable(Mine, TRUE) THEN Trouble ELSE UNCHANGED troubles)
  /\ UNCHANGED <<pump, hurt>>

(* validate_session_update: the revision and the bytes the command has read. *)
Unchanged == Mine.doc = {Task.rev - 1}

(* update_session: the document is read, and kept open until the end. *)
Validate ==
  /\ At("validate")
  /\ IF Unchanged THEN Goto("temp") ELSE Fail
  /\ UNCHANGED <<files, folder, pump, hurt, troubles>>

WriteTemp ==
  /\ At("temp")
  /\ \/ Store(Task.id, [Mine EXCEPT !.temp = {Task.rev}]) /\ Goto("backup") /\ UNCHANGED troubles
     \/ Store(Task.id, [Mine EXCEPT !.temp = {}]) /\ Fail /\ Trouble
  /\ UNCHANGED <<folder, pump, hurt>>

DropBackup ==
  /\ At("backup")
  /\ Store(Task.id, [Mine EXCEPT !.backup = {}]) /\ Goto("replace")
  /\ UNCHANGED <<folder, pump, hurt, troubles>>

(* atomic_replace_with_backup *)
Replaced(f) == [doc |-> f.temp, backup |-> f.doc, temp |-> {}]

(* ReplaceFileW may fail halfway, with the document already renamed to the  *)
(* backup's name.                                                           *)
Halfway(f) == [doc |-> {}, backup |-> f.doc, temp |-> {}]

Replace ==
  /\ At("replace")
  /\ LET possible == Mine.temp # {} /\ Mine.doc # {}
     IN \/ possible /\ Store(Task.id, Replaced(Mine)) /\ Goto("verify") /\ UNCHANGED troubles
        \/ ~possible /\ Store(Task.id, [Mine EXCEPT !.temp = {}]) /\ Fail /\ UNCHANGED troubles
        \/ /\ possible /\ Fail /\ Trouble
           /\ Store(Task.id, [Mine EXCEPT !.temp = {}]) \/ Store(Task.id, Halfway(Mine))
  /\ UNCHANGED <<folder, pump, hurt>>

(* restore_backup replaces an existing document only. *)
RolledBack(f) ==
  [f EXCEPT !.doc = IF Valid(f.backup) /\ f.doc # {} THEN f.backup ELSE @, !.temp = {}]

(* The published bytes are read once more. *)
Verify ==
  /\ At("verify")
  /\ \/ Mine.doc = {Task.rev} /\ Goto("refresh") /\ UNCHANGED <<files, troubles>>
     \/ /\ Store(Task.id, RolledBack(Mine)) /\ Fail
        /\ IF Mine.doc = {Task.rev} THEN Trouble ELSE UNCHANGED troubles
  /\ UNCHANGED <<folder, pump, hurt>>

(* trash_session renames the folder, which a discovery that has it open     *)
(* forbids.                                                                 *)
Trash ==
  /\ At("trash")
  /\ \/ (\A p \in pump : p.id # Task.id)
        /\ folder' = [folder EXCEPT ![Task.id] = "trash"] /\ Goto("refresh") /\ UNCHANGED troubles
     \/ Fail /\ (IF \A p \in pump : p.id # Task.id THEN Trouble ELSE UNCHANGED troubles)
        /\ UNCHANGED folder
  /\ UNCHANGED <<files, pump, hurt>>

StoreStep ==
  \/ MakeFolder \/ WriteNew \/ PublishNew
  \/ Validate \/ WriteTemp \/ DropBackup \/ Replace \/ Verify \/ Trash

----------------------------------------------------------------------------
(* The environment.                                                         *)

(* A reading that found the document keeps others from writing into it.     *)
WriteLocked(s) ==
  \/ \E t \in task : t.id = s /\ t.pc \in {"temp", "backup", "replace"}
  \/ \E p \in pump : p.id = s /\ p.pc \in {"temp", "publish"} /\ ~p.missing

(* Another program spoils a document or removes it. *)
Damage(s) ==
  /\ Live(s) /\ files[s].doc # {} /\ Trouble
  /\ \/ ~WriteLocked(s) /\ Valid(files[s].doc) /\ Store(s, [files[s] EXCEPT !.doc = {Damaged}])
     \/ Store(s, [files[s] EXCEPT !.doc = {}])
  /\ hurt' = hurt \cup {s}
  /\ UNCHANGED <<folder, task, pump>>

(* The process ends; the files stay as they are. *)
Crash ==
  /\ task # {} \/ pump # {}
  /\ task' = {} /\ pump' = {}
  /\ UNCHANGED <<files, folder, hurt, troubles>>

=============================================================================
