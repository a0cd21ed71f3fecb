---------------------------- MODULE ProjectLibrary ----------------------------
(***************************************************************************)
(* The settings, the workspace they select, and the projects in it         *)
(* (persistence/settings_store.rs, project_store.rs, project_index.rs,     *)
(* project_service.rs, workspace_service.rs).  Every command holds the     *)
(* lock of SettingsService from reading the settings to its answer, so it  *)
(* is one step, with an outcome: done, failed at some point with the       *)
(* code's clean-up, or ended with the process at some point without it.    *)
(*                                                                         *)
(* Two workspaces share one project index and one session index.  Each     *)
(* project has one session, of which only the class of its state and the   *)
(* writer of a run matter here (the run itself is SessionLifecycle).       *)
(***************************************************************************)
EXTENDS Naturals, Sequences

CONSTANTS
  Workspaces, Default,
  Projects,
  Home,              (* the workspace that each project's folder is in       *)
  Damaged,           (* bytes that are no valid document                     *)
  MaxRevision,       (* bound: revisions of a project                        *)
  MaxSettings,       (* bound: the revision of the settings                  *)
  MaxTroubles        (* bound: faults, crashes and foreign edits             *)

ASSUME LibraryAssumption ==
  /\ Default \in Workspaces /\ Home \in [Projects -> Workspaces]
  /\ {MaxRevision, MaxSettings, MaxTroubles} \subseteq Nat /\ Damaged \notin Nat

VARIABLES
  rows,              (* app_settings_versions, newest first                  *)
  view,              (* Option: the settings a client holds                  *)
  quarantined,       (* history: was the settings database ever put aside?   *)
  files,             (* project -> [doc, backup, temp], options of revisions *)
  place,             (* project -> "none", "live" or "trash"                 *)
  index,             (* project index: [fresh, key, rows]; an index without  *)
                     (* a generation is not fresh                            *)
  record,            (* project -> the state in its session.md               *)
  listing,           (* session index: [fresh, key, rows]                    *)
  writer,            (* Option: the project whose session is being written   *)
  stopping,          (* is that run being paused or stopped?                 *)
  up,                (* commands are served; FALSE until startup is over     *)
  acked,             (* history: the revision each command acknowledged      *)
  hurt,              (* history: projects that other programs touched and no *)
                     (* discovery has seen since                             *)
  troubles

settingsVars == <<rows, view, quarantined>>
sessionVars == <<record, listing, writer, stopping>>
projectVars == <<files, place, index, acked, hurt>>
runVars == <<writer, stopping, up>>
libraryVars == <<settingsVars, projectVars, sessionVars, up, troubles>>

Trouble == troubles < MaxTroubles /\ troubles' = troubles + 1

NoFiles == [doc |-> {}, backup |-> {}, temp |-> {}]

NoIndex(row) == [fresh |-> FALSE, key |-> {}, rows |-> [p \in Projects |-> row]]

LibraryInit ==
  /\ rows = <<>> /\ view = {} /\ quarantined = FALSE
  /\ files = [p \in Projects |-> NoFiles] /\ place = [p \in Projects |-> "none"]
  /\ record = [p \in Projects |-> "none"] /\ writer = {}
  /\ stopping = FALSE /\ up = TRUE
  /\ index = NoIndex({}) /\ listing = NoIndex("none")
  /\ acked = [p \in Projects |-> 0] /\ hurt = {} /\ troubles = 0

----------------------------------------------------------------------------
(* Settings.                                                                *)

Row(rev, workspace, note) == [rev |-> rev, ws |-> workspace, note |-> note, valid |-> TRUE]

(* store_settings keeps three versions. *)
Stored(row, versions) ==
  SubSeq(<<row>> \o versions, 1, IF Len(versions) < 3 THEN Len(versions) + 1 ELSE 3)

(* The defaults, in the folder that prepare_foundation_workspace makes. *)
Foundation(rev) == Row(rev, Default, 0)

ValidRows == {i \in DOMAIN rows : rows[i].valid}

(* Fault: the revision of the version that was still valid is counted on.   *)
FaultyRecoveredRevision(i) == rows[i].rev + 1

(* Recovery takes a revision that no version had. *)
RecoveredRevision(i) == rows[1].rev + 1

(* load_or_recover: the newest version, else the newest valid one stored    *)
(* again, else the defaults.                                                *)
Loaded ==
  IF rows = <<>> THEN <<Foundation(0)>>
  ELSE IF rows[1].valid THEN rows
  ELSE IF ValidRows = {} THEN Stored(Foundation(RecoveredRevision(1)), rows)
  ELSE LET i == CHOOSE k \in ValidRows : \A j \in ValidRows : k <= j
       IN Stored([rows[i] EXCEPT !.rev = RecoveredRevision(i)], rows)

Chosen == Head(Loaded).ws

(* What every command does first. *)
Load == up /\ rows' = Loaded

GetSettings ==
  /\ Load /\ view' = {Head(Loaded)}
  /\ UNCHANGED <<quarantined, projectVars, sessionVars, up, troubles>>

Saved(row) ==
  /\ up /\ Head(Loaded).rev < MaxSettings
  /\ rows' = Stored([row EXCEPT !.rev = Head(Loaded).rev + 1], Loaded)
  /\ UNCHANGED <<quarantined, projectVars, sessionVars, up, troubles>>

(* AppSettings::apply_update *)
Edited(row, note) == [row EXCEPT !.note = note]

(* update_settings with the revision the client holds; a conflict rolls the  *)
(* transaction back.                                                        *)
UpdateSettings(note) ==
  /\ \E held \in view : held.rev = Head(Loaded).rev
  /\ Saved(Edited(Head(Loaded), note))
  /\ view' = {Head(rows')}

(* choose_workspace asks for no revision, nor whether a session runs. *)
ChooseWorkspace(w) == Saved([Head(Loaded) EXCEPT !.ws = w]) /\ UNCHANGED view

(* A stored version no longer parses, or the whole database is damaged and  *)
(* put aside.                                                               *)
SettingsDamaged ==
  /\ rows # <<>> /\ Trouble
  /\ \/ \E n \in 1..Len(rows) :
          rows' = [i \in DOMAIN rows |-> IF i <= n THEN [rows[i] EXCEPT !.valid = FALSE] ELSE rows[i]]
        /\ UNCHANGED quarantined
     \/ rows' = <<>> /\ quarantined' = TRUE
  /\ UNCHANGED <<view, projectVars, sessionVars, up>>

----------------------------------------------------------------------------
(* The project store.                                                       *)

Live(p) == place[p] = "live"
Valid(file) == file # {} /\ file # {Damaged}

(* read_project_with_recovery *)
Recovered(f) ==
  IF Valid(f.doc) THEN [f EXCEPT !.temp = {}]
  ELSE IF Valid(f.backup) THEN [f EXCEPT !.doc = f.backup, !.temp = {}]
  ELSE f

(* create_project: what a crash may leave behind; an error leaves nothing.  *)
CreateLeft == {NoFiles, [NoFiles EXCEPT !.temp = {1}], [NoFiles EXCEPT !.doc = {1}]}

(* atomic_replace_with_backup *)
Replaced(f, n) == [doc |-> {n}, backup |-> f.doc, temp |-> {}]

(* update_project: the files after each of its steps; ReplaceFileW may end   *)
(* with the document already renamed to the backup's name.                  *)
UpdateSteps(f, n) ==
  {f, [f EXCEPT !.temp = {n}], [f EXCEPT !.temp = {n}, !.backup = {}],
   [doc |-> {}, backup |-> f.doc, temp |-> {}], Replaced(f, n)}

(* What an error leaves: no temporary file, and the old document where the  *)
(* new one was published already and the backup could be put back.          *)
UpdateFailed(f, n) ==
  {[g EXCEPT !.temp = {}] : g \in UpdateSteps(f, n)} \cup {[f EXCEPT !.backup = f.doc, !.temp = {}]}

----------------------------------------------------------------------------
(* The indexes.                                                             *)

(* discover_projects *)
Discovered(fs) == [p \in Projects |-> IF Live(p) /\ Home[p] = Chosen THEN Recovered(fs[p]) ELSE fs[p]]

Found(fs, places) ==
  [p \in Projects |-> IF places[p] = "live" /\ Home[p] = Chosen /\ Valid(Recovered(fs[p]).doc)
                        THEN Recovered(fs[p]).doc ELSE {}]

(* rebuild_on_connection *)
Rebuilt(fs, places) == [fresh |-> TRUE, key |-> {Chosen}, rows |-> Found(fs, places)]

(* Fault: the index is not asked whose workspace it describes.             *)
FaultyHasProjection(ix) == ix.fresh

(* index_has_projection *)
HasProjection(ix) == ix.fresh /\ ix.key = {Chosen}

Projection == IF HasProjection(index) THEN index ELSE Rebuilt(files, place)

SessionsFound(records, places) ==
  [p \in Projects |-> IF places[p] = "live" /\ Home[p] = Chosen THEN records[p] ELSE "none"]

SessionsRebuilt(records) ==
  [fresh |-> TRUE, key |-> {Chosen}, rows |-> SessionsFound(records, place)]

(* Fault: the session index is not asked whose workspace it describes.     *)
FaultySessionListing == IF listing.fresh THEN listing ELSE SessionsRebuilt(record)

SessionListing ==
  IF listing.fresh /\ listing.key = {Chosen} THEN listing
  ELSE SessionsRebuilt(record)

(* read_project: by its row, and the index again where the document differs. *)
Reads(p) == Projection.rows[p] # {} /\ Live(p) /\ Valid(Recovered(files[p]).doc)

Read(p) ==
  LET same == Projection.rows[p] = Recovered(files[p]).doc
  IN [files |-> IF HasProjection(index) /\ same THEN [files EXCEPT ![p] = Recovered(@)] ELSE Discovered(files),
      index |-> IF same THEN Projection ELSE Rebuilt(files, place)]

(* A discovery ends the excuse of what other programs did, but for what it  *)
(* could not repair or restored from an older backup.                       *)
Seen(fs) ==
  {p \in hurt : \/ ~Live(p) \/ Home[p] # Chosen
                \/ ~\E n \in Recovered(fs[p]).doc : n # Damaged /\ n >= acked[p]}

----------------------------------------------------------------------------
(* Commands on projects.                                                    *)

ListProjects ==
  /\ Load
  /\ files' = IF HasProjection(index) THEN files ELSE Discovered(files)
  /\ index' = Projection
  /\ hurt' = IF HasProjection(index) THEN hurt ELSE Seen(files)
  /\ UNCHANGED <<view, quarantined, place, acked, sessionVars, up, troubles>>

GetProject(p) ==
  /\ Load /\ Reads(p)
  /\ files' = Read(p).files /\ index' = Read(p).index
  /\ UNCHANGED <<view, quarantined, place, acked, hurt, sessionVars, up, troubles>>

(* A write that reached the index: refresh_after_write. *)
Acknowledge(p, rev, fs, places) ==
  /\ files' = Discovered([fs EXCEPT ![p] = Recovered(@)])
  /\ index' = Rebuilt(fs, places)
  /\ acked' = [acked EXCEPT ![p] = rev]
  /\ hurt' = Seen(fs)
  /\ UNCHANGED <<runVars, troubles>>

(* One that did not, for an error: the index stays invalidated.             *)
Unacknowledged == index' = [index EXCEPT !.fresh = FALSE] /\ Trouble /\ UNCHANGED <<acked, hurt>>

Refuse == Unacknowledged /\ UNCHANGED runVars

(* And one during which the process ended, with the run it was making.      *)
Perish == Unacknowledged /\ writer' = {} /\ stopping' = FALSE /\ up' = FALSE

Put(p, f, fs) == files' = [fs EXCEPT ![p] = f]

CreateProject(p) ==
  /\ Load /\ Home[p] = Chosen /\ place[p] = "none"
  /\ LET new == [NoFiles EXCEPT !.doc = {1}]
     IN \/ /\ place' = [place EXCEPT ![p] = "live"]
           /\ \/ Acknowledge(p, 1, [files EXCEPT ![p] = new], place')
              \/ Put(p, new, files) /\ Refuse
              \/ \E f \in CreateLeft : Put(p, f, files) /\ Perish
        \/ Refuse /\ UNCHANGED <<files, place>>
  /\ UNCHANGED <<view, quarantined, record, listing>>

UpdateProject(p) ==
  /\ Load /\ Reads(p)
  /\ LET fs == Read(p).files
     IN \E n \in fs[p].doc :
          /\ n < MaxRevision
          /\ \/ Acknowledge(p, n + 1, [fs EXCEPT ![p] = Replaced(fs[p], n + 1)], place)
             \/ \E f \in UpdateFailed(fs[p], n + 1) : Put(p, f, fs) /\ Refuse
             \/ \E f \in UpdateSteps(fs[p], n + 1) : Put(p, f, fs) /\ Perish
  /\ UNCHANGED <<view, quarantined, place, record, listing>>

(* trash_project renames the folder. *)
MoveToTrash(p) == place' = [place EXCEPT ![p] = "trash"]

(* session_is_running, of what the listing says. *)
Running(state) == state \in {"active", "paused"}

DeleteProject(p) ==
  /\ Load /\ Reads(p)
  /\ listing' = SessionListing
  /\ IF Running(SessionListing.rows[p])
       THEN /\ files' = Read(p).files /\ index' = Read(p).index
            /\ UNCHANGED <<place, acked, hurt, runVars, troubles>>
       ELSE \/ /\ MoveToTrash(p)
               /\ Acknowledge(p, acked[p], Read(p).files, place')
            \/ /\ MoveToTrash(p) \/ UNCHANGED place
               /\ files' = Read(p).files
               /\ Refuse \/ Perish
  /\ UNCHANGED <<view, quarantined, record>>

(* WorkspaceService::rescan *)
Rescan ==
  /\ Load
  /\ files' = Discovered(files)
  /\ index' = Rebuilt(files, place)
  /\ listing' = SessionsRebuilt(record)
  /\ hurt' = Seen(files)
  /\ UNCHANGED <<view, quarantined, place, acked, record, runVars, troubles>>

----------------------------------------------------------------------------
(* Commands on sessions, as far as they concern the indexes.                *)

(* The project is read; its session moves from the record to `state`, and    *)
(* the index follows or stays invalidated.                                  *)
Opens(p) == Load /\ Reads(p) /\ files' = Read(p).files /\ index' = Read(p).index

Moves(p, state) ==
  record' = [record EXCEPT ![p] = state] /\ listing' = SessionsRebuilt(record') /\ UNCHANGED troubles

Sticks(p, state) ==
  record' = [record EXCEPT ![p] = state] /\ listing' = [listing EXCEPT !.fresh = FALSE] /\ Trouble

(* start_session and resume_session; a run whose record fails is undone. *)
StartRun(p) ==
  /\ Opens(p) /\ writer = {} /\ record[p] \in {"none", "paused"}
  /\ \/ Moves(p, "active") /\ writer' = {p}
     \/ UNCHANGED writer /\ \E state \in {record[p], "active", "ended"} : Sticks(p, state)
  /\ UNCHANGED <<view, quarantined, place, acked, hurt, stopping, up>>

(* pause_session and stop_session, up to the validated record; the runtime is *)
(* then stopped without the lock.                                           *)
StopRun(p) ==
  /\ Opens(p) /\ writer = {p} /\ ~stopping /\ record[p] = "active"
  /\ stopping' = TRUE
  /\ UNCHANGED <<view, quarantined, place, acked, hurt, record, listing, writer, up, troubles>>

(* finish_boundary: the writer goes whatever becomes of the record. *)
FinishRun(p) ==
  /\ writer = {p} /\ stopping
  /\ writer' = {} /\ stopping' = FALSE
  /\ \/ /\ Opens(p)
        /\ \/ \E state \in {"paused", "ended"} : Moves(p, state)
           \/ \E state \in {"active", "paused", "ended"} : Sticks(p, state)
     \/ /\ Load /\ ~Reads(p)
        /\ files' = IF HasProjection(index) THEN files ELSE Discovered(files)
        /\ index' = Projection
        /\ UNCHANGED <<record, listing, troubles>>
  /\ UNCHANGED <<view, quarantined, place, acked, hurt, up>>

(* stop_session of a paused session. *)
StopPaused(p) ==
  /\ Opens(p) /\ writer = {} /\ record[p] = "paused"
  /\ Moves(p, "ended") \/ \E state \in {"paused", "ended"} : Sticks(p, state)
  /\ UNCHANGED <<view, quarantined, place, acked, hurt, runVars>>

----------------------------------------------------------------------------
(* The process.                                                             *)

Exit == up /\ up' = FALSE /\ writer' = {} /\ stopping' = FALSE
  /\ UNCHANGED <<settingsVars, projectVars, record, listing, troubles>>

(* recover_interrupted_sessions settles some or all of the records, and      *)
(* rebuilds the index only after all.                                       *)
Startup ==
  /\ ~up /\ up' = TRUE /\ rows' = Loaded
  /\ LET due == {p \in Projects : Live(p) /\ Home[p] = Chosen /\ record[p] = "active"}
     IN \E done \in SUBSET due, state \in {"paused", "ended"} :
          /\ record' = [p \in Projects |-> IF p \in done THEN state ELSE record[p]]
          /\ IF done = due
               THEN /\ listing' = IF due = {} THEN listing ELSE SessionsRebuilt(record')
                    /\ UNCHANGED troubles
               ELSE Trouble /\ UNCHANGED listing
  /\ UNCHANGED <<view, quarantined, projectVars, writer, stopping>>

----------------------------------------------------------------------------
(* Other programs: a document is spoilt or removed, and a deleted project   *)
(* is taken out of the trash.                                               *)
Damage(p) ==
  /\ Live(p) /\ Valid(files[p].doc) /\ Trouble
  /\ \E bytes \in {{}, {Damaged}} : files' = [files EXCEPT ![p].doc = bytes]
  /\ hurt' = hurt \cup {p}
  /\ UNCHANGED <<settingsVars, sessionVars, up, place, index, acked>>

TakeBack(p) ==
  /\ place[p] = "trash" /\ Trouble
  /\ place' = [place EXCEPT ![p] = "live"]
  /\ hurt' = hurt \cup {p}
  /\ UNCHANGED <<settingsVars, sessionVars, up, files, index, acked>>

(* Either index is damaged, found out and put aside. *)
Quarantine ==
  /\ Trouble
  /\ \/ index # NoIndex({}) /\ index' = NoIndex({}) /\ UNCHANGED listing
     \/ listing # NoIndex("none") /\ listing' = NoIndex("none") /\ UNCHANGED index
  /\ UNCHANGED <<settingsVars, files, place, acked, hurt, record, runVars>>

LibraryNext ==
  \/ GetSettings \/ SettingsDamaged \/ ListProjects \/ Rescan \/ Exit \/ Startup \/ Quarantine
  \/ \E note \in {0, 1} : UpdateSettings(note)
  \/ \E w \in Workspaces : ChooseWorkspace(w)
  \/ \E p \in Projects :
       \/ CreateProject(p) \/ GetProject(p) \/ UpdateProject(p) \/ DeleteProject(p)
       \/ StartRun(p) \/ StopRun(p) \/ FinishRun(p) \/ StopPaused(p) \/ Damage(p) \/ TakeBack(p)

LibrarySpec == LibraryInit /\ [][LibraryNext]_libraryVars

----------------------------------------------------------------------------
(* Properties.                                                              *)

(* A settings revision names one content: what a client read at a revision  *)
(* is still the current content while that revision is current, so an update *)
(* that quotes it overwrites nothing unseen, also after versions were found  *)
(* invalid and an older one was recovered (load_or_recover,                 *)
(* update_settings_on_connection).  A new database counts from zero again.  *)
RevisionNamesContent ==
  ~quarantined => \A held \in view : held.rev = Head(Loaded).rev => held = Head(Loaded)

(* No acknowledged project is lost: whatever step a crash, a fault or a       *)
(* deletion stops at, its folder is in the workspace or the trash and yields  *)
(* the acknowledged revision or a later one (update_project_with_fault,      *)
(* trash_project).                                                          *)
ProjectsKept ==
  \A p \in Projects \ hurt :
    acked[p] > 0 =>
      /\ place[p] \in {"live", "trash"}
      /\ \E n \in Recovered(files[p]).doc : n # Damaged /\ n >= acked[p]

(* A list shows the documents of the selected workspace, though both        *)
(* workspaces use one index: not after a switch, a crash or a fault between  *)
(* a write and its refresh does it show anything else (list_projects_locked, *)
(* index_has_projection).                                                   *)
ListedAsChosen ==
  [][ListProjects =>
       \A p \in Projects \ hurt :
         index'.rows[p] = IF Live(p) /\ Home[p] = Chosen THEN Recovered(files[p]).doc ELSE {}]_libraryVars

(* A folder that a run is writing to is never moved to the trash, although   *)
(* delete_project asks an index and not the run, and the run outlives a       *)
(* change of the workspace (project_has_running_session).                   *)
NoWriterInTrash == \A p \in writer : Live(p)

=============================================================================
