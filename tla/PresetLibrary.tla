---------------------------- MODULE PresetLibrary ----------------------------
(***************************************************************************)
(* The custom presets of a project: PresetService                          *)
(* (persistence/preset_service.rs), the documents in the project's         *)
(* presets folder (persistence/preset_store.rs) and their revisions and    *)
(* versions (domain/presets.rs).                                           *)
(*                                                                         *)
(* A document is named after the preset's name and identifier, so that a   *)
(* rename moves it, and one whose file has another name than the one it    *)
(* states is not read.  An operation runs under the service's mutex and    *)
(* the workspace lock; it may fail at any of its file operations, and a    *)
(* crash may fall between any two.  The temporary file is left out: every  *)
(* write begins by removing it.                                            *)
(***************************************************************************)
EXTENDS Naturals, FiniteSets

CONSTANTS
  Presets,       (* identifiers, each made up for one preset                *)
  Names,
  Guidance,      (* what a session would freeze of a preset                 *)
  MaxRevised,    (* bound: revisions of a preset                            *)
  MaxMishaps     (* bound: failed or crashed operations                     *)

VARIABLES
  folder,        (* preset -> [docs, backups], each name -> Option of a document *)
  trashed,       (* the documents in trash/, as <<preset, document>>        *)
  kept,          (* history: preset -> the last revision answered, 0 if none *)
  published,     (* history: the <<preset, version, guidance>> that were readable *)
  mishaps

presetVars == <<folder, trashed, kept, published, mishaps>>

NoDocument == [n \in Names |-> {}]

PresetInit ==
  /\ folder = [p \in Presets |-> [docs |-> NoDocument, backups |-> NoDocument]]
  /\ trashed = {} /\ kept = [p \in Presets |-> 0] /\ published = {} /\ mishaps = 0

Mishap == mishaps < MaxMishaps /\ mishaps' = mishaps + 1

Documents(p) == UNION {folder[p].docs[n] \cup folder[p].backups[n] : n \in Names}

(* document_name_of: the documents of a preset that can be read. *)
Found(p) == {n \in Names : \E d \in folder[p].docs[n] : d.name = n}

(* list: what a session may freeze. *)
Readable(p) ==
  {<<p, d.version, d.guidance>> : d \in UNION {folder[p].docs[n] : n \in Found(p)}}

Publish(p) == published' = published \cup Readable(p)'

----------------------------------------------------------------------------
(* create_preset and duplicate_preset: a document of its own, version one.  *)
CreatePreset(p) ==
  /\ kept[p] = 0 /\ Documents(p) = {} /\ \A t \in trashed : t[1] # p
  /\ \E n \in Names, g \in Guidance :
       LET d == [name |-> n, guidance |-> g, version |-> 1, revision |-> 1] IN
         /\ folder' = [folder EXCEPT ![p].docs[n] = {d}]
         /\ Publish(p)
         /\ \/ kept' = [kept EXCEPT ![p] = 1] /\ UNCHANGED mishaps
            \/ Mishap /\ UNCHANGED kept
  /\ UNCHANGED trashed

(* The version moves only when the guidance does. *)
VersionOf(d, n, g) == IF g # d.guidance THEN d.version + 1 ELSE d.version

(* apply_update *)
Revised(d, n, g) ==
  [name |-> n, guidance |-> g, version |-> VersionOf(d, n, g), revision |-> d.revision + 1]

(* atomic_replace_with_backup: the new text is still under the old name. *)
Replaced(f, old, d) == [docs |-> [f.docs EXCEPT ![old] = {d}],
                        backups |-> [f.backups EXCEPT ![old] = f.docs[old]]]

Moved(f, old, d) == [f EXCEPT !.docs = [[f.docs EXCEPT ![old] = {}] EXCEPT ![d.name] = {d}]]

(* update, done: the document has its new name and no backup. *)
Updated(f, old, d) ==
  [Moved(Replaced(f, old, d), old, d) EXCEPT !.backups[old] = {}]

(* Fault: the old document is removed before its successor is there. *)
FaultyUpdateSteps(f, old, d) == {f, [f EXCEPT !.docs[old] = {}], Updated(f, old, d)}

(* The folder after each step; a replacement that fails half way has only   *)
(* renamed the document to its backup.                                      *)
UpdateSteps(f, old, d) ==
  LET replaced == Replaced(f, old, d) IN
    {f, [replaced EXCEPT !.docs[old] = {}], replaced, Moved(replaced, old, d), Updated(f, old, d)}

UpdatePreset(p) ==
  /\ \E old \in Found(p) : \E d \in folder[p].docs[old] :
       /\ d.revision < MaxRevised
       /\ \E n \in Names, g \in Guidance :
            LET new == Revised(d, n, g) IN
              \/ /\ folder' = [folder EXCEPT ![p] = Updated(@, old, new)]
                 /\ kept' = [kept EXCEPT ![p] = new.revision] /\ UNCHANGED mishaps
              \/ /\ Mishap /\ UNCHANGED kept
                 /\ \E f \in UpdateSteps(folder[p], old, new) : folder' = [folder EXCEPT ![p] = f]
  /\ Publish(p) /\ UNCHANGED trashed

(* delete_custom_preset moves the document to trash/; a crash may come      *)
(* before the answer.                                                       *)
TrashPreset(p) ==
  /\ \E n \in Found(p) :
       /\ trashed' = trashed \cup ({p} \X folder[p].docs[n])
       /\ folder' = [folder EXCEPT ![p].docs[n] = {}]
  /\ \/ kept' = [kept EXCEPT ![p] = 0] /\ UNCHANGED mishaps
     \/ Mishap /\ UNCHANGED kept
  /\ UNCHANGED published

PresetNext == \E p \in Presets : CreatePreset(p) \/ UpdatePreset(p) \/ TrashPreset(p)

PresetSpec == PresetInit /\ [][PresetNext]_presetVars

----------------------------------------------------------------------------
(* Properties.                                                              *)

(* What was answered to a create or an update stays on disk, or something   *)
(* newer does: in the folder, in a backup or in trash/, whatever operations *)
(* fail or crash half way, renames included (PresetStore::update).          *)
PresetSurvives ==
  \A p \in Presets : kept[p] > 0 =>
    \E d \in Documents(p) \cup {t[2] : t \in {u \in trashed : u[1] = p}} : d.revision >= kept[p]

(* A version that a session has frozen stands for one guidance, across      *)
(* renames, failed updates and crashes (apply_update).                      *)
VersionNamesGuidance ==
  \A x, y \in published : x[1] = y[1] /\ x[2] = y[2] => x[3] = y[3]

(* Not kept by the code: a preset that was answered is in the library.  The *)
(* document of an update that failed or crashed before its rename states a  *)
(* name that its file does not have, and no operation repairs it; neither   *)
(* is a backup ever restored (read_document).                               *)
PresetListed ==
  \A p \in Presets : kept[p] > 0 /\ (\A t \in trashed : t[1] # p) => Found(p) # {}

=============================================================================
