---------------------------- MODULE SessionWriter ----------------------------
(***************************************************************************)
(* The projections of a session's journal: the transcript document with    *)
(* its backup and temporary file (persistence/transcript_store.rs), the    *)
(* writer that publishes it during a run (persistence/session_writer.rs),  *)
(* and the commands that annotate a segment or read the document beside it *)
(* (persistence/transcript_service.rs).                                    *)
(*                                                                         *)
(* A document is a function of the journal prefix it names, so a file is   *)
(* the option of that prefix's length: {} is missing, {n} the projection   *)
(* of the first n records, {Foreign} bytes that do not verify.  The        *)
(* fingerprint of a document is its content.                               *)
(*                                                                         *)
(* Two actors work on the files at the same time: the writer, whose mutex  *)
(* serialises final segments, boundaries and the pump's polls, and one     *)
(* command, which holds the workspace lock.  Opening the writer and        *)
(* appending a boundary hold both; finals and polls hold only the first.   *)
(* Every access to the files is a step of its own; only the recovery of a  *)
(* damaged document from its backup is a single step.                      *)
(***************************************************************************)
EXTENDS SessionJournal, FiniteSets

CONSTANTS
  Foreign,           (* a document that no prefix of the journal renders to  *)
  Batch,             (* SNAPSHOT_SEGMENT_BATCH                               *)
  Interval,          (* SNAPSHOT_INTERVAL_MS in ticks                        *)
  MaxTroubles        (* bound: I/O faults, foreign edits, disturbing reads   *)

ASSUME WriterAssumption ==
  Foreign \notin Nat /\ Batch \in Nat \ {0} /\ Interval \in Nat \ {0} /\ MaxTroubles \in Nat

VARIABLES
  doc, backup, temp, (* transcript.md, its .bak and its .tmp                 *)
  indexed,           (* the document the search index was built from         *)
  writer,            (* Option: [print, pending, age, dirty, failed] and, as *)
                     (* history, the finals taken and not yet published      *)
  task,              (* actor -> Option: what it is in the middle of         *)
  edited,            (* history: did somebody else touch transcript.md?      *)
  troubles           (* bound: troubles so far                               *)

fileVars == <<doc, backup, temp>>
writerVars == <<journalVars, fileVars, indexed, writer, task, edited, troubles>>

Actors == {"writer", "command"}

Idle(p) == task[p] = {}

(* Option: n if the projection of the first n records is what `d` holds. *)
Verifies(d) == d # {} /\ d # {Foreign} /\ Readable /\ \A n \in d : n <= Length

WriterInit ==
  /\ JournalInit
  /\ doc = {} /\ backup = {} /\ temp = {} /\ indexed = {}
  /\ writer = {} /\ task = [p \in Actors |-> {}]
  /\ edited = FALSE /\ troubles = 0

Trouble == troubles < MaxTroubles /\ troubles' = troubles + 1

(* The workspace lock is free, or held by nobody but the writer's own step. *)
LockFree == Idle("command") /\ \A t \in task["writer"] : ~t.locked

----------------------------------------------------------------------------
(* TranscriptStore::read_transcript                                         *)

(* What it finds, whether that is the document itself, and how it leaves the *)
(* files.  A document that is missing or does not verify is put back from    *)
(* the backup, whose temporary file must not exist yet.                      *)
Reading ==
  CASE Verifies(doc) -> [found |-> doc, own |-> TRUE, doc |-> doc, temp |-> {}]
    [] ~Verifies(doc) /\ Verifies(backup) /\ temp = {} ->
         [found |-> backup, own |-> FALSE, doc |-> backup, temp |-> {}]
    [] OTHER -> [found |-> {}, own |-> FALSE, doc |-> doc, temp |-> temp]

Reads == doc' = Reading.doc /\ temp' = Reading.temp /\ UNCHANGED backup

----------------------------------------------------------------------------
(* TranscriptStore::materialize, step by step, by either actor.             *)

Flush(expects, locked) ==
  {[pc |-> "render", expects |-> expects, seen |-> 0, retried |-> FALSE, locked |-> locked,
    event |-> {}]}

Refresh(locked) ==
  {[pc |-> "index", expects |-> {}, seen |-> 0, retried |-> FALSE, locked |-> locked,
    event |-> {}]}

At(p, pc) == \E t \in task[p] : t.pc = pc

(* The task of an actor that has one. *)
Now(p) == CHOOSE t \in task[p] : TRUE

Goto(p, pc) == task' = [task EXCEPT ![p] = {[Now(p) EXCEPT !.pc = pc]}]

Finish(p) == task' = [task EXCEPT ![p] = {}]

Writer == CHOOSE w \in writer : TRUE

(* Fault: an error of materialize leaves no trace.                         *)
FaultyGiveUp(p) == Finish(p) /\ UNCHANGED writer

(* What the actor does with an error of materialize. *)
GiveUp(p) ==
  /\ Finish(p)
  /\ writer' = IF p = "writer" THEN {[Writer EXCEPT !.failed = TRUE]} ELSE writer

(* Fault: a stale fingerprint is never renewed.                            *)
FaultyConflict(p) == GiveUp(p)

(* transcript_snapshot_conflict: both actors look at the document once more. *)
Conflict(p) ==
  IF Now(p).retried THEN GiveUp(p) ELSE Goto(p, "adopt") /\ UNCHANGED writer

(* Replay the journal and render the document, without an incomplete last    *)
(* line.                                                                     *)
Render(p) ==
  /\ At(p, "render")
  /\ task' = [task EXCEPT ![p] = {[Now(p) EXCEPT !.pc = "compare", !.seen = Length]}]
  /\ UNCHANGED <<journalVars, fileVars, indexed, writer, edited, troubles>>

Expected(p) ==
  \/ doc = {} /\ Now(p).expects = {}
  \/ Verifies(doc) /\ doc = Now(p).expects

(* The document must be the expected one, or missing if none is expected. *)
Compare(p) ==
  /\ At(p, "compare")
  /\ CASE Expected(p) -> Goto(p, "write") /\ UNCHANGED writer
       [] doc = {Foreign} /\ Now(p).expects = {} -> GiveUp(p)
       [] OTHER -> Conflict(p)
  /\ UNCHANGED <<journalVars, fileVars, indexed, edited, troubles>>

(* Whatever temporary file there is gives way to a synchronized one. *)
WriteTemp(p) ==
  /\ At(p, "write")
  /\ \/ temp' = {Now(p).seen} /\ Goto(p, "publish") /\ UNCHANGED <<writer, troubles>>
     \/ temp' = {} /\ GiveUp(p) /\ Trouble
  /\ UNCHANGED <<journalVars, doc, backup, indexed, edited>>

(* The first publication must not find a document; a replacement keeps the  *)
(* replaced document as the backup.                                         *)
Publishable(p) == temp # {} /\ (doc = {}) = (Now(p).expects = {})

Publish(p) ==
  /\ At(p, "publish")
  /\ \/ /\ Publishable(p)
        /\ doc' = temp /\ temp' = {}
        /\ backup' = IF Now(p).expects = {} THEN backup ELSE doc
        /\ Goto(p, "verify") /\ UNCHANGED <<writer, troubles>>
     \/ /\ temp' = {}
        /\ backup' = IF Now(p).expects = {} THEN backup ELSE {}
        /\ GiveUp(p)
        /\ IF Publishable(p) THEN Trouble ELSE UNCHANGED troubles
        /\ UNCHANGED doc
  /\ UNCHANGED <<journalVars, indexed, edited>>

(* restore_backup, after a replacement that did not verify. *)
RolledBack(p) == IF Now(p).expects # {} /\ Verifies(backup) /\ doc # {} THEN backup ELSE doc

(* The published bytes are read again. *)
Verify(p) ==
  /\ At(p, "verify")
  /\ \/ /\ doc = {Now(p).seen} /\ Verifies(doc)
        /\ writer' = IF p = "writer"
                       THEN {[Writer EXCEPT !.print = doc, !.pending = 0, !.age = {},
                                            !.dirty = TRUE, !.failed = FALSE, !.taken = {}]}
                       ELSE writer
        /\ Goto(p, IF p = "writer" THEN "index" ELSE "answer")
        /\ UNCHANGED <<doc, temp, troubles>>
     \/ /\ doc' = RolledBack(p) /\ temp' = {}
        /\ GiveUp(p)
        /\ IF doc = {Now(p).seen} THEN Trouble ELSE UNCHANGED troubles
  /\ UNCHANGED <<journalVars, backup, indexed, edited>>

(* adopt_own_projection takes only a document that reads back as it is; the  *)
(* retry of publish_annotation takes any.                                    *)
Adopt(p) ==
  /\ At(p, "adopt")
  /\ Reads
  /\ IF Reading.found # {} /\ (Reading.own \/ p = "command")
       THEN /\ task' = [task EXCEPT ![p] = {[Now(p) EXCEPT !.pc = "render", !.retried = TRUE,
                                                            !.expects = Reading.found]}]
            /\ writer' = IF p = "writer" THEN {[Writer EXCEPT !.print = Reading.found]} ELSE writer
       ELSE GiveUp(p)
  /\ UNCHANGED <<journalVars, indexed, edited, troubles>>

Materialize(p) ==
  Render(p) \/ Compare(p) \/ WriteTemp(p) \/ Publish(p) \/ Verify(p) \/ Adopt(p)

----------------------------------------------------------------------------
(* PersistedSessionWriter                                                   *)

(* refresh_index discovers and reads every document. *)
RefreshIndex ==
  /\ At("writer", "index")
  /\ Reads
  /\ \/ indexed' = Reading.found /\ writer' = {[Writer EXCEPT !.dirty = FALSE]} /\ UNCHANGED troubles
     \/ writer' = {[Writer EXCEPT !.dirty = TRUE]} /\ Trouble /\ UNCHANGED indexed
  /\ Finish("writer")
  /\ UNCHANGED <<journalVars, edited>>

(* open: a gap between journal and document is published at once. *)
Open ==
  /\ writer = {} /\ Idle("command") /\ Readable
  /\ Reads
  /\ writer' = {[print |-> Reading.found, pending |-> 0, age |-> {}, dirty |-> TRUE,
                  failed |-> FALSE, taken |-> {}]}
  /\ task' = [task EXCEPT !["writer"] =
       IF Reading.found = {Length} THEN Refresh(TRUE) ELSE Flush(Reading.found, TRUE)]
  /\ UNCHANGED <<journalVars, indexed, edited, troubles>>

(* snapshot_due *)
Due(w) == w.pending >= Batch \/ w.age = {Interval}

(* The first pending final starts the clock. *)
WithFinal(w, e) ==
  [w EXCEPT !.pending = IF @ < Batch THEN @ + 1 ELSE @, !.age = IF @ = {} THEN {0} ELSE @,
            !.taken = @ \cup {e}]

FlushIf(condition, w, locked) ==
  /\ writer' = {w}
  /\ task' = IF condition THEN [task EXCEPT !["writer"] = Flush(w.print, locked)] ELSE task

(* append of a finalized segment by the event sink, which hands each one over *)
(* once and does not retry; a repeated one is answered without counting.  A  *)
(* late, torn or lost write is an error and changes nothing in memory.       *)
AppendFinal(e) ==
  /\ writer # {} /\ Idle("writer") /\ e.kind = "final"
  /\ \/ e \in acked /\ AnswerAgain(e) /\ FlushIf(Due(Writer), Writer, FALSE) /\ UNCHANGED troubles
     \/ Record(e, "ok") /\ FlushIf(Due(WithFinal(Writer, e)), WithFinal(Writer, e), FALSE) /\ UNCHANGED troubles
     \/ \E o \in Outcomes \ {"ok"} : Record(e, o) /\ Trouble /\ UNCHANGED <<writer, task>>
  /\ UNCHANGED <<fileVars, indexed, edited>>

(* append of a lifecycle boundary, which always flushes. *)
AppendBoundary(e) ==
  /\ writer # {} /\ Idle("writer") /\ Idle("command") /\ e.kind = "lifecycle"
  /\ \/ Record(e, "ok") /\ FlushIf(TRUE, Writer, TRUE) /\ UNCHANGED troubles
     \/ \E o \in Outcomes \ {"ok"} : Record(e, o) /\ Trouble /\ UNCHANGED <<writer, task>>
  /\ UNCHANGED <<fileVars, indexed, edited>>

(* poll, every PERSISTENCE_POLL_INTERVAL. *)
Poll ==
  /\ writer # {} /\ Idle("writer")
  /\ \/ Due(Writer) /\ task' = [task EXCEPT !["writer"] = Flush(Writer.print, FALSE)]
     \/ /\ ~Due(Writer) /\ Writer.dirty /\ Writer.pending = 0
        /\ task' = [task EXCEPT !["writer"] = Refresh(FALSE)]
  /\ UNCHANGED <<journalVars, fileVars, indexed, writer, edited, troubles>>

Tick ==
  /\ \E w \in writer : \E n \in w.age : n < Interval /\ writer' = {[w EXCEPT !.age = {n + 1}]}
  /\ UNCHANGED <<journalVars, fileVars, indexed, task, edited, troubles>>

(* The run ends and its writer is dropped. *)
Close ==
  /\ writer # {} /\ Idle("writer")
  /\ writer' = {}
  /\ UNCHANGED <<journalVars, fileVars, indexed, task, edited, troubles>>

----------------------------------------------------------------------------
(* TranscriptService                                                        *)

(* annotate_segment, up to the document's fingerprint. *)
Annotate(e) ==
  /\ LockFree
  /\ e.kind \notin {"final", "lifecycle"} /\ ~Recorded(e)
  /\ Readable /\ Acceptable(e)
  /\ Reads
  /\ task' = IF Reading.found = {} THEN task
             ELSE [task EXCEPT !["command"] =
                     {[pc |-> "append", expects |-> Reading.found, seen |-> 0, retried |-> FALSE,
                       locked |-> TRUE, event |-> {e}]}]
  /\ UNCHANGED <<journalVars, indexed, writer, edited, troubles>>

AppendAnnotation ==
  /\ At("command", "append")
  /\ \E e \in Now("command").event :
       \/ Record(e, "ok") /\ Goto("command", "render") /\ UNCHANGED troubles
       \/ \E o \in Outcomes \ {"ok"} : Record(e, o) /\ Finish("command") /\ Trouble
  /\ UNCHANGED <<fileVars, indexed, writer, edited>>

(* The annotated segment is read back from the document and returned. *)
Answer ==
  /\ At("command", "answer")
  /\ Reads
  /\ Finish("command")
  /\ UNCHANGED <<journalVars, indexed, writer, edited, troubles>>

(* get_transcript_page, where it disturbs the files. *)
ReadPage ==
  /\ LockFree
  /\ Reading.doc # doc \/ Reading.temp # temp
  /\ Reads /\ Trouble
  /\ UNCHANGED <<journalVars, indexed, writer, task, edited>>

----------------------------------------------------------------------------
(* The environment.                                                         *)

(* materialize keeps the document it compared open without sharing writes. *)
WriteLocked == \E p \in Actors : \E t \in task[p] : t.expects # {} /\ t.pc \in {"write", "publish"}

(* The user writes into transcript.md with another program, or removes it. *)
Edit ==
  /\ Trouble
  /\ \/ ~WriteLocked /\ doc # {Foreign} /\ doc' = {Foreign}
     \/ doc # {} /\ doc' = {}
  /\ edited' = TRUE
  /\ UNCHANGED <<journalVars, backup, temp, indexed, writer, task>>

(* The process ends; the files stay as they are. *)
Crash ==
  /\ writer # {} \/ ~Idle("command")
  /\ writer' = {} /\ task' = [p \in Actors |-> {}]
  /\ UNCHANGED <<journalVars, fileVars, indexed, edited, troubles>>

WriterStep == Materialize("writer") \/ RefreshIndex

CommandStep == AppendAnnotation \/ Materialize("command") \/ Answer

WriterNext ==
  \/ Open \/ Poll \/ Tick \/ Close \/ WriterStep
  \/ CommandStep \/ ReadPage \/ Edit \/ Crash
  \/ \E e \in Events : AppendFinal(e) \/ AppendBoundary(e) \/ Annotate(e)

(* The pump polls and no step of either thread waits for ever. *)
WriterFairness ==
  WF_writerVars(WriterStep) /\ WF_writerVars(CommandStep) /\ WF_writerVars(Poll) /\ WF_writerVars(Tick)

WriterSpec == WriterInit /\ [][WriterNext]_writerVars /\ WriterFairness

----------------------------------------------------------------------------
(* Properties.                                                              *)

Holds(d, e) == \E n \in d : n # Foreign /\ \E i \in 1..n : file.records[i] = e

(* When a lifecycle boundary was the last thing written and the writer       *)
(* reports no error, transcript.md holds the whole journal, annotations      *)
(* included, and so does the search index it reports as fresh: stale         *)
(* fingerprints, conflicting publications and half-done replacements never   *)
(* end a run in a document that silently lags.                               *)
BoundaryPublished ==
  \A w \in writer :
    /\ Idle("writer") /\ Idle("command") /\ ~edited /\ ~w.failed
    /\ file.records # <<>> /\ Last(file.records).kind = "lifecycle"
    /\ Last(file.records) \in acked
    => doc = {Length} /\ (w.dirty \/ indexed = doc)

(* The live document keeps up: a final acknowledged during a run reaches     *)
(* transcript.md, also when annotations, page reads and failing writes make  *)
(* the writer's fingerprint stale, unless the run ends first or somebody     *)
(* else edits the file.                                                      *)
FinalsPublished ==
  \A e \in Events :
    (\E w \in writer : e \in w.taken)
      ~> Holds(doc, e) \/ writer = {} \/ edited

(* architecture.md:952: "External Markdown conflicts preserve the untrusted  *)
(* file".  The reading that decides whether the writer may adopt the         *)
(* document puts the backup in its place.                                    *)
ForeignEditKept == [][Adopt("writer") /\ doc = {Foreign} => doc' = doc]_writerVars

(* transcript_service.rs:675: "Both writers render the same journal, so a    *)
(* retry cannot lose the annotation": the document annotate_segment answers  *)
(* from holds it.  The other writer, having rendered before, may replace the *)
(* document afterwards.                                                      *)
AnnotationKept ==
  [][Answer => \A e \in Now("command").event : Reading.found = {} \/ Holds(Reading.found, e)]_writerVars

=============================================================================
