--------------------------- MODULE SessionJournal ---------------------------
(***************************************************************************)
(* The append-only journal of one session (persistence/session_journal.rs),*)
(* the only place where a finalized segment, a correction or a bookmark is *)
(* durable.                                                                *)
(*                                                                         *)
(* `file` is what the bytes on disk parse to: the complete records, whether*)
(* an incomplete line follows them (the torn tail a crash or a full disk   *)
(* leaves), and whether a complete line cannot be parsed any more, which   *)
(* makes every later read fail.  Appending holds the exclusive file lock   *)
(* from the read to the sync and is one step.  Checksums, sequence numbers *)
(* and the session identifier are the position in `records`.               *)
(***************************************************************************)
EXTENDS Naturals, SequencesExt

CONSTANTS
  Events,            (* records [id, kind, segment, value] that may be written *)
  MaxRevisions       (* MAX_SEGMENT_REVISIONS, 64                              *)

Kinds == {"final", "lifecycle", "correction", "importance", "bookmark"}

ASSUME JournalAssumption ==
  /\ \A e \in Events : e.kind \in Kinds
  /\ MaxRevisions \in Nat \ {0}

VARIABLES
  file,              (* [records, torn, garbled]                             *)
  acked              (* events whose append was acknowledged                 *)

journalVars == <<file, acked>>

JournalInit ==
  /\ file = [records |-> <<>>, torn |-> FALSE, garbled |-> FALSE]
  /\ acked = {}

Recorded(e) == \E i \in DOMAIN file.records : file.records[i] = e

Readable == ~file.garbled

Length == Len(file.records)

----------------------------------------------------------------------------
(* replay_records: what a prefix of the journal says about the segments.    *)

Spoken(text) == [text |-> text, corrected |-> "none", important |-> FALSE, bookmark |-> "none"]

Applied(replay, e) ==
  CASE e.kind = "final" -> [s \in DOMAIN replay \cup {e.segment} |->
                              IF s = e.segment THEN Spoken(e.value) ELSE replay[s]]
    [] e.kind = "correction" -> [replay EXCEPT ![e.segment].corrected = e.value]
    [] e.kind = "importance" -> [replay EXCEPT ![e.segment].important = e.value]
    [] e.kind = "bookmark" -> [replay EXCEPT ![e.segment].bookmark = e.value]
    [] OTHER -> replay

SegmentsOf(records) == {records[i].segment : i \in {j \in DOMAIN records : records[j].kind = "final"}}

Replay(records) ==
  LET after[n \in 0 .. Len(records)] ==
        IF n = 0 THEN [s \in {} |-> Spoken("none")] ELSE Applied(after[n - 1], records[n])
  IN  after[Len(records)]

(* A segment is recorded once and an annotation only after its segment; the *)
(* candidate is replayed before it is written.                              *)
Acceptable(e) ==
  CASE e.kind = "final" -> e.segment \notin SegmentsOf(file.records)
    [] e.kind = "lifecycle" -> TRUE
    [] OTHER -> e.segment \in SegmentsOf(file.records)

(* collect_segment_history: the wordings one segment was given since it was *)
(* recorded, oldest first; the oldest gives way to the newest.              *)
Newest(revisions, value) ==
  LET longer == Append(revisions, value)
  IN  IF Len(longer) > MaxRevisions THEN Tail(longer) ELSE longer

Revised(history, e, s) ==
  CASE e.kind = "final" /\ e.segment = s -> [history EXCEPT !.known = TRUE]
    [] e.kind = "correction" /\ e.segment = s /\ history.known ->
         [history EXCEPT !.revisions = Newest(@, e.value)]
    [] OTHER -> history

History(records, s) ==
  LET after[n \in 0 .. Len(records)] ==
        IF n = 0 THEN [known |-> FALSE, revisions |-> <<>>] ELSE Revised(after[n - 1], records[n], s)
  IN  after[Len(records)]

----------------------------------------------------------------------------
(* SessionJournal::append                                                   *)

(* The caller and the disk: "ok"; "late", written but reported as an error   *)
(* (the checks after the sync); "torn", an incomplete line; "lost", nothing. *)
Outcomes == {"ok", "late", "torn", "lost"}

(* Fault: the torn tail is left where it is.                               *)
FaultyTrimmed(f) == f

(* The torn tail is cut off before anything is written behind it. *)
Trimmed(f) == [f EXCEPT !.torn = FALSE]

(* A line written behind an incomplete one forms one line with it that no    *)
(* parser accepts.                                                           *)
Written(f, e) ==
  IF f.torn THEN [f EXCEPT !.garbled = TRUE] ELSE [f EXCEPT !.records = Append(@, e)]

(* An event that is already recorded is answered without another record. *)
AnswerAgain(e) ==
  /\ Readable /\ Recorded(e)
  /\ file' = Trimmed(file)
  /\ acked' = acked \cup {e}

Record(e, outcome) ==
  /\ Readable /\ ~Recorded(e) /\ Acceptable(e)
  /\ file' =
       CASE outcome = "lost" -> file
         [] outcome = "torn" -> [file EXCEPT !.torn = TRUE]
         [] OTHER -> Written(Trimmed(file), e)
  /\ acked' = IF outcome = "ok" THEN acked \cup {e} ELSE acked

(* The append is refused: the journal does not parse, or not with this event. *)
Refuse(e) ==
  /\ ~Readable \/ (~Recorded(e) /\ ~Acceptable(e))
  /\ UNCHANGED journalVars

JournalNext == \E e \in Events : AnswerAgain(e) \/ Refuse(e) \/ \E o \in Outcomes : Record(e, o)

JournalSpec == JournalInit /\ [][JournalNext]_journalVars

----------------------------------------------------------------------------
(* Properties.                                                              *)

Log == INSTANCE DurableLog WITH log <- IF Readable THEN file.records ELSE <<>>

(* The journal is a durable log: whatever appends fail, are torn apart by a  *)
(* crash or are repeated, every acknowledged event stays readable, once and  *)
(* in its place (SessionJournal::append and its truncation of a torn tail).  *)
JournalDurable == Log!LogSpec

(* What get_segment_history shows ends with what the transcript reads as:    *)
(* the last revision is the effective correction of the replay, which the    *)
(* code computes by another walk over the records, and both know the same    *)
(* segments.                                                                 *)
HistoryMatchesReplay ==
  /\ DOMAIN Replay(file.records) = SegmentsOf(file.records)
  /\ \A s \in SegmentsOf(file.records) :
       LET history == History(file.records, s)
       IN  /\ history.known
           /\ Len(history.revisions) <= MaxRevisions
           /\ Replay(file.records)[s].corrected =
                IF history.revisions = <<>> THEN "none" ELSE Last(history.revisions)

=============================================================================
