--------------------------- MODULE TranscriptReading ---------------------------
(***************************************************************************)
(* Reading and searching transcripts: the pages of transcript.md           *)
(* (persistence/transcript_service.rs), the search index that is rebuilt   *)
(* from the documents (persistence/transcript_index.rs), the rescan        *)
(* (persistence/workspace_service.rs) and the speech time the dashboard    *)
(* shows (metrics/dashboard.rs).                                           *)
(*                                                                         *)
(* Commands hold the workspace lock from beginning to end, so there is one *)
(* at a time.  The pump of a recording refreshes the same index for its    *)
(* own workspace without that lock, on a connection of its own; the        *)
(* database makes a commit one step, and nothing more.                     *)
(*                                                                         *)
(* Every workspace holds one session.  A transcript is the sequence of its *)
(* finals, each with its time span and whether it matches the query; the   *)
(* rank of a hit is its place in the transcript.  A projection is known by *)
(* the workspace and the version of the transcript it was made from.       *)
(***************************************************************************)
EXTENDS Naturals, Sequences, FiniteSets, FiniteSetsExt, SequencesExt

CONSTANTS
  Workspaces,    (* folders the user may choose                             *)
  Finals,        (* what a run may transcribe: [from, to, hit]              *)
  Recorded,      (* the transcripts at the start                            *)
  MaxVersions,   (* bound: versions of each workspace's transcript          *)
  MaxGeneration, (* bound: generations of the index                         *)
  MaxDamages     (* bound: times the index file is damaged                  *)

ASSUME ReadingAssumption ==
  /\ Finals \in SUBSET [from : Nat, to : Nat, hit : BOOLEAN] /\ \A f \in Finals : f.from < f.to
  /\ Recorded \in [Workspaces -> Seq(Finals)] /\ MaxVersions \in [Workspaces -> Nat \ {0}]
  /\ MaxGeneration \in Nat /\ MaxDamages \in Nat

VARIABLES
  published,  (* workspace -> the versions transcript.md has had            *)
  chosen,     (* the selected workspace                                     *)
  run,        (* {} or the workspace that is being recorded                 *)
  pump,       (* the pump's refresh: [at, version, base]                    *)
  index,      (* transcript-index.sqlite3: [state, key, generation, version]*)
  call,       (* the command under way                                      *)
  cursor,     (* next_cursor of the last page; one walk at a time           *)
  answer,     (* history: what the last command returned                    *)
  damages     (* how often the index file was damaged                       *)

documentVars == <<published, chosen, run>>
readingVars == <<documentVars, pump, index, call, cursor, answer, damages>>

Quiet == [at |-> "idle", version |-> 0, base |-> 0]
Idle == [at |-> "idle", kind |-> "none", continues |-> FALSE, after |-> "idle",
         retried |-> FALSE, version |-> 0, base |-> 0, seen |-> <<>>,
         least |-> 0, crossed |-> FALSE, torn |-> FALSE]
NoAnswer == [kind |-> "none"]
Absent == [state |-> "absent", key |-> "none", generation |-> 0, version |-> 0]

Current(w) == Len(published[w])

ReadingInit ==
  /\ published = [w \in Workspaces |-> <<Recorded[w]>>]
  /\ chosen \in Workspaces /\ run = {}
  /\ pump = Quiet /\ index = Absent
  /\ call = Idle /\ cursor = <<>>
  /\ answer = NoAnswer
  /\ damages = 0

----------------------------------------------------------------------------
(* What transcripts and the index hold.                                     *)

Hits(w, version) ==
  LET content == published[w][version] IN
    SelectSeq([i \in DOMAIN content |-> [at |-> i, hit |-> content[i].hit]], LAMBDA s : s.hit)

(* Rows ordered by start and end, as the query delivers them.               *)
Timeline(content) ==
  SortSeq(content, LAMBDA a, b : a.from < b.from \/ (a.from = b.from /\ a.to < b.to))

(* A segment that begins within the open stretch of speech extends it, any  *)
(* other closes it and opens the next.                                      *)
Merged(open, segment) ==
  IF open.any /\ segment.from <= open.to
  THEN [open EXCEPT !.to = Max({open.to, segment.to})]
  ELSE [any |-> TRUE, from |-> segment.from, to |-> segment.to,
        total |-> open.total + (open.to - open.from)]

SpeechMs(content) ==
  LET last == FoldLeft(Merged, [any |-> FALSE, from |-> 0, to |-> 0, total |-> 0],
                       Timeline(content))
  IN last.total + (last.to - last.from)

(* Fault: the rows of any workspace will do.                                *)
FaultyHasProjection(w) == index.state # "absent"

(* index_has_projection, from the row of transcript_index_meta alone.       *)
HasProjection(w) == index.state # "absent" /\ index.key = w

(* Fault: every projection begins at the first generation.                  *)
FaultyNextGeneration(base) == 1

NextGeneration(base) == base + 1

(* A rebuild that went out from the generation before the cursor's gives    *)
(* that one out once more: beside another rebuild, or after a quarantine.   *)
Reissued(base) ==
  [i \in DOMAIN cursor |-> [cursor[i] EXCEPT !.reused = @ \/ cursor[i].generation = base + 1]]

(* The commit of a rebuild for workspace w: one transaction.                *)
Commit(w, version, base) ==
  /\ index' = [state |-> "sound", key |-> w, generation |-> NextGeneration(base),
               version |-> version]
  /\ cursor' = Reissued(base)

(* A damaged database file is moved away; generations begin again.          *)
Quarantine == index' = Absent

----------------------------------------------------------------------------
(* Recording: the pump publishes and refreshes.                             *)

(* What a commit of the pump means to the command under way.                *)
Beside(w, version) ==
  [call EXCEPT !.crossed = @ \/ (w # chosen /\ call.at \in {"verify", "generation", "rows"}),
               !.least = IF w = chosen THEN Min({@, version}) ELSE @,
               !.torn = @ \/ call.at = "rows"]

StartRun ==
  /\ run = {} /\ call.at = "idle" /\ Current(chosen) < MaxVersions[chosen]
  /\ run' = {chosen}
  /\ answer' = NoAnswer
  /\ UNCHANGED <<published, chosen, pump, index, call, cursor, damages>>

(* A flush publishes what was transcribed and marks the index dirty.        *)
Publish ==
  /\ pump.at \in {"idle", "dirty"}
  /\ \E w \in run, f \in Finals :
       /\ Current(w) < MaxVersions[w]
       /\ published' = [published EXCEPT ![w] = Append(@, Append(Last(@), f))]
  /\ pump' = [pump EXCEPT !.at = "dirty"]
  /\ answer' = NoAnswer
  /\ UNCHANGED <<chosen, run, index, call, cursor, damages>>

PumpDiscovers ==
  /\ pump.at = "dirty"
  /\ \E w \in run : pump' = [pump EXCEPT !.at = "discovered", !.version = Current(w)]
  /\ answer' = NoAnswer
  /\ UNCHANGED <<documentVars, index, call, cursor, damages>>

(* The generation is read before the transaction begins.                    *)
PumpOpens ==
  /\ pump.at = "discovered"
  /\ \/ /\ index.state # "corrupt" /\ index.generation < MaxGeneration
        /\ pump' = [pump EXCEPT !.at = "based", !.base = index.generation]
        /\ UNCHANGED index
     \/ /\ index.state = "corrupt" /\ Quarantine
        /\ pump' = [pump EXCEPT !.at = "based", !.base = 0]
  /\ answer' = NoAnswer
  /\ UNCHANGED <<documentVars, call, cursor, damages>>

PumpCommits ==
  /\ pump.at = "based"
  /\ \E w \in run :
       /\ Commit(w, pump.version, pump.base)
       /\ call' = Beside(w, pump.version)
  /\ pump' = Quiet
  /\ answer' = NoAnswer
  /\ UNCHANGED <<documentVars, damages>>

(* Discovery, the database or the commit fails; the index stays dirty.      *)
PumpFails ==
  /\ pump.at \in {"discovered", "based"}
  /\ pump' = [Quiet EXCEPT !.at = "dirty"]
  /\ answer' = NoAnswer
  /\ UNCHANGED <<documentVars, index, call, cursor, damages>>

EndRun ==
  /\ run # {} /\ pump.at \in {"idle", "dirty"}
  /\ run' = {} /\ pump' = Quiet
  /\ answer' = NoAnswer
  /\ UNCHANGED <<published, chosen, index, call, cursor, damages>>

----------------------------------------------------------------------------
(* Commands, each under the workspace lock.                                 *)

At(place) == call.at = place

Return(result) == call' = Idle /\ answer' = result

Failed == Return([kind |-> "error"])

Corrected(content, i) == [content EXCEPT ![i].hit = ~@]

(* A user's correction publishes a new version and refreshes nothing.       *)
Correct ==
  /\ At("idle") /\ Current(chosen) < MaxVersions[chosen]
  /\ \E i \in DOMAIN Last(published[chosen]) :
       published' = [published EXCEPT ![chosen] = Append(@, Corrected(Last(@), i))]
  /\ answer' = NoAnswer
  /\ UNCHANGED <<chosen, run, pump, index, call, cursor, damages>>

ChooseWorkspace ==
  /\ At("idle")
  /\ \E w \in Workspaces \ {chosen} : chosen' = w
  /\ answer' = NoAnswer
  /\ UNCHANGED <<published, run, pump, index, call, cursor, damages>>

(* The fingerprint of a page cursor covers the whole document.              *)
SameVersion(content) == cursor[1].of.content = content

Holds(kind) == cursor # <<>> /\ cursor[1].kind = kind

(* What the page of a walk is cut from, and the cursor that continues it.   *)
NextPage(kind, of, offset, length, generation) ==
  cursor' = IF offset + 1 < length
            THEN <<[kind |-> kind, of |-> of, offset |-> offset + 1,
                    generation |-> generation, reused |-> FALSE]>>
            ELSE <<>>

(* get_transcript_page: one read of the document, a segment a page.         *)
ReadPage ==
  /\ At("idle")
  /\ LET content == Last(published[chosen])
         of == [ws |-> chosen, content |-> content]
         fresh == Holds("page") /\ cursor[1].of.ws = chosen /\ SameVersion(content)
         PageFrom(offset, walk) ==
           /\ answer' = [kind |-> "page", walk |-> walk, found |-> of, torn |-> FALSE]
           /\ NextPage("page", of, offset, Len(content), 0)
     IN \/ PageFrom(0, <<>>)
        \/ fresh /\ PageFrom(cursor[1].offset, <<cursor[1].of>>)
        \/ Holds("page") /\ ~fresh /\ answer' = [kind |-> "error"] /\ cursor' = <<>>
  /\ UNCHANGED <<documentVars, pump, index, call, damages>>

(* The version the index holds of the chosen workspace.                     *)
Projected == IF index.key = chosen THEN index.version ELSE 0

(* A command that reads the index.                                          *)
Ask(kind, continues) ==
  /\ At("idle")
  /\ call' = [Idle EXCEPT !.at = "look", !.kind = kind, !.least = Projected,
                          !.continues = continues]
  /\ answer' = NoAnswer
  /\ UNCHANGED <<documentVars, pump, index, cursor, damages>>

(* search_transcript, with the cursor of an earlier page or without one.    *)
Search ==
  \E continues \in BOOLEAN :
    /\ continues => Holds("search") /\ cursor[1].of.ws = chosen
    /\ Ask("search", continues)

(* speech_ms_by_session, for the dashboard.                                 *)
MeasureSpeech == Ask("speech", FALSE)

Rescan ==
  /\ At("idle")
  /\ call' = [Idle EXCEPT !.at = "discover", !.kind = "rescan", !.after = "done"]
  /\ answer' = NoAnswer
  /\ UNCHANGED <<documentVars, pump, index, cursor, damages>>

(* The statements that read the rows: a search reads the generation first.  *)
Reading == IF call.kind = "search" THEN "generation" ELSE "rows"

Rebuild(after) == [call EXCEPT !.at = "discover", !.after = after]

(* An index that is damaged, or does not hold what its digest says, is      *)
(* rebuilt and looked at once more.                                         *)
Again ==
  \/ call.retried /\ Failed
  \/ ~call.retried /\ call' = [Rebuild("look") EXCEPT !.retried = TRUE] /\ answer' = NoAnswer

Stored == [ws |-> index.key, content |-> published[index.key][index.version]]

(* The first statement of index_has_projection.                             *)
Look ==
  /\ At("look")
  /\ \/ /\ index.state = "corrupt"
        /\ IF call.retried THEN UNCHANGED index ELSE Quarantine
        /\ Again
     \/ /\ index.state # "corrupt" /\ ~HasProjection(chosen)
        /\ call' = Rebuild(Reading) /\ answer' = NoAnswer /\ UNCHANGED index
     \/ /\ index.state # "corrupt" /\ HasProjection(chosen)
        /\ call' = [call EXCEPT !.at = "verify", !.seen = Stored] /\ answer' = NoAnswer
        /\ UNCHANGED index
  /\ UNCHANGED <<documentVars, pump, cursor, damages>>

(* The others: the rows are counted and their digest is taken.              *)
Verify ==
  /\ At("verify")
  /\ \/ /\ index.state = "sound" /\ Stored.content = call.seen.content
        /\ call' = [call EXCEPT !.at = Reading, !.seen = <<>>] /\ answer' = NoAnswer
     \/ ~(index.state = "sound" /\ Stored.content = call.seen.content) /\ Again
  /\ UNCHANGED <<documentVars, pump, index, cursor, damages>>

Discover ==
  /\ At("discover")
  /\ call' = [call EXCEPT !.at = "base", !.version = Current(chosen), !.seen = <<>>]
  /\ answer' = NoAnswer
  /\ UNCHANGED <<documentVars, pump, index, cursor, damages>>

ReadBase ==
  /\ At("base")
  /\ \/ /\ index.state # "corrupt" /\ index.generation < MaxGeneration
        /\ call' = [call EXCEPT !.at = "commit", !.base = index.generation]
        /\ UNCHANGED index
     \/ /\ index.state = "corrupt" /\ Quarantine
        /\ call' = [call EXCEPT !.at = "commit", !.base = 0]
  /\ answer' = NoAnswer
  /\ UNCHANGED <<documentVars, pump, cursor, damages>>

CommitRebuild ==
  /\ At("commit")
  /\ Commit(chosen, call.version, call.base)
  /\ \/ call.after = "done" /\ Return([kind |-> "rescan"])
     \/ /\ call.after # "done" /\ answer' = NoAnswer
        /\ call' = [call EXCEPT !.at = call.after, !.version = 0, !.base = 0, !.crossed = FALSE]
  /\ UNCHANGED <<documentVars, pump, damages>>

(* Discovery, the database or the commit fails.                             *)
RebuildFails ==
  /\ call.at \in {"discover", "base", "commit"}
  /\ Failed
  /\ UNCHANGED <<documentVars, pump, index, cursor, damages>>

(* The first statement of read_search_page; a cursor of another generation  *)
(* is stale.                                                                *)
ReadGeneration ==
  /\ At("generation")
  /\ LET stale == call.continues /\ cursor[1].generation # index.generation IN
       \/ stale /\ Failed /\ cursor' = <<>>
       \/ /\ ~stale /\ call' = [call EXCEPT !.at = "rows", !.base = index.generation]
          /\ answer' = NoAnswer /\ UNCHANGED cursor
  /\ UNCHANGED <<documentVars, pump, index, damages>>

Result(walk, torn, total) ==
  [kind |-> call.kind, found |-> Stored, version |-> index.version, least |-> call.least,
   crossed |-> call.crossed, walk |-> walk, torn |-> torn, total |-> total]

(* The second: a hit a page, from the offset of the cursor.  Rows of other  *)
(* projects are filtered out.                                               *)
ReadHits ==
  /\ At("rows") /\ call.kind = "search"
  /\ LET hits == IF index.key = chosen THEN Hits(index.key, index.version) ELSE <<>>
         offset == IF call.continues THEN cursor[1].offset ELSE 0
         torn == call.torn \/ (call.continues /\ cursor[1].reused)
     IN /\ Return(Result(IF call.continues THEN <<cursor[1].of>> ELSE <<>>, torn, 0))
        /\ NextPage("search", Stored, offset, Len(hits), call.base)
  /\ UNCHANGED <<documentVars, pump, index, damages>>

ReadSpeech ==
  /\ At("rows") /\ call.kind = "speech"
  /\ Return(Result(<<>>, call.torn, SpeechMs(Stored.content)))
  /\ UNCHANGED <<documentVars, pump, index, cursor, damages>>

----------------------------------------------------------------------------

(* The index file is damaged while nobody uses it.                          *)
Damage ==
  /\ damages < MaxDamages /\ At("idle") /\ pump.at \in {"idle", "dirty"}
  /\ index.state = "sound"
  /\ \E state \in {"invalid", "corrupt"} : index' = [index EXCEPT !.state = state]
  /\ damages' = damages + 1
  /\ answer' = NoAnswer
  /\ UNCHANGED <<documentVars, pump, call, cursor>>

(* The process ends, at any step, and starts again.                         *)
Restart ==
  /\ run' = {} /\ pump' = Quiet /\ call' = Idle
  /\ cursor' = <<>>
  /\ answer' = NoAnswer
  /\ UNCHANGED <<published, chosen, index, damages>>

Recording ==
  \/ StartRun \/ Publish \/ PumpDiscovers \/ PumpOpens \/ PumpCommits \/ PumpFails \/ EndRun

Commanding ==
  \/ Correct \/ ChooseWorkspace \/ ReadPage \/ Search \/ MeasureSpeech \/ Rescan
  \/ Look \/ Verify \/ Discover \/ ReadBase \/ CommitRebuild \/ RebuildFails
  \/ ReadGeneration \/ ReadHits \/ ReadSpeech

ReadingNext == Recording \/ Commanding \/ Damage \/ Restart

ReadingSpec == ReadingInit /\ [][ReadingNext]_readingVars

----------------------------------------------------------------------------
(* Properties.                                                              *)

(* A search, or the speech time of the dashboard, is answered from rows of  *)
(* the chosen workspace that are no older than the projection it had when   *)
(* the command began: whatever workspace the index was last rebuilt for,    *)
(* damaged or not.  Excepted are commands beside which the pump put the     *)
(* rows of another workspace, or older ones, in place.                      *)
AnswersFromProjection ==
  answer.kind \in {"search", "speech"} /\ ~answer.crossed
    => answer.found.ws = chosen /\ answer.version >= answer.least

(* The pages of one walk, through a transcript or through the hits of a     *)
(* search, are cut from one version of it: a cursor does not survive the    *)
(* publication of another version, nor a rebuild, of this workspace or of   *)
(* another, beside the pump's or after a quarantine.  Two cases are         *)
(* excepted: a rebuild that gives the cursor's own generation out a second  *)
(* time (Reissued), and a commit of the pump between the two statements of  *)
(* one search, of which only the first compares the generation (Beside).    *)
PagesStayTogether ==
  answer.kind \in {"page", "search"} /\ ~answer.torn =>
    \A i \in DOMAIN answer.walk : answer.walk[i] = answer.found

(* The same without the exceptions, as docs/architecture.md:944 puts it:    *)
(* rebuilds make old cursors fail as stale.  It does not hold.              *)
RebuildsEndCursors ==
  answer.kind = "search" => \A i \in DOMAIN answer.walk : answer.walk[i] = answer.found

(* The speech of a session is the time somebody speaks, however the         *)
(* segments of the two sources overlap or contain each other.               *)
SpeechCountedOnce ==
  answer.kind = "speech" =>
    LET spans == {answer.found.content[i] : i \in DOMAIN answer.found.content} IN
      answer.total = Cardinality(UNION {f.from .. f.to - 1 : f \in spans})

=============================================================================
