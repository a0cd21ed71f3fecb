------------------------ MODULE TranscriptReading_proofs ------------------------
(***************************************************************************)
(* Proofs about reading and searching transcripts, for every set of        *)
(* workspaces, every transcript they may hold, and any bounds on versions, *)
(* generations and damages: what a search or the speech time is answered   *)
(* from, and that the pages of one walk are cut from one version.          *)
(***************************************************************************)
EXTENDS TranscriptReading, SequenceTheorems, TLAPS

AtMostOne(S) == \A x, y \in S : x = y

Segments == [from : Nat, to : Nat, hit : BOOLEAN]
Texts == Seq(Segments)
Projections == [ws : Workspaces, content : Texts]

(* Every workspace has a transcript, and at most one is being recorded.      *)
DocumentsInv ==
  /\ published \in [Workspaces -> Seq(Texts)] /\ \A w \in Workspaces : Current(w) >= 1
  /\ chosen \in Workspaces /\ run \in SUBSET Workspaces /\ AtMostOne(run)

(* What the pump is about to commit has been published by the recording.     *)
PumpInv ==
  /\ pump \in [at : {"idle", "dirty", "discovered", "based"}, version : Nat, base : Nat]
  /\ pump.at \in {"discovered", "based"} =>
       /\ run # {}
       /\ \A w \in run : pump.version \in 1 .. Current(w)

(* An index that is there was made from a version of a transcript.           *)
IndexInv ==
  /\ index \in [state : {"absent", "sound", "invalid", "corrupt"}, key : Workspaces \cup {"none"},
                generation : Nat, version : Nat]
  /\ index.state = "absent" => index = Absent
  /\ index.state # "absent" =>
       index.key \in Workspaces /\ index.version \in 1 .. Current(index.key) /\ index.generation >= 1

Calls ==
  [at : {"idle", "look", "verify", "discover", "base", "commit", "generation", "rows"},
   kind : {"none", "search", "speech", "rescan"}, continues : BOOLEAN,
   after : {"idle", "look", "generation", "rows", "done"},
   retried : BOOLEAN, version : Nat, base : Nat, seen : Projections \cup {<<>>},
   least : Nat, crossed : BOOLEAN, torn : BOOLEAN]

(* Where a command has settled for the index it found.                       *)
Serving == {"verify", "generation", "rows"}

(* The command counts on nothing older than what it promises, and once it    *)
(* has settled for an index, only the pump can have put another in place.    *)
CallInv ==
  /\ call \in Calls
  /\ call.after = "rows" => call.kind # "search"
  /\ call.at # "idle" => call.least <= Current(chosen)
  /\ call.at \in {"base", "commit"} =>
       call.version \in 1 .. Current(chosen) /\ call.version >= call.least
  /\ call.at # "idle" /\ HasProjection(chosen) => index.version >= call.least
  /\ call.at \in Serving => index.state \in {"sound", "invalid"}
  /\ call.at \in Serving /\ ~call.crossed => index.key = chosen

Cursors ==
  [kind : {"page", "search"}, of : Projections, offset : Nat, generation : Nat, reused : BOOLEAN]

(* A cursor of the index's generation points into the rows the index holds,  *)
(* unless that generation has been given out a second time.                  *)
CursorInv ==
  /\ cursor \in Seq(Cursors) /\ Len(cursor) <= 1
  /\ \A i \in DOMAIN cursor : cursor[i].kind = "search" /\ ~cursor[i].reused =>
       /\ cursor[i].generation >= 1
       /\ cursor[i].generation = index.generation => cursor[i].of = Stored

(* What a search has read of the generation still holds of the rows.         *)
WalkInv ==
  /\ call.at # "idle" /\ call.continues => Holds("search")
  /\ call.at = "rows" /\ call.kind = "search" =>
       /\ call.continues => cursor[1].generation = call.base
       /\ call.base >= 1
       /\ ~call.torn => call.base = index.generation

ReadingInv ==
  /\ DocumentsInv /\ PumpInv /\ IndexInv /\ CallInv /\ CursorInv /\ WalkInv
  /\ AnswersFromProjection /\ PagesStayTogether

----------------------------------------------------------------------------
(* What the operators of the model return.                                  *)

LEMMA LeastOfTwo ==
  ASSUME NEW a \in Nat, NEW b \in Nat
  PROVE  Min({a, b}) \in Nat /\ Min({a, b}) <= a /\ Min({a, b}) <= b
<1>1. \E x \in {a, b} : \A y \in {a, b} : x <= y
  <2>1. CASE a <= b
    BY <2>1
  <2>2. CASE b <= a
    BY <2>2
  <2> QED
    BY <2>1, <2>2
<1> QED
  BY <1>1 DEF Min

(* A transcript that grows keeps its versions.                               *)
LEMMA Growth ==
  ASSUME DocumentsInv, NEW w \in Workspaces, NEW text \in Texts,
         published' = [published EXCEPT ![w] = Append(@, text)]
  PROVE  /\ published' \in [Workspaces -> Seq(Texts)]
         /\ \A v \in Workspaces : Current(v) \in Nat /\ Current(v)' \in Nat /\ Current(v)' >= Current(v)
         /\ \A v \in Workspaces : \A n \in 1 .. Current(v) : published'[v][n] = published[v][n]
<1>1. published \in [Workspaces -> Seq(Texts)] /\ published[w] \in Seq(Texts)
  BY DEF DocumentsInv
<1>2. /\ Append(published[w], text) \in Seq(Texts)
      /\ Len(Append(published[w], text)) = Len(published[w]) + 1
      /\ \A n \in 1 .. Len(published[w]) : Append(published[w], text)[n] = published[w][n]
  BY <1>1, AppendProperties
<1>3. /\ published' \in [Workspaces -> Seq(Texts)]
      /\ published'[w] = Append(published[w], text)
      /\ \A v \in Workspaces : v # w => published'[v] = published[v]
  BY <1>1, <1>2
<1>4. ASSUME NEW v \in Workspaces
      PROVE  /\ Current(v) \in Nat /\ Current(v)' \in Nat /\ Current(v)' >= Current(v)
             /\ \A n \in 1 .. Current(v) : published'[v][n] = published[v][n]
  <2>1. Len(published[v]) \in Nat /\ Len(published'[v]) \in Nat
    BY <1>1, <1>3, LenProperties
  <2>2. CASE v = w
    BY <1>2, <1>3, <2>1, <2>2 DEF Current
  <2>3. CASE v # w
    BY <1>3, <2>1, <2>3 DEF Current
  <2> QED
    BY <2>2, <2>3
<1> QED
  BY <1>3, <1>4

(* What a user or a run adds is a transcript again.                          *)
LEMMA TextGrows ==
  ASSUME ReadingAssumption, NEW text \in Texts, NEW f \in Finals
  PROVE  Append(text, f) \in Texts
BY AppendProperties DEF ReadingAssumption, Texts, Segments

(* A corrected text is a text.                                               *)
LEMMA TextCorrected ==
  ASSUME NEW text \in Texts, NEW i \in DOMAIN text
  PROVE  Corrected(text, i) \in Texts
<1>1. DOMAIN text = 1 .. Len(text) /\ Len(text) \in Nat /\ text \in [1 .. Len(text) -> Segments]
  BY LenProperties, ElementOfSeq DEF Texts
<1>2. text[i] \in Segments
  BY <1>1
<1>3. [text[i] EXCEPT !.hit = ~@] \in Segments
  BY <1>2 DEF Segments
<1>4. [text EXCEPT ![i].hit = ~@] \in [1 .. Len(text) -> Segments]
  BY <1>1, <1>3
<1> QED
  BY <1>1, <1>4 DEF Texts, Corrected

(* Every workspace has a current text.                                       *)
LEMMA LastText ==
  ASSUME DocumentsInv, NEW w \in Workspaces
  PROVE  /\ Last(published[w]) \in Texts /\ Current(w) \in Nat \ {0}
         /\ \A n \in 1 .. Current(w) : published[w][n] \in Texts
<1>1. published[w] \in Seq(Texts) /\ Len(published[w]) >= 1
  BY DEF DocumentsInv, Current
<1>2. Len(published[w]) \in Nat /\ \A n \in 1 .. Len(published[w]) : published[w][n] \in Texts
  BY <1>1, LenProperties, ElementOfSeq
<1> QED
  BY <1>1, <1>2 DEF Last, Current

(* The rows of an index that is there are a version of a transcript.         *)
LEMMA RowsAreAText ==
  ASSUME DocumentsInv, IndexInv, index.state # "absent"
  PROVE  Stored \in Projections
<1>1. index.key \in Workspaces /\ index.version \in 1 .. Current(index.key)
  BY DEF IndexInv
<1>2. published[index.key][index.version] \in Texts
  BY <1>1, LastText
<1> QED
  BY <1>1, <1>2 DEF Stored, Projections

----------------------------------------------------------------------------
(* What changes little.                                                     *)

AnswersHold == AnswersFromProjection /\ PagesStayTogether

(* An error and no answer promise nothing.                                   *)
LEMMA NothingAnswered ==
  ASSUME answer' = NoAnswer \/ answer' = [kind |-> "error"]
  PROVE  AnswersHold'
BY DEF AnswersHold, AnswersFromProjection, PagesStayTogether, NoAnswer

(* The recording begins, ends, discovers or fails.                          *)
LEMMA OnlyThePump ==
  ASSUME ReadingInv, DocumentsInv', PumpInv', AnswersHold',
         UNCHANGED <<published, chosen, index, call, cursor>>
  PROVE  ReadingInv'
<1>1. UNCHANGED Stored /\ \A w : UNCHANGED Current(w)
  BY DEF Stored, Current
<1>2. IndexInv'
  BY <1>1 DEF ReadingInv, IndexInv
<1>3. CallInv'
  BY <1>1 DEF ReadingInv, CallInv, HasProjection
<1>4. CursorInv' /\ WalkInv'
  BY <1>1 DEF ReadingInv, CursorInv, WalkInv, Holds
<1> QED
  BY <1>2, <1>3, <1>4 DEF ReadingInv, AnswersHold

(* A new version of a transcript leaves the index to the old one.           *)
LEMMA NewVersion ==
  ASSUME ReadingInv, AnswersHold', PumpInv', NEW w \in Workspaces, NEW text \in Texts,
         published' = [published EXCEPT ![w] = Append(@, text)],
         UNCHANGED <<chosen, run, index, call, cursor>>
  PROVE  ReadingInv'
<1>1. /\ published' \in [Workspaces -> Seq(Texts)]
      /\ \A v \in Workspaces : Current(v) \in Nat /\ Current(v)' \in Nat /\ Current(v)' >= Current(v)
      /\ \A v \in Workspaces : \A n \in 1 .. Current(v) : published'[v][n] = published[v][n]
  BY Growth DEF ReadingInv
<1>2. DocumentsInv'
  BY <1>1 DEF ReadingInv, DocumentsInv
<1>3. IndexInv'
  <2>1. index.state # "absent" => index.key \in Workspaces /\ index.version \in 1 .. Current(index.key)
    BY DEF ReadingInv, IndexInv
  <2>2. index.state # "absent" => index.version \in 1 .. Current(index.key)'
    BY <1>1, <2>1
  <2> QED
    BY <2>1, <2>2 DEF ReadingInv, IndexInv, Absent
<1>4. CallInv'
  <2>1. call \in Calls /\ chosen \in Workspaces
    BY DEF ReadingInv, CallInv, DocumentsInv
  <2>2. call.version \in Nat /\ call.least \in Nat
    BY <2>1 DEF Calls
  <2> QED
    BY <1>1, <2>1, <2>2 DEF ReadingInv, CallInv, HasProjection
<1>5. index.state # "absent" => UNCHANGED Stored
  BY <1>1 DEF ReadingInv, IndexInv, Stored
<1>6. CursorInv'
  <2>1. cursor' \in Seq(Cursors) /\ Len(cursor') <= 1
    BY DEF ReadingInv, CursorInv
  <2>2. ASSUME NEW i \in DOMAIN cursor', cursor'[i].kind = "search", ~cursor'[i].reused
        PROVE  /\ cursor'[i].generation >= 1
               /\ cursor'[i].generation = index'.generation => cursor'[i].of = Stored'
    <3>1. /\ cursor[i].generation >= 1
          /\ cursor[i].generation = index.generation => cursor[i].of = Stored
      BY <2>2 DEF ReadingInv, CursorInv
    <3>2. index.state = "absent" => index.generation = 0
      <4>1. index.state = "absent" => index = Absent
        BY DEF ReadingInv, IndexInv
      <4> QED
        BY <4>1 DEF Absent
    <3>3. cursor[i].generation = index.generation => index.state # "absent"
      BY <3>1, <3>2
    <3> QED
      BY <1>5, <3>1, <3>3
  <2> QED
    BY <2>1, <2>2 DEF CursorInv
<1>7. WalkInv'
  BY DEF ReadingInv, WalkInv, Holds
<1> QED
  BY <1>2, <1>3, <1>4, <1>6, <1>7 DEF ReadingInv, AnswersHold

----------------------------------------------------------------------------
(* The index is replaced.                                                   *)

(* A cursor keeps what it is about, whatever rebuild is committed.           *)
SameCursors ==
  /\ DOMAIN cursor' = DOMAIN cursor /\ (cursor # <<>> => cursor' # <<>>)
  /\ \A i \in DOMAIN cursor : /\ cursor'[i].kind = cursor[i].kind
                              /\ cursor'[i].generation = cursor[i].generation

(* A cursor that is held is a cursor.                                        *)
LEMMA FirstCursor ==
  ASSUME CursorInv, cursor # <<>>
  PROVE  1 \in DOMAIN cursor /\ cursor[1] \in Cursors
<1>1. cursor \in Seq(Cursors) /\ Len(cursor) \in Nat \ {0}
  BY EmptySeq DEF CursorInv
<1> QED
  BY <1>1, LenProperties, ElementOfSeq

(* Only the cursors whose generation a rebuild gives out again are marked.   *)
LEMMA CursorsReissued ==
  ASSUME CursorInv, NEW base \in Nat, cursor' = Reissued(base)
  PROVE  /\ cursor' \in Seq(Cursors) /\ Len(cursor') <= 1 /\ SameCursors
         /\ \A i \in DOMAIN cursor' : ~cursor'[i].reused =>
              ~cursor[i].reused /\ cursor'[i].generation # base + 1
<1>1. cursor \in Seq(Cursors) /\ Len(cursor) \in Nat /\ Len(cursor) <= 1
      /\ cursor \in [1 .. Len(cursor) -> Cursors] /\ DOMAIN cursor = 1 .. Len(cursor)
  BY LenProperties DEF CursorInv
<1> DEFINE Marked(i) == [cursor[i] EXCEPT !.reused = @ \/ cursor[i].generation = base + 1]
<1>2. cursor' = [i \in 1 .. Len(cursor) |-> Marked(i)]
  BY <1>1 DEF Reissued
<1>3. \A i \in 1 .. Len(cursor) :
        /\ Marked(i) \in Cursors
        /\ ~Marked(i).reused => ~cursor[i].reused /\ cursor[i].generation # base + 1
        /\ Marked(i).kind = cursor[i].kind
        /\ Marked(i).generation = cursor[i].generation
  <2> SUFFICES ASSUME NEW i \in 1 .. Len(cursor)
               PROVE  /\ Marked(i) \in Cursors
                      /\ ~Marked(i).reused => ~cursor[i].reused /\ cursor[i].generation # base + 1
                      /\ Marked(i).kind = cursor[i].kind
                      /\ Marked(i).generation = cursor[i].generation
    OBVIOUS
  <2>1. cursor[i] \in Cursors
    BY <1>1
  <2> QED
    BY <2>1 DEF Cursors
<1> HIDE DEF Marked
<1>4. cursor' \in [1 .. Len(cursor) -> Cursors]
  BY <1>2, <1>3
<1>5. cursor' \in Seq(Cursors) /\ Len(cursor') = Len(cursor)
  BY <1>1, <1>4
<1>6. DOMAIN cursor' = DOMAIN cursor
  BY <1>1, <1>2
<1>7. cursor # <<>> => cursor' # <<>>
  <2> SUFFICES ASSUME cursor # <<>>, cursor' = <<>> PROVE FALSE
    OBVIOUS
  <2>1. Len(cursor) # 0
    BY <1>1, EmptySeq
  <2> QED
    BY <2>1, <1>5, EmptySeq
<1> QED
  BY <1>1, <1>2, <1>3, <1>5, <1>6, <1>7 DEF SameCursors

(* A commit puts the rows of one version of one workspace in place.          *)
LEMMA IndexCommitted ==
  ASSUME ReadingInv, NEW w \in Workspaces, NEW version \in 1 .. Current(w), NEW base \in Nat,
         Commit(w, version, base), UNCHANGED published
  PROVE  /\ IndexInv' /\ CursorInv' /\ SameCursors
         /\ index'.state = "sound" /\ index'.key = w /\ index'.version = version
<1>1. index' = [state |-> "sound", key |-> w, generation |-> base + 1, version |-> version]
  BY DEF Commit, NextGeneration
<1>2. Current(w)' = Current(w) /\ Current(w) \in Nat
  BY LastText DEF Current, ReadingInv
<1>3. IndexInv'
  <2>1. /\ index'.state = "sound" /\ index'.key = w
        /\ index'.version = version /\ index'.generation = base + 1
    BY <1>1
  <2>2. version \in Nat /\ base + 1 \in Nat /\ base + 1 >= 1
    BY <1>2
  <2>3. index' \in [state : {"absent", "sound", "invalid", "corrupt"}, key : Workspaces \cup {"none"},
                    generation : Nat, version : Nat]
    BY <1>1, <2>2
  <2>4. index'.version \in 1 .. Len(published'[index'.key])
    BY <2>1 DEF Current
  <2>5. index'.key \in Workspaces /\ index'.state # "absent" /\ index'.generation >= 1
    BY <2>1, <2>2
  <2> QED
    BY <2>3, <2>4, <2>5 DEF IndexInv, Current, Absent
<1>4. CursorInv' /\ SameCursors
  <2>1. /\ cursor' \in Seq(Cursors) /\ Len(cursor') <= 1 /\ SameCursors
        /\ \A i \in DOMAIN cursor' : ~cursor'[i].reused =>
             ~cursor[i].reused /\ cursor'[i].generation # base + 1
    BY CursorsReissued DEF Commit, ReadingInv
  <2>2. ASSUME NEW i \in DOMAIN cursor', cursor'[i].kind = "search", ~cursor'[i].reused
        PROVE  cursor'[i].generation >= 1 /\ cursor'[i].generation # index'.generation
    <3>1. i \in DOMAIN cursor /\ cursor[i].kind = "search" /\ cursor'[i].generation = cursor[i].generation
      BY <2>1, <2>2 DEF SameCursors
    <3>2. cursor[i].generation >= 1
      BY <2>1, <2>2, <3>1 DEF ReadingInv, CursorInv
    <3> QED
      BY <1>1, <2>1, <2>2, <3>1, <3>2
  <2> QED
    BY <2>1, <2>2 DEF CursorInv
<1> QED
  BY <1>1, <1>3, <1>4

(* A quarantine leaves no index; no cursor is of its generation.             *)
LEMMA IndexQuarantined ==
  ASSUME ReadingInv, Quarantine, UNCHANGED cursor
  PROVE  IndexInv' /\ CursorInv' /\ index' = Absent
<1>1. index' = Absent
  BY DEF Quarantine
<1>2. IndexInv' /\ index'.generation = 0
  BY <1>1 DEF IndexInv, Absent
<1>3. CursorInv'
  <2>1. ASSUME NEW i \in DOMAIN cursor', cursor'[i].kind = "search", ~cursor'[i].reused
        PROVE  cursor'[i].generation >= 1 /\ cursor'[i].generation # index'.generation
    <3>1. cursor[i].generation >= 1
      BY <2>1 DEF ReadingInv, CursorInv
    <3> QED
      BY <1>2, <3>1
  <2> QED
    BY <2>1 DEF ReadingInv, CursorInv
<1> QED
  BY <1>1, <1>2, <1>3

----------------------------------------------------------------------------
(* The recording.                                                           *)

LEMMA RunStarts ==
  ASSUME ReadingInv, StartRun
  PROVE  ReadingInv'
<1>1. run' = {chosen} /\ UNCHANGED <<published, chosen, index, call, cursor, pump>> /\ AnswersHold'
  BY NothingAnswered DEF StartRun
<1>2. UNCHANGED <<published, chosen>> /\ \A w : UNCHANGED Current(w)
  BY <1>1 DEF Current
<1>3. DocumentsInv'
  BY <1>1, <1>2 DEF ReadingInv, DocumentsInv, AtMostOne
<1>4. PumpInv'
  BY <1>1 DEF ReadingInv, PumpInv, StartRun
<1> QED
  BY <1>1, <1>3, <1>4, OnlyThePump

(* A recording that ends.                                                    *)
LEMMA RunEnds ==
  ASSUME ReadingInv, EndRun
  PROVE  ReadingInv'
<1>1. run' = {} /\ pump' = Quiet /\ UNCHANGED <<published, chosen, index, call, cursor>> /\ AnswersHold'
  BY NothingAnswered DEF EndRun
<1>2. \A w : UNCHANGED Current(w)
  BY <1>1 DEF Current
<1>3. DocumentsInv'
  BY <1>1, <1>2 DEF ReadingInv, DocumentsInv, AtMostOne
<1>4. PumpInv'
  BY <1>1 DEF PumpInv, Quiet
<1> QED
  BY <1>1, <1>3, <1>4, OnlyThePump

(* A recording that publishes a transcript.                                  *)
LEMMA RunPublishes ==
  ASSUME ReadingAssumption, ReadingInv, Publish
  PROVE  ReadingInv'
<1>1. PICK w \in run, f \in Finals :
        published' = [published EXCEPT ![w] = Append(@, Append(Last(@), f))]
  BY DEF Publish
<1>2. w \in Workspaces
  BY <1>1 DEF ReadingInv, DocumentsInv
<1>3. Append(Last(published[w]), f) \in Texts
  BY <1>2, LastText, TextGrows DEF ReadingInv
<1>4. published' = [published EXCEPT ![w] = Append(@, Append(Last(published[w]), f))]
  BY <1>1
<1>5. UNCHANGED <<chosen, run, index, call, cursor>> /\ AnswersHold'
  BY NothingAnswered DEF Publish
<1>6. PumpInv'
  <2>1. pump \in [at : {"idle", "dirty", "discovered", "based"}, version : Nat, base : Nat]
    BY DEF ReadingInv, PumpInv
  <2>2. pump' = [pump EXCEPT !.at = "dirty"]
    BY DEF Publish
  <2>3. /\ pump' \in [at : {"idle", "dirty", "discovered", "based"}, version : Nat, base : Nat]
        /\ pump'.at = "dirty"
    BY <2>1, <2>2
  <2> QED
    BY <2>3 DEF PumpInv
<1> QED
  BY <1>2, <1>3, <1>4, <1>5, <1>6, NewVersion

(* The pump discovers documents, or fails to.                                *)
LEMMA PumpWaits ==
  ASSUME ReadingInv, PumpDiscovers \/ PumpFails
  PROVE  ReadingInv'
<1>1. UNCHANGED <<published, chosen, run, index, call, cursor>> /\ AnswersHold'
  BY NothingAnswered DEF PumpDiscovers, PumpFails, documentVars
<1>2. \A w : UNCHANGED Current(w)
  BY <1>1 DEF Current
<1>3. DocumentsInv'
  BY <1>1, <1>2 DEF ReadingInv, DocumentsInv
<1>4. PumpInv'
  <2>1. CASE PumpDiscovers
    <3>1. PICK w \in run : pump' = [pump EXCEPT !.at = "discovered", !.version = Current(w)]
      BY <2>1 DEF PumpDiscovers
    <3>2. Current(w) \in Nat \ {0} /\ \A v \in run : v = w
      BY LastText DEF ReadingInv, DocumentsInv, AtMostOne
    <3>3. pump \in [at : {"idle", "dirty", "discovered", "based"}, version : Nat, base : Nat]
      BY DEF ReadingInv, PumpInv
    <3>4. /\ pump' \in [at : {"idle", "dirty", "discovered", "based"}, version : Nat, base : Nat]
          /\ pump'.version = Current(w)
      BY <3>1, <3>2, <3>3
    <3>5. run' # {} /\ \A v \in run' : pump'.version \in 1 .. Current(v)'
      BY <1>1, <1>2, <3>2, <3>4
    <3> QED
      BY <3>4, <3>5 DEF PumpInv
  <2>2. CASE PumpFails
    BY <2>2 DEF PumpFails, PumpInv, Quiet
  <2> QED
    BY <2>1, <2>2
<1> QED
  BY <1>1, <1>3, <1>4, OnlyThePump

(* A quarantine spares a command that has settled for the index.             *)
LEMMA QuarantineBeside ==
  ASSUME ReadingInv, index.state = "corrupt", Quarantine, DocumentsInv', PumpInv', AnswersHold',
         UNCHANGED <<published, chosen, call, cursor>>
  PROVE  ReadingInv'
<1>1. IndexInv' /\ CursorInv' /\ index' = Absent
  BY IndexQuarantined
<1>2. call.at \notin Serving
  BY DEF ReadingInv, CallInv
<1>3. CallInv'
  <2>1. \A w : UNCHANGED Current(w)
    BY DEF Current
  <2>2. index'.state = "absent"
    BY <1>1 DEF Absent
  <2> QED
    BY <1>2, <2>1, <2>2 DEF ReadingInv, CallInv, HasProjection
<1>4. WalkInv'
  <2>1. call.at # "rows"
    BY <1>2 DEF Serving
  <2> QED
    BY <2>1 DEF ReadingInv, WalkInv, Holds
<1> QED
  BY <1>1, <1>3, <1>4 DEF ReadingInv, AnswersHold

(* The pump opens the index.                                                 *)
LEMMA PumpOpening ==
  ASSUME ReadingInv, PumpOpens
  PROVE  ReadingInv'
<1>1. UNCHANGED <<published, chosen, run, call, cursor>> /\ AnswersHold'
  BY NothingAnswered DEF PumpOpens, documentVars
<1>2. \A w : UNCHANGED Current(w)
  BY <1>1 DEF Current
<1>3. DocumentsInv'
  BY <1>1, <1>2 DEF ReadingInv, DocumentsInv
<1>4. PumpInv'
  <2>1. PICK base \in Nat : pump' = [pump EXCEPT !.at = "based", !.base = base]
    BY DEF PumpOpens, ReadingInv, IndexInv
  <2>2. pump \in [at : {"idle", "dirty", "discovered", "based"}, version : Nat, base : Nat]
    BY DEF ReadingInv, PumpInv
  <2>3. /\ pump' \in [at : {"idle", "dirty", "discovered", "based"}, version : Nat, base : Nat]
        /\ pump'.version = pump.version
    BY <2>1, <2>2
  <2>4. run # {} /\ \A w \in run : pump.version \in 1 .. Current(w)
    BY DEF PumpOpens, ReadingInv, PumpInv
  <2>5. run' # {} /\ \A w \in run' : pump'.version \in 1 .. Current(w)'
    BY <1>1, <1>2, <2>3, <2>4
  <2> QED
    BY <2>3, <2>5 DEF PumpInv
<1>5. CASE index.state = "corrupt" /\ Quarantine
  BY <1>1, <1>3, <1>4, <1>5, QuarantineBeside
<1>6. CASE UNCHANGED index
  BY <1>1, <1>3, <1>4, <1>6, OnlyThePump
<1> QED
  BY <1>5, <1>6 DEF PumpOpens

(* The rows of another workspace, or older ones, come beside a command.      *)
LEMMA PumpCommitting ==
  ASSUME ReadingInv, PumpCommits
  PROVE  ReadingInv'
<1>1. PICK w \in run : Commit(w, pump.version, pump.base) /\ call' = Beside(w, pump.version)
  BY DEF PumpCommits
<1>2. UNCHANGED <<published, chosen, run>> /\ AnswersHold' /\ pump' = Quiet
  BY NothingAnswered DEF PumpCommits, documentVars
<1>3. w \in Workspaces /\ pump.version \in 1 .. Current(w) /\ pump.base \in Nat
  BY DEF ReadingInv, DocumentsInv, PumpInv, PumpCommits
<1>4. /\ IndexInv' /\ CursorInv' /\ SameCursors
      /\ index'.state = "sound" /\ index'.key = w /\ index'.version = pump.version
  BY <1>1, <1>2, <1>3, IndexCommitted
<1>5. \A v : UNCHANGED Current(v)
  BY <1>2 DEF Current
<1>6. DocumentsInv' /\ PumpInv'
  BY <1>2, <1>5 DEF ReadingInv, DocumentsInv, PumpInv, Quiet
<1>7. call \in Calls /\ pump.version \in Nat /\ call.least \in Nat
  <2>1. call \in Calls /\ Current(w) \in Nat
    BY <1>3, LastText DEF ReadingInv, CallInv
  <2> QED
    BY <1>3, <2>1 DEF Calls
<1>8. /\ Min({call.least, pump.version}) \in Nat
      /\ Min({call.least, pump.version}) <= call.least /\ Min({call.least, pump.version}) <= pump.version
  BY <1>7, LeastOfTwo
<1>9. PICK least \in Nat, crossed \in BOOLEAN, torn \in BOOLEAN :
        /\ call' = [call EXCEPT !.crossed = crossed, !.least = least, !.torn = torn]
        /\ least <= call.least /\ (w = chosen => least <= pump.version)
        /\ call.crossed => crossed
        /\ w # chosen /\ call.at \in Serving => crossed
        /\ call.at = "rows" => torn
  <2> DEFINE least == IF w = chosen THEN Min({call.least, pump.version}) ELSE call.least
             crossed == call.crossed \/ (w # chosen /\ call.at \in Serving)
             torn == call.torn \/ call.at = "rows"
  <2>1. call' = [call EXCEPT !.crossed = crossed, !.least = least, !.torn = torn]
    BY <1>1 DEF Beside, Serving
  <2>2. least \in Nat /\ least <= call.least /\ (w = chosen => least <= pump.version)
    BY <1>7, <1>8
  <2>3. crossed \in BOOLEAN /\ torn \in BOOLEAN
    BY <1>7 DEF Calls
  <2> HIDE DEF least
  <2> QED
    BY <2>1, <2>2, <2>3
<1>10. /\ call' \in Calls /\ call'.at = call.at /\ call'.kind = call.kind
       /\ call'.continues = call.continues /\ call'.after = call.after
       /\ call'.version = call.version /\ call'.base = call.base
       /\ call'.least = least /\ call'.crossed = crossed /\ call'.torn = torn
  BY <1>7, <1>9 DEF Calls
<1>11. CallInv'
  <2>1. call'.after = "rows" => call'.kind # "search"
    BY <1>10 DEF ReadingInv, CallInv
  <2>2. call'.at # "idle" => call'.least <= Current(chosen)'
    <3>1. call.at # "idle" => call.least <= Current(chosen)
      BY DEF ReadingInv, CallInv
    <3>2. Current(chosen) \in Nat
      BY LastText DEF ReadingInv, DocumentsInv
    <3> QED
      BY <1>2, <1>5, <1>7, <1>9, <1>10, <3>1, <3>2
  <2>3. call'.at \in {"base", "commit"} =>
          call'.version \in 1 .. Current(chosen)' /\ call'.version >= call'.least
    <3>1. call.at \in {"base", "commit"} =>
            call.version \in 1 .. Current(chosen) /\ call.version >= call.least
      BY DEF ReadingInv, CallInv
    <3>2. call.version \in Nat
      BY <1>7 DEF Calls
    <3> QED
      BY <1>2, <1>5, <1>7, <1>9, <1>10, <3>1, <3>2
  <2>4. call'.at # "idle" /\ HasProjection(chosen)' => index'.version >= call'.least
    BY <1>2, <1>4, <1>7, <1>9, <1>10 DEF HasProjection
  <2>5. call'.at \in Serving /\ ~call'.crossed => index'.key = chosen'
    BY <1>2, <1>4, <1>9, <1>10
  <2> QED
    BY <1>4, <1>10, <2>1, <2>2, <2>3, <2>4, <2>5 DEF CallInv
<1>12. WalkInv'
  <2>1. Holds("search") => Holds("search")' /\ cursor'[1].generation = cursor[1].generation
    BY <1>4, FirstCursor DEF SameCursors, Holds, ReadingInv
  <2>2. call'.at # "idle" /\ call'.continues => Holds("search") /\ Holds("search")'
    BY <1>10, <2>1 DEF ReadingInv, WalkInv
  <2>3. call'.at = "rows" => call'.torn
    BY <1>9, <1>10
  <2>4. call'.at = "rows" /\ call'.kind = "search" /\ call'.continues
          => cursor'[1].generation = call'.base
    BY <1>10, <2>1, <2>2 DEF ReadingInv, WalkInv
  <2>5. call'.at = "rows" /\ call'.kind = "search" => call'.base >= 1
    BY <1>10 DEF ReadingInv, WalkInv
  <2> QED
    BY <2>2, <2>3, <2>4, <2>5 DEF WalkInv
<1> QED
  BY <1>2, <1>4, <1>6, <1>11, <1>12 DEF ReadingInv, AnswersHold

----------------------------------------------------------------------------
(* The commands.                                                            *)

LEMMA UserCorrects ==
  ASSUME ReadingInv, Correct
  PROVE  ReadingInv'
<1>1. PICK i \in DOMAIN Last(published[chosen]) :
        published' = [published EXCEPT ![chosen] = Append(@, Corrected(Last(@), i))]
  BY DEF Correct
<1>2. chosen \in Workspaces /\ Last(published[chosen]) \in Texts
  BY LastText DEF ReadingInv, DocumentsInv
<1>3. Corrected(Last(published[chosen]), i) \in Texts
  BY <1>2, TextCorrected
<1>4. published' = [published EXCEPT ![chosen] = Append(@, Corrected(Last(published[chosen]), i))]
  BY <1>1
<1>5. UNCHANGED <<chosen, run, pump, index, call, cursor>> /\ AnswersHold'
  BY NothingAnswered DEF Correct
<1>6. PumpInv'
  <2>1. \A v \in Workspaces : Current(v) \in Nat /\ Current(v)' \in Nat /\ Current(v)' >= Current(v)
    BY <1>2, <1>3, <1>4, Growth DEF ReadingInv
  <2>2. run \subseteq Workspaces /\ pump.version \in Nat
    BY DEF ReadingInv, DocumentsInv, PumpInv
  <2> QED
    BY <1>5, <2>1, <2>2 DEF ReadingInv, PumpInv
<1> QED
  BY <1>2, <1>3, <1>4, <1>5, <1>6, NewVersion

(* Another workspace is chosen.                                              *)
LEMMA UserChooses ==
  ASSUME ReadingInv, ChooseWorkspace
  PROVE  ReadingInv'
<1>1. /\ chosen' \in Workspaces /\ call.at = "idle" /\ AnswersHold'
      /\ UNCHANGED <<published, run, pump, index, call, cursor>>
  BY NothingAnswered DEF ChooseWorkspace, At
<1>2. UNCHANGED Stored /\ \A w : UNCHANGED Current(w)
  BY <1>1 DEF Stored, Current
<1>3. DocumentsInv' /\ PumpInv' /\ IndexInv'
  BY <1>1, <1>2 DEF ReadingInv, DocumentsInv, PumpInv, IndexInv
<1>4. CallInv'
  BY <1>1 DEF ReadingInv, CallInv, Serving
<1>5. CursorInv' /\ WalkInv'
  BY <1>1, <1>2 DEF ReadingInv, CursorInv, WalkInv, Holds
<1> QED
  BY <1>1, <1>3, <1>4, <1>5 DEF ReadingInv, AnswersHold

(* A command that has returned holds nothing.                                *)
LEMMA AtRest ==
  ASSUME call' = Idle
  PROVE  CallInv' /\ WalkInv'
<1>1. call' \in Calls /\ call'.at = "idle" /\ call'.after = "idle"
  BY DEF Idle, Calls
<1> QED
  BY <1>1 DEF CallInv, WalkInv, Serving

(* A step of a command that leaves the index and the cursor.                 *)
LEMMA OnlyTheCommand ==
  ASSUME ReadingInv, CallInv', WalkInv', AnswersHold',
         UNCHANGED <<published, chosen, run, pump, index, cursor>>
  PROVE  ReadingInv'
<1>1. UNCHANGED Stored /\ \A w : UNCHANGED Current(w)
  BY DEF Stored, Current
<1>2. DocumentsInv' /\ PumpInv' /\ IndexInv'
  BY <1>1 DEF ReadingInv, DocumentsInv, PumpInv, IndexInv
<1>3. CursorInv'
  BY <1>1 DEF ReadingInv, CursorInv
<1> QED
  BY <1>2, <1>3 DEF ReadingInv, AnswersHold

(* A command that answers with an error.                                     *)
LEMMA CommandFails ==
  ASSUME ReadingInv, Failed, UNCHANGED <<published, chosen, run, pump, index, cursor>>
  PROVE  ReadingInv'
<1>1. call' = Idle /\ answer' = [kind |-> "error"]
  BY DEF Failed, Return
<1> QED
  BY <1>1, AtRest, NothingAnswered, OnlyTheCommand

(* A rebuild that fails.                                                     *)
LEMMA RebuildFailing ==
  ASSUME ReadingInv, RebuildFails
  PROVE  ReadingInv'
BY CommandFails DEF RebuildFails, documentVars

(* What a command is promised when it begins is what the index has then.     *)
LEMMA CommandBegins ==
  ASSUME ReadingInv, NEW kind \in {"search", "speech"}, NEW continues \in BOOLEAN,
         continues => Holds("search"), Ask(kind, continues)
  PROVE  ReadingInv'
<1>1. call' = [Idle EXCEPT !.at = "look", !.kind = kind, !.least = Projected, !.continues = continues]
  BY DEF Ask
<1>2. UNCHANGED <<published, chosen, run, pump, index, cursor>> /\ AnswersHold'
  BY NothingAnswered DEF Ask, documentVars
<1>3. Current(chosen) \in Nat /\ UNCHANGED Current(chosen)
  BY <1>2, LastText DEF ReadingInv, DocumentsInv, Current
<1>4. Projected \in Nat /\ Projected <= Current(chosen)
  <2>1. CASE index.state = "absent"
    <3>1. index = Absent
      BY <2>1 DEF ReadingInv, IndexInv
    <3> QED
      BY <1>3, <3>1 DEF Projected, Absent
  <2>2. CASE index.state # "absent"
    <3>1. index.version \in 1 .. Current(index.key)
      BY <2>2 DEF ReadingInv, IndexInv
    <3> QED
      BY <1>3, <3>1 DEF Projected
  <2> QED
    BY <2>1, <2>2
<1>5. /\ call' \in Calls /\ call'.at = "look" /\ call'.kind = kind /\ call'.least = Projected
      /\ call'.continues = continues /\ call'.after = "idle"
  BY <1>1, <1>4 DEF Idle, Calls
<1>6. HasProjection(chosen) => index.version = Projected
  BY DEF HasProjection, Projected
<1>7. CallInv'
  BY <1>2, <1>3, <1>4, <1>5, <1>6 DEF CallInv, HasProjection, Serving
<1>8. WalkInv'
  BY <1>2, <1>5 DEF WalkInv, Holds
<1> QED
  BY <1>2, <1>7, <1>8, OnlyTheCommand

(* A rescan that begins.                                                     *)
LEMMA RescanBegins ==
  ASSUME ReadingInv, Rescan
  PROVE  ReadingInv'
<1>1. call' = [Idle EXCEPT !.at = "discover", !.kind = "rescan", !.after = "done"]
  BY DEF Rescan
<1>2. UNCHANGED <<published, chosen, run, pump, index, cursor>> /\ AnswersHold'
  BY NothingAnswered DEF Rescan, documentVars
<1>3. /\ call' \in Calls /\ call'.at = "discover" /\ call'.least = 0 /\ call'.after = "done"
      /\ call'.continues = FALSE
  BY <1>1 DEF Idle, Calls
<1>4. Current(chosen) \in Nat /\ UNCHANGED Current(chosen)
  BY <1>2, LastText DEF ReadingInv, DocumentsInv, Current
<1>5. HasProjection(chosen) => index.version \in Nat
  BY DEF ReadingInv, IndexInv
<1>6. CallInv'
  BY <1>2, <1>3, <1>4, <1>5 DEF CallInv, HasProjection, Serving
<1>7. WalkInv'
  BY <1>3 DEF WalkInv
<1> QED
  BY <1>2, <1>6, <1>7, OnlyTheCommand

(* The cursor that a page leaves.                                            *)
LEMMA PageTurned ==
  ASSUME NEW kind \in {"page", "search"}, NEW of \in Projections, NEW offset \in Nat, NEW length,
         NEW generation \in Nat,
         NextPage(kind, of, offset, length, generation)
  PROVE  /\ cursor' \in Seq(Cursors) /\ Len(cursor') <= 1
         /\ \A i \in DOMAIN cursor' :
              /\ cursor'[i].kind = kind /\ cursor'[i].of = of
              /\ cursor'[i].generation = generation /\ ~cursor'[i].reused
<1>1. CASE cursor' = <<>>
  BY <1>1, EmptySeq
<1>2. CASE cursor' = <<[kind |-> kind, of |-> of, offset |-> offset + 1,
                        generation |-> generation, reused |-> FALSE]>>
  <2>1. [kind |-> kind, of |-> of, offset |-> offset + 1,
         generation |-> generation, reused |-> FALSE] \in Cursors
    BY DEF Cursors
  <2> QED
    BY <1>2, <2>1
<1> QED
  BY <1>1, <1>2 DEF NextPage

(* Reading a page.                                                           *)
LEMMA PageIsRead ==
  ASSUME ReadingInv, ReadPage
  PROVE  ReadingInv'
<1> DEFINE content == Last(published[chosen])
           of == [ws |-> chosen, content |-> content]
           fresh == Holds("page") /\ cursor[1].of.ws = chosen /\ SameVersion(content)
           Page(offset, walk) == /\ answer' = [kind |-> "page", walk |-> walk, found |-> of, torn |-> FALSE]
                                 /\ NextPage("page", of, offset, Len(content), 0)
<1>1. /\ UNCHANGED <<published, chosen, run, pump, index, call>> /\ call.at = "idle"
      /\ \/ Page(0, <<>>)
         \/ fresh /\ Page(cursor[1].offset, <<cursor[1].of>>)
         \/ answer' = [kind |-> "error"] /\ cursor' = <<>>
  BY DEF ReadPage, At, documentVars
<1>2. UNCHANGED Stored /\ \A w : UNCHANGED Current(w)
  BY <1>1 DEF Stored, Current
<1>3. DocumentsInv' /\ PumpInv' /\ IndexInv'
  BY <1>1, <1>2 DEF ReadingInv, DocumentsInv, PumpInv, IndexInv
<1>4. CallInv' /\ WalkInv'
  BY <1>1 DEF ReadingInv, CallInv, WalkInv, Serving
<1>5. of \in Projections
  BY LastText DEF ReadingInv, DocumentsInv, Projections
<1>6. CASE answer' = [kind |-> "error"] /\ cursor' = <<>>
  <2>1. CursorInv'
    BY <1>6, EmptySeq DEF CursorInv
  <2> QED
    BY <1>3, <1>4, <1>6, <2>1, NothingAnswered DEF ReadingInv, AnswersHold
<1>7. ASSUME NEW offset \in Nat, NEW walk, Page(offset, walk), \A i \in DOMAIN walk : walk[i] = of
      PROVE  ReadingInv'
  <2>1. /\ cursor' \in Seq(Cursors) /\ Len(cursor') <= 1
        /\ \A i \in DOMAIN cursor' : cursor'[i].kind = "page"
    BY <1>5, <1>7, PageTurned
  <2>2. CursorInv'
    BY <2>1 DEF CursorInv
  <2>3. /\ answer'.kind = "page" /\ answer'.found = of /\ answer'.walk = walk
    BY <1>7
  <2>4. AnswersFromProjection' /\ PagesStayTogether'
    BY <1>7, <2>3 DEF AnswersFromProjection, PagesStayTogether
  <2> QED
    BY <1>3, <1>4, <2>2, <2>4 DEF ReadingInv
<1>8. CASE Page(0, <<>>)
  <2>1. 0 \in Nat /\ \A i \in DOMAIN <<>> : <<>>[i] = of
    OBVIOUS
  <2> HIDE DEF of, content, Page
  <2> QED
    BY <1>7, <1>8, <2>1
<1>9. CASE fresh /\ Page(cursor[1].offset, <<cursor[1].of>>)
  <2>1. cursor[1] \in Cursors
    BY <1>9, FirstCursor DEF Holds, ReadingInv
  <2>2. cursor[1].offset \in Nat /\ cursor[1].of \in Projections
    BY <2>1 DEF Cursors
  <2>3. cursor[1].of.ws = chosen /\ cursor[1].of.content = content
    BY <1>9 DEF SameVersion
  <2>4. cursor[1].of = of
    BY <2>2, <2>3 DEF Projections
  <2>5. \A i \in DOMAIN <<cursor[1].of>> : <<cursor[1].of>>[i] = of
    BY <2>4
  <2> HIDE DEF of, content, Page
  <2> QED
    BY <1>7, <1>9, <2>2, <2>5
<1> QED
  BY <1>1, <1>6, <1>8, <1>9

(* An index that is kept, or moved away because it is damaged.               *)
LEMMA IndexKeptOrLost ==
  ASSUME ReadingInv, UNCHANGED <<published, chosen, cursor>>, UNCHANGED index \/ Quarantine
  PROVE  /\ IndexInv' /\ CursorInv'
         /\ Holds("search") => Holds("search")'
         /\ HasProjection(chosen)' => HasProjection(chosen) /\ index'.version = index.version
<1>1. CASE UNCHANGED index
  <2>1. UNCHANGED Stored /\ \A w : UNCHANGED Current(w)
    BY <1>1 DEF Stored, Current
  <2> QED
    BY <1>1, <2>1 DEF ReadingInv, IndexInv, CursorInv, Holds, HasProjection
<1>2. CASE Quarantine
  <2>1. IndexInv' /\ CursorInv' /\ index' = Absent
    BY <1>2, IndexQuarantined
  <2>2. UNCHANGED Holds("search")
    BY DEF Holds
  <2>3. ~HasProjection(chosen)'
    BY <2>1 DEF HasProjection, Absent
  <2> QED
    BY <2>1, <2>2, <2>3
<1> QED
  BY <1>1, <1>2

(* The rebuild of a command that found the index wanting.                    *)
LEMMA RebuildBegins ==
  ASSUME ReadingInv, call.at # "idle",
         NEW after \in {"look", "generation", "rows"}, NEW retried \in BOOLEAN,
         after = "rows" => call.kind # "search",
         call' = [call EXCEPT !.at = "discover", !.after = after, !.retried = retried]
  PROVE  /\ call' \in Calls /\ call'.at = "discover" /\ call'.after = after
         /\ call'.kind = call.kind /\ call'.continues = call.continues /\ call'.least = call.least
<1>1. call \in Calls
  BY DEF ReadingInv, CallInv
<1> QED
  BY <1>1 DEF Calls

(* A command that has to rebuild first.                                      *)
LEMMA CommandRebuilds ==
  ASSUME ReadingInv, call.at # "idle",
         NEW after \in {"look", "generation", "rows"}, NEW retried \in BOOLEAN,
         after = "rows" => call.kind # "search",
         call' = [call EXCEPT !.at = "discover", !.after = after, !.retried = retried],
         answer' = NoAnswer, UNCHANGED <<published, chosen, run, pump, cursor>>,
         UNCHANGED index \/ Quarantine
  PROVE  ReadingInv'
<1>1. /\ call' \in Calls /\ call'.at = "discover" /\ call'.after = after
      /\ call'.kind = call.kind /\ call'.continues = call.continues /\ call'.least = call.least
  BY RebuildBegins
<1>2. UNCHANGED Current(chosen) /\ \A w : UNCHANGED Current(w)
  BY DEF Current
<1>3. /\ IndexInv' /\ CursorInv'
      /\ Holds("search") => Holds("search")'
      /\ HasProjection(chosen)' => HasProjection(chosen) /\ index'.version = index.version
  BY IndexKeptOrLost
<1>4. CallInv'
  <2>1. call'.least <= Current(chosen)'
    BY <1>1, <1>2 DEF ReadingInv, CallInv
  <2>2. HasProjection(chosen)' => index'.version >= call'.least
    BY <1>1, <1>3 DEF ReadingInv, CallInv
  <2> QED
    BY <1>1, <2>1, <2>2 DEF CallInv, Serving
<1>5. WalkInv'
  BY <1>1, <1>3 DEF ReadingInv, WalkInv
<1>6. DocumentsInv' /\ PumpInv'
  BY <1>2 DEF ReadingInv, DocumentsInv, PumpInv
<1> QED
  BY <1>3, <1>4, <1>5, <1>6, NothingAnswered DEF ReadingInv, AnswersHold

(* A command that begins again, once.                                        *)
LEMMA CommandAgain ==
  ASSUME ReadingInv, call.at # "idle", Again, UNCHANGED <<published, chosen, run, pump, cursor>>,
         \/ UNCHANGED index
         \/ ~call.retried /\ Quarantine
  PROVE  ReadingInv'
<1>1. CASE call.retried /\ Failed
  BY <1>1, CommandFails
<1>2. CASE ~call.retried /\ call' = [Rebuild("look") EXCEPT !.retried = TRUE] /\ answer' = NoAnswer
  <2>1. call \in Calls
    BY DEF ReadingInv, CallInv
  <2>2. call' = [call EXCEPT !.at = "discover", !.after = "look", !.retried = TRUE]
    BY <1>2, <2>1 DEF Rebuild, Calls
  <2> QED
    BY <1>2, <2>2, CommandRebuilds
<1> QED
  BY <1>1, <1>2 DEF Again

(* Looking whether there is an index for the workspace.                      *)
LEMMA IndexLookedAt ==
  ASSUME ReadingInv, Look
  PROVE  ReadingInv'
<1>1. call.at = "look" /\ UNCHANGED <<published, chosen, run, pump, cursor>> /\ call \in Calls
  BY DEF Look, At, documentVars, ReadingInv, CallInv
<1>2. CASE /\ index.state = "corrupt" /\ Again
           /\ IF call.retried THEN UNCHANGED index ELSE Quarantine
  BY <1>1, <1>2, CommandAgain
<1>3. CASE call' = Rebuild(Reading) /\ answer' = NoAnswer /\ UNCHANGED index
  <2>1. /\ Reading \in {"generation", "rows"} /\ (Reading = "rows" => call.kind # "search")
        /\ call.retried \in BOOLEAN
    BY <1>1 DEF Reading, Calls
  <2>2. call' = [call EXCEPT !.at = "discover", !.after = Reading, !.retried = call.retried]
    BY <1>1, <1>3 DEF Rebuild, Calls
  <2> QED
    BY <1>1, <1>3, <2>1, <2>2, CommandRebuilds
<1>4. CASE /\ index.state # "corrupt" /\ HasProjection(chosen)
           /\ call' = [call EXCEPT !.at = "verify", !.seen = Stored] /\ answer' = NoAnswer
           /\ UNCHANGED index
  <2>1. index.state \in {"sound", "invalid"} /\ index.key = chosen
    BY <1>4 DEF HasProjection, ReadingInv, IndexInv
  <2>2. Stored \in Projections
    BY <2>1, RowsAreAText DEF ReadingInv
  <2>3. /\ call' \in Calls /\ call'.at = "verify" /\ call'.kind = call.kind /\ call'.after = call.after
        /\ call'.continues = call.continues /\ call'.least = call.least
    BY <1>1, <1>4, <2>2 DEF Calls
  <2>4. UNCHANGED <<Current(chosen), HasProjection(chosen)>>
    BY <1>1, <1>4 DEF Current, HasProjection
  <2>5. CallInv'
    BY <1>1, <1>4, <2>1, <2>3, <2>4 DEF ReadingInv, CallInv, Serving
  <2>6. WalkInv'
    BY <1>1, <1>4, <2>3 DEF ReadingInv, WalkInv, Holds
  <2> QED
    BY <1>1, <1>4, <2>5, <2>6, NothingAnswered, OnlyTheCommand
<1> QED
  BY <1>2, <1>3, <1>4 DEF Look

(* Verifying it.                                                             *)
LEMMA IndexVerified ==
  ASSUME ReadingInv, Verify
  PROVE  ReadingInv'
<1>1. /\ call.at = "verify" /\ UNCHANGED <<published, chosen, run, pump, index, cursor>>
      /\ call \in Calls
  BY DEF Verify, At, documentVars, ReadingInv, CallInv
<1>2. CASE Again
  BY <1>1, <1>2, CommandAgain
<1>3. CASE call' = [call EXCEPT !.at = Reading, !.seen = <<>>] /\ answer' = NoAnswer
  <2>1. Reading \in {"generation", "rows"} /\ (Reading = "rows" => call.kind # "search")
    BY DEF Reading
  <2>2. /\ call' \in Calls /\ call'.at = Reading /\ call'.kind = call.kind /\ call'.after = call.after
        /\ call'.continues = call.continues /\ call'.least = call.least /\ call'.crossed = call.crossed
    BY <1>1, <1>3, <2>1 DEF Calls
  <2>3. UNCHANGED <<Current(chosen), HasProjection(chosen)>>
    BY <1>1 DEF Current, HasProjection
  <2>4. CallInv'
    BY <1>1, <2>1, <2>2, <2>3 DEF ReadingInv, CallInv, Serving
  <2>5. WalkInv'
    BY <1>1, <2>1, <2>2 DEF ReadingInv, WalkInv, Holds
  <2> QED
    BY <1>1, <1>3, <2>4, <2>5, NothingAnswered, OnlyTheCommand
<1> QED
  BY <1>2, <1>3 DEF Verify

(* Discovering the documents of the workspace.                               *)
LEMMA DocumentsDiscovered ==
  ASSUME ReadingInv, Discover
  PROVE  ReadingInv'
<1>1. /\ call.at = "discover" /\ UNCHANGED <<published, chosen, run, pump, index, cursor>>
      /\ call \in Calls /\ answer' = NoAnswer
      /\ call' = [call EXCEPT !.at = "base", !.version = Current(chosen), !.seen = <<>>]
  BY DEF Discover, At, documentVars, ReadingInv, CallInv
<1>2. Current(chosen) \in Nat \ {0}
  BY LastText DEF ReadingInv, DocumentsInv
<1>3. /\ call' \in Calls /\ call'.at = "base" /\ call'.kind = call.kind /\ call'.after = call.after
      /\ call'.continues = call.continues /\ call'.least = call.least
      /\ call'.version = Current(chosen)
  BY <1>1, <1>2 DEF Calls
<1>4. UNCHANGED <<Current(chosen), HasProjection(chosen)>>
  BY <1>1 DEF Current, HasProjection
<1>5. call'.least <= Current(chosen) /\ call'.version \in 1 .. Current(chosen) /\ call'.version >= call'.least
  <2>1. call.least <= Current(chosen) /\ call.least \in Nat
    BY <1>1 DEF ReadingInv, CallInv, Calls
  <2> QED
    BY <1>2, <1>3, <2>1
<1>6. CallInv'
  BY <1>1, <1>3, <1>4, <1>5 DEF ReadingInv, CallInv, Serving
<1>7. WalkInv'
  BY <1>1, <1>3 DEF ReadingInv, WalkInv, Holds
<1> QED
  BY <1>1, <1>6, <1>7, NothingAnswered, OnlyTheCommand

(* Reading the generation that the rebuild goes out from.                    *)
LEMMA BaseIsRead ==
  ASSUME ReadingInv, ReadBase
  PROVE  ReadingInv'
<1>1. /\ call.at = "base" /\ UNCHANGED <<published, chosen, run, pump, cursor>>
      /\ call \in Calls /\ answer' = NoAnswer
  BY DEF ReadBase, At, documentVars, ReadingInv, CallInv
<1>2. PICK base \in Nat : call' = [call EXCEPT !.at = "commit", !.base = base]
  BY DEF ReadBase, ReadingInv, IndexInv
<1>3. /\ call' \in Calls /\ call'.at = "commit" /\ call'.kind = call.kind /\ call'.after = call.after
      /\ call'.continues = call.continues /\ call'.least = call.least /\ call'.version = call.version
  BY <1>1, <1>2 DEF Calls
<1>4. UNCHANGED Current(chosen) /\ \A w : UNCHANGED Current(w)
  BY <1>1 DEF Current
<1>5. /\ IndexInv' /\ CursorInv'
      /\ Holds("search") => Holds("search")'
      /\ HasProjection(chosen)' => HasProjection(chosen) /\ index'.version = index.version
  <2>1. UNCHANGED index \/ Quarantine
    BY DEF ReadBase
  <2> QED
    BY <1>1, <2>1, IndexKeptOrLost
<1>6. CallInv'
  BY <1>1, <1>3, <1>4, <1>5 DEF ReadingInv, CallInv, Serving
<1>7. WalkInv'
  BY <1>1, <1>3, <1>5 DEF ReadingInv, WalkInv
<1>8. DocumentsInv' /\ PumpInv'
  BY <1>1, <1>4 DEF ReadingInv, DocumentsInv, PumpInv
<1> QED
  BY <1>1, <1>5, <1>6, <1>7, <1>8, NothingAnswered DEF ReadingInv, AnswersHold

(* Committing a rebuild.                                                     *)
LEMMA RebuildCommits ==
  ASSUME ReadingInv, CommitRebuild
  PROVE  ReadingInv'
<1>1. /\ call.at = "commit" /\ UNCHANGED <<published, chosen, run, pump>> /\ call \in Calls
      /\ Commit(chosen, call.version, call.base)
  BY DEF CommitRebuild, At, documentVars, ReadingInv, CallInv
<1>2. /\ chosen \in Workspaces /\ call.base \in Nat
      /\ call.version \in 1 .. Current(chosen) /\ call.version >= call.least
  BY <1>1 DEF ReadingInv, DocumentsInv, CallInv, Calls
<1>3. /\ IndexInv' /\ CursorInv' /\ SameCursors
      /\ index'.state = "sound" /\ index'.key = chosen /\ index'.version = call.version
  BY <1>1, <1>2, IndexCommitted
<1>4. \A w : UNCHANGED Current(w)
  BY <1>1 DEF Current
<1>5. DocumentsInv' /\ PumpInv'
  BY <1>1, <1>4 DEF ReadingInv, DocumentsInv, PumpInv
<1>6. CASE Return([kind |-> "rescan"])
  <2>1. call' = Idle /\ answer'.kind = "rescan"
    BY <1>6 DEF Return
  <2>2. CallInv' /\ WalkInv'
    BY <2>1, AtRest
  <2>3. AnswersFromProjection' /\ PagesStayTogether'
    BY <2>1 DEF AnswersFromProjection, PagesStayTogether
  <2> QED
    BY <1>3, <1>5, <2>2, <2>3 DEF ReadingInv
<1>7. CASE /\ call.after # "done" /\ answer' = NoAnswer
           /\ call' = [call EXCEPT !.at = call.after, !.version = 0, !.base = 0, !.crossed = FALSE]
  <2>1. call.after \in {"idle", "look", "generation", "rows"}
    BY <1>1, <1>7 DEF Calls
  <2>2. /\ call' \in Calls /\ call'.at = call.after /\ call'.kind = call.kind
        /\ call'.after = call.after /\ call'.continues = call.continues /\ call'.least = call.least
    BY <1>1, <1>7, <2>1 DEF Calls
  <2>3. CallInv'
    <3>1. call'.least <= Current(chosen)'
      BY <1>1, <1>4, <2>2 DEF ReadingInv, CallInv
    <3> QED
      BY <1>1, <1>2, <1>3, <2>1, <2>2, <3>1 DEF ReadingInv, CallInv
  <2>4. WalkInv'
    <3>1. Holds("search") => Holds("search")'
      BY <1>3, FirstCursor DEF SameCursors, Holds, ReadingInv
    <3>2. call'.at = "rows" => call'.kind # "search"
      BY <2>2 DEF ReadingInv, CallInv
    <3> QED
      BY <1>1, <2>2, <3>1, <3>2 DEF ReadingInv, WalkInv
  <2> QED
    BY <1>3, <1>5, <1>7, <2>3, <2>4, NothingAnswered DEF ReadingInv, AnswersHold
<1> QED
  BY <1>6, <1>7 DEF CommitRebuild

(* Comparing the generation of a cursor.                                     *)
LEMMA GenerationIsRead ==
  ASSUME ReadingInv, ReadGeneration
  PROVE  ReadingInv'
<1>1. /\ call.at = "generation" /\ UNCHANGED <<published, chosen, run, pump, index>> /\ call \in Calls
  BY DEF ReadGeneration, At, documentVars, ReadingInv, CallInv
<1>2. CASE Failed /\ cursor' = <<>>
  <2>1. call' = Idle /\ answer' = [kind |-> "error"]
    BY <1>2 DEF Failed, Return
  <2>2. \A w : UNCHANGED Current(w)
    BY <1>1 DEF Current
  <2>3. DocumentsInv' /\ PumpInv' /\ IndexInv'
    BY <1>1, <2>2 DEF ReadingInv, DocumentsInv, PumpInv, IndexInv
  <2>4. CursorInv'
    BY <1>2, EmptySeq DEF CursorInv
  <2> QED
    BY <2>1, <2>3, <2>4, AtRest, NothingAnswered DEF ReadingInv, AnswersHold
<1>3. CASE /\ call.continues => cursor[1].generation = index.generation
           /\ call' = [call EXCEPT !.at = "rows", !.base = index.generation]
           /\ answer' = NoAnswer /\ UNCHANGED cursor
  <2>1. index.generation \in Nat /\ index.generation >= 1
    BY <1>1 DEF ReadingInv, IndexInv, CallInv, Serving
  <2>2. /\ call' \in Calls /\ call'.at = "rows" /\ call'.kind = call.kind /\ call'.after = call.after
        /\ call'.continues = call.continues /\ call'.least = call.least
        /\ call'.crossed = call.crossed /\ call'.base = index.generation
    BY <1>1, <1>3, <2>1 DEF Calls
  <2>3. UNCHANGED <<Current(chosen), HasProjection(chosen)>>
    BY <1>1 DEF Current, HasProjection
  <2>4. CallInv'
    BY <1>1, <2>2, <2>3 DEF ReadingInv, CallInv, Serving
  <2>5. WalkInv'
    BY <1>1, <1>3, <2>1, <2>2 DEF ReadingInv, WalkInv, Holds
  <2> QED
    BY <1>1, <1>3, <2>4, <2>5, NothingAnswered, OnlyTheCommand
<1> QED
  BY <1>2, <1>3 DEF ReadGeneration

(* Where a command reads the rows, they are those of its workspace.          *)
LEMMA RowsAnswer ==
  ASSUME ReadingInv, call.at = "rows", UNCHANGED chosen,
         NEW walk, NEW torn, NEW total, answer' = Result(walk, torn, total)
  PROVE  AnswersFromProjection'
<1>1. /\ answer'.crossed = call.crossed /\ answer'.version = index.version
      /\ answer'.least = call.least /\ answer'.found = Stored
  BY DEF Result
<1>2. ~call.crossed => index.key = chosen /\ HasProjection(chosen)
  BY DEF ReadingInv, CallInv, Serving, HasProjection
<1>3. ~call.crossed => index.version >= call.least
  BY <1>2 DEF ReadingInv, CallInv
<1> QED
  BY <1>1, <1>2, <1>3 DEF AnswersFromProjection, Stored

(* Reading the speech time.                                                  *)
LEMMA SpeechIsRead ==
  ASSUME ReadingInv, ReadSpeech
  PROVE  ReadingInv'
<1>1. /\ call.at = "rows" /\ call.kind = "speech"
      /\ UNCHANGED <<published, chosen, run, pump, index, cursor>>
      /\ call' = Idle /\ answer' = Result(<<>>, call.torn, SpeechMs(Stored.content))
  BY DEF ReadSpeech, At, Return, documentVars
<1>2. AnswersFromProjection'
  BY <1>1, RowsAnswer
<1>3. answer'.kind = "speech"
  BY <1>1 DEF Result
<1>4. PagesStayTogether'
  BY <1>3 DEF PagesStayTogether
<1> QED
  BY <1>1, <1>2, <1>4, AtRest, OnlyTheCommand DEF AnswersHold

(* Reading the rows of a search.                                             *)
LEMMA HitsAreRead ==
  ASSUME ReadingInv, ReadHits
  PROVE  ReadingInv'
<1> DEFINE walk == IF call.continues THEN <<cursor[1].of>> ELSE <<>>
           torn == call.torn \/ (call.continues /\ cursor[1].reused)
           offset == IF call.continues THEN cursor[1].offset ELSE 0
<1>1. /\ call.at = "rows" /\ call.kind = "search" /\ UNCHANGED <<published, chosen, run, pump, index>>
      /\ call' = Idle /\ answer' = Result(walk, torn, 0)
      /\ \E length : NextPage("search", Stored, offset, length, call.base)
  BY DEF ReadHits, At, Return, documentVars
<1>2. call \in Calls /\ (call.continues => cursor[1] \in Cursors)
  BY <1>1, FirstCursor DEF ReadingInv, CallInv, WalkInv, Holds
<1>3. offset \in Nat /\ call.base \in Nat /\ torn \in BOOLEAN
  BY <1>2 DEF Calls, Cursors
<1>4. index.state # "absent" /\ index.generation \in Nat /\ index.generation >= 1
  BY <1>1 DEF ReadingInv, CallInv, Serving, IndexInv
<1>5. Stored \in Projections
  BY <1>4, RowsAreAText DEF ReadingInv
<1>6. ~call.torn => call.base = index.generation
  BY <1>1 DEF ReadingInv, WalkInv
<1>7. UNCHANGED Stored /\ \A w : UNCHANGED Current(w)
  BY <1>1 DEF Stored, Current
<1>8. DocumentsInv' /\ PumpInv' /\ IndexInv'
  BY <1>1, <1>7 DEF ReadingInv, DocumentsInv, PumpInv, IndexInv
<1>9. CursorInv'
  <2> HIDE DEF torn, offset
  <2>1. /\ cursor' \in Seq(Cursors) /\ Len(cursor') <= 1
        /\ \A i \in DOMAIN cursor' :
             /\ cursor'[i].of = Stored /\ cursor'[i].generation = call.base /\ ~cursor'[i].reused
    <3>1. PICK length : NextPage("search", Stored, offset, length, call.base)
      BY <1>1
    <3>2. "search" \in {"page", "search"}
      OBVIOUS
    <3> QED
      BY <1>3, <1>5, <3>1, <3>2, PageTurned
  <2>2. call.base >= 1
    BY <1>1 DEF ReadingInv, WalkInv
  <2> QED
    BY <1>7, <2>1, <2>2 DEF CursorInv
<1>10. PagesStayTogether'
  <2>1. answer'.walk = walk /\ answer'.found = Stored /\ answer'.torn = torn
    BY <1>1 DEF Result
  <2>2. ASSUME ~torn, NEW i \in DOMAIN walk
        PROVE  walk[i] = Stored
    <3>1. call.continues /\ walk[i] = cursor[1].of /\ ~cursor[1].reused
      BY <2>2
    <3>2. cursor[1].kind = "search" /\ 1 \in DOMAIN cursor /\ cursor[1].generation = call.base
      BY <1>1, <3>1, FirstCursor DEF ReadingInv, WalkInv, Holds
    <3>3. cursor[1].generation = index.generation
      BY <1>6, <2>2, <3>2
    <3> QED
      BY <3>1, <3>2, <3>3 DEF ReadingInv, CursorInv
  <2> HIDE DEF walk, torn
  <2> QED
    BY <2>1, <2>2 DEF PagesStayTogether
<1>11. AnswersFromProjection'
  BY <1>1, RowsAnswer
<1> QED
  BY <1>1, <1>8, <1>9, <1>10, <1>11, AtRest DEF ReadingInv

----------------------------------------------------------------------------
(* Damage and restarts.                                                     *)

LEMMA IndexIsDamaged ==
  ASSUME ReadingInv, Damage
  PROVE  ReadingInv'
<1>1. PICK state \in {"invalid", "corrupt"} : index' = [index EXCEPT !.state = state]
  BY DEF Damage
<1>2. /\ call.at = "idle" /\ index.state = "sound" /\ AnswersHold'
      /\ UNCHANGED <<published, chosen, run, pump, call, cursor>>
  BY NothingAnswered DEF Damage, At, documentVars
<1>3. /\ index' \in [state : {"absent", "sound", "invalid", "corrupt"}, key : Workspaces \cup {"none"},
                    generation : Nat, version : Nat]
      /\ index'.state = state /\ index'.key = index.key
      /\ index'.version = index.version /\ index'.generation = index.generation
  BY <1>1 DEF ReadingInv, IndexInv
<1>4. UNCHANGED Stored /\ \A w : UNCHANGED Current(w)
  BY <1>2, <1>3 DEF Stored, Current
<1>5. DocumentsInv' /\ PumpInv'
  BY <1>2, <1>4 DEF ReadingInv, DocumentsInv, PumpInv
<1>6. IndexInv'
  BY <1>2, <1>3, <1>4 DEF ReadingInv, IndexInv
<1>7. CallInv' /\ WalkInv'
  BY <1>2 DEF ReadingInv, CallInv, WalkInv, Serving
<1>8. CursorInv'
  BY <1>2, <1>3, <1>4 DEF ReadingInv, CursorInv
<1> QED
  BY <1>2, <1>5, <1>6, <1>7, <1>8 DEF ReadingInv, AnswersHold

(* A restart, which forgets the command and keeps the index.                 *)
LEMMA ProcessRestarts ==
  ASSUME ReadingInv, Restart
  PROVE  ReadingInv'
<1>1. /\ run' = {} /\ pump' = Quiet /\ call' = Idle /\ cursor' = <<>>
      /\ UNCHANGED <<published, chosen, index>> /\ AnswersHold'
  BY NothingAnswered DEF Restart
<1>2. \A w : UNCHANGED Current(w)
  BY <1>1 DEF Current
<1>3. DocumentsInv' /\ IndexInv'
  BY <1>1, <1>2 DEF ReadingInv, DocumentsInv, IndexInv, AtMostOne
<1>4. PumpInv' /\ CursorInv'
  BY <1>1, EmptySeq DEF PumpInv, Quiet, CursorInv
<1> QED
  BY <1>1, <1>3, <1>4, AtRest DEF ReadingInv, AnswersHold

----------------------------------------------------------------------------
(* The theorems.                                                            *)

(* Documents, pump, index, command and cursor agree, whatever the recording, *)
(* the commands, damages and restarts do in between.                         *)
THEOREM ReadingInvariant == ReadingSpec => []ReadingInv
<1>1. ReadingInit => ReadingInv
  <2> SUFFICES ASSUME ReadingInit PROVE ReadingInv
    OBVIOUS
  <2>1. \A w \in Workspaces : Recorded[w] \in Texts
    <3> SUFFICES ASSUME NEW w \in Workspaces PROVE Recorded[w] \in Texts
      OBVIOUS
    <3>1. Recorded[w] \in Seq(Finals) /\ \A f \in Finals : f \in Segments
      BY ReadingAssumption DEF ReadingAssumption, Segments
    <3>2. Len(Recorded[w]) \in Nat /\ Recorded[w] \in [1 .. Len(Recorded[w]) -> Finals]
      BY <3>1, LenProperties
    <3>3. Recorded[w] \in [1 .. Len(Recorded[w]) -> Segments]
      BY <3>1, <3>2
    <3> QED
      BY <3>2, <3>3 DEF Texts
  <2>2. published = [w \in Workspaces |-> <<Recorded[w]>>]
    BY DEF ReadingInit
  <2>3. \A w \in Workspaces : published[w] \in Seq(Texts) /\ Len(published[w]) = 1
    BY <2>1, <2>2
  <2>4. DocumentsInv
    BY <2>2, <2>3 DEF ReadingInit, DocumentsInv, Current, AtMostOne
  <2>5. PumpInv /\ IndexInv
    BY DEF ReadingInit, PumpInv, Quiet, IndexInv, Absent
  <2>6. CallInv /\ WalkInv
    <3>1. call \in Calls /\ call.at = "idle" /\ call.after = "idle"
      BY DEF ReadingInit, Idle, Calls
    <3> QED
      BY <3>1 DEF CallInv, WalkInv, Serving
  <2>7. CursorInv
    BY EmptySeq DEF ReadingInit, CursorInv
  <2>8. AnswersFromProjection /\ PagesStayTogether
    BY DEF ReadingInit, NoAnswer, AnswersFromProjection, PagesStayTogether
  <2> QED
    BY <2>4, <2>5, <2>6, <2>7, <2>8 DEF ReadingInv
<1>2. ReadingInv /\ [ReadingNext]_readingVars => ReadingInv'
  <2> SUFFICES ASSUME ReadingInv, [ReadingNext]_readingVars PROVE ReadingInv'
    OBVIOUS
  <2>1. CASE Recording
    BY <2>1, ReadingAssumption, RunStarts, RunPublishes, PumpWaits, PumpOpening, PumpCommitting, RunEnds
       DEF Recording
  <2>2. CASE Commanding
    <3>1. CASE Search
      BY <3>1, CommandBegins DEF Search
    <3>2. CASE MeasureSpeech
      BY <3>2, CommandBegins DEF MeasureSpeech
    <3> QED
      BY <2>2, <3>1, <3>2, UserCorrects, UserChooses, PageIsRead, RescanBegins, IndexLookedAt,
         IndexVerified, DocumentsDiscovered, BaseIsRead, RebuildCommits, RebuildFailing,
         GenerationIsRead, HitsAreRead, SpeechIsRead
         DEF Commanding
  <2>3. CASE UNCHANGED readingVars
    <3>1. UNCHANGED <<published, chosen, run, pump, index, call, cursor, answer>>
      BY <2>3 DEF readingVars, documentVars
    <3>2. AnswersHold'
      BY <3>1 DEF ReadingInv, AnswersHold, AnswersFromProjection, PagesStayTogether
    <3>3. CallInv' /\ WalkInv'
      BY <3>1 DEF ReadingInv, CallInv, WalkInv, HasProjection, Holds, Current
    <3> QED
      BY <3>1, <3>2, <3>3, OnlyTheCommand
  <2> QED
    BY <2>1, <2>2, <2>3, IndexIsDamaged, ProcessRestarts DEF ReadingNext
<1> QED
  BY <1>1, <1>2, PTL DEF ReadingSpec

(* A search, or the speech time, is answered from rows of the chosen         *)
(* workspace, none older than those it had when the command began.           *)
THEOREM AnswersAreOfProjection == ReadingSpec => []AnswersFromProjection
<1>1. ReadingInv => AnswersFromProjection
  BY DEF ReadingInv
<1> QED
  BY <1>1, ReadingInvariant, PTL

(* The pages of one walk are cut from one version of a transcript, but where *)
(* a rebuild gives the generation of its cursor out a second time or the     *)
(* pump commits between the two statements of one search.                    *)
THEOREM PagesAreOfOneVersion == ReadingSpec => []PagesStayTogether
<1>1. ReadingInv => PagesStayTogether
  BY DEF ReadingInv
<1> QED
  BY <1>1, ReadingInvariant, PTL

=============================================================================
