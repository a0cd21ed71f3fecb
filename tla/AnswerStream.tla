----------------------------- MODULE AnswerStream -----------------------------
(***************************************************************************)
(* How the answer of the language model is read (llm/completion.rs,        *)
(* parse_stream) and what it must be to be used (llm/results.rs): one      *)
(* request of a call, whose reservation and retries are in SpendingLedger, *)
(* and the one repair that may follow it.                                  *)
(*                                                                         *)
(* The provider sends events that bring a piece of text, a finish reason,  *)
(* the usage, several of them or none; it may repeat or contradict itself, *)
(* go on after it has finished, and the connection may break anywhere.  A  *)
(* text is a sequence of pieces: a segment is a citation, "return" prose   *)
(* with a carriage return in it, "close" the end of the object, and        *)
(* "noise" whatever no validator accepts.  The lines that make up an event *)
(* and the texts of the errors are left out.                               *)
(***************************************************************************)
EXTENDS Naturals, Sequences

CONSTANTS
  Segments,      (* what an answer may cite                                 *)
  Selected,      (* selected_segment_ids: the segments of the prompt        *)
  Expected,      (* the model that was priced: [slug, release]              *)
  Reported,      (* the models that an event may name                       *)
  MaxText        (* OUTPUT_LIMIT, in pieces                                 *)

ASSUME AnswerAssumption ==
  /\ Selected \subseteq Segments /\ MaxText \in Nat
  /\ Expected \in Reported
  /\ Segments \cap {"", "prose", "return", "noise", "close"} = {}

VARIABLES
  request,    (* "primary", "repair"                                        *)
  reading,    (* "stream", "judge", "accepted", "refused"                   *)
  content,    (* ParsedStream: the text so far                              *)
  ending,     (* finish_reason, or "none"                                   *)
  usages,     (* the usages taken from the stream: at most one              *)
  said        (* history: what the provider sent in this request            *)

answerVars == <<request, reading, content, ending, usages, said>>

Reasons == {"stop", "length", "content_filter"}

(* A chunk of the stream that parses; an empty delta brings no text. *)
Chunk == [piece : Segments \cup {"", "return", "noise", "close"},
          reason : Reasons \cup {"none"}, usage : BOOLEAN, model : Reported]

(* `late` is set when the provider goes on, or takes back what it said,     *)
(* after it has given a reason to have finished.                            *)
Silent == [text |-> <<>>, reason |-> "none", usages |-> 0, late |-> FALSE, done |-> FALSE]

NewStream(r) ==
  /\ request' = r /\ reading' = "stream"
  /\ content' = <<>> /\ ending' = "none" /\ usages' = 0 /\ said' = Silent

AnswerInit ==
  /\ request = "primary" /\ reading = "stream"
  /\ content = <<>> /\ ending = "none" /\ usages = 0 /\ said = Silent

----------------------------------------------------------------------------
(* parse_stream and process_chunk.                                          *)

(* A provider may answer with a dated release of the model, or leave out    *)
(* the date that was asked for; a routing variant is no part of a slug.     *)
SameModel(m) ==
  /\ m.slug = Expected.slug
  /\ m.release = Expected.release \/ "" \in {m.release, Expected.release}

Piece(c) == IF c.piece = "" THEN <<>> ELSE <<c.piece>>

Says(c) ==
  [text   |-> said.text \o Piece(c),
   reason |-> IF c.reason = "none" THEN said.reason ELSE c.reason,
   usages |-> said.usages + (IF c.usage THEN 1 ELSE 0),
   late   |-> \/ said.late
              \/ /\ said.reason # "none"
                 /\ c.piece # "" \/ c.reason \notin {"none", said.reason},
   done   |-> FALSE]

(* Fault: text that comes after the finish reason is taken as well. *)
FaultyTakes(c) ==
  /\ SameModel(c.model)
  /\ c.piece # "" => Len(content) < MaxText
  /\ c.reason # "none" => ending \in {"none", c.reason}
  /\ c.usage => usages = 0

(* Saying the same reason twice is no contradiction. *)
Takes(c) ==
  /\ SameModel(c.model)
  /\ c.piece # "" => ending = "none" /\ Len(content) < MaxText
  /\ c.reason # "none" => ending \in {"none", c.reason}
  /\ c.usage => usages = 0

StreamChunk ==
  /\ reading = "stream"
  /\ \E c \in Chunk :
       /\ said' = Says(c)
       /\ \/ /\ Takes(c)
             /\ content' = content \o Piece(c)
             /\ ending' = IF c.reason = "none" THEN ending ELSE c.reason
             /\ usages' = usages + (IF c.usage THEN 1 ELSE 0)
             /\ UNCHANGED reading
          \/ ~Takes(c) /\ reading' = "refused" /\ UNCHANGED <<content, ending, usages>>
  /\ UNCHANGED request

(* The provider says that it is done. *)
StreamDone ==
  /\ reading = "stream"
  /\ said' = [said EXCEPT !.done = TRUE]
  /\ reading' = IF ending = "none" \/ usages = 0 THEN "refused" ELSE "judge"
  /\ UNCHANGED <<request, content, ending, usages>>

(* The connection ends, fails or times out, a chunk does not parse or is an *)
(* error, a limit is exceeded, or the command's flag is up.                 *)
StreamBreaks ==
  /\ reading = "stream" /\ reading' = "refused"
  /\ UNCHANGED <<request, content, ending, usages, said>>

----------------------------------------------------------------------------
(* validate_or_repair_completion.                                           *)

(* A candidate is one object and nothing else. *)
Parses(text) ==
  /\ text # <<>> /\ text[Len(text)] = "close"
  /\ \A i \in DOMAIN text : text[i] # "noise" /\ (text[i] = "close" => i = Len(text))

(* The returns that a model writes inside prose become spaces. *)
NormalizedText(text) == [i \in DOMAIN text |-> IF text[i] = "return" THEN "prose" ELSE text[i]]

(* valid_segment_ids: segments of the prompt, each cited once. *)
ValidCitations(text) ==
  \A i \in DOMAIN text :
    text[i] \in Segments =>
      text[i] \in Selected /\ \A j \in DOMAIN text : text[j] = text[i] => j = i

ValidResult(text) == Parses(text) /\ ValidCitations(NormalizedText(text))

(* Only an empty candidate, or a filtered one, is not sent for a repair; a  *)
(* long one, or one whose repair does not fit the model, may not be either. *)
Repairable == request = "primary" /\ content # <<>> /\ ending # "content_filter"

Judge ==
  /\ reading = "judge"
  /\ \/ /\ ending = "stop" /\ ValidResult(content)
        /\ reading' = "accepted"
        /\ content' = NormalizedText(content)
        /\ UNCHANGED <<request, ending, usages, said>>
     \/ /\ ~(ending = "stop" /\ ValidResult(content))
        /\ Repairable /\ NewStream("repair")
     \/ /\ ~(ending = "stop" /\ ValidResult(content))
        /\ reading' = "refused"
        /\ UNCHANGED <<request, content, ending, usages, said>>

AnswerNext == StreamChunk \/ StreamDone \/ StreamBreaks \/ Judge

AnswerSpec == AnswerInit /\ [][AnswerNext]_answerVars

----------------------------------------------------------------------------
(* Properties.                                                              *)

(* What a command is given is all that the provider wrote, once the         *)
(* provider itself had said, with one voice, that it stopped, what it       *)
(* charges and that it is done: never the beginning of an answer that was   *)
(* cut off, never an answer that went on, never part of the refused answer  *)
(* that a repair replaced.                                                  *)
AnswerWhole ==
  reading = "accepted" =>
    /\ content = NormalizedText(said.text)
    /\ said.done /\ ~said.late /\ said.reason = "stop" /\ said.usages = 1

(* An answer, repaired or not, cites only what was in the prompt. *)
AnswerGrounded ==
  reading = "accepted" =>
    \A i \in DOMAIN content : content[i] \in Segments => content[i] \in Selected

=============================================================================
