---------------------------- MODULE PromptContext ----------------------------
(***************************************************************************)
(* What a prompt carries of a meeting: the segments that a command reads   *)
(* from the transcript (persistence/transcript_service.rs) and those that  *)
(* build_prompt_context admits (prompts/context.rs).                       *)
(*                                                                         *)
(* A meeting is the sequence of the sizes of its finalized segments in the *)
(* order of their start, and a segment is its index.  A size stands for    *)
(* what the segment adds to estimate_input_tokens; that the estimate       *)
(* rounds up the sum of bytes only once is left out.                       *)
(***************************************************************************)
EXTENDS Naturals, Sequences, FiniteSets

CONSTANTS
  Neighbors,     (* MANUAL_QUESTION_NEIGHBORS_PER_SIDE                       *)
  Latest,        (* RECENT_INSIGHT_SEGMENTS                                  *)
  Samples,       (* SUMMARY_SAMPLE_SEGMENTS                                  *)
  Closing,       (* SUMMARY_CLOSING_SEGMENTS                                 *)
  MaxSelected,   (* MAX_SELECTED_SEGMENTS                                    *)
  Room           (* the input tokens left by instructions, schema and records *)

ASSUME PromptAssumption ==
  /\ {Neighbors, Latest, Samples, Closing, Room} \subseteq Nat
  /\ MaxSelected \in Nat \ {0}

----------------------------------------------------------------------------
(* The segments that a command reads.                                       *)

LastOf(n, count) == {j \in 1..n : n < j + count}

(* evenly_spaced_indexes, counted from 1. *)
EvenlySpaced(n, limit) ==
  CASE n <= limit -> 1..n
    [] n > limit /\ limit = 0 -> {}
    [] n > limit /\ limit = 1 -> {1}
    [] n > limit /\ limit > 1 -> {1 + (step * (n - 1)) \div (limit - 1) : step \in 0..(limit - 1)}

Context(required, relevant, recent) ==
  [required |-> required, relevant |-> relevant, recent |-> recent]

QuestionContext(n, i) ==
  Context({i}, {i}, {j \in 1..n : i <= j + Neighbors /\ j <= i + Neighbors})

InsightContext(n) == Context({}, LastOf(n, Latest), LastOf(n, Latest))

(* generate_alternative: what is left of the cited segments. *)
AlternativeContext(n, cited) == Context({}, cited \cap LastOf(n, Latest), LastOf(n, Latest))

SummaryContext(n) == Context({}, EvenlySpaced(n, Samples), LastOf(n, Closing))

Contexts(purpose, n) ==
  CASE purpose = "question" -> {QuestionContext(n, i) : i \in 1..n}
    [] purpose = "insight" -> {c \in {InsightContext(n)} \cup {AlternativeContext(n, {i}) : i \in 1..n} :
                                 c.relevant # {}}
    [] purpose = "summary" -> {c \in {SummaryContext(n)} : n > 0}

----------------------------------------------------------------------------
(* The segments that the prompt admits.                                     *)

(* The sum of the sizes, as the number of their units. *)
Tokens(meeting, S) == Cardinality(UNION {{j} \X (1 .. meeting[j]) : j \in S})

Empty == [selected |-> {}, omitted_relevant |-> 0, omitted_recent |-> 0]

(* Fault: the first segment that does not fit ends the selection. *)
FaultyFits(meeting, e, j) ==
  /\ e.omitted_relevant + e.omitted_recent = 0
  /\ Cardinality(e.selected) < MaxSelected
  /\ Tokens(meeting, e.selected \cup {j}) <= Room

Fits(meeting, e, j) ==
  /\ Cardinality(e.selected) < MaxSelected
  /\ Tokens(meeting, e.selected \cup {j}) <= Room

(* count_omission *)
Omit(e, c, j) ==
  IF j \in c.relevant THEN [e EXCEPT !.omitted_relevant = @ + 1]
                      ELSE [e EXCEPT !.omitted_recent = @ + 1]

(* What one candidate does to the envelope; a segment outside S is none. *)
Considered(meeting, c, S, e, j) ==
  CASE j \notin S -> e
    [] j \in S /\ Fits(meeting, e, j) -> [e EXCEPT !.selected = @ \cup {j}]
    [] j \in S /\ ~Fits(meeting, e, j) -> Omit(e, c, j)

(* The candidates of S, the earliest first. *)
Admitted(meeting, c, S, before) ==
  LET after[j \in 0 .. Len(meeting)] ==
        IF j = 0 THEN before ELSE Considered(meeting, c, S, after[j - 1], j)
  IN  after[Len(meeting)]

(* build_prompt_context, without the refusal of a required segment; the     *)
(* order of the three groups is that of collect_candidates.                 *)
Envelope(meeting, c) ==
  Admitted(meeting, c, c.recent \ (c.relevant \cup c.required),
    Admitted(meeting, c, c.relevant \ c.required,
      Admitted(meeting, c, c.required, Empty)))

=============================================================================
