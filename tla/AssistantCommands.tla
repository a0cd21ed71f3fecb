-------------------------- MODULE AssistantCommands --------------------------
(***************************************************************************)
(* The commands that use the language model: insights and alternatives     *)
(* (llm/insights.rs), questions about a segment (llm/manual_question.rs)   *)
(* and the summary of a session (llm/summaries.rs), with what they leave   *)
(* behind: usage rows and insight batches in the metrics database          *)
(* (metrics/store.rs) and summary.md (persistence/summary_store.rs).       *)
(* Their requests are those of SpendingLedger, their prompts those of      *)
(* PromptContext.                                                          *)
(*                                                                         *)
(* Each access of the database is one step under the store's lock, each    *)
(* publication of a summary one under the workspace lock; a crash may fall *)
(* between any two, and between the file operations of a publication.      *)
(***************************************************************************)
EXTENDS SpendingLedger, PromptContext

CONSTANTS
  Purposes,      (* command -> what it may be asked for                       *)
  Meetings,      (* bound: the transcripts that may be there                  *)
  MaxTroubles    (* bound: failed or crashed writes and damages              *)

ASSUME CommandsAssumption ==
  /\ Purposes \in [Commands -> SUBSET {"insight", "question", "summary"}]
  /\ Meetings \subseteq Seq(Nat)
  /\ MaxTroubles \in Nat

VARIABLES
  purpose,    (* command -> Option of what it is doing                        *)
  prompt,     (* Option: the prompt just built, [meeting, context, envelope]  *)
  usage,      (* usage_entries: a set of [id, cost]                           *)
  batches,    (* insight_batches: a set of identifiers                        *)
  summary,    (* the files of summary.md: [doc, backup, temp], Options        *)
  answered,   (* history: the last summary answered                           *)
  lost,       (* history: settled costs that no usage row has                 *)
  earlier,    (* history: costs settled by earlier processes                  *)
  troubles

metricsVars == <<usage, batches, lost>>
summaryVars == <<summary, answered>>
assistantVars == <<spendingVars, purpose, prompt, metricsVars, summaryVars, earlier, troubles>>

NoSummary == [doc |-> {}, backup |-> {}, temp |-> {}]

AssistantInit ==
  /\ SpendingInit
  /\ purpose = [c \in Commands |-> {}] /\ prompt = {}
  /\ usage = {} /\ batches = {} /\ lost = 0
  /\ summary = NoSummary /\ answered = 0
  /\ earlier = 0 /\ troubles = 0

Trouble == troubles < MaxTroubles /\ troubles' = troubles + 1

(* Sums of costs, as the number of their units. *)
CostOf(rows) == Cardinality(UNION {{row.id} \X (1 .. row.cost) : row \in rows})

Unrecorded == Cardinality(UNION {{c} \X (1 .. call[c].due) : c \in Commands})

----------------------------------------------------------------------------
(* The prompt                                                               *)

(* A command reads its part of the transcript and builds its prompt; the    *)
(* first request follows if the prompt has room for the segment asked about. *)
Ask(c) ==
  /\ Begin(c)
  /\ \E task \in Purposes[c], meeting \in Meetings :
       \E context \in Contexts(task, Len(meeting)) :
         LET envelope == Envelope(meeting, context) IN
           /\ context.required \subseteq envelope.selected
           /\ purpose' = [purpose EXCEPT ![c] = {task}]
           /\ prompt' = {[meeting |-> meeting, context |-> context, envelope |-> envelope]}
  /\ UNCHANGED <<metricsVars, summaryVars, earlier, troubles>>

(* The call goes on, and is forgotten when it returns. *)
Kept(c) == purpose' = (IF call'[c].at = "idle" THEN [purpose EXCEPT ![c] = {}] ELSE purpose)

Course(c) ==
  /\ Admit(c) \/ Send(c) \/ Break(c) \/ Finish(c) \/ Exceed(c) \/ Wait(c) \/ Validate(c) \/ Cancel(c)
  /\ Kept(c) /\ prompt' = {}
  /\ UNCHANGED <<metricsVars, summaryVars, earlier, troubles>>

----------------------------------------------------------------------------
(* The metrics                                                              *)

(* Fault: the rows of a call share the identifier of its first request. *)
FaultyRowOf(c) == [id |-> <<c, call[c].first>>, cost |-> call[c].due]

RowOf(c) == [id |-> RequestOf(c), cost |-> call[c].due]

(* record_usage: an identifier keeps its first row. *)
RowAdded(row) == IF \E r \in usage : r.id = row.id THEN usage ELSE usage \cup {row}

(* record_reconciled_usage: a failed write is ignored. *)
RecordUsage(c) ==
  /\ Record(c) /\ Kept(c) /\ prompt' = {}
  /\ \/ usage' = RowAdded(RowOf(c)) /\ UNCHANGED <<lost, troubles>>
     \/ Trouble /\ lost' = lost + call[c].due /\ UNCHANGED usage
  /\ UNCHANGED <<batches, summaryVars, earlier>>

(* generate_recent and generate_alternative count their batch by the        *)
(* identifier of the call; a failed write is ignored.                       *)
CountBatch(c) ==
  /\ purpose[c] = {"insight"} /\ Deliver(c) /\ Kept(c) /\ prompt' = {}
  /\ \/ batches' = batches \cup {<<c, call[c].first>>} /\ UNCHANGED troubles
     \/ Trouble /\ UNCHANGED batches
  /\ UNCHANGED <<usage, lost, summaryVars, earlier>>

(* with_connection finds the database corrupt and puts it aside; what it    *)
(* held is not counted any more.                                            *)
Quarantine ==
  /\ usage # {} /\ Trouble
  /\ usage' = {} /\ batches' = {} /\ lost' = lost + CostOf(usage) /\ prompt' = {}
  /\ UNCHANGED <<spendingVars, purpose, summaryVars, earlier>>

----------------------------------------------------------------------------
(* Answers and summaries                                                    *)

Answer(c) ==
  /\ purpose[c] = {"question"} /\ Deliver(c) /\ Kept(c) /\ prompt' = {}
  /\ UNCHANGED <<metricsVars, summaryVars, earlier, troubles>>

(* atomic_replace_with_backup, or atomic_publish_new where there is none.   *)
Published(f, n) ==
  IF f.doc = {} THEN [f EXCEPT !.doc = {n}, !.temp = {}]
                ELSE [doc |-> {n}, backup |-> f.doc, temp |-> {}]

(* Fault: the document is removed for its successor. *)
FaultySteps(f, n) ==
  {f, [f EXCEPT !.temp = {n}], [doc |-> {}, backup |-> {}, temp |-> {n}], Published(f, n)}

(* write_summary: the files after each of its steps; ReplaceFileW may end    *)
(* with the document already renamed to the backup's name.                  *)
Steps(f, n) ==
  {f, [f EXCEPT !.temp = {n}], Published(f, n)}
    \cup {g \in {[f EXCEPT !.temp = {n}, !.backup = {}],
                 [doc |-> {}, backup |-> f.doc, temp |-> {n}]} : f.doc # {}}

(* generate: the paid summary is published, or lost with the error. *)
WriteSummary(c) ==
  /\ purpose[c] = {"summary"} /\ Deliver(c) /\ Kept(c) /\ prompt' = {}
  /\ LET n == answered + 1 IN
       \/ summary' = Published(summary, n) /\ answered' = n /\ UNCHANGED troubles
       \/ Trouble /\ UNCHANGED answered
          /\ \E f \in Steps(summary, n) : summary' = [f EXCEPT !.temp = {}]
  /\ UNCHANGED <<metricsVars, earlier>>

(* The process ends, also in the middle of a publication. *)
Crash ==
  /\ Trouble /\ Restart
  /\ \/ summary' = summary
     \/ /\ \E c \in Commands : At(c, "deliver") /\ purpose[c] = {"summary"}
        /\ summary' \in Steps(summary, answered + 1)
  /\ purpose' = [c \in Commands |-> {}] /\ prompt' = {}
  /\ earlier' = earlier + ledger.spent
  /\ lost' = lost + Unrecorded
  /\ UNCHANGED <<usage, batches, answered>>

AssistantNext ==
  \/ \E c \in Commands :
       Ask(c) \/ Course(c) \/ RecordUsage(c) \/ CountBatch(c) \/ Answer(c) \/ WriteSummary(c)
  \/ Quarantine \/ Crash

AssistantSpec == AssistantInit /\ [][AssistantNext]_assistantVars

----------------------------------------------------------------------------
(* Properties.                                                              *)

(* Whatever was settled is on the dashboard exactly once, across retries,   *)
(* repairs, concurrent commands and restarts; only a failed write, a crash  *)
(* before the row was written and a quarantine lose it (record_usage,       *)
(* reconcile_prompt_usage).                                                 *)
UsageCounted == CostOf(usage) + Unrecorded + lost = ledger.spent + earlier

(* A summary that was answered, or a newer one, is in summary.md or, after  *)
(* a half-failed replacement, in its backup, whatever step of a later       *)
(* publication failed or crashed (write_summary).                           *)
SummaryKept ==
  answered > 0 => \E n \in summary.doc \cup {b \in summary.backup : summary.doc = {}} : n >= answered

(* A prompt stays within the model's input, whatever the sizes of the       *)
(* segments; the segment asked about is in it; every candidate is in it or  *)
(* counted as omitted; and none is omitted that would still fit             *)
(* (build_prompt_context).                                                  *)
PromptsFit ==
  \A p \in prompt :
    LET candidates == p.context.required \cup p.context.relevant \cup p.context.recent
        selected == p.envelope.selected
        out == candidates \ selected
    IN /\ Tokens(p.meeting, selected) <= Room /\ Cardinality(selected) <= MaxSelected
       /\ p.context.required \subseteq selected /\ selected \subseteq candidates
       /\ p.envelope.omitted_relevant + p.envelope.omitted_recent = Cardinality(out)
       /\ \A j \in out : \/ Cardinality(selected) = MaxSelected
                        \/ Tokens(p.meeting, selected \cup {j}) > Room

=============================================================================
