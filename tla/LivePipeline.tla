---------------------------- MODULE LivePipeline ----------------------------
(***************************************************************************)
(* LiveFinalTranscriptionPipeline (transcription/integration.rs): the      *)
(* scheduler together with the ordering frontiers of the two sources, the  *)
(* identities that tie a partial result to its final, and the lifecycle of *)
(* a run.  One thread owns it, so each method is one step, except that     *)
(* submit_finalized_vad is modelled utterance by utterance: "batch" holds  *)
(* the call in progress and no other method runs meanwhile.                *)
(*                                                                         *)
(* An Option of the code is a set with at most one element.                *)
(***************************************************************************)
EXTENDS TranscriptionScheduler

CONSTANTS
  Watermarks,        (* the ordering watermarks the sources report           *)
  BatchBound         (* bound of the model on the utterances of one call     *)

ASSUME PipelineAssumption ==
  /\ JobIds \subseteq Nat
  /\ Watermarks \subseteq Nat
  /\ BatchBound \in Nat

PipelineState ==
  {"Running", "Pausing", "Paused", "Stopping", "Stopped", "Cancelled"}

VARIABLES
  state,
  frontiers,         (* per source the SourceFrontier                        *)
  next_job_id,
  identities,        (* partial_identities: per source Option<(start, id)>   *)
  last_started,      (* Option of the last final handed to the engine        *)
  batch,             (* Option of the submit_finalized_vad call in progress  *)
  returned,          (* the events the last call returned                    *)
  received,          (* observer: the identifiers given to finals            *)
  answers,           (* observer: results and gaps issued per identifier     *)
  open_from          (* environment: per source the earliest start that its  *)
                     (* segmenter may still submit                           *)

lifecycleVars == <<state, frontiers>>
identityVars == <<next_job_id, identities>>
observerVars == <<received, answers, open_from>>
pipelineVars == <<schedulerVars, state, frontiers, next_job_id, identities,
                  last_started, batch, returned, received, answers,
                  open_from>>

OpenFrontier == [current |-> {}, last |-> {}, sealed |-> FALSE]

PipelineInit ==
  /\ SchedulerInit
  /\ state = "Running"
  /\ frontiers = [s \in Source |-> OpenFrontier]
  /\ next_job_id = 1
  /\ identities = [s \in Source |-> {}]
  /\ last_started = {}
  /\ batch = {}
  /\ returned = <<>>
  /\ received = {}
  /\ answers = [id \in JobIds |-> 0]
  /\ open_from = [s \in Source |-> 0]

-----------------------------------------------------------------------------
(* The identity of an utterance is its source and start: a final takes the *)
(* identifier of the partial with the same start, else a new one.          *)
KnownId(source, start) ==
  {p.job_id : p \in {q \in identities[source] : q.start_ms = start}}

IdFor(source, start) ==
  IF KnownId(source, start) = {} THEN {next_job_id} \cap JobIds
                                 ELSE KnownId(source, start)

TakeJobId(source, start) ==
  next_job_id' = IF KnownId(source, start) = {} THEN next_job_id + 1 ELSE next_job_id

Gap(job) == [kind |-> "gap", job_id |-> job.job_id]

(* The segmenter's side of the contract (module VadSegmenter): nothing it  *)
(* submits begins before the watermark it last reported, the watermark is  *)
(* past the start of every utterance emitted so far and never moves back,  *)
(* and a flush without a watermark leaves no open audio behind.            *)
Timely(source, r) == r.start_ms >= open_from[source]

Segmented(source, utterances, watermark) ==
  /\ \A w \in watermark : w >= open_from[source]
  /\ \A i \in DOMAIN utterances :
       /\ Timely(source, utterances[i])
       /\ \A w \in watermark : utterances[i].start_ms < w
       /\ \A j \in 1..(i - 1) : utterances[j].start_ms < utterances[i].start_ms

OpenAfter(source, utterances, watermark) ==
  CASE watermark # {} -> watermark
    [] watermark = {} /\ utterances # <<>> -> {Last(utterances).end_ms}
    [] OTHER -> {open_from[source]}

(* submit_partial fails without a trace when the run is ending, the source *)
(* is sealed, or the scheduler would refuse the identifier.  What it asks  *)
(* of the snapshot itself, VadSegmenter keeps (SnapshotDue, Piece).        *)
SnapshotRefused(source, r) ==
  \/ state # "Running"
  \/ frontiers[source].sealed
  \/ \E id \in IdFor(source, r.start_ms) : DuplicatePartial(id, source)

SubmitSnapshot(source, r) ==
  /\ batch = {}
  /\ ~SnapshotRefused(source, r)
  /\ \E id \in IdFor(source, r.start_ms) :
       /\ \/ SubmitPartial(id, source, r)
          \/ ~partials_enabled /\ UNCHANGED schedulerVars
       /\ identities' = [identities EXCEPT
                           ![source] = {[start_ms |-> r.start_ms, job_id |-> id]}]
  /\ TakeJobId(source, r.start_ms)
  /\ returned' = <<>>
  /\ UNCHANGED <<lifecycleVars, last_started, batch, observerVars>>

(* SourceFrontier::validate                                                *)
ValidWatermark(source, watermark) ==
  /\ ~frontiers[source].sealed
  /\ \A w \in watermark, last \in frontiers[source].last : w >= last

(* What is asked of each utterance (its source, length and timeline) holds *)
(* of all that VadSegmenter emits but an overlong flush, which a run with  *)
(* live sources adds (LiveTranscription).                                  *)
BatchRefused(source, watermark) ==
  \/ state \notin {"Running", "Pausing", "Stopping"}
  \/ ~ValidWatermark(source, watermark)

BeginBatch(source, utterances, watermark) ==
  /\ batch = {}
  /\ ~BatchRefused(source, watermark)
  /\ batch' = {[source |-> source, utterances |-> utterances, watermark |-> watermark]}
  /\ returned' = <<>>
  /\ \E w \in OpenAfter(source, utterances, watermark) :
       open_from' = [open_from EXCEPT ![source] = w]
  /\ UNCHANGED <<schedulerVars, lifecycleVars, identityVars, last_started, received, answers>>

SubmitUtterance ==
  \E b \in batch :
    /\ b.utterances # <<>>
    /\ LET u == Head(b.utterances)
       IN  /\ \E id \in IdFor(b.source, u.start_ms) :
                /\ SubmitFinal(id, b.source, u)
                /\ received' = received \cup {id}
                /\ \/ /\ FitsBacklog(u)
                      /\ UNCHANGED <<answers, returned>>
                   \/ /\ ~FitsBacklog(u)
                      /\ answers' = [answers EXCEPT ![id] = @ + 1]
                      /\ returned' = Append(returned, [kind |-> "gap", job_id |-> id])
           /\ TakeJobId(b.source, u.start_ms)
           /\ identities' = [identities EXCEPT
                ![b.source] = {p \in @ : p.start_ms # u.start_ms}]
    /\ batch' = {[b EXCEPT !.utterances = Tail(@)]}
    /\ UNCHANGED <<lifecycleVars, last_started, open_from>>

EndBatch ==
  \E b \in batch :
    /\ b.utterances = <<>>
    /\ frontiers' = IF b.watermark = {} THEN frontiers
                    ELSE [frontiers EXCEPT ![b.source].current = b.watermark,
                                           ![b.source].last = b.watermark]
    /\ batch' = {}
    /\ UNCHANGED <<schedulerVars, state, identityVars, last_started, returned, observerVars>>

-----------------------------------------------------------------------------
BothSealed == \A s \in Source : frontiers[s].sealed

(* Fault: only the job's own source is asked.                              *)
FaultyFinalReady ==
  /\ finals # <<>>
  /\ \/ frontiers[Head(finals).source].sealed
     \/ \E w \in frontiers[Head(finals).source].current : Head(finals).start_ms < w

(* A final may start once neither source can still begin an earlier one.   *)
FinalReady ==
  /\ finals # <<>>
  /\ \A s \in Source :
       \/ frontiers[s].sealed
       \/ \E w \in frontiers[s].current : Head(finals).start_ms < w

(* settle_boundary_if_empty, after the queue is "queue" and the sources    *)
(* are sealed as "sealed" says.                                            *)
Settled(queue, sealed) ==
  CASE queue = <<>> /\ sealed /\ state = "Pausing" -> "Paused"
    [] queue = <<>> /\ sealed /\ state = "Stopping" -> "Stopped"
    [] OTHER -> state

(* pump_one, first case.  An engine error, a cancellation and a result     *)
(* that does not match the job all become a gap.                           *)
PumpFinal(outcome) ==
  /\ batch = {}
  /\ FinalReady
  /\ NextFinalJob
  /\ LET job == Head(finals)
     IN  /\ last_started' = {[start_ms |-> job.start_ms, end_ms |-> job.end_ms,
                              job_id |-> job.job_id]}
         /\ answers' = [answers EXCEPT ![job.job_id] = @ + 1]
         /\ returned' = <<[kind |-> outcome, job_id |-> job.job_id]>>
  /\ state' = Settled(finals', BothSealed)
  /\ UNCHANGED <<frontiers, identityVars, batch, received, open_from>>

(* Second case.  A failed partial is silent.                               *)
PumpPartial(source, succeeds) ==
  /\ batch = {}
  /\ ~FinalReady
  /\ state = "Running"
  /\ NextPartialJob(source)
  /\ \E job \in partials[source] :
       returned' = IF succeeds THEN <<[kind |-> "partial", job_id |-> job.job_id]>>
                               ELSE <<>>
  /\ UNCHANGED <<lifecycleVars, identityVars, last_started, batch, observerVars>>

(* Last case: nothing may run now.                                         *)
PumpNothing ==
  /\ batch = {}
  /\ ~FinalReady
  /\ state # "Running" \/ partials = NoPartials
  /\ state' = Settled(finals, BothSealed)
  /\ returned' = <<>>
  /\ UNCHANGED <<schedulerVars, frontiers, identityVars, last_started, batch, observerVars>>

-----------------------------------------------------------------------------
(* discard_partials, with the scheduler's queue left alone.                *)
DiscardProvisional ==
  /\ identities' = [s \in Source |-> {}]
  /\ \/ DiscardPartials
     \/ partials = NoPartials /\ UNCHANGED schedulerVars

BeginPause ==
  /\ batch = {}
  /\ state = "Running"
  /\ state' = "Pausing"
  /\ DiscardProvisional
  /\ returned' = <<>>
  /\ UNCHANGED <<frontiers, next_job_id, last_started, batch, observerVars>>

(* The session timeline goes on: what follows a pause begins after it.     *)
Resume ==
  /\ batch = {}
  /\ state = "Paused"
  /\ finals = <<>>
  /\ state' = "Running"
  /\ frontiers' = [s \in Source |-> [frontiers[s] EXCEPT !.current = {}, !.sealed = FALSE]]
  /\ returned' = <<>>
  /\ \E latest \in {open_from[s] : s \in Source} :
       /\ \A s \in Source : open_from[s] <= latest
       /\ open_from' = [s \in Source |-> latest]
  /\ UNCHANGED <<schedulerVars, identityVars, last_started, batch, received, answers>>

BeginStop ==
  /\ batch = {}
  /\ \/ /\ state = "Running"
        /\ state' = "Stopping"
        /\ DiscardProvisional
     \/ /\ state = "Paused"
        /\ state' = "Stopped"
        /\ UNCHANGED <<schedulerVars, identities>>
  /\ returned' = <<>>
  /\ UNCHANGED <<frontiers, next_job_id, last_started, batch, observerVars>>

SealRefused(source) == state \notin {"Pausing", "Stopping"} \/ frontiers[source].sealed

SealSource(source) ==
  /\ batch = {}
  /\ ~SealRefused(source)
  /\ frontiers' = [frontiers EXCEPT ![source].sealed = TRUE, ![source].current = {}]
  /\ state' = Settled(finals, \A s \in Source \ {source} : frontiers[s].sealed)
  /\ returned' = <<>>
  /\ UNCHANGED <<schedulerVars, identityVars, last_started, batch, observerVars>>

(* cancel_pending: every final still queued becomes a gap.                 *)
CancelPending ==
  /\ batch = {}
  /\ state' = "Cancelled"
  /\ frontiers' = [s \in Source |-> [frontiers[s] EXCEPT !.sealed = TRUE, !.current = {}]]
  /\ identities' = [s \in Source |-> {}]
  /\ finals' = <<>>
  /\ queued_final_speech_ms' = 0
  /\ queued_final_samples' = 0
  /\ partials' = NoPartials
  /\ partials_enabled' = IF finals = <<>> THEN partials_enabled ELSE PartialsAllowed(0)
  /\ ObserveSlots
  /\ answers' = [id \in JobIds |-> IF QueuedFinal(id) THEN answers[id] + 1 ELSE answers[id]]
  /\ returned' = [i \in DOMAIN finals |-> Gap(finals[i])]
  /\ UNCHANGED <<next_partial_source, next_sequence, next_job_id, last_started,
                 batch, received, open_from>>

Batches == UNION {[1..n -> FinalRequests] : n \in 0..BatchBound}

(* Bound of the model: identifiers and sequence numbers left for n jobs.   *)
RoomFor(n) ==
  /\ next_sequence + n <= SequenceBound
  /\ next_job_id..(next_job_id + n - 1) \subseteq JobIds

PipelineNext ==
  \/ \E s \in Source, r \in PartialRequests :
       RoomFor(1) /\ Timely(s, r) /\ SubmitSnapshot(s, r)
  \/ \E s \in Source, u \in Batches, w \in {{}} \cup {{w} : w \in Watermarks} :
       RoomFor(Len(u)) /\ Segmented(s, u, w) /\ BeginBatch(s, u, w)
  \/ SubmitUtterance
  \/ EndBatch
  \/ \E outcome \in {"final", "gap"} : PumpFinal(outcome)
  \/ \E s \in Source, succeeds \in BOOLEAN : PumpPartial(s, succeeds)
  \/ PumpNothing
  \/ BeginPause
  \/ Resume
  \/ BeginStop
  \/ \E s \in Source : SealSource(s)
  \/ CancelPending

PipelineSpec == PipelineInit /\ [][PipelineNext]_pipelineVars

-----------------------------------------------------------------------------
(* Every final the pipeline took is queued or has been answered by exactly *)
(* one result or gap, never both and never twice, whatever the order of    *)
(* overload, failures, cancellation and lifecycle calls.                   *)
FinalsAnsweredOnce ==
  \A id \in JobIds :
    answers[id] = IF id \in received /\ ~QueuedFinal(id) THEN 1 ELSE 0

(* A run that reports paused, stopped or cancelled has nothing left to do: *)
(* both sources are sealed and neither finals nor partials wait.           *)
BoundaryDrained ==
  state \in {"Paused", "Stopped", "Cancelled"} =>
    BothSealed /\ finals = <<>> /\ partials = NoPartials

(* A final still queued never precedes one whose inference has begun: the  *)
(* frontiers keep a slow source from being overtaken.                      *)
StartsChronological ==
  \A k \in last_started, i \in DOMAIN finals :
    \/ k.start_ms < finals[i].start_ms
    \/ k.start_ms = finals[i].start_ms /\ k.end_ms <= finals[i].end_ms

(* Once the final of an utterance was submitted no provisional work for it *)
(* is queued or can be created again, so a stale partial never follows the *)
(* final that replaced it.                                                 *)
FinalSupersedesPartial ==
  \A s \in Source :
    /\ \A job \in partials[s] : job.job_id \notin received
    /\ \A p \in identities[s] : p.job_id \notin received

=============================================================================
