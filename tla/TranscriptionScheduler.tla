----------------------- MODULE TranscriptionScheduler -----------------------
(***************************************************************************)
(* The bounded queue between voice activity detection and the single       *)
(* inference worker (transcription/scheduler.rs).  Finalized utterances    *)
(* wait in chronological order under three ceilings; each source has at    *)
(* most one replaceable provisional ("partial") job, and partial work is   *)
(* switched off while too much final speech is queued.                     *)
(*                                                                         *)
(* The scheduler is owned by one thread: every method is one atomic step.  *)
(***************************************************************************)
EXTENDS Integers, Sequences, FiniteSets, SequencesExt

CONSTANTS
  JobIds,            (* the identifiers callers may submit                   *)
  FinalRequests,     (* the [start_ms, end_ms, samples] of submitted finals  *)
  PartialRequests,   (* the same for partial snapshots                       *)
  MaxJobs,           (* MAX_QUEUED_FINAL_JOBS                                *)
  MaxSpeechMs,       (* MAX_QUEUED_FINAL_SPEECH_MS                           *)
  SamplesPerMs,      (* 16 kHz: 16                                           *)
  DisableSpeechMs,   (* PARTIAL_DISABLE_SPEECH_MS                            *)
  RestoreSpeechMs,   (* PARTIAL_RESTORE_SPEECH_MS                            *)
  SequenceBound      (* bound of the model on next_sequence                  *)

Source == {"microphone", "system_output"}

Other(source) ==
  IF source = "microphone" THEN "system_output" ELSE "microphone"

(* A request whose samples cover its timeline exactly, down to the dropped *)
(* fraction of a millisecond (TranscriptionRequest::validate).             *)
Request ==
  {r \in [start_ms : Nat, end_ms : Nat, samples : Nat] :
     /\ r.end_ms > r.start_ms
     /\ r.samples >= (r.end_ms - r.start_ms) * SamplesPerMs
     /\ r.samples < (r.end_ms - r.start_ms + 1) * SamplesPerMs}

MaxSamples == MaxSpeechMs * SamplesPerMs

ASSUME SchedulerAssumption ==
  /\ FinalRequests \subseteq Request
  /\ PartialRequests \subseteq Request
  /\ MaxJobs \in Nat
  /\ MaxSpeechMs \in Nat
  /\ SamplesPerMs \in Nat
  /\ DisableSpeechMs \in Nat
  /\ RestoreSpeechMs \in Nat
  /\ RestoreSpeechMs <= DisableSpeechMs
  /\ DisableSpeechMs > 0
  /\ SequenceBound \in Nat

Job ==
  {j \in [job_id : JobIds, source : Source, start_ms : Nat, end_ms : Nat,
          samples : Nat, sequence : Nat] : j.end_ms > j.start_ms}

JobOf(id, source, r, sequence) ==
  [job_id |-> id, source |-> source, start_ms |-> r.start_ms,
   end_ms |-> r.end_ms, samples |-> r.samples, sequence |-> sequence]

Duration(job) == job.end_ms - job.start_ms

(* The order of final_sort_key.                                            *)
Precedes(a, b) ==
  \/ a.start_ms < b.start_ms
  \/ /\ a.start_ms = b.start_ms
     /\ \/ a.end_ms < b.end_ms
        \/ a.end_ms = b.end_ms /\ a.sequence < b.sequence

Monus(a, b) == IF a > b THEN a - b ELSE 0

VARIABLES
  finals,                  (* the queue of final jobs, front first           *)
  partials,                (* per source {} or {job}: Option<job>            *)
  queued_final_speech_ms,
  queued_final_samples,
  partials_enabled,
  next_partial_source,
  next_sequence,
  passed_over              (* observer: services of the other source while   *)
                           (* this source's partial job waited               *)

queueVars == <<finals, queued_final_speech_ms, queued_final_samples>>
schedulerVars == <<finals, partials, queued_final_speech_ms, queued_final_samples,
          partials_enabled, next_partial_source, next_sequence, passed_over>>

NoPartials == [s \in Source |-> {}]

SchedulerInit ==
  /\ finals = <<>>
  /\ partials = NoPartials
  /\ queued_final_speech_ms = 0
  /\ queued_final_samples = 0
  /\ partials_enabled = TRUE
  /\ next_partial_source = "microphone"
  /\ next_sequence = 0
  /\ passed_over = [s \in Source |-> 0]

-----------------------------------------------------------------------------
QueuedFinal(id) == \E i \in DOMAIN finals : finals[i].job_id = id

HoldsPartial(source, id) == \E job \in partials[source] : job.job_id = id

(* Fault: a final leaves the partial job of its utterance in its slot.     *)
FaultyWithoutPartial(id) == partials

WithoutPartial(id) ==
  [s \in Source |-> {job \in partials[s] : job.job_id # id}]

(* A source whose slot is empty is not waiting.                            *)
ObserveSlots ==
  passed_over' = [s \in Source |-> IF partials'[s] = {} THEN 0 ELSE passed_over[s]]

(* update_partial_mode, run after the queue holds "speech" milliseconds    *)
(* and the slots hold "slots".                                             *)
PartialsAllowed(speech) ==
  \/ partials_enabled /\ speech < DisableSpeechMs
  \/ ~partials_enabled /\ speech < RestoreSpeechMs

UpdatePartialMode(speech, slots) ==
  /\ partials_enabled' = PartialsAllowed(speech)
  /\ partials' = IF partials_enabled /\ ~partials_enabled' THEN NoPartials
                                                           ELSE slots

FitsBacklog(r) ==
  /\ Len(finals) < MaxJobs
  /\ r.end_ms - r.start_ms <= MaxSpeechMs - queued_final_speech_ms
  /\ r.samples <= MaxSamples - queued_final_samples

(* Where submit_final inserts: before the first queued job it precedes.    *)
IsInsertionPoint(job, i) ==
  /\ \A j \in 1..(i - 1) : ~Precedes(job, finals[j])
  /\ i <= Len(finals) => Precedes(job, finals[i])

(* submit_final.  An identifier that is already queued is refused before   *)
(* anything changes (DuplicateJob); the partial job of the same identifier *)
(* is superseded even when the final itself becomes a gap.                 *)
AdmitFinal(id, source, r) ==
  /\ ~QueuedFinal(id)
  /\ FitsBacklog(r)
  /\ LET job == JobOf(id, source, r, next_sequence)
     IN  \E i \in 1..(Len(finals) + 1) :
           /\ IsInsertionPoint(job, i)
           /\ finals' = InsertAt(finals, i, job)
  /\ queued_final_speech_ms' = queued_final_speech_ms + (r.end_ms - r.start_ms)
  /\ queued_final_samples' = queued_final_samples + r.samples
  /\ UpdatePartialMode(queued_final_speech_ms', WithoutPartial(id))
  /\ next_sequence' = next_sequence + 1
  /\ ObserveSlots
  /\ UNCHANGED next_partial_source

(* Fault: overload evicts the oldest final.                                *)
FaultyRejectFinal(id, source, r) ==
  /\ ~QueuedFinal(id)
  /\ ~FitsBacklog(r)
  /\ finals' = IF finals = <<>> THEN finals ELSE Tail(finals)
  /\ partials' = WithoutPartial(id)
  /\ ObserveSlots
  /\ UNCHANGED <<queued_final_speech_ms, queued_final_samples, partials_enabled,
                 next_partial_source, next_sequence>>

RejectFinal(id, source, r) ==
  /\ ~QueuedFinal(id)
  /\ ~FitsBacklog(r)
  /\ partials' = WithoutPartial(id)
  /\ ObserveSlots
  /\ UNCHANGED <<queueVars, partials_enabled, next_partial_source, next_sequence>>

SubmitFinal(id, source, r) == AdmitFinal(id, source, r) \/ RejectFinal(id, source, r)

DuplicatePartial(id, source) == QueuedFinal(id) \/ HoldsPartial(Other(source), id)

(* submit_partial: Enqueued or Replaced.  A suppressed or duplicate        *)
(* snapshot changes nothing.                                               *)
SubmitPartial(id, source, r) ==
  /\ ~DuplicatePartial(id, source)
  /\ partials_enabled
  /\ partials' = [partials EXCEPT ![source] = {JobOf(id, source, r, next_sequence)}]
  /\ next_sequence' = next_sequence + 1
  /\ UNCHANGED <<queueVars, partials_enabled, next_partial_source, passed_over>>

(* next_final_job: pop the front.                                          *)
NextFinalJob ==
  /\ finals # <<>>
  /\ finals' = Tail(finals)
  /\ queued_final_speech_ms' = Monus(queued_final_speech_ms, Duration(Head(finals)))
  /\ queued_final_samples' = Monus(queued_final_samples, Head(finals).samples)
  /\ UpdatePartialMode(queued_final_speech_ms', partials)
  /\ ObserveSlots
  /\ UNCHANGED <<next_partial_source, next_sequence>>

(* Fault: the microphone always goes first.                                *)
FaultyServesPartial(source) ==
  /\ partials[source] # {}
  /\ source = "microphone" \/ partials["microphone"] = {}

(* The source next_partial_job serves: the preferred one, else the other.  *)
ServesPartial(source) ==
  /\ partials[source] # {}
  /\ source = next_partial_source \/ partials[next_partial_source] = {}

NextPartialJob(source) ==
  /\ ServesPartial(source)
  /\ partials' = [partials EXCEPT ![source] = {}]
  /\ next_partial_source' = Other(source)
  /\ passed_over' = [s \in Source |->
       IF s = Other(source) /\ partials[s] # {} THEN passed_over[s] + 1 ELSE 0]
  /\ UNCHANGED <<queueVars, partials_enabled, next_sequence>>

DiscardPartials ==
  /\ partials # NoPartials
  /\ partials' = NoPartials
  /\ ObserveSlots
  /\ UNCHANGED <<queueVars, partials_enabled, next_partial_source, next_sequence>>

SchedulerNext ==
  \/ /\ next_sequence < SequenceBound
     /\ \E id \in JobIds, s \in Source :
          \/ \E r \in FinalRequests : SubmitFinal(id, s, r)
          \/ \E r \in PartialRequests : SubmitPartial(id, s, r)
  \/ NextFinalJob
  \/ \E s \in Source : NextPartialJob(s)
  \/ DiscardPartials

SchedulerSpec == SchedulerInit /\ [][SchedulerNext]_schedulerVars

-----------------------------------------------------------------------------
(* Every variable has its type, and an occupied slot holds one job of its  *)
(* own source.                                                             *)
SchedulerTypeOK ==
  /\ finals \in Seq(Job)
  /\ partials \in [Source -> SUBSET Job]
  /\ \A s \in Source : \A a, b \in partials[s] : a = b /\ a.source = s
  /\ queued_final_speech_ms \in Nat
  /\ queued_final_samples \in Nat
  /\ partials_enabled \in BOOLEAN
  /\ next_partial_source \in Source
  /\ next_sequence \in Nat
  /\ passed_over \in [Source -> Nat]

(* The two counters that submit_final compares with the ceilings are the   *)
(* durations and samples really queued: a job is charged once on entry and *)
(* refunded once when it is popped, and the saturating subtractions of     *)
(* next_final_job never saturate.  Sums are the numbers of their units.    *)
QueuedJobs == {finals[i] : i \in DOMAIN finals}

SpeechOf(jobs) == UNION {{job} \X (1 .. Duration(job)) : job \in jobs}

SamplesOf(jobs) == UNION {{job} \X (1 .. job.samples) : job \in jobs}

BacklogAccounted ==
  /\ queued_final_speech_ms = Cardinality(SpeechOf(QueuedJobs))
  /\ queued_final_samples = Cardinality(SamplesOf(QueuedJobs))

(* Pending finals never exceed any of the three ceilings, so the unsigned  *)
(* subtractions MAX - queued in submit_final never underflow.              *)
BacklogBounded ==
  /\ Len(finals) <= MaxJobs
  /\ queued_final_speech_ms <= MaxSpeechMs
  /\ queued_final_samples <= MaxSamples

(* The queue is chronological across both sources, ties in order of        *)
(* arrival, whatever order the sources finalize in.                        *)
FinalsChronological ==
  \A i, j \in DOMAIN finals : i < j => Precedes(finals[i], finals[j])

(* No identifier waits twice: neither two finals, nor a final and a        *)
(* partial, nor the partials of the two sources share one, so a result     *)
(* never refers to two pieces of audio.                                    *)
PendingIdsUnique ==
  /\ \A i, j \in DOMAIN finals : i # j => finals[i].job_id # finals[j].job_id
  /\ \A s \in Source : \A job \in partials[s] :
       /\ ~QueuedFinal(job.job_id)
       /\ ~HoldsPartial(Other(s), job.job_id)

(* Partial work is shed at the upper threshold and stays off until the     *)
(* backlog is below the lower one; while it is off no slot is occupied.    *)
PartialHysteresis ==
  /\ partials_enabled => queued_final_speech_ms < DisableSpeechMs
  /\ ~partials_enabled => /\ queued_final_speech_ms >= RestoreSpeechMs
                          /\ partials = NoPartials

(* Round robin: a waiting partial job is passed over at most once, however *)
(* often the other source replaces and is served its own.                  *)
PartialsShareTheWorker == \A s \in Source : passed_over[s] <= 1

(* An accepted final leaves the queue only by being served from the front  *)
(* by next_final_job: overload rejects the newest final and never evicts   *)
(* an older one.                                                           *)
NoFinalEvicted ==
  [][\A i \in DOMAIN finals :
       \/ \E j \in DOMAIN finals' : finals'[j] = finals[i]
       \/ i = 1 /\ NextFinalJob]_schedulerVars

=============================================================================
