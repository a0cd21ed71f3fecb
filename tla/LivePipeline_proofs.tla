-------------------------- MODULE LivePipeline_proofs --------------------------
(***************************************************************************)
(* Proofs about the scheduler, the pipeline and the live run around them,  *)
(* for every set of identifiers, every utterance and watermark the         *)
(* segmenters may hand over, every size of a batch, every capacity of the  *)
(* queues and all ceilings of the scheduler.                               *)
(*                                                                         *)
(* The scheduler's own invariant survives every method of the pipeline,    *)
(* cancellation included.  On top of it stand three more: the identifiers  *)
(* (who has taken which, so that no final is answered twice), the          *)
(* frontiers (nothing a segmenter may still submit precedes a final that   *)
(* has started), and the boundaries (nothing waits behind one).            *)
(*                                                                         *)
(* The run adds what its threads and queues must keep for that: updates    *)
(* arrive in the order of the audio, which is the contract the pipeline    *)
(* assumed of the segmenters, and events leave with no partial behind an   *)
(* answer of the same utterance.  From these the run is shown to implement *)
(* what its user is promised, FinalLedger.                                 *)
(***************************************************************************)
EXTENDS LiveTranscription, FunctionTheorems, SequenceTheorems, FiniteSetTheorems, TLAPS

----------------------------------------------------------------------------
(* The scheduler by itself.                                                 *)

(* InsertAt makes room for e at position i and shifts the tail by one.     *)
LEMMA InsertAtProperties ==
  ASSUME NEW S, NEW s \in Seq(S), NEW e \in S, NEW i \in 1..(Len(s) + 1)
  PROVE  /\ InsertAt(s, i, e) \in Seq(S)
         /\ Len(InsertAt(s, i, e)) = Len(s) + 1
         /\ \A j \in 1..(Len(s) + 1) :
              InsertAt(s, i, e)[j] = IF j < i THEN s[j]
                                     ELSE IF j = i THEN e ELSE s[j - 1]
<1> DEFINE front == SubSeq(s, 1, i - 1)
           back  == SubSeq(s, i, Len(s))
           mid   == front \o <<e>>
<1>0. Len(s) \in Nat
  BY LenProperties
<1>1. /\ front \in Seq(S) /\ Len(front) = i - 1
      /\ \A j \in 1..(i - 1) : front[j] = s[j]
  <2>1. /\ \A j \in 1..(i - 1) : s[j] \in S
        /\ 1 \in Nat /\ i - 1 \in Nat
    BY <1>0, ElementOfSeq
  <2>2. QED
    BY <2>1, <1>0, SubSeqProperties, SMTT(30)
<1>2. /\ back \in Seq(S) /\ Len(back) = Len(s) - i + 1
      /\ \A j \in 1..(Len(s) - i + 1) : back[j] = s[j + i - 1]
  <2>1. CASE i = Len(s) + 1
    BY <2>1, <1>0, SubSeqProperties, SMTT(30)
  <2>2. CASE i <= Len(s)
    BY <2>2, <1>0, SubSeqProperties, SMTT(30)
  <2>3. QED
    BY <2>1, <2>2, <1>0
<1>3. /\ mid \in Seq(S) /\ Len(mid) = i
      /\ \A j \in 1..i : mid[j] = IF j < i THEN s[j] ELSE e
  <2>1. <<e>> \in Seq(S) /\ Len(<<e>>) = 1 /\ <<e>>[1] = e
    OBVIOUS
  <2> HIDE DEF front
  <2>2. /\ front \o <<e>> \in Seq(S)
        /\ Len(front \o <<e>>) = Len(front) + Len(<<e>>)
        /\ \A j \in 1..(Len(front) + Len(<<e>>)) :
             (front \o <<e>>)[j] = IF j <= Len(front) THEN front[j] ELSE <<e>>[j - Len(front)]
    BY <1>1, <2>1, ConcatProperties
  <2> QED
    BY <1>0, <1>1, <2>1, <2>2
<1>4. QED
  <2>1. InsertAt(s, i, e) = mid \o back
    BY DEF InsertAt
  <2> HIDE DEF mid, back
  <2>2. /\ mid \o back \in Seq(S)
        /\ Len(mid \o back) = Len(s) + 1
        /\ \A j \in 1..(Len(s) + 1) :
             (mid \o back)[j] = IF j <= i THEN mid[j] ELSE back[j - i]
    <3>1. mid \in Seq(S) /\ back \in Seq(S)
      BY <1>2, <1>3
    <3>2. /\ mid \o back \in Seq(S)
          /\ Len(mid \o back) = Len(mid) + Len(back)
          /\ \A j \in 1..(Len(mid) + Len(back)) :
               (mid \o back)[j] = IF j <= Len(mid) THEN mid[j] ELSE back[j - Len(mid)]
      BY <3>1, ConcatProperties
    <3>3. Len(mid) = i /\ Len(mid) + Len(back) = Len(s) + 1
      BY <1>0, <1>2, <1>3
    <3>4. QED
      BY <3>2, <3>3
  <2>3. \A j \in 1..(Len(s) + 1) :
          (mid \o back)[j] = IF j < i THEN s[j]
                             ELSE IF j = i THEN e ELSE s[j - 1]
    BY <1>0, <1>2, <1>3, <2>2, SMTT(30)
  <2>4. QED
    BY <2>1, <2>2, <2>3

-----------------------------------------------------------------------------
(* The inductive invariant.  SchedulerTypeOK and the queue properties do not carry  *)
(* themselves: chronology needs the sequence numbers of queued jobs to be  *)
(* older than the next one, and the round robin bound needs to know which  *)
(* source the cursor favours once a job has been passed over.              *)
SequencesFresh == \A i \in DOMAIN finals : finals[i].sequence < next_sequence

CursorFavoursThePassedOver ==
  \A s \in Source : passed_over[s] > 0 => next_partial_source = s

SchedulerIndInv ==
  /\ SchedulerTypeOK
  /\ BacklogBounded
  /\ FinalsChronological
  /\ PendingIdsUnique
  /\ PartialHysteresis
  /\ PartialsShareTheWorker
  /\ SequencesFresh
  /\ CursorFavoursThePassedOver

(* The scheduler begins with its invariant.                                  *)
LEMMA SchedulerInitIndInv == SchedulerInit => SchedulerIndInv
<1> USE SchedulerAssumption
<1>1. SchedulerInit => finals = <<>> /\ Len(finals) = 0 /\ DOMAIN finals = {} /\ finals \in Seq(Job)
  BY EmptySeq DEF SchedulerInit
<1>2. QED
  BY <1>1 DEF SchedulerInit, SchedulerIndInv, SchedulerTypeOK, BacklogBounded, FinalsChronological,
     PendingIdsUnique, PartialHysteresis, PartialsShareTheWorker, SequencesFresh,
     CursorFavoursThePassedOver, NoPartials, Source, MaxSamples

(* The other source is the one source a source is not.                     *)
LEMMA OtherSource ==
  \A s \in Source : /\ Other(s) \in Source
                    /\ Other(s) # s
                    /\ Other(Other(s)) = s
                    /\ \A t \in Source : t # s => t = Other(s)
BY DEF Other, Source

(* A job built from a valid request is a job of its source and duration.   *)
LEMMA JobOfType ==
  ASSUME NEW id \in JobIds, NEW s \in Source, NEW r \in Request, NEW q \in Nat
  PROVE  /\ JobOf(id, s, r, q) \in Job
         /\ JobOf(id, s, r, q).job_id = id
         /\ JobOf(id, s, r, q).source = s
         /\ JobOf(id, s, r, q).sequence = q
         /\ r.end_ms - r.start_ms \in Nat
         /\ r.samples \in Nat
BY DEF JobOf, Job, Request

(* The queue order is transitive.                                          *)
LEMMA PrecedesTransitive ==
  ASSUME NEW a \in Job, NEW b \in Job, NEW c \in Job, Precedes(a, b), Precedes(b, c)
  PROVE  Precedes(a, c)
<1>1. /\ a.start_ms \in Nat /\ a.end_ms \in Nat /\ a.sequence \in Nat
      /\ b.start_ms \in Nat /\ b.end_ms \in Nat /\ b.sequence \in Nat
      /\ c.start_ms \in Nat /\ c.end_ms \in Nat /\ c.sequence \in Nat
  BY DEF Job
<1>2. QED
  BY <1>1, SMTT(30) DEF Precedes

(* The final admitted at an insertion point leaves the queue chronological,*)
(* duplicate free and one longer.                                          *)
LEMMA AdmittedQueue ==
  ASSUME SchedulerTypeOK, FinalsChronological, SequencesFresh,
         NEW job \in Job, job.sequence = next_sequence,
         NEW i \in 1..(Len(finals) + 1), IsInsertionPoint(job, i),
         finals' = InsertAt(finals, i, job)
  PROVE  /\ finals' \in Seq(Job)
         /\ Len(finals') = Len(finals) + 1
         /\ \A j \in 1..(Len(finals) + 1) :
              finals'[j] = IF j < i THEN finals[j]
                           ELSE IF j = i THEN job ELSE finals[j - 1]
         /\ FinalsChronological'
<1>1. finals \in Seq(Job) /\ Len(finals) \in Nat /\ DOMAIN finals = 1..Len(finals)
  BY LenProperties DEF SchedulerTypeOK
<1>2. /\ finals' \in Seq(Job)
      /\ Len(finals') = Len(finals) + 1
      /\ \A j \in 1..(Len(finals) + 1) :
           finals'[j] = IF j < i THEN finals[j]
                        ELSE IF j = i THEN job ELSE finals[j - 1]
  <2>1. /\ InsertAt(finals, i, job) \in Seq(Job)
        /\ Len(InsertAt(finals, i, job)) = Len(finals) + 1
        /\ \A j \in 1..(Len(finals) + 1) :
             InsertAt(finals, i, job)[j] = IF j < i THEN finals[j]
                                           ELSE IF j = i THEN job ELSE finals[j - 1]
    <3>1. finals \in Seq(Job) /\ job \in Job /\ i \in 1..(Len(finals) + 1)
      BY <1>1
    <3>2. QED
      BY <3>1, InsertAtProperties, SMTT(30)
  <2>2. QED
    BY <2>1, Zenon
<1>3. DOMAIN finals' = 1..(Len(finals) + 1)
  BY <1>2, LenProperties
<1>4. \A j \in 1..Len(finals) :
        /\ finals[j] \in Job
        /\ finals[j].sequence < next_sequence
  BY <1>1, ElementOfSeq DEF SequencesFresh
<1>5. \A j \in 1..Len(finals) : j < i => Precedes(finals[j], job)
  <2> SUFFICES ASSUME NEW j \in 1..Len(finals), j < i
               PROVE  Precedes(finals[j], job)
    OBVIOUS
  <2>1. ~Precedes(job, finals[j])
    BY <1>1 DEF IsInsertionPoint
  <2>2. finals[j] \in Job /\ finals[j].sequence < job.sequence
    BY <1>4
  <2>3. QED
    BY <2>1, <2>2 DEF Precedes, Job
<1>6. \A j \in 1..Len(finals) : j >= i => Precedes(job, finals[j])
  <2> SUFFICES ASSUME NEW j \in 1..Len(finals), j >= i
               PROVE  Precedes(job, finals[j])
    OBVIOUS
  <2>1. Precedes(job, finals[i]) /\ i \in 1..Len(finals)
    BY <1>1 DEF IsInsertionPoint
  <2>2. CASE j = i
    BY <2>1, <2>2
  <2>3. CASE j > i
    <3>1. Precedes(finals[i], finals[j])
      BY <1>1, <2>1, <2>3 DEF FinalsChronological
    <3>2. finals[i] \in Job /\ finals[j] \in Job
      BY <1>4, <2>1
    <3>3. QED
      BY <2>1, <3>1, <3>2, PrecedesTransitive
  <2>4. QED
    BY <2>2, <2>3, <1>1
<1>7. FinalsChronological'
  <2> SUFFICES ASSUME NEW a \in 1..(Len(finals) + 1), NEW b \in 1..(Len(finals) + 1), a < b
               PROVE  Precedes(finals'[a], finals'[b])
    BY <1>3 DEF FinalsChronological
  <2>1. CASE b < i
    BY <2>1, <1>1, <1>2 DEF FinalsChronological
  <2>2. CASE b = i
    BY <2>2, <1>1, <1>2, <1>5
  <2>3. CASE b > i /\ a = i
    BY <2>3, <1>1, <1>2, <1>6
  <2>4. CASE b > i /\ a < i
    <3>1. finals'[a] = finals[a] /\ finals'[b] = finals[b - 1]
      BY <2>4, <1>1, <1>2
    <3>2. /\ a \in DOMAIN finals /\ b - 1 \in DOMAIN finals
          /\ a < b - 1
      BY <2>4, <1>1
    <3>3. QED
      BY <3>1, <3>2 DEF FinalsChronological
  <2>5. CASE b > i /\ a > i
    <3>1. finals'[a] = finals[a - 1] /\ finals'[b] = finals[b - 1]
      BY <2>5, <1>1, <1>2
    <3>2. /\ a - 1 \in DOMAIN finals /\ b - 1 \in DOMAIN finals
          /\ a - 1 < b - 1
      BY <2>5, <1>1
    <3>3. QED
      BY <3>1, <3>2 DEF FinalsChronological
  <2>6. QED
    BY <2>1, <2>2, <2>3, <2>4, <2>5, <1>1
<1>8. QED
  BY <1>2, <1>7

(* update_partial_mode re-establishes the hysteresis from any backlog.     *)
LEMMA PartialModeStep ==
  ASSUME partials_enabled \in BOOLEAN, queued_final_speech_ms' \in Nat,
         PartialHysteresis,
         partials_enabled' = PartialsAllowed(queued_final_speech_ms'),
         ~partials_enabled' => \/ partials_enabled /\ partials' = NoPartials
                               \/ partials = NoPartials /\ partials' = NoPartials
  PROVE  partials_enabled' \in BOOLEAN /\ PartialHysteresis'
<1>1. partials_enabled' \in BOOLEAN
  BY Zenon DEF PartialsAllowed
<1>2. CASE partials_enabled'
  <2>1. queued_final_speech_ms' < DisableSpeechMs
    <3>1. \/ queued_final_speech_ms' < DisableSpeechMs
          \/ queued_final_speech_ms' < RestoreSpeechMs
      BY <1>2, Zenon DEF PartialsAllowed
    <3>2. QED
      BY <3>1, SchedulerAssumption
  <2>2. QED
    BY <1>2, <2>1 DEF PartialHysteresis
<1>3. CASE ~partials_enabled'
  <2>1. ~(queued_final_speech_ms' < RestoreSpeechMs)
    <3>1. \/ ~(queued_final_speech_ms' < DisableSpeechMs)
          \/ ~(queued_final_speech_ms' < RestoreSpeechMs)
      BY <1>3, Zenon DEF PartialsAllowed
    <3>2. QED
      BY <3>1, SchedulerAssumption
  <2>2. queued_final_speech_ms' >= RestoreSpeechMs
    BY <2>1, SchedulerAssumption
  <2>3. partials' = NoPartials'
    <3>1. partials' = NoPartials
      BY <1>3, Zenon
    <3>2. QED
      BY <3>1 DEF NoPartials
  <2>4. QED
    BY <1>1, <1>3, <2>2, <2>3, Zenon DEF PartialHysteresis
<1>4. QED
  BY <1>1, <1>2, <1>3, Zenon

-----------------------------------------------------------------------------
(* Admitting a final.                                                        *)
LEMMA AdmitFinalStep ==
  ASSUME SchedulerIndInv, NEW id \in JobIds, NEW s \in Source, NEW r \in Request,
         AdmitFinal(id, s, r)
  PROVE  SchedulerIndInv'
<1> DEFINE job == JobOf(id, s, r, next_sequence)
<1>0. /\ SchedulerTypeOK /\ FinalsChronological /\ SequencesFresh /\ PendingIdsUnique
      /\ BacklogBounded /\ PartialHysteresis /\ PartialsShareTheWorker
      /\ CursorFavoursThePassedOver
  BY DEF SchedulerIndInv
<1>1. /\ job \in Job /\ job.job_id = id /\ job.sequence = next_sequence
      /\ r.end_ms - r.start_ms \in Nat /\ r.samples \in Nat
  BY <1>0, JobOfType DEF SchedulerTypeOK
<1> HIDE DEF job
<1>2. PICK i \in 1..(Len(finals) + 1) :
        IsInsertionPoint(job, i) /\ finals' = InsertAt(finals, i, job)
  BY DEF AdmitFinal, job
<1>3. /\ finals' \in Seq(Job)
      /\ Len(finals') = Len(finals) + 1
      /\ \A j \in 1..(Len(finals) + 1) :
           finals'[j] = IF j < i THEN finals[j]
                        ELSE IF j = i THEN job ELSE finals[j - 1]
      /\ FinalsChronological'
  BY <1>0, <1>1, <1>2, AdmittedQueue
<1>4. /\ Len(finals) \in Nat /\ DOMAIN finals = 1..Len(finals)
      /\ DOMAIN finals' = 1..(Len(finals) + 1)
  BY <1>0, <1>3, LenProperties DEF SchedulerTypeOK
<1>5. /\ partials' \in [Source -> SUBSET Job]
      /\ \A t \in Source : partials'[t] \subseteq {p \in partials[t] : p.job_id # id}
  BY <1>0 DEF SchedulerTypeOK, AdmitFinal, UpdatePartialMode, WithoutPartial, NoPartials
<1>5a. /\ Len(finals) < MaxJobs
      /\ r.end_ms - r.start_ms <= MaxSpeechMs - queued_final_speech_ms
      /\ r.samples <= MaxSamples - queued_final_samples
      /\ queued_final_speech_ms' = queued_final_speech_ms + (r.end_ms - r.start_ms)
      /\ queued_final_samples' = queued_final_samples + r.samples
      /\ next_sequence' = next_sequence + 1
      /\ next_partial_source' = next_partial_source
  BY Zenon DEF AdmitFinal, FitsBacklog
<1>5b. /\ queued_final_speech_ms \in Nat /\ queued_final_samples \in Nat
      /\ next_sequence \in Nat /\ next_partial_source \in Source
  BY <1>0 DEF SchedulerTypeOK
<1>6. SchedulerTypeOK'
  <2>1. \A t \in Source : \A a, b \in partials'[t] : a = b /\ a.source = t
    BY <1>0, <1>5 DEF SchedulerTypeOK
  <2>2. /\ queued_final_speech_ms' \in Nat /\ queued_final_samples' \in Nat
        /\ next_sequence' \in Nat /\ next_partial_source' \in Source
    BY <1>1, <1>5a, <1>5b
  <2>3. partials_enabled' \in BOOLEAN
    BY Zenon DEF AdmitFinal, UpdatePartialMode, PartialsAllowed
  <2>4. passed_over' \in [Source -> Nat]
    BY <1>0 DEF SchedulerTypeOK, AdmitFinal, ObserveSlots
  <2>5. QED
    BY <1>3, <1>5, <2>1, <2>2, <2>3, <2>4 DEF SchedulerTypeOK
<1>7. BacklogBounded'
  <2>1. Len(finals') <= MaxJobs
    BY <1>3, <1>4, <1>5a, SchedulerAssumption
  <2>2. queued_final_speech_ms' <= MaxSpeechMs
    BY <1>1, <1>5a, <1>5b, SchedulerAssumption
  <2>3. MaxSamples \in Int
    BY SchedulerAssumption DEF MaxSamples
  <2>4. queued_final_samples' <= MaxSamples
    BY <1>1, <1>5a, <1>5b, <2>3
  <2>5. QED
    BY <2>1, <2>2, <2>4 DEF BacklogBounded, MaxSamples
<1>8. PendingIdsUnique'
  <2>1. \A j \in 1..Len(finals) : finals[j].job_id # id
    BY <1>4 DEF AdmitFinal, QueuedFinal
  <2>2. \A a, b \in DOMAIN finals' : a # b => finals'[a].job_id # finals'[b].job_id
    <3> SUFFICES ASSUME NEW a \in 1..(Len(finals) + 1), NEW b \in 1..(Len(finals) + 1), a < b
                 PROVE  finals'[a].job_id # finals'[b].job_id
      BY <1>4
    <3>1. CASE a = i
      <4>1. b - 1 \in 1..Len(finals) /\ finals'[a] = job /\ finals'[b] = finals[b - 1]
        BY <1>3, <1>4, <3>1
      <4>2. QED
        BY <4>1, <2>1, <1>1
    <3>2. CASE b = i
      <4>1. a \in 1..Len(finals) /\ finals'[b] = job /\ finals'[a] = finals[a]
        BY <1>3, <1>4, <3>2
      <4>2. QED
        BY <4>1, <2>1, <1>1
    <3>3. CASE a # i /\ b # i
      <4>1. PICK x \in 1..Len(finals), y \in 1..Len(finals) :
              x # y /\ finals'[a] = finals[x] /\ finals'[b] = finals[y]
        <5>1. CASE b < i
          BY <5>1, <1>3, <1>4
        <5>2. CASE a < i /\ b > i
          <6>1. /\ a \in 1..Len(finals) /\ b - 1 \in 1..Len(finals) /\ a # b - 1
                /\ finals'[a] = finals[a] /\ finals'[b] = finals[b - 1]
            BY <5>2, <1>3, <1>4
          <6>2. QED
            BY <6>1
        <5>3. CASE a > i
          <6>1. /\ a - 1 \in 1..Len(finals) /\ b - 1 \in 1..Len(finals) /\ a - 1 # b - 1
                /\ finals'[a] = finals[a - 1] /\ finals'[b] = finals[b - 1]
            BY <5>3, <1>3, <1>4
          <6>2. QED
            BY <6>1
        <5>4. QED
          BY <5>1, <5>2, <5>3, <3>3, <1>4
      <4>2. QED
        BY <4>1, <1>0, <1>4 DEF PendingIdsUnique
    <3>4. QED
      BY <3>1, <3>2, <3>3
  <2>3. \A j \in DOMAIN finals' :
          \/ finals'[j].job_id = id
          \/ \E k \in DOMAIN finals : finals'[j] = finals[k]
    <3>0. finals'[i].job_id = id
      BY <1>1, <1>3
    <3> SUFFICES ASSUME NEW j \in 1..(Len(finals) + 1), j # i
                 PROVE  \E k \in 1..Len(finals) : finals'[j] = finals[k]
      BY <3>0, <1>4, Zenon
    <3>1. CASE j < i
      BY <3>1, <1>3, <1>4
    <3>2. CASE j > i
      <4>1. j - 1 \in 1..Len(finals) /\ finals'[j] = finals[j - 1]
        BY <3>2, <1>3, <1>4
      <4>2. QED
        BY <4>1
    <3>3. QED
      BY <3>1, <3>2, <1>4
  <2>4. \A t \in Source : \A p \in partials'[t] :
          /\ ~QueuedFinal(p.job_id)'
          /\ ~HoldsPartial(Other(t), p.job_id)'
    <3> SUFFICES ASSUME NEW t \in Source, NEW p \in partials'[t]
                 PROVE  /\ ~QueuedFinal(p.job_id)'
                        /\ ~HoldsPartial(Other(t), p.job_id)'
      OBVIOUS
    <3>1. /\ p \in partials[t] /\ p.job_id # id
          /\ ~QueuedFinal(p.job_id) /\ ~HoldsPartial(Other(t), p.job_id)
      BY <1>0, <1>5 DEF PendingIdsUnique
    <3>2. ~QueuedFinal(p.job_id)'
      BY <3>1, <2>3 DEF QueuedFinal
    <3>3. ~HoldsPartial(Other(t), p.job_id)'
      BY <3>1, <1>5, OtherSource DEF HoldsPartial
    <3>4. QED
      BY <3>2, <3>3
  <2>5. QED
    BY <2>2, <2>4 DEF PendingIdsUnique
<1>9. PartialHysteresis'
  <2>1. /\ partials_enabled \in BOOLEAN /\ queued_final_speech_ms' \in Nat
        /\ partials_enabled' = PartialsAllowed(queued_final_speech_ms')
    BY <1>0, <1>6 DEF SchedulerTypeOK, AdmitFinal, UpdatePartialMode
  <2>2. ASSUME ~partials_enabled', ~partials_enabled
        PROVE  partials = NoPartials /\ partials' = NoPartials
    <3>1. partials = NoPartials
      BY <1>0, <2>2 DEF PartialHysteresis
    <3>2. partials' = WithoutPartial(id)
      BY <2>2 DEF AdmitFinal, UpdatePartialMode
    <3>3. QED
      BY <3>1, <3>2 DEF WithoutPartial, NoPartials
  <2>3. ASSUME ~partials_enabled', partials_enabled
        PROVE  partials' = NoPartials
    BY <2>3 DEF AdmitFinal, UpdatePartialMode
  <2>4. QED
    BY <1>0, <2>1, <2>2, <2>3, PartialModeStep, Zenon
<1>10. SequencesFresh'
  <2>1. next_sequence' = next_sequence + 1 /\ next_sequence \in Nat
    BY <1>0 DEF AdmitFinal, SchedulerTypeOK
  <2>2. \A j \in 1..Len(finals) : finals[j].sequence \in Nat /\ finals[j].sequence < next_sequence
    <3>1. \A j \in 1..Len(finals) : finals[j] \in Job
      BY <1>0, <1>4, ElementOfSeq DEF SchedulerTypeOK
    <3>2. QED
      BY <1>0, <1>4, <3>1 DEF SequencesFresh, Job
  <2>3. \A j \in 1..(Len(finals) + 1) : j < i => j \in 1..Len(finals)
    BY <1>4
  <2>4. \A j \in 1..(Len(finals) + 1) : j > i => j - 1 \in 1..Len(finals)
    BY <1>4
  <2>5. ASSUME NEW j \in 1..(Len(finals) + 1)
        PROVE  finals'[j].sequence < next_sequence'
    <3>1. CASE j < i
      <4>1. finals'[j] = finals[j] /\ j \in 1..Len(finals)
        BY <3>1, <1>3, <2>3
      <4>2. QED
        BY <4>1, <2>1, <2>2
    <3>2. CASE j = i
      <4>1. finals'[j] = job
        BY <3>2, <1>3
      <4>2. QED
        BY <4>1, <1>1, <2>1
    <3>3. CASE j > i
      <4>1. finals'[j] = finals[j - 1] /\ j - 1 \in 1..Len(finals)
        BY <3>3, <1>3, <2>4
      <4>2. QED
        BY <4>1, <2>1, <2>2
    <3>4. QED
      BY <3>1, <3>2, <3>3
  <2>6. QED
    BY <1>4, <2>5 DEF SequencesFresh
<1>11. PartialsShareTheWorker' /\ CursorFavoursThePassedOver'
  BY <1>0 DEF PartialsShareTheWorker, CursorFavoursThePassedOver, AdmitFinal, ObserveSlots, SchedulerTypeOK
<1>12. QED
  BY <1>3, <1>6, <1>7, <1>8, <1>9, <1>10, <1>11 DEF SchedulerIndInv

(* Rejecting a final.                                                        *)
LEMMA RejectFinalStep ==
  ASSUME SchedulerIndInv, NEW id \in JobIds, NEW s \in Source, NEW r \in Request,
         RejectFinal(id, s, r)
  PROVE  SchedulerIndInv'
<1>0. /\ SchedulerTypeOK /\ FinalsChronological /\ SequencesFresh /\ PendingIdsUnique
      /\ BacklogBounded /\ PartialHysteresis /\ PartialsShareTheWorker
      /\ CursorFavoursThePassedOver
  BY DEF SchedulerIndInv
<1>1. /\ finals' = finals
      /\ queued_final_speech_ms' = queued_final_speech_ms
      /\ queued_final_samples' = queued_final_samples
      /\ partials_enabled' = partials_enabled
      /\ next_partial_source' = next_partial_source
      /\ next_sequence' = next_sequence
  BY DEF RejectFinal, queueVars
<1>2. /\ partials' \in [Source -> SUBSET Job]
      /\ \A t \in Source : partials'[t] \subseteq partials[t]
  BY <1>0 DEF SchedulerTypeOK, RejectFinal, WithoutPartial
<1>3. passed_over' \in [Source -> Nat]
  BY <1>0 DEF SchedulerTypeOK, RejectFinal, ObserveSlots
<1>4. SchedulerTypeOK'
  BY <1>0, <1>1, <1>2, <1>3 DEF SchedulerTypeOK
<1>5. BacklogBounded' /\ FinalsChronological' /\ SequencesFresh'
  BY <1>0, <1>1 DEF BacklogBounded, FinalsChronological, SequencesFresh, Precedes, MaxSamples
<1>6. PendingIdsUnique'
  BY <1>0, <1>1, <1>2, OtherSource DEF PendingIdsUnique, QueuedFinal, HoldsPartial
<1>7. PartialHysteresis'
  <2>1. CASE partials_enabled
    BY <2>1, <1>0, <1>1 DEF PartialHysteresis
  <2>2. CASE ~partials_enabled
    <3>1. partials = NoPartials /\ queued_final_speech_ms >= RestoreSpeechMs
      BY <1>0, <2>2 DEF PartialHysteresis
    <3>2. partials' = NoPartials
      BY <3>1 DEF RejectFinal, WithoutPartial, NoPartials
    <3>3. QED
      BY <1>1, <2>2, <3>1, <3>2 DEF PartialHysteresis, NoPartials
  <2>3. QED
    BY <2>1, <2>2, <1>0 DEF SchedulerTypeOK
<1>8. PartialsShareTheWorker' /\ CursorFavoursThePassedOver'
  BY <1>0, <1>1
  DEF PartialsShareTheWorker, CursorFavoursThePassedOver, RejectFinal, ObserveSlots, SchedulerTypeOK
<1>9. QED
  BY <1>4, <1>5, <1>6, <1>7, <1>8 DEF SchedulerIndInv

(* Submitting a partial.                                                     *)
LEMMA SubmitPartialStep ==
  ASSUME SchedulerIndInv, NEW id \in JobIds, NEW s \in Source, NEW r \in Request,
         SubmitPartial(id, s, r)
  PROVE  SchedulerIndInv'
<1> DEFINE job == JobOf(id, s, r, next_sequence)
<1>0. /\ SchedulerTypeOK /\ FinalsChronological /\ SequencesFresh /\ PendingIdsUnique
      /\ BacklogBounded /\ PartialHysteresis /\ PartialsShareTheWorker
      /\ CursorFavoursThePassedOver
  BY DEF SchedulerIndInv
<1>1. /\ job \in Job /\ job.job_id = id /\ job.source = s
  BY <1>0, JobOfType DEF SchedulerTypeOK
<1>2. /\ finals' = finals
      /\ queued_final_speech_ms' = queued_final_speech_ms
      /\ queued_final_samples' = queued_final_samples
      /\ partials_enabled' = partials_enabled
      /\ next_partial_source' = next_partial_source
      /\ next_sequence' = next_sequence + 1
      /\ passed_over' = passed_over
      /\ partials' = [partials EXCEPT ![s] = {job}]
  BY DEF SubmitPartial, queueVars
<1> HIDE DEF job
<1>3. SchedulerTypeOK'
  <2>1. partials' \in [Source -> SUBSET Job]
    BY <1>0, <1>1, <1>2 DEF SchedulerTypeOK
  <2>2. \A t \in Source : \A a, b \in partials'[t] : a = b /\ a.source = t
    BY <1>0, <1>1, <1>2 DEF SchedulerTypeOK
  <2>3. QED
    BY <1>0, <1>2, <2>1, <2>2 DEF SchedulerTypeOK
<1>4. BacklogBounded' /\ FinalsChronological'
  BY <1>0, <1>2 DEF BacklogBounded, FinalsChronological, Precedes, MaxSamples
<1>5. SequencesFresh'
  <2>1. next_sequence \in Nat /\ \A i \in DOMAIN finals : finals[i].sequence \in Nat
    <3>1. \A i \in DOMAIN finals : finals[i] \in Job
      BY <1>0, ElementOfSeq, LenProperties DEF SchedulerTypeOK
    <3>2. QED
      BY <1>0, <3>1 DEF SchedulerTypeOK, Job
  <2>2. QED
    BY <1>0, <1>2, <2>1 DEF SequencesFresh
<1>6. PendingIdsUnique'
  <2>1. ~QueuedFinal(id) /\ ~HoldsPartial(Other(s), id)
    BY DEF SubmitPartial, DuplicatePartial
  <2>2. \A t \in Source : \A p \in partials'[t] :
          ~QueuedFinal(p.job_id)' /\ ~HoldsPartial(Other(t), p.job_id)'
    <3> SUFFICES ASSUME NEW t \in Source, NEW p \in partials'[t]
                 PROVE  ~QueuedFinal(p.job_id)' /\ ~HoldsPartial(Other(t), p.job_id)'
      OBVIOUS
    <3>1. CASE t = s
      <4>1. p = job /\ partials'[Other(t)] = partials[Other(t)]
        BY <1>0, <1>2, <3>1, OtherSource DEF SchedulerTypeOK
      <4>2. QED
        BY <1>1, <1>2, <2>1, <3>1, <4>1 DEF QueuedFinal, HoldsPartial
    <3>2. CASE t # s
      <4>1. /\ p \in partials[t] /\ Other(t) = s /\ t = Other(s)
            /\ partials'[Other(t)] = {job}
        BY <1>0, <1>2, <3>2, OtherSource DEF SchedulerTypeOK
      <4>2. ~QueuedFinal(p.job_id)
        BY <1>0, <4>1 DEF PendingIdsUnique
      <4>3. p.job_id # id
        BY <2>1, <4>1 DEF HoldsPartial
      <4>4. QED
        BY <1>1, <1>2, <4>1, <4>2, <4>3 DEF QueuedFinal, HoldsPartial
    <3>3. QED
      BY <3>1, <3>2
  <2>3. \A i, j \in DOMAIN finals' : i # j => finals'[i].job_id # finals'[j].job_id
    BY <1>0, <1>2 DEF PendingIdsUnique
  <2>4. QED
    BY <2>2, <2>3 DEF PendingIdsUnique
<1>7. PartialHysteresis'
  <2>1. partials_enabled
    BY DEF SubmitPartial
  <2>2. QED
    BY <2>1, <1>0, <1>2 DEF PartialHysteresis
<1>8. PartialsShareTheWorker' /\ CursorFavoursThePassedOver'
  BY <1>0, <1>2 DEF PartialsShareTheWorker, CursorFavoursThePassedOver
<1>9. QED
  BY <1>3, <1>4, <1>5, <1>6, <1>7, <1>8 DEF SchedulerIndInv

(* Taking a final.                                                           *)
LEMMA NextFinalJobStep ==
  ASSUME SchedulerIndInv, NextFinalJob
  PROVE  SchedulerIndInv'
<1>0. /\ SchedulerTypeOK /\ FinalsChronological /\ SequencesFresh /\ PendingIdsUnique
      /\ BacklogBounded /\ PartialHysteresis /\ PartialsShareTheWorker
      /\ CursorFavoursThePassedOver
  BY DEF SchedulerIndInv
<1>1. /\ finals # <<>> /\ finals \in Seq(Job) /\ finals' = Tail(finals)
      /\ next_partial_source' = next_partial_source
      /\ next_sequence' = next_sequence
  BY <1>0 DEF NextFinalJob, SchedulerTypeOK
<1>2. /\ Head(finals) \in Job
      /\ finals' \in Seq(Job)
      /\ Len(finals') = Len(finals) - 1
      /\ \A j \in 1..Len(finals') : finals'[j] = finals[j + 1]
  BY <1>1, HeadTailProperties
<1>3. /\ Len(finals) \in Nat /\ DOMAIN finals = 1..Len(finals)
      /\ Len(finals') \in Nat /\ DOMAIN finals' = 1..Len(finals')
      /\ \A j \in 1..Len(finals') : j + 1 \in 1..Len(finals)
  BY <1>1, <1>2, LenProperties
<1>4. /\ partials' \in [Source -> SUBSET Job]
      /\ \A t \in Source : partials'[t] \subseteq partials[t]
  BY <1>0 DEF SchedulerTypeOK, NextFinalJob, UpdatePartialMode, NoPartials
<1>5. /\ queued_final_speech_ms' \in Nat /\ queued_final_samples' \in Nat
      /\ queued_final_speech_ms' <= queued_final_speech_ms
      /\ queued_final_samples' <= queued_final_samples
  <2>1. Duration(Head(finals)) \in Nat /\ Head(finals).samples \in Nat
    BY <1>2 DEF Duration, Job
  <2>2. QED
    BY <1>0, <2>1 DEF NextFinalJob, Monus, SchedulerTypeOK
<1>6. PartialHysteresis'
  <2>1. /\ partials_enabled \in BOOLEAN
        /\ partials_enabled' = PartialsAllowed(queued_final_speech_ms')
    BY <1>0 DEF SchedulerTypeOK, NextFinalJob, UpdatePartialMode
  <2>2. ASSUME ~partials_enabled', ~partials_enabled
        PROVE  partials = NoPartials /\ partials' = NoPartials
    BY <1>0, <2>2 DEF PartialHysteresis, NextFinalJob, UpdatePartialMode
  <2>3. ASSUME ~partials_enabled', partials_enabled
        PROVE  partials' = NoPartials
    BY <2>3 DEF NextFinalJob, UpdatePartialMode
  <2>4. QED
    BY <1>0, <1>5, <2>1, <2>2, <2>3, PartialModeStep, Zenon
<1>7. SchedulerTypeOK'
  <2>1. partials_enabled' \in BOOLEAN
    BY Zenon DEF NextFinalJob, UpdatePartialMode, PartialsAllowed
  <2>2. passed_over' \in [Source -> Nat]
    BY <1>0 DEF SchedulerTypeOK, NextFinalJob, ObserveSlots
  <2>3. \A t \in Source : \A a, b \in partials'[t] : a = b /\ a.source = t
    BY <1>0, <1>4 DEF SchedulerTypeOK
  <2>4. QED
    BY <1>0, <1>1, <1>2, <1>4, <1>5, <2>1, <2>2, <2>3 DEF SchedulerTypeOK
<1>8. BacklogBounded'
  <2>1. MaxSamples \in Int /\ MaxJobs \in Int /\ MaxSpeechMs \in Int
    BY SchedulerAssumption DEF MaxSamples
  <2>2. Len(finals') <= MaxJobs
    BY <1>0, <1>2, <1>3, <2>1 DEF BacklogBounded
  <2>3. queued_final_speech_ms' <= MaxSpeechMs /\ queued_final_samples' <= MaxSamples
    BY <1>0, <1>5, <2>1 DEF BacklogBounded, SchedulerTypeOK
  <2>4. QED
    BY <2>2, <2>3 DEF BacklogBounded, MaxSamples
<1>9. FinalsChronological'
  <2> SUFFICES ASSUME NEW a \in 1..Len(finals'), NEW b \in 1..Len(finals'), a < b
               PROVE  Precedes(finals'[a], finals'[b])
    BY <1>3 DEF FinalsChronological
  <2>1. a + 1 \in DOMAIN finals /\ b + 1 \in DOMAIN finals /\ a + 1 < b + 1
    BY <1>3
  <2>2. QED
    BY <1>0, <1>2, <2>1 DEF FinalsChronological
<1>10. SequencesFresh'
  BY <1>0, <1>1, <1>2, <1>3 DEF SequencesFresh
<1>11. PendingIdsUnique'
  <2>1. \A i, j \in DOMAIN finals' : i # j => finals'[i].job_id # finals'[j].job_id
    <3> SUFFICES ASSUME NEW i \in 1..Len(finals'), NEW j \in 1..Len(finals'), i # j
                 PROVE  finals'[i].job_id # finals'[j].job_id
      BY <1>3
    <3>1. i + 1 \in DOMAIN finals /\ j + 1 \in DOMAIN finals /\ i + 1 # j + 1
      BY <1>3
    <3>2. QED
      BY <1>0, <1>2, <3>1 DEF PendingIdsUnique
  <2>2. \A t \in Source : \A p \in partials'[t] :
          ~QueuedFinal(p.job_id)' /\ ~HoldsPartial(Other(t), p.job_id)'
    <3> SUFFICES ASSUME NEW t \in Source, NEW p \in partials'[t]
                 PROVE  ~QueuedFinal(p.job_id)' /\ ~HoldsPartial(Other(t), p.job_id)'
      OBVIOUS
    <3>1. ~QueuedFinal(p.job_id) /\ ~HoldsPartial(Other(t), p.job_id)
      BY <1>0, <1>4 DEF PendingIdsUnique
    <3>2. QED
      BY <3>1, <1>2, <1>3, <1>4, OtherSource DEF QueuedFinal, HoldsPartial
  <2>3. QED
    BY <2>1, <2>2 DEF PendingIdsUnique
<1>12. PartialsShareTheWorker' /\ CursorFavoursThePassedOver'
  BY <1>0, <1>1
  DEF PartialsShareTheWorker, CursorFavoursThePassedOver, NextFinalJob, ObserveSlots, SchedulerTypeOK
<1>5a. QED
  BY <1>6, <1>7, <1>8, <1>9, <1>10, <1>11, <1>12 DEF SchedulerIndInv

(* Taking a partial.                                                         *)
LEMMA NextPartialJobStep ==
  ASSUME SchedulerIndInv, NEW s \in Source, NextPartialJob(s)
  PROVE  SchedulerIndInv'
<1>0. /\ SchedulerTypeOK /\ FinalsChronological /\ SequencesFresh /\ PendingIdsUnique
      /\ BacklogBounded /\ PartialHysteresis /\ PartialsShareTheWorker
      /\ CursorFavoursThePassedOver
  BY DEF SchedulerIndInv
<1>1. /\ finals' = finals
      /\ queued_final_speech_ms' = queued_final_speech_ms
      /\ queued_final_samples' = queued_final_samples
      /\ partials_enabled' = partials_enabled
      /\ next_sequence' = next_sequence
      /\ next_partial_source' = Other(s)
      /\ partials' = [partials EXCEPT ![s] = {}]
  BY DEF NextPartialJob, queueVars
<1>2. /\ partials' \in [Source -> SUBSET Job]
      /\ \A t \in Source : partials'[t] \subseteq partials[t]
  BY <1>0, <1>1 DEF SchedulerTypeOK
<1>3. \A t \in Source : passed_over'[t] > 0 => t = Other(s) /\ partials[t] # {}
  BY DEF NextPartialJob
<1>4. partials[Other(s)] # {} => passed_over[Other(s)] = 0
  <2> SUFFICES ASSUME partials[Other(s)] # {}
               PROVE  passed_over[Other(s)] = 0
    OBVIOUS
  <2>1. s = next_partial_source \/ partials[next_partial_source] = {}
    BY DEF NextPartialJob, ServesPartial
  <2>2. next_partial_source = s
    BY <1>0, <2>1, OtherSource DEF SchedulerTypeOK
  <2>3. ~(passed_over[Other(s)] > 0) /\ passed_over[Other(s)] \in Nat
    BY <1>0, <2>2, OtherSource DEF CursorFavoursThePassedOver, SchedulerTypeOK
  <2>4. QED
    BY <2>3
<1>5. /\ passed_over' \in [Source -> Nat]
      /\ PartialsShareTheWorker'
  BY <1>0, <1>4 DEF NextPartialJob, SchedulerTypeOK, PartialsShareTheWorker
<1>6. CursorFavoursThePassedOver'
  BY <1>1, <1>3 DEF CursorFavoursThePassedOver
<1>7. SchedulerTypeOK'
  <2>1. \A t \in Source : \A a, b \in partials'[t] : a = b /\ a.source = t
    BY <1>0, <1>2 DEF SchedulerTypeOK
  <2>2. QED
    BY <1>0, <1>1, <1>2, <1>5, <2>1, OtherSource DEF SchedulerTypeOK
<1>8. BacklogBounded' /\ FinalsChronological' /\ SequencesFresh'
  BY <1>0, <1>1 DEF BacklogBounded, FinalsChronological, SequencesFresh, Precedes, MaxSamples
<1>9. PendingIdsUnique'
  BY <1>0, <1>1, <1>2, OtherSource DEF PendingIdsUnique, QueuedFinal, HoldsPartial
<1>10. PartialHysteresis'
  <2>1. partials # NoPartials
    BY DEF NextPartialJob, ServesPartial, NoPartials
  <2>2. partials_enabled
    BY <1>0, <2>1 DEF PartialHysteresis
  <2>3. QED
    BY <1>0, <1>1, <2>2 DEF PartialHysteresis
<1>11. QED
  BY <1>5, <1>6, <1>7, <1>8, <1>9, <1>10 DEF SchedulerIndInv

(* Discarding all partials.                                                  *)
LEMMA DiscardPartialsStep ==
  ASSUME SchedulerIndInv, DiscardPartials
  PROVE  SchedulerIndInv'
<1>0. /\ SchedulerTypeOK /\ FinalsChronological /\ SequencesFresh /\ PendingIdsUnique
      /\ BacklogBounded /\ PartialHysteresis /\ PartialsShareTheWorker
      /\ CursorFavoursThePassedOver
  BY DEF SchedulerIndInv
<1>1. /\ finals' = finals
      /\ queued_final_speech_ms' = queued_final_speech_ms
      /\ queued_final_samples' = queued_final_samples
      /\ partials_enabled' = partials_enabled
      /\ next_partial_source' = next_partial_source
      /\ next_sequence' = next_sequence
      /\ partials' = NoPartials
  BY DEF DiscardPartials, queueVars
<1>2. passed_over' = [t \in Source |-> 0]
  BY <1>1 DEF DiscardPartials, ObserveSlots, NoPartials
<1>3. SchedulerTypeOK'
  BY <1>0, <1>1, <1>2 DEF SchedulerTypeOK, NoPartials
<1>4. BacklogBounded' /\ FinalsChronological' /\ SequencesFresh'
  BY <1>0, <1>1 DEF BacklogBounded, FinalsChronological, SequencesFresh, Precedes, MaxSamples
<1>5. PendingIdsUnique'
  BY <1>0, <1>1 DEF PendingIdsUnique, NoPartials
<1>6. PartialHysteresis'
  BY <1>0, <1>1 DEF PartialHysteresis, NoPartials
<1>7. PartialsShareTheWorker' /\ CursorFavoursThePassedOver'
  BY <1>2 DEF PartialsShareTheWorker, CursorFavoursThePassedOver
<1>8. QED
  BY <1>3, <1>4, <1>5, <1>6, <1>7 DEF SchedulerIndInv

-----------------------------------------------------------------------------
(* Every step of the scheduler keeps its invariant.                          *)
LEMMA SchedulerNextPreserves == SchedulerIndInv /\ [SchedulerNext]_schedulerVars => SchedulerIndInv'
<1> SUFFICES ASSUME SchedulerIndInv, [SchedulerNext]_schedulerVars PROVE SchedulerIndInv'
  OBVIOUS
<1>1. ASSUME NEW id \in JobIds, NEW s \in Source, NEW r \in FinalRequests,
             SubmitFinal(id, s, r)
      PROVE  SchedulerIndInv'
  <2>1. r \in Request
    BY SchedulerAssumption
  <2>2. QED
    BY <1>1, <2>1, AdmitFinalStep, RejectFinalStep DEF SubmitFinal
<1>2. ASSUME NEW id \in JobIds, NEW s \in Source, NEW r \in PartialRequests,
             SubmitPartial(id, s, r)
      PROVE  SchedulerIndInv'
  <2>1. r \in Request
    BY SchedulerAssumption
  <2>2. QED
    BY <1>2, <2>1, SubmitPartialStep
<1>3. CASE NextFinalJob
  BY <1>3, NextFinalJobStep
<1>4. ASSUME NEW s \in Source, NextPartialJob(s) PROVE SchedulerIndInv'
  BY <1>4, NextPartialJobStep
<1>5. CASE DiscardPartials
  BY <1>5, DiscardPartialsStep
<1>6. CASE UNCHANGED schedulerVars
  <2>1. /\ SchedulerTypeOK' /\ BacklogBounded' /\ FinalsChronological'
    BY <1>6 DEF SchedulerIndInv, schedulerVars, SchedulerTypeOK, BacklogBounded, FinalsChronological, Precedes, MaxSamples
  <2>2. /\ PendingIdsUnique' /\ PartialHysteresis' /\ PartialsShareTheWorker'
        /\ SequencesFresh' /\ CursorFavoursThePassedOver'
    BY <1>6 DEF SchedulerIndInv, schedulerVars, PendingIdsUnique, PartialHysteresis, PartialsShareTheWorker,
       SequencesFresh, CursorFavoursThePassedOver, QueuedFinal, HoldsPartial, NoPartials
  <2>3. QED
    BY <2>1, <2>2 DEF SchedulerIndInv
<1>7. QED
  BY <1>1, <1>2, <1>3, <1>4, <1>5, <1>6 DEF SchedulerNext

(* The scheduler keeps its inductive invariant: every reachable queue is   *)
(* bounded by the three ceilings, chronological, free of duplicate ids,    *)
(* obeys the partial hysteresis and shares the worker between sources.     *)
THEOREM SchedulerInvariant == SchedulerSpec => []SchedulerIndInv
<1>1. SchedulerInit => SchedulerIndInv
  BY SchedulerInitIndInv
<1>2. SchedulerIndInv /\ [SchedulerNext]_schedulerVars => SchedulerIndInv'
  BY SchedulerNextPreserves
<1>3. QED
  BY <1>1, <1>2, PTL DEF SchedulerSpec

(* Type correctness for all requests, ceilings and thresholds.             *)
THEOREM SchedulerTyped == SchedulerSpec => []SchedulerTypeOK
<1>1. SchedulerIndInv => SchedulerTypeOK
  BY DEF SchedulerIndInv
<1>2. QED
  BY <1>1, SchedulerInvariant, PTL

(* Whatever is submitted, the backlog stays below all three ceilings.      *)
THEOREM SchedulerBacklogBounded == SchedulerSpec => []BacklogBounded
<1>1. SchedulerIndInv => BacklogBounded
  BY DEF SchedulerIndInv
<1>2. QED
  BY <1>1, SchedulerInvariant, PTL

(* The queue is chronological in every reachable state.                    *)
THEOREM SchedulerChronological == SchedulerSpec => []FinalsChronological
<1>1. SchedulerIndInv => FinalsChronological
  BY DEF SchedulerIndInv
<1>2. QED
  BY <1>1, SchedulerInvariant, PTL

(* No identifier ever waits twice.                                         *)
THEOREM SchedulerIdsUnique == SchedulerSpec => []PendingIdsUnique
<1>1. SchedulerIndInv => PendingIdsUnique
  BY DEF SchedulerIndInv
<1>2. QED
  BY <1>1, SchedulerInvariant, PTL

(* Partial work is shed and restored with hysteresis, for all thresholds.  *)
THEOREM SchedulerHysteresis == SchedulerSpec => []PartialHysteresis
<1>1. SchedulerIndInv => PartialHysteresis
  BY DEF SchedulerIndInv
<1>2. QED
  BY <1>1, SchedulerInvariant, PTL

(* A waiting partial job is passed over at most once.                      *)
THEOREM SchedulerRoundRobin == SchedulerSpec => []PartialsShareTheWorker
<1>1. SchedulerIndInv => PartialsShareTheWorker
  BY DEF SchedulerIndInv
<1>2. QED
  BY <1>1, SchedulerInvariant, PTL

(* Overload never costs an accepted final: an admission keeps every queued *)
(* job, and only service from the front removes one.                       *)
THEOREM SchedulerNeverEvicts == SchedulerSpec => NoFinalEvicted
<1> DEFINE Kept ==
      \A i \in DOMAIN finals :
        \/ \E j \in DOMAIN finals' : finals'[j] = finals[i]
        \/ i = 1 /\ NextFinalJob
<1>1. ASSUME SchedulerIndInv, finals' = finals PROVE Kept
  BY <1>1
<1>2. ASSUME SchedulerIndInv, NEW id \in JobIds, NEW s \in Source, NEW r \in Request,
             AdmitFinal(id, s, r)
      PROVE  Kept
  <2> DEFINE job == JobOf(id, s, r, next_sequence)
  <2>1. SchedulerTypeOK /\ FinalsChronological /\ SequencesFresh
    BY <1>2 DEF SchedulerIndInv
  <2>2. job \in Job /\ job.sequence = next_sequence
    BY <2>1, JobOfType DEF SchedulerTypeOK
  <2>3. PICK k \in 1..(Len(finals) + 1) :
          IsInsertionPoint(job, k) /\ finals' = InsertAt(finals, k, job)
    BY <1>2 DEF AdmitFinal
  <2> HIDE DEF job
  <2>4. /\ finals' \in Seq(Job)
        /\ Len(finals') = Len(finals) + 1
        /\ \A j \in 1..(Len(finals) + 1) :
             finals'[j] = IF j < k THEN finals[j]
                          ELSE IF j = k THEN job ELSE finals[j - 1]
    BY <2>1, <2>2, <2>3, AdmittedQueue
  <2>5. /\ Len(finals) \in Nat /\ DOMAIN finals = 1..Len(finals)
        /\ DOMAIN finals' = 1..(Len(finals) + 1)
    BY <2>1, <2>4, LenProperties DEF SchedulerTypeOK
  <2>6. ASSUME NEW i \in 1..Len(finals)
        PROVE  \E j \in 1..(Len(finals) + 1) : finals'[j] = finals[i]
    <3>1. CASE i < k
      <4>1. i \in 1..(Len(finals) + 1) /\ finals'[i] = finals[i]
        BY <2>4, <2>5, <3>1
      <4>2. QED
        BY <4>1
    <3>2. CASE ~(i < k)
      <4>1. i + 1 \in 1..(Len(finals) + 1) /\ finals'[i + 1] = finals[i]
        BY <2>4, <2>5, <3>2
      <4>2. QED
        BY <4>1
    <3>3. QED
      BY <3>1, <3>2
  <2>7. QED
    BY <2>5, <2>6
<1>3. ASSUME SchedulerIndInv, NextFinalJob PROVE Kept
  <2>1. /\ finals \in Seq(Job) /\ finals # <<>> /\ finals' = Tail(finals)
    BY <1>3 DEF SchedulerIndInv, SchedulerTypeOK, NextFinalJob
  <2>2. /\ Len(finals) \in Nat /\ DOMAIN finals = 1..Len(finals)
        /\ Len(finals') = Len(finals) - 1 /\ DOMAIN finals' = 1..(Len(finals) - 1)
        /\ \A j \in 1..(Len(finals) - 1) : finals'[j] = finals[j + 1]
    BY <2>1, HeadTailProperties, LenProperties
  <2>3. ASSUME NEW i \in 1..Len(finals), i # 1
        PROVE  \E j \in 1..(Len(finals) - 1) : finals'[j] = finals[i]
    <3>1. i - 1 \in 1..(Len(finals) - 1) /\ finals'[i - 1] = finals[i]
      BY <2>2, <2>3
    <3>2. QED
      BY <3>1
  <2>4. QED
    BY <1>3, <2>2, <2>3
<1>4. SchedulerIndInv /\ [SchedulerNext]_schedulerVars => [Kept]_schedulerVars
  <2> SUFFICES ASSUME SchedulerIndInv, SchedulerNext PROVE Kept
    BY DEF Kept
  <2>1. ASSUME NEW id \in JobIds, NEW s \in Source, NEW r \in FinalRequests,
               SubmitFinal(id, s, r)
        PROVE  Kept
    <3>1. r \in Request
      BY SchedulerAssumption
    <3>2. RejectFinal(id, s, r) => finals' = finals
      BY DEF RejectFinal, queueVars
    <3>3. QED
      BY <2>1, <3>1, <3>2, <1>1, <1>2 DEF SubmitFinal
  <2>2. ASSUME NEW id \in JobIds, NEW s \in Source, NEW r \in PartialRequests,
               SubmitPartial(id, s, r)
        PROVE  Kept
    BY <2>2, <1>1 DEF SubmitPartial, queueVars
  <2>3. CASE NextFinalJob
    BY <2>3, <1>3
  <2>4. ASSUME NEW s \in Source, NextPartialJob(s) PROVE Kept
    BY <2>4, <1>1 DEF NextPartialJob, queueVars
  <2>5. CASE DiscardPartials
    BY <2>5, <1>1 DEF DiscardPartials, queueVars
  <2>6. QED
    BY <2>1, <2>2, <2>3, <2>4, <2>5 DEF SchedulerNext
<1>5. QED
  BY <1>4, SchedulerInvariant, PTL DEF SchedulerSpec, NoFinalEvicted

----------------------------------------------------------------------------
(* The pipeline over it.                                                    *)

FrontierRecords == [current : SUBSET Nat, last : SUBSET Nat, sealed : BOOLEAN]
Identities == [start_ms : Nat, job_id : JobIds]
Starts == [start_ms : Nat, end_ms : Nat, job_id : JobIds]
Calls == [source : Source, utterances : Seq(Request), watermark : SUBSET Nat]

AtMostOne(S) == \A x, y \in S : x = y

PipelineTypes ==
  /\ state \in PipelineState /\ frontiers \in [Source -> FrontierRecords]
  /\ next_job_id \in Nat
  /\ identities \in [Source -> SUBSET Identities] /\ \A s \in Source : AtMostOne(identities[s])
  /\ last_started \in SUBSET Starts
  /\ batch \in SUBSET Calls /\ AtMostOne(batch)
  /\ received \in SUBSET JobIds /\ answers \in [JobIds -> Nat] /\ open_from \in [Source -> Nat]

(* An identifier is taken by a final at most once: what the sources remember *)
(* of their partials is theirs alone and no final's yet.                     *)
IdsOwned ==
  /\ \A id \in received : id < next_job_id
  /\ \A i \in DOMAIN finals : finals[i].job_id \in received
  /\ \A s \in Source : \A p \in identities[s] : p.job_id < next_job_id /\ p.job_id \notin received
  /\ \A s \in Source : \A p \in identities[s], q \in identities[Other(s)] : p.job_id # q.job_id
  /\ \A s \in Source : \A job \in partials[s] : \E p \in identities[s] : p.job_id = job.job_id

(* A source's frontier is no later than what its segmenter may still submit. *)
FrontiersHold ==
  /\ \A s \in Source : \A w \in frontiers[s].current : w <= open_from[s]
  /\ \A b \in batch : \A w \in b.watermark : w <= open_from[b.source]
  /\ \A b \in batch : \A i \in DOMAIN b.utterances :
       b.utterances[i].start_ms < open_from[b.source]
  /\ \A i \in DOMAIN finals : finals[i].start_ms < open_from[finals[i].source]

(* Nothing that is still to come precedes the final last started: a source   *)
(* that is not sealed has passed it, and so has one of the two when both are *)
(* sealed, where a resumed run begins.                                       *)
NothingEarlier ==
  /\ \A k \in last_started : \E s \in Source : k.start_ms < open_from[s]
  /\ \A k \in last_started, s \in Source : frontiers[s].sealed \/ k.start_ms < open_from[s]
  /\ \A k \in last_started, b \in batch : \A i \in DOMAIN b.utterances :
       k.start_ms < b.utterances[i].start_ms

(* A call is in progress only while finals are taken, and only a running     *)
(* pipeline keeps partials.                                                  *)
BoundariesHold ==
  /\ BoundaryDrained
  /\ batch # {} => state \in {"Running", "Pausing", "Stopping"}
  /\ state # "Running" => partials = NoPartials

(* The counters are right: without it, nothing says that an emptied queue    *)
(* has counted down to zero, which cancel_pending relies on for the partials.*)
BacklogCounted ==
  IsFiniteSet(SpeechOf(QueuedJobs)) /\ IsFiniteSet(SamplesOf(QueuedJobs)) /\ BacklogAccounted

PipelineInv ==
  /\ SchedulerIndInv /\ BacklogCounted /\ PipelineTypes
  /\ IdsOwned /\ FinalsAnsweredOnce
  /\ FrontiersHold /\ NothingEarlier /\ StartsChronological
  /\ BoundariesHold

(* An empty queue counts nothing.                                            *)
LEMMA EmptyCounted ==
  ASSUME DOMAIN finals = {}
  PROVE  BacklogCounted <=> queued_final_speech_ms = 0 /\ queued_final_samples = 0
<1>1. SpeechOf(QueuedJobs) = {} /\ SamplesOf(QueuedJobs) = {}
  BY DEF QueuedJobs, SpeechOf, SamplesOf
<1>2. IsFiniteSet({}) /\ Cardinality({}) = 0
  BY FS_EmptySet
<1> QED
  BY <1>1, <1>2 DEF BacklogCounted, BacklogAccounted

(* The pipeline begins with its invariant.                                   *)
LEMMA PipelineInitHolds == PipelineInit => PipelineInv
<1> SUFFICES ASSUME PipelineInit PROVE PipelineInv
  OBVIOUS
<1>1. SchedulerIndInv /\ finals = <<>> /\ DOMAIN finals = {} /\ partials = NoPartials
  BY SchedulerInitIndInv DEF PipelineInit, SchedulerInit
<1>1a. BacklogCounted
  BY <1>1, EmptyCounted DEF PipelineInit, SchedulerInit
<1>2. /\ OpenFrontier \in FrontierRecords /\ OpenFrontier.current = {}
  BY DEF OpenFrontier, FrontierRecords
<1>3. PipelineTypes
  BY <1>2 DEF PipelineInit, PipelineTypes, PipelineState, AtMostOne
<1>4. IdsOwned /\ FinalsAnsweredOnce
  BY <1>1 DEF PipelineInit, IdsOwned, FinalsAnsweredOnce, QueuedFinal, NoPartials
<1>5. FrontiersHold /\ NothingEarlier /\ StartsChronological /\ BoundariesHold
  BY <1>1, <1>2 DEF PipelineInit, FrontiersHold, NothingEarlier, StartsChronological, BoundariesHold, BoundaryDrained
<1> QED
  BY <1>1, <1>1a, <1>3, <1>4, <1>5 DEF PipelineInv

-----------------------------------------------------------------------------
(* What the steps have in common.                                            *)

LEMMA QueueFacts ==
  ASSUME SchedulerIndInv
  PROVE  /\ finals \in Seq(Job) /\ Len(finals) \in Nat /\ DOMAIN finals = 1..Len(finals)
         /\ \A i \in DOMAIN finals : finals[i] \in Job
         /\ \A s \in Source : \A job \in partials[s] : job \in Job
BY DEF SchedulerIndInv, SchedulerTypeOK

(* The scheduler's invariant speaks of its variables only.                   *)
LEMMA SchedulerSame ==
  ASSUME SchedulerIndInv, UNCHANGED schedulerVars
  PROVE  SchedulerIndInv'
BY SchedulerNextPreserves

(* So do the counts of what is queued.                                       *)
LEMMA CountSame ==
  ASSUME BacklogCounted, UNCHANGED queueVars
  PROVE  BacklogCounted'
BY DEF BacklogCounted, BacklogAccounted, QueuedJobs, SpeechOf, SamplesOf, Duration, queueVars

(* The units of a job that is not queued are as many as it has, and none of  *)
(* them is among those that are queued.                                      *)
LEMMA JobCounted ==
  ASSUME NEW job, NEW n \in Nat, NEW B, IsFiniteSet(B), \A t : <<job, t>> \notin B
  PROVE  /\ Cardinality(B) \in Nat
         /\ IsFiniteSet(B \cup ({job} \X (1 .. n)))
         /\ Cardinality(B \cup ({job} \X (1 .. n))) = Cardinality(B) + n
<1> DEFINE units == {job} \X (1 .. n)
<1>1. IsFiniteSet({job}) /\ Cardinality({job}) = 1
  BY FS_Singleton
<1>2. IsFiniteSet(1 .. n) /\ Cardinality(1 .. n) = n
  <2>1. 1 \in Int /\ n \in Int /\ (1 > n => n = 0) /\ n - 1 + 1 = n
    OBVIOUS
  <2>2. IsFiniteSet(1 .. n) /\ Cardinality(1 .. n) = IF 1 > n THEN 0 ELSE n - 1 + 1
    BY <2>1, FS_Interval
  <2> QED
    BY <2>1, <2>2
<1>3. IsFiniteSet(units) /\ Cardinality(units) = n
  <2>1. /\ IsFiniteSet({job} \X (1 .. n))
        /\ Cardinality({job} \X (1 .. n)) = Cardinality({job}) * Cardinality(1 .. n)
    BY <1>1, <1>2, FS_Product
  <2>2. 1 * n = n
    OBVIOUS
  <2> QED
    BY <1>1, <1>2, <2>1, <2>2
<1>4. B \cap units = {}
  OBVIOUS
<1> HIDE DEF units
<1>5. Cardinality(B) \in Nat
  BY FS_CardinalityType
<1>6. /\ IsFiniteSet(B \cup units)
      /\ Cardinality(B \cup units) = Cardinality(B) + Cardinality(units) - Cardinality(B \cap units)
  BY <1>3, FS_Union
<1>7. Cardinality(B \cap units) = 0
  BY <1>4, FS_EmptySet
<1>8. Cardinality(B \cup units) = Cardinality(B) + n
  BY <1>3, <1>5, <1>6, <1>7
<1> QED
  BY <1>5, <1>6, <1>8 DEF units

(* A job more, or less, in the queue.                                        *)
LEMMA SpeechOfMore ==
  ASSUME NEW job \in Job, NEW jobs, job \notin jobs,
         IsFiniteSet(SpeechOf(jobs)) \/ IsFiniteSet(SpeechOf(jobs \cup {job}))
  PROVE  /\ IsFiniteSet(SpeechOf(jobs)) /\ IsFiniteSet(SpeechOf(jobs \cup {job}))
         /\ Duration(job) \in Nat /\ Cardinality(SpeechOf(jobs)) \in Nat
         /\ Cardinality(SpeechOf(jobs \cup {job})) = Cardinality(SpeechOf(jobs)) + Duration(job)
<1>1. Duration(job) \in Nat
  BY DEF Duration, Job
<1>2. SpeechOf(jobs \cup {job}) = SpeechOf(jobs) \cup ({job} \X (1 .. Duration(job)))
  BY DEF SpeechOf
<1>3. \A t : <<job, t>> \notin SpeechOf(jobs)
  BY DEF SpeechOf
<1>4. IsFiniteSet(SpeechOf(jobs))
  <2>1. SpeechOf(jobs) \subseteq SpeechOf(jobs \cup {job})
    BY <1>2
  <2> QED
    BY <2>1, FS_Subset
<1>5. /\ Cardinality(SpeechOf(jobs)) \in Nat
      /\ IsFiniteSet(SpeechOf(jobs) \cup ({job} \X (1 .. Duration(job))))
      /\ Cardinality(SpeechOf(jobs) \cup ({job} \X (1 .. Duration(job)))) = Cardinality(SpeechOf(jobs)) + Duration(job)
  BY <1>1, <1>3, <1>4, JobCounted
<1> QED
  BY <1>1, <1>2, <1>4, <1>5

(* The same of its samples.                                                  *)
LEMMA SamplesOfMore ==
  ASSUME NEW job \in Job, NEW jobs, job \notin jobs,
         IsFiniteSet(SamplesOf(jobs)) \/ IsFiniteSet(SamplesOf(jobs \cup {job}))
  PROVE  /\ IsFiniteSet(SamplesOf(jobs)) /\ IsFiniteSet(SamplesOf(jobs \cup {job}))
         /\ job.samples \in Nat /\ Cardinality(SamplesOf(jobs)) \in Nat
         /\ Cardinality(SamplesOf(jobs \cup {job})) = Cardinality(SamplesOf(jobs)) + job.samples
<1>1. job.samples \in Nat
  BY DEF Job
<1>2. SamplesOf(jobs \cup {job}) = SamplesOf(jobs) \cup ({job} \X (1 .. job.samples))
  BY DEF SamplesOf
<1>3. \A t : <<job, t>> \notin SamplesOf(jobs)
  BY DEF SamplesOf
<1>4. IsFiniteSet(SamplesOf(jobs))
  <2>1. SamplesOf(jobs) \subseteq SamplesOf(jobs \cup {job})
    BY <1>2
  <2> QED
    BY <2>1, FS_Subset
<1>5. /\ Cardinality(SamplesOf(jobs)) \in Nat
      /\ IsFiniteSet(SamplesOf(jobs) \cup ({job} \X (1 .. job.samples)))
      /\ Cardinality(SamplesOf(jobs) \cup ({job} \X (1 .. job.samples))) = Cardinality(SamplesOf(jobs)) + job.samples
  BY <1>1, <1>3, <1>4, JobCounted
<1> QED
  BY <1>1, <1>2, <1>4, <1>5

(* The identifier an utterance gets is no final's yet and no other source's. *)
LEMMA IdFacts ==
  ASSUME PipelineTypes, IdsOwned, NEW s \in Source, NEW start \in Nat,
         NEW id \in IdFor(s, start), TakeJobId(s, start)
  PROVE  /\ id \in JobIds /\ id \in Nat /\ id \notin received
         /\ next_job_id' \in Nat /\ id < next_job_id' /\ next_job_id <= next_job_id'
         /\ \A q \in identities[Other(s)] : q.job_id # id
         /\ \A p \in identities[s] : p.job_id = id <=> p.start_ms = start
<1>1. /\ next_job_id \in Nat /\ identities[s] \in SUBSET Identities
      /\ identities[Other(s)] \in SUBSET Identities /\ Other(s) \in Source
  BY OtherSource DEF PipelineTypes
<1>2. CASE KnownId(s, start) = {}
  <2>1. id = next_job_id /\ id \in JobIds /\ next_job_id' = next_job_id + 1
    BY <1>2 DEF IdFor, TakeJobId
  <2>2. \A p \in identities[s] : p.start_ms # start
    BY <1>2 DEF KnownId
  <2>3. \A p \in identities[s] : p.job_id \in Nat /\ p.job_id < id
    BY <1>1, <2>1, PipelineAssumption DEF IdsOwned, Identities
  <2>4. \A q \in identities[Other(s)] : q.job_id \in Nat /\ q.job_id < id
    BY <1>1, <2>1, PipelineAssumption DEF IdsOwned, Identities
  <2>5. id \notin received
    BY <1>1, <2>1 DEF IdsOwned
  <2> QED
    BY <1>1, <2>1, <2>2, <2>3, <2>4, <2>5
<1>3. CASE KnownId(s, start) # {}
  <2>1. next_job_id' = next_job_id
    BY <1>3 DEF TakeJobId
  <2>2. PICK p \in identities[s] : p.start_ms = start /\ p.job_id = id
    BY <1>3 DEF IdFor, KnownId
  <2>3. identities[s] = {p}
    BY <2>2 DEF PipelineTypes, AtMostOne
  <2>4. id \in JobIds /\ id < next_job_id /\ id \notin received
    BY <1>1, <2>2 DEF IdsOwned, Identities
  <2>5. \A q \in identities[Other(s)] : q.job_id # id
    BY <2>2 DEF IdsOwned
  <2> QED
    BY <1>1, <2>1, <2>2, <2>3, <2>4, <2>5, PipelineAssumption
<1> QED
  BY <1>2, <1>3

(* The finals and their identifiers are left alone; partials may go.         *)
LEMMA IdsSame ==
  ASSUME PipelineInv, UNCHANGED <<finals, received, answers, next_job_id, identities>>,
         \A s \in Source : partials'[s] \subseteq partials[s]
  PROVE  IdsOwned' /\ FinalsAnsweredOnce'
<1>1. IdsOwned'
  BY DEF PipelineInv, IdsOwned
<1>2. FinalsAnsweredOnce'
  BY DEF PipelineInv, FinalsAnsweredOnce, QueuedFinal
<1> QED
  BY <1>1, <1>2

(* ... also when every partial and its identity goes. *)
LEMMA IdsDropped ==
  ASSUME PipelineInv, UNCHANGED <<finals, received, answers, next_job_id>>,
         partials' = NoPartials, identities' = [s \in Source |-> {}]
  PROVE  IdsOwned' /\ FinalsAnsweredOnce'
<1>1. IdsOwned'
  BY OtherSource DEF PipelineInv, IdsOwned, NoPartials
<1>2. FinalsAnsweredOnce'
  BY DEF PipelineInv, FinalsAnsweredOnce, QueuedFinal
<1> QED
  BY <1>1, <1>2

(* Nothing that has to do with the order moves. *)
LEMMA OrderSame ==
  ASSUME PipelineInv, UNCHANGED <<finals, last_started, batch, frontiers, open_from>>
  PROVE  FrontiersHold' /\ NothingEarlier' /\ StartsChronological'
BY DEF PipelineInv, FrontiersHold, NothingEarlier, StartsChronological

(* The invariant says nothing of the events a call returned.                 *)
LEMMA PipelineSame ==
  ASSUME PipelineInv,
         UNCHANGED <<schedulerVars, state, frontiers, next_job_id, identities, last_started, batch,
                     received, answers, open_from>>
  PROVE  PipelineInv'
<1>1. SchedulerIndInv' /\ BacklogCounted' /\ UNCHANGED <<finals, partials>>
  BY SchedulerSame, CountSame DEF PipelineInv, schedulerVars, queueVars
<1>2. PipelineTypes' /\ BoundariesHold'
  BY <1>1 DEF PipelineInv, PipelineTypes, BoundariesHold, BoundaryDrained, BothSealed, NoPartials
<1> QED
  BY <1>1, <1>2, IdsSame, OrderSame DEF PipelineInv

(* A boundary is reported only when the queue is empty and both are sealed. *)
LEMMA SettledFacts ==
  ASSUME state \in PipelineState, NEW queue, NEW sealed
  PROVE  /\ Settled(queue, sealed) \in PipelineState
         /\ Settled(queue, sealed) = state
              \/ (queue = <<>> /\ sealed /\ state # "Running"
                  /\ Settled(queue, sealed) \in {"Paused", "Stopped"})
BY DEF Settled, PipelineState

-----------------------------------------------------------------------------
(* Submitting a snapshot.                                                    *)
LEMMA SubmitSnapshotStep ==
  ASSUME PipelineInv, NEW s \in Source, NEW r \in Request, SubmitSnapshot(s, r)
  PROVE  PipelineInv'
<1>0. /\ SchedulerIndInv /\ PipelineTypes /\ IdsOwned /\ FinalsAnsweredOnce /\ BoundariesHold
      /\ state = "Running"
      /\ UNCHANGED <<state, frontiers, last_started, batch, received, answers, open_from>>
      /\ r \in Request /\ r.start_ms \in Nat
  BY SchedulerAssumption DEF PipelineInv, SubmitSnapshot, SnapshotRefused, lifecycleVars, observerVars, Request
<1>1. PICK id \in IdFor(s, r.start_ms) :
        /\ SubmitPartial(id, s, r) \/ (~partials_enabled /\ UNCHANGED schedulerVars)
        /\ identities' = [identities EXCEPT ![s] = {[start_ms |-> r.start_ms, job_id |-> id]}]
  BY DEF SubmitSnapshot
<1>2. /\ id \in JobIds /\ id \in Nat /\ id \notin received
      /\ next_job_id' \in Nat /\ id < next_job_id' /\ next_job_id <= next_job_id' /\ next_job_id \in Nat
      /\ \A q \in identities[Other(s)] : q.job_id # id
  <2>1. TakeJobId(s, r.start_ms) /\ next_job_id \in Nat
    BY <1>0 DEF SubmitSnapshot, PipelineTypes
  <2> QED
    BY <1>0, <2>1, IdFacts
<1>3. SchedulerIndInv'
  BY <1>0, <1>1, <1>2, SubmitPartialStep, SchedulerSame
<1>4. /\ finals' = finals
      /\ \A t \in Source : t # s => partials'[t] = partials[t]
      /\ \A job \in partials'[s] : job.job_id = id
  <2>1. CASE SubmitPartial(id, s, r)
    <3>1. finals' = finals /\ partials' = [partials EXCEPT ![s] = {JobOf(id, s, r, next_sequence)}]
      BY <2>1 DEF SubmitPartial, queueVars
    <3>2. JobOf(id, s, r, next_sequence).job_id = id
      BY DEF JobOf
    <3>3. partials \in [Source -> SUBSET Job]
      BY <1>0 DEF SchedulerIndInv, SchedulerTypeOK
    <3> QED
      BY <3>1, <3>2, <3>3
  <2>2. CASE ~partials_enabled /\ UNCHANGED schedulerVars
    <3>1. partials = NoPartials
      BY <1>0, <2>2 DEF SchedulerIndInv, PartialHysteresis
    <3> QED
      BY <2>2, <3>1 DEF schedulerVars, NoPartials
  <2> QED
    BY <1>1, <2>1, <2>2
<1>5. /\ identities' \in [Source -> SUBSET Identities]
      /\ \A t \in Source : t # s => identities'[t] = identities[t]
      /\ identities'[s] = {[start_ms |-> r.start_ms, job_id |-> id]}
  BY <1>0, <1>1, <1>2 DEF PipelineTypes, Identities
<1>6. PipelineTypes'
  <2>1. \A t \in Source : AtMostOne(identities'[t])
    BY <1>0, <1>5 DEF PipelineTypes, AtMostOne
  <2> QED
    BY <1>0, <1>2, <1>5, <2>1 DEF PipelineTypes
<1>7. IdsOwned'
  <2>1. \A f \in received' : f < next_job_id'
    <3>1. \A f \in received : f \in Nat /\ f < next_job_id
      BY <1>0, PipelineAssumption DEF PipelineTypes, IdsOwned
    <3> QED
      BY <1>0, <1>2, <3>1
  <2>2. \A t \in Source : \A p \in identities'[t] : p.job_id < next_job_id' /\ p.job_id \notin received'
    <3>1. \A t \in Source : \A p \in identities[t] :
            p.job_id \in Nat /\ p.job_id < next_job_id /\ p.job_id \notin received
      <4>1. ASSUME NEW t \in Source, NEW p \in identities[t] PROVE p.job_id \in Nat
        <5>1. p \in Identities
          BY <1>0 DEF PipelineTypes
        <5> QED
          BY <5>1, PipelineAssumption DEF Identities
      <4> QED
        BY <1>0, <4>1 DEF IdsOwned
    <3>2. ASSUME NEW t \in Source, t # s, NEW p \in identities'[t]
          PROVE  p.job_id < next_job_id' /\ p.job_id \notin received'
      BY <1>0, <1>2, <1>5, <3>1, <3>2
    <3>3. ASSUME NEW p \in identities'[s]
          PROVE  p.job_id < next_job_id' /\ p.job_id \notin received'
      BY <1>0, <1>2, <1>5, <3>3
    <3> QED
      BY <3>2, <3>3
  <2>3. \A t \in Source : \A p \in identities'[t], q \in identities'[Other(t)] : p.job_id # q.job_id
    BY <1>0, <1>2, <1>5, OtherSource DEF IdsOwned
  <2>4. \A t \in Source : \A job \in partials'[t] : \E p \in identities'[t] : p.job_id = job.job_id
    <3>1. ASSUME NEW t \in Source, t # s, NEW job \in partials'[t]
          PROVE  \E p \in identities'[t] : p.job_id = job.job_id
      BY <1>0, <1>4, <1>5, <3>1 DEF IdsOwned
    <3>2. ASSUME NEW job \in partials'[s]
          PROVE  \E p \in identities'[s] : p.job_id = job.job_id
      BY <1>4, <1>5, <3>2
    <3> QED
      BY <3>1, <3>2
  <2>5. \A i \in DOMAIN finals' : finals'[i].job_id \in received'
    BY <1>0, <1>4 DEF IdsOwned
  <2> QED
    BY <2>1, <2>2, <2>3, <2>4, <2>5 DEF IdsOwned
<1>8. FinalsAnsweredOnce'
  BY <1>0, <1>4 DEF FinalsAnsweredOnce, QueuedFinal
<1>9. BoundariesHold'
  BY <1>0 DEF BoundariesHold, BoundaryDrained
<1>10. BacklogCounted'
  <2>1. UNCHANGED queueVars
    BY <1>1 DEF SubmitPartial, queueVars, schedulerVars
  <2> QED
    BY <2>1, CountSame DEF PipelineInv
<1> QED
  BY <1>0, <1>3, <1>4, <1>6, <1>7, <1>8, <1>9, <1>10, OrderSame DEF PipelineInv

(* The utterances of a call: each begins where its source is still open and  *)
(* before it is open afterwards, which never moves back.                     *)
LEMMA SegmentedFacts ==
  ASSUME NEW s \in Source, open_from[s] \in Nat, NEW u \in Seq(Request), NEW w \in SUBSET Nat,
         Segmented(s, u, w), NEW after \in OpenAfter(s, u, w)
  PROVE  /\ after \in Nat /\ open_from[s] <= after
         /\ \A v \in w : v <= after \/ w # {v}
         /\ \A i \in DOMAIN u : open_from[s] <= u[i].start_ms /\ u[i].start_ms < after
<1>1. /\ Len(u) \in Nat /\ DOMAIN u = 1..Len(u)
      /\ \A i \in DOMAIN u : u[i] \in Request
  OBVIOUS
<1>2. /\ \A i \in DOMAIN u : u[i].start_ms \in Nat /\ u[i].end_ms \in Nat /\ u[i].start_ms < u[i].end_ms
  BY <1>1 DEF Request
<1>3. /\ \A v \in w : v >= open_from[s]
      /\ \A i \in DOMAIN u : u[i].start_ms >= open_from[s] /\ \A v \in w : u[i].start_ms < v
      /\ \A i \in DOMAIN u : \A j \in 1..(i - 1) : u[j].start_ms < u[i].start_ms
  BY DEF Segmented, Timely
<1>4. CASE w # {}
  <2>1. after \in w
    BY <1>4 DEF OpenAfter
  <2> QED
    BY <1>2, <1>3, <2>1
<1>5. CASE w = {} /\ u # <<>>
  <2>1. after = u[Len(u)].end_ms /\ Len(u) \in DOMAIN u
    BY <1>1, <1>5 DEF OpenAfter, Last
  <2>2. ASSUME NEW i \in DOMAIN u PROVE u[i].start_ms <= u[Len(u)].start_ms
    <3>1. CASE i = Len(u)
      BY <1>2, <2>1, <3>1
    <3>2. CASE i # Len(u)
      <4>1. i \in 1..(Len(u) - 1)
        BY <1>1, <3>2
      <4>2. u[i].start_ms < u[Len(u)].start_ms
        BY <1>3, <2>1, <4>1
      <4> QED
        BY <1>2, <2>1, <4>2
    <3> QED
      BY <3>1, <3>2
  <2>3. u[Len(u)].start_ms < after /\ open_from[s] <= u[Len(u)].start_ms /\ after \in Nat
        /\ u[Len(u)].start_ms \in Nat
    BY <1>2, <1>3, <2>1
  <2>4. \A i \in DOMAIN u : u[i].start_ms < after
    BY <1>2, <2>2, <2>3
  <2> QED
    BY <1>3, <1>5, <2>3, <2>4
<1>6. CASE w = {} /\ u = <<>>
  <2>1. after = open_from[s] /\ DOMAIN u = {}
    BY <1>6 DEF OpenAfter
  <2> QED
    BY <1>6, <2>1
<1> QED
  BY <1>4, <1>5, <1>6

(* Beginning a batch of utterances that keeps the order of its source.       *)
LEMMA BeginBatchStep ==
  ASSUME PipelineInv, NEW s \in Source, NEW u \in Seq(Request),
         NEW w \in SUBSET Nat, \A v \in w : w = {v},
         Segmented(s, u, w), BeginBatch(s, u, w)
  PROVE  PipelineInv'
<1>0. /\ SchedulerIndInv /\ PipelineTypes /\ FrontiersHold /\ NothingEarlier /\ StartsChronological /\ BoundariesHold
      /\ batch = {} /\ ~frontiers[s].sealed /\ state \in {"Running", "Pausing", "Stopping"}
      /\ batch' = {[source |-> s, utterances |-> u, watermark |-> w]}
      /\ UNCHANGED <<schedulerVars, state, frontiers, next_job_id, identities, last_started, received, answers>>
  BY DEF PipelineInv, BeginBatch, BatchRefused, ValidWatermark, lifecycleVars, identityVars
<1>1. u \in Seq(Request) /\ w \in SUBSET Nat /\ \A v \in w : w = {v}
  OBVIOUS
<1>2. PICK after \in OpenAfter(s, u, w) : open_from' = [open_from EXCEPT ![s] = after]
  BY DEF BeginBatch
<1>3. open_from \in [Source -> Nat] /\ open_from[s] \in Nat
  BY <1>0 DEF PipelineTypes
<1>4. /\ after \in Nat /\ open_from[s] <= after
      /\ \A v \in w : v <= after
      /\ \A i \in DOMAIN u : open_from[s] <= u[i].start_ms /\ u[i].start_ms < after
  BY <1>1, <1>3, SegmentedFacts
<1>5. /\ open_from' \in [Source -> Nat]
      /\ \A t \in Source : open_from[t] <= open_from'[t]
      /\ open_from'[s] = after
  BY <1>2, <1>3, <1>4
<1>6. SchedulerIndInv' /\ BacklogCounted' /\ UNCHANGED <<finals, partials>>
  BY <1>0, SchedulerSame, CountSame DEF schedulerVars, queueVars, PipelineInv
<1>7. PICK b \in Calls : batch' = {b} /\ b.source = s /\ b.utterances = u /\ b.watermark = w
  <2>1. [source |-> s, utterances |-> u, watermark |-> w] \in Calls
    BY <1>1 DEF Calls
  <2> QED
    BY <1>0, <2>1
<1>8. PipelineTypes'
  <2>1. batch' \in SUBSET Calls /\ AtMostOne(batch')
    BY <1>7 DEF AtMostOne
  <2> QED
    BY <1>0, <1>5, <2>1 DEF PipelineTypes
<1>9. IdsOwned' /\ FinalsAnsweredOnce'
  BY <1>0, <1>6, IdsSame
<1>10. \A i \in DOMAIN finals : finals[i] \in Job /\ finals[i].start_ms \in Nat /\ finals[i].source \in Source
  BY <1>0, QueueFacts DEF Job
<1>11. \A t \in Source : frontiers[t].current \in SUBSET Nat
  BY <1>0 DEF PipelineTypes, FrontierRecords
<1>12. FrontiersHold'
  <2>1. \A t \in Source : \A v \in frontiers'[t].current : v <= open_from'[t]
    BY <1>0, <1>3, <1>5, <1>11 DEF FrontiersHold
  <2>2. \A i \in DOMAIN finals' : finals'[i].start_ms < open_from'[finals'[i].source]
    BY <1>0, <1>3, <1>5, <1>6, <1>10 DEF FrontiersHold
  <2>3. /\ \A c \in batch' : \A v \in c.watermark : v <= open_from'[c.source]
        /\ \A c \in batch' : \A i \in DOMAIN c.utterances :
             c.utterances[i].start_ms < open_from'[c.source]
    BY <1>4, <1>5, <1>7
  <2> QED
    BY <2>1, <2>2, <2>3 DEF FrontiersHold
<1>13. \A k \in last_started : k.start_ms \in Nat
  BY <1>0 DEF PipelineTypes, Starts
<1>14. NothingEarlier'
  <2>1. \A k \in last_started' : \E t \in Source : k.start_ms < open_from'[t]
    BY <1>0, <1>3, <1>5, <1>13 DEF NothingEarlier
  <2>2. \A k \in last_started', t \in Source : frontiers'[t].sealed \/ k.start_ms < open_from'[t]
    BY <1>0, <1>3, <1>5, <1>13 DEF NothingEarlier
  <2>3. \A k \in last_started', c \in batch' : \A i \in DOMAIN c.utterances :
          k.start_ms < c.utterances[i].start_ms
    <3>1. \A i \in DOMAIN u : u[i].start_ms \in Nat
      BY <1>1 DEF Request
    <3>2. \A k \in last_started : k.start_ms < open_from[s]
      BY <1>0 DEF NothingEarlier
    <3> QED
      BY <1>0, <1>3, <1>4, <1>7, <1>13, <3>1, <3>2
  <2> QED
    BY <2>1, <2>2, <2>3 DEF NothingEarlier
<1>15. StartsChronological' /\ BoundariesHold'
  BY <1>0, <1>6 DEF StartsChronological, BoundariesHold, BoundaryDrained, BothSealed
<1> QED
  BY <1>6, <1>8, <1>9, <1>12, <1>14, <1>15 DEF PipelineInv

(* What submit_final leaves queued, of the finals and of the partials.       *)
LEMMA SubmittedFinal ==
  ASSUME SchedulerIndInv, NEW id \in JobIds, NEW s \in Source, NEW r \in Request,
         SubmitFinal(id, s, r)
  PROVE  /\ SchedulerIndInv' /\ ~QueuedFinal(id)
         /\ \A t \in Source : partials'[t] \subseteq {p \in partials[t] : p.job_id # id}
         /\ FitsBacklog(r) =>
              /\ \A i \in DOMAIN finals' :
                   \/ finals'[i].job_id = id /\ finals'[i].source = s
                      /\ finals'[i].start_ms = r.start_ms
                   \/ \E j \in DOMAIN finals : finals'[i] = finals[j]
              /\ \A j \in DOMAIN finals : \E i \in DOMAIN finals' : finals'[i] = finals[j]
              /\ \E i \in DOMAIN finals' : finals'[i].job_id = id
         /\ ~FitsBacklog(r) => finals' = finals
<1>1. SchedulerIndInv' /\ ~QueuedFinal(id)
  BY AdmitFinalStep, RejectFinalStep DEF SubmitFinal, AdmitFinal, RejectFinal
<1>2. partials \in [Source -> SUBSET Job]
  BY DEF SchedulerIndInv, SchedulerTypeOK
<1>3. \A t \in Source : partials'[t] \subseteq {p \in partials[t] : p.job_id # id}
  BY <1>2 DEF SubmitFinal, AdmitFinal, RejectFinal, UpdatePartialMode, WithoutPartial, NoPartials
<1>4. ASSUME ~FitsBacklog(r) PROVE finals' = finals
  BY <1>4 DEF SubmitFinal, AdmitFinal, RejectFinal, queueVars
<1>5. ASSUME FitsBacklog(r)
      PROVE  /\ \A i \in DOMAIN finals' :
                  \/ finals'[i].job_id = id /\ finals'[i].source = s
                     /\ finals'[i].start_ms = r.start_ms
                  \/ \E j \in DOMAIN finals : finals'[i] = finals[j]
             /\ \A j \in DOMAIN finals : \E i \in DOMAIN finals' : finals'[i] = finals[j]
             /\ \E i \in DOMAIN finals' : finals'[i].job_id = id
  <2>1. SchedulerTypeOK /\ FinalsChronological /\ SequencesFresh /\ next_sequence \in Nat
    BY DEF SchedulerIndInv, SchedulerTypeOK
  <2>2. PICK job \in Job : /\ job = JobOf(id, s, r, next_sequence) /\ job.sequence = next_sequence
                           /\ job.job_id = id /\ job.source = s /\ job.start_ms = r.start_ms
    <3>1. JobOf(id, s, r, next_sequence).start_ms = r.start_ms
      BY DEF JobOf
    <3> QED
      BY <2>1, <3>1, JobOfType
  <2>3. PICK i \in 1..(Len(finals) + 1) : IsInsertionPoint(job, i) /\ finals' = InsertAt(finals, i, job)
    BY <1>5, <2>2 DEF SubmitFinal, AdmitFinal, RejectFinal
  <2>4. /\ finals' \in Seq(Job) /\ Len(finals') = Len(finals) + 1
        /\ \A j \in 1..(Len(finals) + 1) :
             finals'[j] = IF j < i THEN finals[j] ELSE IF j = i THEN job ELSE finals[j - 1]
    BY <2>1, <2>2, <2>3, AdmittedQueue
  <2>5. Len(finals) \in Nat /\ DOMAIN finals = 1..Len(finals) /\ DOMAIN finals' = 1..(Len(finals) + 1)
    BY <2>4, QueueFacts
  <2>6. finals'[i] = job /\ i \in DOMAIN finals'
    BY <2>4, <2>5
  <2>7. ASSUME NEW j \in DOMAIN finals PROVE \E k \in DOMAIN finals' : finals'[k] = finals[j]
    <3>1. CASE j < i
      BY <2>4, <2>5, <3>1
    <3>2. CASE ~(j < i)
      <4>1. j + 1 \in DOMAIN finals' /\ finals'[j + 1] = finals[j]
        BY <2>4, <2>5, <3>2
      <4> QED
        BY <4>1
    <3> QED
      BY <3>1, <3>2
  <2>8. ASSUME NEW k \in DOMAIN finals', k # i PROVE \E j \in DOMAIN finals : finals'[k] = finals[j]
    <3>1. CASE k < i
      BY <2>4, <2>5, <3>1
    <3>2. CASE ~(k < i)
      <4>1. k - 1 \in DOMAIN finals /\ finals'[k] = finals[k - 1]
        BY <2>4, <2>5, <2>8, <3>2
      <4> QED
        BY <4>1
    <3> QED
      BY <3>1, <3>2
  <2> QED
    BY <2>2, <2>6, <2>7, <2>8
<1> QED
  BY <1>1, <1>3, <1>4, <1>5

(* A submitted final adds itself to the counts.                              *)
LEMMA AdmittedCounted ==
  ASSUME SchedulerIndInv, BacklogCounted, NEW id \in JobIds, NEW s \in Source, NEW r \in Request,
         SubmitFinal(id, s, r)
  PROVE  BacklogCounted'
<1>1. CASE RejectFinal(id, s, r)
  BY <1>1, CountSame DEF RejectFinal
<1>2. CASE AdmitFinal(id, s, r)
  <2>1. SchedulerTypeOK /\ FinalsChronological /\ SequencesFresh /\ next_sequence \in Nat
    BY DEF SchedulerIndInv, SchedulerTypeOK
  <2>2. PICK job \in Job : /\ job = JobOf(id, s, r, next_sequence) /\ job.sequence = next_sequence
                           /\ job.job_id = id
    BY <2>1, JobOfType
  <2>3. Duration(job) = r.end_ms - r.start_ms /\ job.samples = r.samples
    BY <2>2 DEF JobOf, Duration
  <2>4. PICK i \in 1..(Len(finals) + 1) : IsInsertionPoint(job, i) /\ finals' = InsertAt(finals, i, job)
    BY <1>2, <2>2 DEF AdmitFinal
  <2>5. /\ finals' \in Seq(Job) /\ Len(finals') = Len(finals) + 1
        /\ \A j \in 1..(Len(finals) + 1) :
             finals'[j] = IF j < i THEN finals[j] ELSE IF j = i THEN job ELSE finals[j - 1]
    BY <2>1, <2>2, <2>4, AdmittedQueue
  <2>6. Len(finals) \in Nat /\ DOMAIN finals = 1..Len(finals) /\ DOMAIN finals' = 1..(Len(finals) + 1)
    BY <2>5, QueueFacts
  <2>7. QueuedJobs' = QueuedJobs \cup {job}
    <3>1. ASSUME NEW k \in DOMAIN finals'
          PROVE  finals'[k] = job \/ \E j \in DOMAIN finals : finals'[k] = finals[j]
      <4>1. CASE k < i \/ k = i
        BY <2>5, <2>6, <4>1
      <4>2. CASE k > i
        <5>1. k - 1 \in DOMAIN finals /\ finals'[k] = finals[k - 1]
          BY <2>5, <2>6, <4>2
        <5> QED
          BY <5>1
      <4> QED
        BY <2>6, <4>1, <4>2
    <3>2. ASSUME NEW j \in DOMAIN finals PROVE \E k \in DOMAIN finals' : finals'[k] = finals[j]
      <4>1. CASE j < i
        BY <2>5, <2>6, <4>1
      <4>2. CASE ~(j < i)
        <5>1. j + 1 \in DOMAIN finals' /\ finals'[j + 1] = finals[j]
          BY <2>5, <2>6, <4>2
        <5> QED
          BY <5>1
      <4> QED
        BY <4>1, <4>2
    <3>3. finals'[i] = job /\ i \in DOMAIN finals'
      BY <2>5, <2>6
    <3> QED
      BY <3>1, <3>2, <3>3 DEF QueuedJobs
  <2>8. job \notin QueuedJobs
    BY <1>2, <2>2 DEF AdmitFinal, QueuedFinal, QueuedJobs
  <2>9. PICK jobs, all : jobs = QueuedJobs /\ all = QueuedJobs' /\ all = jobs \cup {job}
    BY <2>7
  <2>10. /\ queued_final_speech_ms' = queued_final_speech_ms + Duration(job)
         /\ queued_final_samples' = queued_final_samples + job.samples
    BY <1>2, <2>3 DEF AdmitFinal
  <2>11. /\ IsFiniteSet(SpeechOf(all)) /\ IsFiniteSet(SamplesOf(all))
         /\ Cardinality(SpeechOf(all)) = queued_final_speech_ms + Duration(job)
         /\ Cardinality(SamplesOf(all)) = queued_final_samples + job.samples
    BY <2>8, <2>9, SpeechOfMore, SamplesOfMore DEF BacklogCounted, BacklogAccounted
  <2>12. SpeechOf(all) = SpeechOf(QueuedJobs)' /\ SamplesOf(all) = SamplesOf(QueuedJobs)'
    BY <2>9 DEF SpeechOf, SamplesOf, Duration
  <2> QED
    BY <2>10, <2>11, <2>12 DEF BacklogCounted, BacklogAccounted
<1> QED
  BY <1>1, <1>2 DEF SubmitFinal

(* A final that is taken was the first, and takes itself out of the counts.  *)
LEMMA ServedCounted ==
  ASSUME SchedulerIndInv, BacklogCounted, NextFinalJob
  PROVE  /\ BacklogCounted'
         /\ Len(finals) > 0 /\ 1 \in DOMAIN finals /\ Head(finals) = finals[1]
         /\ DOMAIN finals' = 1..(Len(finals) - 1)
         /\ \A j \in DOMAIN finals' : j + 1 \in DOMAIN finals /\ finals'[j] = finals[j + 1]
<1>1. /\ Len(finals) > 0 /\ 1 \in DOMAIN finals /\ Head(finals) = finals[1]
      /\ DOMAIN finals' = 1..(Len(finals) - 1) /\ DOMAIN finals = 1..Len(finals)
      /\ \A j \in DOMAIN finals' : j + 1 \in DOMAIN finals /\ finals'[j] = finals[j + 1]
      /\ \A j \in DOMAIN finals : finals[j] \in Job
  <2>1. finals \in Seq(Job) /\ finals # <<>> /\ finals' = Tail(finals)
    BY QueueFacts DEF NextFinalJob
  <2> QED
    BY <2>1
<1>2. PICK job \in Job : job = finals[1]
  BY <1>1
<1>3. /\ queued_final_speech_ms \in Nat /\ queued_final_samples \in Nat
      /\ queued_final_speech_ms' = Monus(queued_final_speech_ms, Duration(job))
      /\ queued_final_samples' = Monus(queued_final_samples, job.samples)
  BY <1>1, <1>2 DEF NextFinalJob, SchedulerIndInv, SchedulerTypeOK
<1>4. QueuedJobs = QueuedJobs' \cup {job}
  <2>1. ASSUME NEW j \in DOMAIN finals, j # 1 PROVE \E k \in DOMAIN finals' : finals'[k] = finals[j]
    <3>1. j - 1 \in DOMAIN finals'
      BY <1>1, <2>1
    <3>2. finals'[j - 1] = finals[j]
      BY <1>1, <3>1
    <3> QED
      BY <3>1, <3>2
  <2> QED
    BY <1>1, <1>2, <2>1 DEF QueuedJobs
<1>5. job \notin QueuedJobs'
  <2> SUFFICES ASSUME NEW k \in DOMAIN finals' PROVE finals'[k] # job
    BY DEF QueuedJobs
  <2>1. k + 1 \in DOMAIN finals /\ k + 1 # 1 /\ finals'[k] = finals[k + 1]
    BY <1>1
  <2> QED
    BY <1>1, <1>2, <2>1 DEF SchedulerIndInv, PendingIdsUnique
<1>6. PICK jobs, all : jobs = QueuedJobs' /\ all = QueuedJobs /\ all = jobs \cup {job}
  BY <1>4
<1>7. /\ IsFiniteSet(SpeechOf(jobs)) /\ IsFiniteSet(SamplesOf(jobs))
      /\ Duration(job) \in Nat /\ Cardinality(SpeechOf(jobs)) \in Nat
      /\ queued_final_speech_ms = Cardinality(SpeechOf(jobs)) + Duration(job)
      /\ job.samples \in Nat /\ Cardinality(SamplesOf(jobs)) \in Nat
      /\ queued_final_samples = Cardinality(SamplesOf(jobs)) + job.samples
  BY <1>5, <1>6, SpeechOfMore, SamplesOfMore DEF BacklogCounted, BacklogAccounted
<1>8. /\ queued_final_speech_ms' = Cardinality(SpeechOf(jobs))
      /\ queued_final_samples' = Cardinality(SamplesOf(jobs))
  BY <1>3, <1>7 DEF Monus
<1>9. SpeechOf(jobs) = SpeechOf(QueuedJobs)' /\ SamplesOf(jobs) = SamplesOf(QueuedJobs)'
  BY <1>6 DEF SpeechOf, SamplesOf, Duration
<1> QED
  BY <1>1, <1>7, <1>8, <1>9 DEF BacklogCounted, BacklogAccounted

(* Submitting one utterance of a batch.                                      *)
LEMMA SubmitUtteranceStep ==
  ASSUME PipelineInv, SubmitUtterance
  PROVE  PipelineInv'
<1>0. /\ SchedulerIndInv /\ PipelineTypes /\ IdsOwned /\ FinalsAnsweredOnce
      /\ FrontiersHold /\ NothingEarlier /\ StartsChronological /\ BoundariesHold
      /\ UNCHANGED <<state, frontiers, last_started, open_from>>
  BY DEF PipelineInv, SubmitUtterance, lifecycleVars
<1>1. PICK b \in batch :
        /\ b.utterances # <<>>
        /\ \E id \in IdFor(b.source, Head(b.utterances).start_ms) :
             /\ SubmitFinal(id, b.source, Head(b.utterances))
             /\ received' = received \cup {id}
             /\ \/ FitsBacklog(Head(b.utterances)) /\ UNCHANGED answers
                \/ ~FitsBacklog(Head(b.utterances)) /\ answers' = [answers EXCEPT ![id] = @ + 1]
        /\ TakeJobId(b.source, Head(b.utterances).start_ms)
        /\ identities' = [identities EXCEPT
             ![b.source] = {p \in @ : p.start_ms # Head(b.utterances).start_ms}]
        /\ batch' = {[b EXCEPT !.utterances = Tail(@)]}
  BY DEF SubmitUtterance
<1>2. b \in Calls /\ batch = {b}
  BY <1>0 DEF PipelineTypes, AtMostOne
<1>3. PICK s \in Source : s = b.source
  BY <1>2 DEF Calls
<1>4. PICK q \in Seq(Request) : q = b.utterances /\ q # <<>>
  BY <1>1, <1>2 DEF Calls
<1>5. /\ Tail(q) \in Seq(Request) /\ Len(q) \in Nat /\ 1 \in DOMAIN q /\ DOMAIN Tail(q) = 1..(Len(q) - 1)
      /\ DOMAIN q = 1..Len(q)
      /\ \A i \in DOMAIN Tail(q) : i + 1 \in DOMAIN q /\ Tail(q)[i] = q[i + 1]
      /\ Head(q) = q[1] /\ Head(q) \in Request
  BY <1>4
<1>6. PICK u \in Request : u = Head(q) /\ u.start_ms \in Nat
  BY <1>5, SchedulerAssumption DEF Request
<1>7. PICK id \in IdFor(s, u.start_ms) :
        /\ SubmitFinal(id, s, u)
        /\ received' = received \cup {id}
        /\ \/ FitsBacklog(u) /\ UNCHANGED answers
           \/ ~FitsBacklog(u) /\ answers' = [answers EXCEPT ![id] = @ + 1]
  BY <1>1, <1>3, <1>4, <1>6
<1>8. /\ TakeJobId(s, u.start_ms)
      /\ identities' = [identities EXCEPT ![s] = {p \in @ : p.start_ms # u.start_ms}]
  BY <1>1, <1>3, <1>4, <1>6
<1>9. /\ id \in JobIds /\ id \in Nat /\ id \notin received
      /\ next_job_id' \in Nat /\ id < next_job_id' /\ next_job_id <= next_job_id'
      /\ \A p \in identities[Other(s)] : p.job_id # id
      /\ \A p \in identities[s] : p.job_id = id <=> p.start_ms = u.start_ms
  BY <1>0, <1>6, <1>8, IdFacts
<1>10. /\ SchedulerIndInv' /\ ~QueuedFinal(id)
       /\ \A t \in Source : partials'[t] \subseteq {p \in partials[t] : p.job_id # id}
       /\ FitsBacklog(u) =>
            /\ \A i \in DOMAIN finals' :
                 \/ finals'[i].job_id = id /\ finals'[i].source = s
                    /\ finals'[i].start_ms = u.start_ms
                 \/ \E j \in DOMAIN finals : finals'[i] = finals[j]
            /\ \A j \in DOMAIN finals : \E i \in DOMAIN finals' : finals'[i] = finals[j]
            /\ \E i \in DOMAIN finals' : finals'[i].job_id = id
       /\ ~FitsBacklog(u) => finals' = finals
  BY <1>0, <1>6, <1>7, <1>9, SubmittedFinal
<1>11. \A i \in DOMAIN finals' :
         \/ finals'[i].job_id = id /\ finals'[i].source = s /\ finals'[i].start_ms = u.start_ms
         \/ \E j \in DOMAIN finals : finals'[i] = finals[j]
  BY <1>10
<1>12. /\ identities' \in [Source -> SUBSET Identities]
       /\ \A t \in Source : identities'[t] \subseteq identities[t]
       /\ \A t \in Source : \A p \in identities[t] : p.job_id # id => p \in identities'[t]
       /\ \A t \in Source : \A p \in identities'[t] : p.job_id # id
  <2>1. identities \in [Source -> SUBSET Identities]
    BY <1>0 DEF PipelineTypes
  <2>2. /\ identities' \in [Source -> SUBSET Identities]
        /\ identities'[s] = {p \in identities[s] : p.start_ms # u.start_ms}
        /\ \A t \in Source : t # s => identities'[t] = identities[t]
    BY <1>8, <2>1
  <2>3. \A t \in Source : t # s => t = Other(s)
    BY OtherSource
  <2> QED
    BY <1>9, <2>2, <2>3
<1>13. PICK c \in Calls : batch' = {c} /\ c.source = s /\ c.utterances = Tail(q) /\ c.watermark = b.watermark
  <2>1. batch' = {[b EXCEPT !.utterances = Tail(q)]}
    BY <1>1, <1>2, <1>4 DEF Calls
  <2>2. [b EXCEPT !.utterances = Tail(q)] \in Calls
    BY <1>2, <1>5 DEF Calls
  <2> QED
    BY <1>2, <1>3, <2>1, <2>2 DEF Calls
<1>14. PipelineTypes'
  <2>1. batch' \in SUBSET Calls /\ AtMostOne(batch')
    BY <1>13 DEF AtMostOne
  <2>2. answers' \in [JobIds -> Nat] /\ received' \in SUBSET JobIds
    <3>1. answers \in [JobIds -> Nat] /\ received \in SUBSET JobIds /\ answers[id] + 1 \in Nat
      BY <1>0, <1>9 DEF PipelineTypes
    <3> QED
      BY <1>7, <1>9, <3>1
  <2>3. \A t \in Source : AtMostOne(identities'[t])
    BY <1>0, <1>12 DEF PipelineTypes, AtMostOne
  <2> QED
    BY <1>0, <1>9, <1>12, <2>1, <2>2, <2>3 DEF PipelineTypes
<1>15. IdsOwned'
  <2>1. \A f \in received' : f < next_job_id'
    <3>1. \A f \in received : f \in Nat /\ f < next_job_id /\ next_job_id \in Nat
      BY <1>0, PipelineAssumption DEF PipelineTypes, IdsOwned
    <3> QED
      BY <1>7, <1>9, <3>1
  <2>2. \A i \in DOMAIN finals' : finals'[i].job_id \in received'
    BY <1>0, <1>7, <1>11 DEF IdsOwned
  <2>3. \A t \in Source : \A p \in identities'[t] : p.job_id < next_job_id' /\ p.job_id \notin received'
    <3> SUFFICES ASSUME NEW t \in Source, NEW p \in identities'[t]
                 PROVE  p.job_id < next_job_id' /\ p.job_id \notin received'
      OBVIOUS
    <3>1. p \in identities[t] /\ p.job_id # id /\ p \in Identities
      BY <1>12
    <3>2. p.job_id \in Nat /\ next_job_id \in Nat
      BY <1>0, <3>1, PipelineAssumption DEF Identities, PipelineTypes
    <3>3. p.job_id < next_job_id /\ p.job_id \notin received
      BY <1>0, <3>1 DEF IdsOwned
    <3> QED
      BY <1>7, <1>9, <3>1, <3>2, <3>3
  <2>4. \A t \in Source : \A p \in identities'[t], r \in identities'[Other(t)] : p.job_id # r.job_id
    BY <1>0, <1>12, OtherSource DEF IdsOwned
  <2>5. \A t \in Source : \A job \in partials'[t] : \E p \in identities'[t] : p.job_id = job.job_id
    BY <1>0, <1>10, <1>12 DEF IdsOwned
  <2> QED
    BY <2>1, <2>2, <2>3, <2>4, <2>5 DEF IdsOwned
<1>16. FinalsAnsweredOnce'
  <2>1. \A f \in JobIds : f # id => (QueuedFinal(f)' <=> QueuedFinal(f)) /\ answers'[f] = answers[f]
    <3>1. \A f \in JobIds : f # id => (QueuedFinal(f)' <=> QueuedFinal(f))
      BY <1>10 DEF QueuedFinal
    <3>2. answers \in [JobIds -> Nat]
      BY <1>0 DEF PipelineTypes
    <3> QED
      BY <1>7, <3>1, <3>2
  <2>2. answers[id] = 0
    BY <1>0, <1>9 DEF FinalsAnsweredOnce
  <2>3. CASE FitsBacklog(u)
    <3>1. QueuedFinal(id)' /\ answers'[id] = 0
      BY <1>7, <1>10, <2>2, <2>3 DEF QueuedFinal
    <3> QED
      BY <1>0, <1>7, <2>1, <3>1 DEF FinalsAnsweredOnce
  <2>4. CASE ~FitsBacklog(u)
    <3>1. answers'[id] = 1
      BY <1>0, <1>7, <1>9, <2>2, <2>4 DEF PipelineTypes
    <3>2. ~QueuedFinal(id)'
      BY <1>10, <2>4 DEF QueuedFinal
    <3> QED
      BY <1>0, <1>7, <2>1, <3>1, <3>2 DEF FinalsAnsweredOnce
  <2> QED
    BY <2>3, <2>4
<1>17. /\ u.start_ms < open_from[s]
       /\ \A k \in last_started : k.start_ms < u.start_ms
  <2>1. b.utterances[1].start_ms < open_from[b.source] /\ 1 \in DOMAIN b.utterances
    BY <1>0, <1>4, <1>5 DEF FrontiersHold
  <2>2. \A k \in last_started : k.start_ms < b.utterances[1].start_ms
    BY <1>0, <2>1 DEF NothingEarlier
  <2> QED
    BY <1>3, <1>4, <1>5, <1>6, <2>1, <2>2
<1>18. FrontiersHold'
  <2>1. \A i \in DOMAIN finals' : finals'[i].start_ms < open_from[finals'[i].source]
    BY <1>0, <1>11, <1>17 DEF FrontiersHold
  <2>2. \A i \in DOMAIN q : q[i].start_ms < open_from[s]
    BY <1>0, <1>3, <1>4 DEF FrontiersHold
  <2>3. \A v \in c.watermark : v <= open_from[s]
    BY <1>0, <1>3, <1>13 DEF FrontiersHold
  <2>4. \A i \in DOMAIN c.utterances : c.utterances[i].start_ms < open_from[c.source]
    BY <1>5, <1>13, <2>2
  <2> QED
    BY <1>0, <1>13, <2>1, <2>3, <2>4 DEF FrontiersHold
<1>19. NothingEarlier'
  <2>1. \A k \in last_started : \A i \in DOMAIN q : k.start_ms < q[i].start_ms
    BY <1>0, <1>4 DEF NothingEarlier
  <2>2. \A k \in last_started : \A i \in DOMAIN c.utterances : k.start_ms < c.utterances[i].start_ms
    BY <1>5, <1>13, <2>1
  <2> QED
    BY <1>0, <1>13, <2>2 DEF NothingEarlier
<1>20. StartsChronological'
  BY <1>0, <1>11, <1>17 DEF StartsChronological
<1>21. BoundariesHold'
  <2>1. state \in {"Running", "Pausing", "Stopping"}
    BY <1>0, <1>2 DEF BoundariesHold
  <2>2. partials = NoPartials => partials' = NoPartials
    <3>1. partials' \in [Source -> SUBSET Job]
      BY <1>10 DEF SchedulerIndInv, SchedulerTypeOK
    <3> QED
      BY <1>10, <3>1 DEF NoPartials
  <2> QED
    BY <1>0, <2>1, <2>2 DEF BoundariesHold, BoundaryDrained, NoPartials
<1>22. BacklogCounted'
  BY <1>6, <1>7, <1>9, AdmittedCounted DEF PipelineInv
<1> QED
  BY <1>10, <1>22, <1>14, <1>15, <1>16, <1>18, <1>19, <1>20, <1>21 DEF PipelineInv

(* The end of a call moves the source's frontier to what it reported.        *)
LEMMA EndBatchStep ==
  ASSUME PipelineInv, EndBatch
  PROVE  PipelineInv'
<1>0. /\ SchedulerIndInv /\ PipelineTypes /\ FrontiersHold /\ NothingEarlier /\ StartsChronological /\ BoundariesHold
      /\ UNCHANGED <<schedulerVars, state, next_job_id, identities, last_started, received, answers, open_from>>
      /\ batch' = {}
  BY DEF PipelineInv, EndBatch, identityVars, observerVars
<1>1. PICK b \in batch :
        frontiers' = IF b.watermark = {} THEN frontiers
                     ELSE [frontiers EXCEPT ![b.source].current = b.watermark,
                                            ![b.source].last = b.watermark]
  BY DEF EndBatch
<1>2. PICK s \in Source, w \in SUBSET Nat : s = b.source /\ w = b.watermark
  BY <1>0 DEF PipelineTypes, Calls
<1>3. /\ frontiers' \in [Source -> FrontierRecords]
      /\ \A t \in Source : /\ frontiers'[t].sealed = frontiers[t].sealed
                           /\ frontiers'[t].current = frontiers[t].current \/ (t = s /\ frontiers'[t].current = w)
  <2>1. frontiers \in [Source -> FrontierRecords] /\ frontiers[s] \in FrontierRecords
    BY <1>0 DEF PipelineTypes
  <2>2. CASE w = {}
    BY <1>1, <1>2, <2>1, <2>2
  <2>3. CASE w # {}
    <3>1. frontiers' = [frontiers EXCEPT ![s] = [frontiers[s] EXCEPT !.current = w, !.last = w]]
      BY <1>1, <1>2, <2>1, <2>3 DEF FrontierRecords
    <3>2. PICK old \in FrontierRecords : old = frontiers[s]
      BY <2>1
    <3>3. /\ [old EXCEPT !.current = w, !.last = w] \in FrontierRecords
          /\ [old EXCEPT !.current = w, !.last = w].current = w
          /\ [old EXCEPT !.current = w, !.last = w].sealed = old.sealed
      BY DEF FrontierRecords
    <3>4. PICK f \in FrontierRecords : f = [frontiers[s] EXCEPT !.current = w, !.last = w]
            /\ f.current = w /\ f.sealed = frontiers[s].sealed
      BY <3>2, <3>3
    <3> QED
      BY <2>1, <3>1, <3>4
  <2> QED
    BY <2>2, <2>3
<1>4. SchedulerIndInv' /\ BacklogCounted' /\ UNCHANGED <<finals, partials>>
  BY <1>0, SchedulerSame, CountSame DEF schedulerVars, queueVars, PipelineInv
<1>5. PipelineTypes'
  BY <1>0, <1>3 DEF PipelineTypes, AtMostOne
<1>6. IdsOwned' /\ FinalsAnsweredOnce'
  BY <1>0, <1>4, IdsSame
<1>7. \A v \in w : v <= open_from[s]
  BY <1>0, <1>2 DEF FrontiersHold
<1>8. FrontiersHold' /\ NothingEarlier' /\ StartsChronological'
  BY <1>0, <1>3, <1>4, <1>7 DEF FrontiersHold, NothingEarlier, StartsChronological
<1>9. BoundariesHold'
  BY <1>0, <1>3, <1>4 DEF BoundariesHold, BoundaryDrained, BothSealed, NoPartials
<1> QED
  BY <1>4, <1>5, <1>6, <1>8, <1>9 DEF PipelineInv

(* The first final starts: neither source can still begin an earlier one.    *)
LEMMA PumpFinalStep ==
  ASSUME PipelineInv, NEW outcome, PumpFinal(outcome)
  PROVE  PipelineInv'
<1>0. /\ SchedulerIndInv /\ PipelineTypes /\ IdsOwned /\ FinalsAnsweredOnce
      /\ FrontiersHold /\ NothingEarlier /\ StartsChronological /\ BoundariesHold
      /\ NextFinalJob /\ FinalReady /\ batch = {}
      /\ UNCHANGED <<frontiers, next_job_id, identities, batch, received, open_from>>
      /\ state' = Settled(finals', BothSealed)
  BY DEF PipelineInv, PumpFinal, identityVars
<1>1. SchedulerIndInv'
  BY <1>0, NextFinalJobStep
<1>2. /\ BacklogCounted'
      /\ Len(finals) > 0 /\ 1 \in DOMAIN finals /\ Head(finals) = finals[1]
      /\ DOMAIN finals' = 1..(Len(finals) - 1)
      /\ \A j \in DOMAIN finals' : j + 1 \in DOMAIN finals /\ finals'[j] = finals[j + 1]
  BY <1>0, ServedCounted DEF PipelineInv
<1>3. /\ DOMAIN finals = 1..Len(finals) /\ \A i \in DOMAIN finals : finals[i] \in Job
  BY <1>0, QueueFacts
<1>4. PICK job \in Job : job = finals[1]
  BY <1>2, <1>3
<1>5. /\ last_started' = {[start_ms |-> job.start_ms, end_ms |-> job.end_ms, job_id |-> job.job_id]}
      /\ answers' = [answers EXCEPT ![job.job_id] = @ + 1]
  BY <1>2, <1>4 DEF PumpFinal
<1>6. PICK k \in Starts : /\ last_started' = {k} /\ k.start_ms = job.start_ms /\ k.end_ms = job.end_ms
                          /\ k.job_id = job.job_id
  <2>1. [start_ms |-> job.start_ms, end_ms |-> job.end_ms, job_id |-> job.job_id] \in Starts
    BY DEF Starts, Job
  <2> QED
    BY <1>5, <2>1
<1>7. /\ partials' \in [Source -> SUBSET Job]
      /\ \A s \in Source : partials'[s] \subseteq partials[s]
  <2>1. partials \in [Source -> SUBSET Job] /\ (partials' = NoPartials \/ partials' = partials)
    BY <1>0 DEF SchedulerIndInv, SchedulerTypeOK, NextFinalJob, UpdatePartialMode
  <2> QED
    BY <2>1 DEF NoPartials
<1>8. /\ state' \in PipelineState
      /\ state' = state \/ (finals' = <<>> /\ BothSealed /\ state # "Running" /\ state' \in {"Paused", "Stopped"})
  BY <1>0, SettledFacts DEF PipelineTypes
<1>9. PipelineTypes'
  <2>1. answers' \in [JobIds -> Nat]
    <3>1. answers \in [JobIds -> Nat] /\ job.job_id \in JobIds /\ answers[job.job_id] + 1 \in Nat
      BY <1>0, <1>4 DEF PipelineTypes, Job
    <3> QED
      BY <1>5, <3>1
  <2>2. last_started' \in SUBSET Starts
    BY <1>6
  <2> QED
    BY <1>0, <1>8, <2>1, <2>2 DEF PipelineTypes
<1>10. IdsOwned'
  BY <1>0, <1>2, <1>7 DEF IdsOwned
<1>11. FinalsAnsweredOnce'
  <2>1. \A i \in DOMAIN finals : i # 1 => \E j \in DOMAIN finals' : finals'[j] = finals[i]
    <3> SUFFICES ASSUME NEW i \in DOMAIN finals, i # 1 PROVE \E j \in DOMAIN finals' : finals'[j] = finals[i]
      OBVIOUS
    <3>1. i - 1 \in DOMAIN finals' /\ (i - 1) + 1 = i
      BY <1>2, <1>3
    <3> QED
      BY <1>2, <3>1
  <2>2. \A j \in DOMAIN finals' : finals'[j].job_id # job.job_id
    <3> SUFFICES ASSUME NEW j \in DOMAIN finals' PROVE finals'[j].job_id # job.job_id
      OBVIOUS
    <3>1. j + 1 # 1 /\ j + 1 \in DOMAIN finals /\ finals'[j] = finals[j + 1]
      BY <1>2
    <3> QED
      BY <1>0, <1>2, <1>4, <3>1 DEF SchedulerIndInv, PendingIdsUnique
  <2>3. \A id \in JobIds : QueuedFinal(id)' <=> QueuedFinal(id) /\ id # job.job_id
    BY <1>2, <1>4, <2>1, <2>2 DEF QueuedFinal
  <2>4. QueuedFinal(job.job_id) /\ job.job_id \in received /\ job.job_id \in JobIds
    BY <1>0, <1>2, <1>4 DEF QueuedFinal, IdsOwned, Job
  <2>5. answers[job.job_id] = 0 /\ answers \in [JobIds -> Nat]
    BY <1>0, <2>4 DEF FinalsAnsweredOnce, PipelineTypes
  <2>6. /\ answers'[job.job_id] = 1
        /\ \A id \in JobIds : id # job.job_id => answers'[id] = answers[id]
    BY <1>5, <2>4, <2>5
  <2> QED
    BY <1>0, <2>3, <2>4, <2>6 DEF FinalsAnsweredOnce
<1>12. FrontiersHold'
  BY <1>0, <1>2 DEF FrontiersHold
<1>13. NothingEarlier'
  <2>1. job.start_ms < open_from[job.source] /\ job.source \in Source
    BY <1>0, <1>2, <1>4 DEF FrontiersHold, Job
  <2>2. ASSUME NEW s \in Source PROVE frontiers[s].sealed \/ job.start_ms < open_from[s]
    <3>1. CASE frontiers[s].sealed
      BY <3>1
    <3>2. CASE ~frontiers[s].sealed
      <4>1. PICK w \in frontiers[s].current : job.start_ms < w
        BY <1>0, <1>2, <1>4, <3>2 DEF FinalReady
      <4>2. w <= open_from[s] /\ w \in Nat /\ open_from[s] \in Nat /\ job.start_ms \in Nat
        BY <1>0 DEF FrontiersHold, PipelineTypes, FrontierRecords, Job
      <4> QED
        BY <4>1, <4>2
    <3> QED
      BY <3>1, <3>2
  <2> QED
    BY <1>0, <1>6, <2>1, <2>2 DEF NothingEarlier
<1>14. StartsChronological'
  <2> SUFFICES ASSUME NEW j \in DOMAIN finals'
               PROVE  \/ k.start_ms < finals'[j].start_ms
                      \/ k.start_ms = finals'[j].start_ms /\ k.end_ms <= finals'[j].end_ms
    BY <1>6 DEF StartsChronological
  <2>1. j + 1 \in DOMAIN finals /\ 1 < j + 1 /\ finals'[j] = finals[j + 1]
    BY <1>2
  <2>2. Precedes(job, finals'[j]) /\ finals'[j] \in Job
    BY <1>0, <1>2, <1>3, <1>4, <2>1 DEF SchedulerIndInv, FinalsChronological
  <2> QED
    BY <1>6, <2>2 DEF Precedes, Job
<1>15. BoundariesHold'
  <2>1. finals # <<>> /\ state \notin {"Paused", "Stopped", "Cancelled"}
    BY <1>0 DEF NextFinalJob, BoundariesHold, BoundaryDrained
  <2>2. state # "Running" => partials' = NoPartials
    BY <1>0, <1>7 DEF BoundariesHold, NoPartials
  <2> QED
    BY <1>0, <1>8, <2>1, <2>2 DEF BoundariesHold, BoundaryDrained, BothSealed, NoPartials
<1> QED
  BY <1>1, <1>2, <1>9, <1>10, <1>11, <1>12, <1>13, <1>14, <1>15 DEF PipelineInv

(* A pump that serves a partial.                                             *)
LEMMA PumpPartialStep ==
  ASSUME PipelineInv, NEW s \in Source, NEW succeeds \in BOOLEAN, PumpPartial(s, succeeds)
  PROVE  PipelineInv'
<1>0. /\ SchedulerIndInv /\ PipelineTypes /\ BoundariesHold /\ NextPartialJob(s) /\ state = "Running"
      /\ UNCHANGED <<state, frontiers, next_job_id, identities, last_started, batch, received, answers, open_from>>
  BY DEF PipelineInv, PumpPartial, lifecycleVars, identityVars, observerVars
<1>1. SchedulerIndInv'
  BY <1>0, NextPartialJobStep
<1>2. /\ UNCHANGED queueVars /\ finals' = finals
      /\ \A t \in Source : partials'[t] \subseteq partials[t]
  BY <1>0 DEF NextPartialJob, queueVars, SchedulerIndInv, SchedulerTypeOK
<1>3. PipelineTypes' /\ BoundariesHold'
  BY <1>0 DEF PipelineTypes, BoundariesHold, BoundaryDrained
<1> QED
  BY <1>0, <1>1, <1>2, <1>3, IdsSame, OrderSame, CountSame DEF PipelineInv, queueVars

(* A pump that finds nothing to do.                                          *)
LEMMA PumpNothingStep ==
  ASSUME PipelineInv, PumpNothing
  PROVE  PipelineInv'
<1>0. /\ SchedulerIndInv /\ PipelineTypes /\ BoundariesHold /\ batch = {}
      /\ UNCHANGED <<schedulerVars, frontiers, next_job_id, identities, last_started, batch, received,
                     answers, open_from>>
      /\ state' = Settled(finals, BothSealed)
  BY DEF PipelineInv, PumpNothing, identityVars, observerVars
<1>1. SchedulerIndInv' /\ UNCHANGED <<finals, partials, queued_final_speech_ms, queued_final_samples>>
  BY <1>0, SchedulerSame DEF schedulerVars
<1>2. /\ state' \in PipelineState
      /\ state' = state \/ (finals = <<>> /\ BothSealed /\ state # "Running" /\ state' \in {"Paused", "Stopped"})
  BY <1>0, SettledFacts DEF PipelineTypes
<1>3. PipelineTypes' /\ BoundariesHold'
  BY <1>0, <1>1, <1>2 DEF PipelineTypes, BoundariesHold, BoundaryDrained, BothSealed, NoPartials
<1> QED
  BY <1>0, <1>1, <1>3, IdsSame, OrderSame, CountSame DEF PipelineInv, queueVars

-----------------------------------------------------------------------------
(* The lifecycle of a run.                                                   *)

LEMMA DiscardedPartials ==
  ASSUME SchedulerIndInv, DiscardProvisional
  PROVE  /\ SchedulerIndInv' /\ UNCHANGED <<finals, queued_final_speech_ms, queued_final_samples>>
         /\ partials' = NoPartials /\ identities' = [s \in Source |-> {}]
<1>1. SchedulerIndInv'
  BY DiscardPartialsStep, SchedulerSame DEF DiscardProvisional
<1> QED
  BY <1>1 DEF DiscardProvisional, DiscardPartials, queueVars, schedulerVars

(* Beginning to pause.                                                       *)
LEMMA BeginPauseStep ==
  ASSUME PipelineInv, BeginPause
  PROVE  PipelineInv'
<1>0. /\ SchedulerIndInv /\ PipelineTypes /\ BoundariesHold /\ batch = {} /\ state' = "Pausing"
      /\ UNCHANGED <<frontiers, next_job_id, last_started, batch, received, answers, open_from>>
  BY DEF PipelineInv, BeginPause, observerVars
<1>1. /\ SchedulerIndInv' /\ UNCHANGED <<finals, queued_final_speech_ms, queued_final_samples>>
      /\ partials' = NoPartials /\ identities' = [s \in Source |-> {}]
  BY <1>0, DiscardedPartials DEF BeginPause
<1>2. PipelineTypes'
  BY <1>0, <1>1 DEF PipelineTypes, PipelineState, AtMostOne
<1>3. BoundariesHold'
  BY <1>0, <1>1 DEF BoundariesHold, BoundaryDrained, NoPartials
<1> QED
  BY <1>0, <1>1, <1>2, <1>3, IdsDropped, OrderSame, CountSame DEF PipelineInv, queueVars

(* Beginning to stop.                                                        *)
LEMMA BeginStopStep ==
  ASSUME PipelineInv, BeginStop
  PROVE  PipelineInv'
<1>0. /\ SchedulerIndInv /\ PipelineTypes /\ BoundariesHold /\ batch = {}
      /\ UNCHANGED <<frontiers, next_job_id, last_started, batch, received, answers, open_from>>
  BY DEF PipelineInv, BeginStop, observerVars
<1>1. CASE state = "Running" /\ state' = "Stopping" /\ DiscardProvisional
  <2>1. /\ SchedulerIndInv' /\ UNCHANGED <<finals, queued_final_speech_ms, queued_final_samples>>
        /\ partials' = NoPartials /\ identities' = [s \in Source |-> {}]
    BY <1>0, <1>1, DiscardedPartials
  <2>2. PipelineTypes'
    BY <1>0, <1>1, <2>1 DEF PipelineTypes, PipelineState, AtMostOne
  <2>3. BoundariesHold'
    BY <1>0, <1>1, <2>1 DEF BoundariesHold, BoundaryDrained, NoPartials
  <2> QED
    BY <1>0, <2>1, <2>2, <2>3, IdsDropped, OrderSame, CountSame DEF PipelineInv, queueVars
<1>2. CASE state = "Paused" /\ state' = "Stopped" /\ UNCHANGED <<schedulerVars, identities>>
  <2>1. SchedulerIndInv' /\ UNCHANGED <<finals, partials, queued_final_speech_ms, queued_final_samples>>
    BY <1>0, <1>2, SchedulerSame DEF schedulerVars
  <2>2. PipelineTypes'
    BY <1>0, <1>2 DEF PipelineTypes, PipelineState
  <2>3. BoundariesHold'
    BY <1>0, <1>2, <2>1 DEF BoundariesHold, BoundaryDrained, BothSealed, NoPartials
  <2> QED
    BY <1>0, <1>2, <2>1, <2>2, <2>3, IdsSame, OrderSame, CountSame DEF PipelineInv, queueVars
<1> QED
  BY <1>1, <1>2 DEF BeginStop

(* A resumed run begins where both timelines have passed all that started.   *)
LEMMA ResumeStep ==
  ASSUME PipelineInv, Resume
  PROVE  PipelineInv'
<1>0. /\ SchedulerIndInv /\ PipelineTypes /\ NothingEarlier /\ BoundariesHold /\ batch = {} /\ batch' = {}
      /\ finals = <<>> /\ state' = "Running"
      /\ UNCHANGED <<schedulerVars, next_job_id, identities, last_started, received, answers>>
      /\ frontiers' = [s \in Source |-> [frontiers[s] EXCEPT !.current = {}, !.sealed = FALSE]]
  BY DEF PipelineInv, Resume, identityVars
<1>1. SchedulerIndInv' /\ UNCHANGED <<finals, partials, queued_final_speech_ms, queued_final_samples>> /\ DOMAIN finals' = {}
  <2>1. SchedulerIndInv' /\ UNCHANGED <<finals, partials, queued_final_speech_ms, queued_final_samples>>
    BY <1>0, SchedulerSame DEF schedulerVars
  <2>2. finals' = <<>>
    BY <1>0, <2>1
  <2> QED
    BY <2>1, <2>2
<1>2. PICK latest \in {open_from[s] : s \in Source} :
        (\A s \in Source : open_from[s] <= latest) /\ open_from' = [s \in Source |-> latest]
  BY DEF Resume
<1>3. /\ latest \in Nat /\ open_from' \in [Source -> Nat]
      /\ \A s \in Source : open_from[s] \in Nat /\ open_from[s] <= latest /\ open_from'[s] = latest
  BY <1>0, <1>2 DEF PipelineTypes
<1>4. /\ frontiers' \in [Source -> FrontierRecords]
      /\ \A s \in Source : frontiers'[s].current = {}
  <2>1. \A s \in Source : [frontiers[s] EXCEPT !.current = {}, !.sealed = FALSE] \in FrontierRecords
          /\ [frontiers[s] EXCEPT !.current = {}, !.sealed = FALSE].current = {}
    BY <1>0 DEF PipelineTypes, FrontierRecords
  <2> QED
    BY <1>0, <2>1
<1>5. PipelineTypes'
  BY <1>0, <1>3, <1>4 DEF PipelineTypes, PipelineState, AtMostOne
<1>6. FrontiersHold' /\ StartsChronological'
  BY <1>0, <1>1, <1>4 DEF FrontiersHold, StartsChronological
<1>7. NothingEarlier'
  <2>1. ASSUME NEW k \in last_started, NEW s \in Source PROVE k.start_ms < open_from'[s]
    <3>1. PICK t \in Source : k.start_ms < open_from[t]
      BY <1>0, <2>1 DEF NothingEarlier
    <3>2. k.start_ms \in Nat
      BY <1>0 DEF PipelineTypes, Starts
    <3> QED
      BY <1>3, <3>1, <3>2
  <2> QED
    BY <1>0, <2>1 DEF NothingEarlier, Source
<1>8. BoundariesHold'
  BY <1>0 DEF BoundariesHold, BoundaryDrained
<1> QED
  BY <1>0, <1>1, <1>5, <1>6, <1>7, <1>8, IdsSame, CountSame DEF PipelineInv, queueVars

(* Sealing a source, which may reach the boundary.                           *)
LEMMA SealSourceStep ==
  ASSUME PipelineInv, NEW s \in Source, SealSource(s)
  PROVE  PipelineInv'
<1>0. /\ SchedulerIndInv /\ PipelineTypes /\ FrontiersHold /\ NothingEarlier /\ StartsChronological
      /\ BoundariesHold /\ batch = {}
      /\ UNCHANGED <<schedulerVars, next_job_id, identities, last_started, batch, received, answers, open_from>>
      /\ frontiers' = [frontiers EXCEPT ![s].sealed = TRUE, ![s].current = {}]
      /\ state' = Settled(finals, \A t \in Source \ {s} : frontiers[t].sealed)
      /\ state \in {"Pausing", "Stopping"}
  BY DEF PipelineInv, SealSource, SealRefused, identityVars, observerVars
<1>1. SchedulerIndInv' /\ UNCHANGED <<finals, partials, queued_final_speech_ms, queued_final_samples>>
  BY <1>0, SchedulerSame DEF schedulerVars
<1>2. /\ frontiers' \in [Source -> FrontierRecords]
      /\ frontiers'[s].current = {} /\ frontiers'[s].sealed
      /\ \A t \in Source : t # s => frontiers'[t] = frontiers[t]
  <2>1. frontiers \in [Source -> FrontierRecords] /\ frontiers[s] \in FrontierRecords
    BY <1>0 DEF PipelineTypes
  <2>2. frontiers' = [frontiers EXCEPT ![s] = [frontiers[s] EXCEPT !.sealed = TRUE, !.current = {}]]
    BY <1>0, <2>1 DEF FrontierRecords
  <2>3. PICK old \in FrontierRecords : old = frontiers[s]
    BY <2>1
  <2>4. /\ [old EXCEPT !.sealed = TRUE, !.current = {}] \in FrontierRecords
        /\ [old EXCEPT !.sealed = TRUE, !.current = {}].current = {}
        /\ [old EXCEPT !.sealed = TRUE, !.current = {}].sealed
    BY DEF FrontierRecords
  <2>5. PICK f \in FrontierRecords : f = [frontiers[s] EXCEPT !.sealed = TRUE, !.current = {}]
          /\ f.current = {} /\ f.sealed
    BY <2>3, <2>4
  <2> QED
    BY <2>1, <2>2, <2>5
<1>3. /\ state' \in PipelineState
      /\ \/ state' = state
         \/ /\ finals = <<>> /\ \A t \in Source \ {s} : frontiers[t].sealed
            /\ state' \in {"Paused", "Stopped"}
  <2>1. /\ state \in {"Pausing", "Stopping"}
        /\ state' = Settled(finals, \A t \in Source \ {s} : frontiers[t].sealed)
    BY <1>0
  <2> QED
    BY <2>1 DEF Settled, PipelineState
<1>4. PipelineTypes'
  BY <1>0, <1>2, <1>3 DEF PipelineTypes
<1>5. FrontiersHold' /\ NothingEarlier' /\ StartsChronological'
  BY <1>0, <1>1, <1>2 DEF FrontiersHold, NothingEarlier, StartsChronological
<1>6. BoundariesHold'
  BY <1>0, <1>1, <1>2, <1>3 DEF BoundariesHold, BoundaryDrained, BothSealed, NoPartials
<1> QED
  BY <1>0, <1>1, <1>4, <1>5, <1>6, IdsSame, CountSame DEF PipelineInv, queueVars

(* Cancellation answers every queued final with a gap and empties the        *)
(* scheduler, whose partial mode follows the backlog that it had.            *)
LEMMA CancelPendingStep ==
  ASSUME PipelineInv, CancelPending
  PROVE  PipelineInv'
<1>0. /\ SchedulerIndInv /\ BacklogCounted /\ PipelineTypes /\ IdsOwned /\ FinalsAnsweredOnce
      /\ FrontiersHold /\ NothingEarlier /\ BoundariesHold
      /\ batch = {} /\ batch' = {} /\ state' = "Cancelled"
      /\ finals' = <<>> /\ queued_final_speech_ms' = 0 /\ queued_final_samples' = 0
      /\ partials' = NoPartials
      /\ partials_enabled' = IF finals = <<>> THEN partials_enabled ELSE PartialsAllowed(0)
      /\ ObserveSlots
      /\ identities' = [s \in Source |-> {}]
      /\ frontiers' = [s \in Source |-> [frontiers[s] EXCEPT !.sealed = TRUE, !.current = {}]]
      /\ UNCHANGED <<next_partial_source, next_sequence, next_job_id, last_started, received, open_from>>
  BY DEF PipelineInv, CancelPending
<1>1. DOMAIN finals' = {} /\ Len(finals') = 0 /\ finals' \in Seq(Job)
  <2>1. finals' = <<>>
    BY DEF CancelPending
  <2> QED
    BY <2>1
<1>2. passed_over' = [s \in Source |-> 0]
  BY <1>0 DEF ObserveSlots, NoPartials
<1>3. SchedulerTypeOK'
  <2>1. partials_enabled' \in BOOLEAN
    BY <1>0, Zenon DEF SchedulerIndInv, SchedulerTypeOK, PartialsAllowed
  <2> QED
    BY <1>0, <1>1, <1>2, <2>1 DEF SchedulerIndInv, SchedulerTypeOK, NoPartials
<1>4. PartialHysteresis'
  <2>1. CASE finals = <<>>
    <3>1. DOMAIN finals = {}
      BY <2>1
    <3>2. queued_final_speech_ms = 0
      BY <1>0, <3>1, EmptyCounted
    <3>3. (partials_enabled' <=> partials_enabled) /\ queued_final_speech_ms' = queued_final_speech_ms
      BY <1>0, <2>1, <3>2
    <3> QED
      BY <1>0, <3>3 DEF SchedulerIndInv, PartialHysteresis, NoPartials
  <2>2. CASE finals # <<>>
    <3>1. partials_enabled' <=> PartialsAllowed(0)
      BY <1>0, <2>2
    <3>2. CASE partials_enabled
      <4>1. partials_enabled'
        BY <3>1, <3>2, SchedulerAssumption DEF PartialsAllowed
      <4> QED
        BY <1>0, <4>1, SchedulerAssumption DEF PartialHysteresis
    <3>3. CASE ~partials_enabled
      <4>1. partials_enabled' <=> 0 < RestoreSpeechMs
        BY <3>1, <3>3 DEF PartialsAllowed
      <4>2. partials' = NoPartials' /\ queued_final_speech_ms' = 0
        BY <1>0 DEF NoPartials
      <4>3. 0 < DisableSpeechMs /\ (~partials_enabled' => 0 >= RestoreSpeechMs)
        BY <4>1, SchedulerAssumption
      <4> QED
        BY <4>2, <4>3 DEF PartialHysteresis
    <3> QED
      BY <3>2, <3>3
  <2> QED
    BY <2>1, <2>2
<1>5. SchedulerIndInv'
  <2>1. BacklogBounded'
    <3>1. MaxSamples \in Nat /\ MaxJobs \in Nat /\ MaxSpeechMs \in Nat
      BY SchedulerAssumption DEF MaxSamples
    <3>2. Len(finals') = 0 /\ queued_final_speech_ms' = 0 /\ queued_final_samples' = 0
      BY <1>0, <1>1
    <3>3. Len(finals') <= MaxJobs /\ queued_final_speech_ms' <= MaxSpeechMs /\ queued_final_samples' <= MaxSamples
      BY <3>1, <3>2
    <3> QED
      BY <3>3 DEF BacklogBounded, MaxSamples
  <2>2. FinalsChronological' /\ SequencesFresh' /\ PendingIdsUnique'
    BY <1>0, <1>1 DEF FinalsChronological, SequencesFresh, PendingIdsUnique, NoPartials
  <2>3. PartialsShareTheWorker' /\ CursorFavoursThePassedOver'
    BY <1>2 DEF PartialsShareTheWorker, CursorFavoursThePassedOver
  <2> QED
    BY <1>3, <1>4, <2>1, <2>2, <2>3 DEF SchedulerIndInv
<1>6. BacklogCounted'
  <2>1. SpeechOf(QueuedJobs)' = {} /\ SamplesOf(QueuedJobs)' = {}
    BY <1>1 DEF QueuedJobs, SpeechOf, SamplesOf
  <2> QED
    BY <1>0, <2>1, FS_EmptySet DEF BacklogCounted, BacklogAccounted
<1>7. /\ frontiers' \in [Source -> FrontierRecords]
      /\ \A s \in Source : frontiers'[s].current = {} /\ frontiers'[s].sealed
  <2>1. \A s \in Source : [frontiers[s] EXCEPT !.sealed = TRUE, !.current = {}] \in FrontierRecords
          /\ [frontiers[s] EXCEPT !.sealed = TRUE, !.current = {}].current = {}
          /\ [frontiers[s] EXCEPT !.sealed = TRUE, !.current = {}].sealed
    BY <1>0 DEF PipelineTypes, FrontierRecords
  <2> QED
    BY <1>0, <2>1
<1>8. answers' = [id \in JobIds |-> IF QueuedFinal(id) THEN answers[id] + 1 ELSE answers[id]]
  BY DEF CancelPending
<1>9. PipelineTypes'
  <2>1. answers' \in [JobIds -> Nat]
    <3>1. answers \in [JobIds -> Nat]
      BY <1>0 DEF PipelineTypes
    <3> QED
      BY <1>8, <3>1
  <2> QED
    BY <1>0, <1>7, <2>1 DEF PipelineTypes, PipelineState, AtMostOne
<1>10. IdsOwned'
  BY <1>0, <1>1, OtherSource DEF IdsOwned, NoPartials
<1>11. FinalsAnsweredOnce'
  <2>1. \A id \in JobIds : ~QueuedFinal(id)' /\ (QueuedFinal(id) => id \in received)
    BY <1>0, <1>1 DEF QueuedFinal, IdsOwned
  <2>2. \A id \in JobIds : answers'[id] = IF QueuedFinal(id) THEN answers[id] + 1 ELSE answers[id]
    BY <1>8
  <2>3. \A id \in JobIds : answers[id] = IF id \in received /\ ~QueuedFinal(id) THEN 1 ELSE 0
    BY <1>0 DEF FinalsAnsweredOnce
  <2>4. \A id \in JobIds : answers'[id] = IF id \in received THEN 1 ELSE 0
    <3> SUFFICES ASSUME NEW id \in JobIds PROVE answers'[id] = IF id \in received THEN 1 ELSE 0
      OBVIOUS
    <3>1. CASE QueuedFinal(id)
      BY <2>1, <2>2, <2>3, <3>1
    <3>2. CASE ~QueuedFinal(id)
      BY <2>2, <2>3, <3>2
    <3> QED
      BY <3>1, <3>2
  <2> QED
    BY <1>0, <2>1, <2>4 DEF FinalsAnsweredOnce
<1>12. FrontiersHold' /\ NothingEarlier' /\ StartsChronological'
  BY <1>0, <1>1, <1>7 DEF FrontiersHold, NothingEarlier, StartsChronological
<1>13. BoundariesHold'
  BY <1>0, <1>7 DEF BoundariesHold, BoundaryDrained, BothSealed, NoPartials
<1> QED
  BY <1>5, <1>6, <1>9, <1>10, <1>11, <1>12, <1>13 DEF PipelineInv

-----------------------------------------------------------------------------
(* Every step of the pipeline keeps its invariant.                           *)
LEMMA PipelineNextHolds ==
  ASSUME PipelineInv, [PipelineNext]_pipelineVars
  PROVE  PipelineInv'
<1>1. ASSUME NEW s \in Source, NEW r \in PartialRequests, SubmitSnapshot(s, r) PROVE PipelineInv'
  BY <1>1, SubmitSnapshotStep, SchedulerAssumption
<1>2. ASSUME NEW s \in Source, NEW u \in Batches, NEW w \in {{}} \cup {{v} : v \in Watermarks},
             Segmented(s, u, w), BeginBatch(s, u, w)
      PROVE  PipelineInv'
  <2>1. u \in Seq(FinalRequests) /\ w \in SUBSET Nat /\ \A v \in w : w = {v}
    BY PipelineAssumption DEF Batches
  <2>2. u \in Seq(Request)
    BY <2>1, SchedulerAssumption
  <2> QED
    BY <1>2, <2>1, <2>2, BeginBatchStep
<1>3. CASE SubmitUtterance \/ EndBatch \/ PumpNothing \/ BeginPause \/ Resume \/ BeginStop \/ CancelPending
  BY <1>3, SubmitUtteranceStep, EndBatchStep, PumpNothingStep, BeginPauseStep, ResumeStep, BeginStopStep,
     CancelPendingStep
<1>4. ASSUME NEW outcome \in {"final", "gap"}, PumpFinal(outcome) PROVE PipelineInv'
  BY <1>4, PumpFinalStep
<1>5. ASSUME NEW s \in Source, NEW succeeds \in BOOLEAN, PumpPartial(s, succeeds) PROVE PipelineInv'
  BY <1>5, PumpPartialStep
<1>6. ASSUME NEW s \in Source, SealSource(s) PROVE PipelineInv'
  BY <1>6, SealSourceStep
<1>7. CASE UNCHANGED pipelineVars
  BY <1>7, PipelineSame DEF pipelineVars
<1> QED
  BY <1>1, <1>2, <1>3, <1>4, <1>5, <1>6, <1>7 DEF PipelineNext

(* The inductive invariant of the pipeline: the scheduler's, the owners of   *)
(* the identifiers, the frontiers and the boundaries.                        *)
THEOREM PipelineInvariant == PipelineSpec => []PipelineInv
BY PipelineInitHolds, PipelineNextHolds, PTL DEF PipelineSpec

(* Every final is queued or was answered by exactly one result or gap,       *)
(* whatever the order of overload, failures, cancellation and lifecycle      *)
(* calls.                                                                    *)
THEOREM FinalsAreAnsweredOnce == PipelineSpec => []FinalsAnsweredOnce
<1>1. PipelineInv => FinalsAnsweredOnce
  BY DEF PipelineInv
<1> QED
  BY <1>1, PipelineInvariant, PTL

(* Inference starts in the order of the meeting: a slow source is never      *)
(* overtaken, across batches, pauses and resumptions.                        *)
THEOREM FinalsStartInOrder == PipelineSpec => []StartsChronological
<1>1. PipelineInv => StartsChronological
  BY DEF PipelineInv
<1> QED
  BY <1>1, PipelineInvariant, PTL

(* The pipeline, cancellation included, leaves the scheduler fair to the     *)
(* partials of both sources.                                                 *)
THEOREM PipelineSharesTheWorker == PipelineSpec => []PartialsShareTheWorker
<1>1. PipelineInv => PartialsShareTheWorker
  BY DEF PipelineInv, SchedulerIndInv
<1> QED
  BY <1>1, PipelineInvariant, PTL

(* No partial waits or can be created again for an utterance whose final was *)
(* taken.                                                                    *)
THEOREM FinalsSupersede == PipelineSpec => []FinalSupersedesPartial
<1>1. PipelineInv => FinalSupersedesPartial
  BY DEF PipelineInv, IdsOwned, FinalSupersedesPartial
<1> QED
  BY <1>1, PipelineInvariant, PTL

(* The counters that are compared with the ceilings are the speech and the   *)
(* samples really queued, through overload, service and cancellation; so the *)
(* saturating subtractions of next_final_job never saturate.                 *)
THEOREM BacklogIsAccounted == PipelineSpec => []BacklogAccounted
<1>1. PipelineInv => BacklogAccounted
  BY DEF PipelineInv, BacklogCounted
<1> QED
  BY <1>1, PipelineInvariant, PTL

(* A run that reports paused, stopped or cancelled has nothing left to do.   *)
THEOREM BoundariesAreDrained == PipelineSpec => []BoundaryDrained
<1>1. PipelineInv => BoundaryDrained
  BY DEF PipelineInv, BoundariesHold
<1> QED
  BY <1>1, PipelineInvariant, PTL

-----------------------------------------------------------------------------
(* The run: the pipeline between the threads and queues around it.           *)

Updates ==
  [source : Source, partial : SUBSET Request, utterances : Seq(Request), watermark : SUBSET Nat,
   terminal : BOOLEAN]

Feeds == [clock : Nat, open : SUBSET Nat, thread : {"running", "finished", "lost"}]

LiveTypes ==
  /\ feed \in [Source -> Feeds]
  /\ \A s \in Source : AtMostOne(feed[s].open) /\ \A b \in feed[s].open : b < feed[s].clock
  /\ updates \in Seq(Updates) /\ update \in SUBSET Updates /\ AtMostOne(update)

(* Where the segmenter is after an update: its watermark, or the end of the  *)
(* last utterance of a flush.                                                *)
Ends(u) ==
  IF u.watermark # {} THEN u.watermark ELSE {u.utterances[i].end_ms : i \in DOMAIN u.utterances}

(* An update of a chunk: one utterance at most, past it the watermark.       *)
Chunk(u) ==
  /\ \A w \in u.watermark : u.watermark = {w}
  /\ \A i \in DOMAIN u.utterances : i = 1 /\ \A w \in u.watermark : u.utterances[i].start_ms < w

(* Nothing in the update, nor what the source may still begin, is before t.  *)
NotBefore(u, t) ==
  (\A w \in u.watermark : t <= w) /\ \A i \in DOMAIN u.utterances : t <= u.utterances[i].start_ms

Reached(s, t) == t <= feed[s].clock /\ \A b \in feed[s].open : t <= b

InHand == IF pc \in {"snapshot", "batch"} THEN update ELSE {}

Queued == {updates[i] : i \in DOMAIN updates}

(* The updates of a source reach the pipeline in the order of its audio:     *)
(* the pipeline, the update in hand, the queue and the source's clock.       *)
UpdatesInOrder ==
  /\ \A u \in InHand \cup Queued : Chunk(u) /\ NotBefore(u, open_from[u.source])
  /\ \A u \in InHand : \A j \in DOMAIN updates :
       updates[j].source = u.source => \A t \in Ends(u) : NotBefore(updates[j], t)
  /\ \A i, j \in DOMAIN updates :
       i < j /\ updates[i].source = updates[j].source =>
         \A t \in Ends(updates[i]) : NotBefore(updates[j], t)
  /\ \A s \in Source : feed[s].thread = "running" =>
       /\ Reached(s, open_from[s])
       /\ \A u \in InHand \cup Queued : u.source = s => \A t \in Ends(u) : Reached(s, t)

Events == [kind : {"final", "gap", "partial"}, job_id : JobIds]

Answer(event, id) == event.job_id = id /\ event.kind # "partial"

(* Where the coordinator may hold events that it has not sent.               *)
HeldWhileSending == returned # <<>> => pc \in {"submit", "terminal", "pump", "drain", "ending"}

EventTypes ==
  /\ output \in Seq(Events) /\ returned \in Seq(Events)
  /\ screen \in [JobIds -> {"nothing", "partial", "answered"}] /\ deliveries \in [JobIds -> Nat]
  /\ HeldWhileSending
  /\ \A id \in JobIds : screen[id] = "answered" => deliveries[id] > 0

(* No answer of an utterance is ahead of one of its partials.                *)
PartialsFirst ==
  /\ \A j \in DOMAIN output : output[j].kind = "partial" =>
       /\ deliveries[output[j].job_id] = 0
       /\ \A i \in 1 .. (j - 1) : ~Answer(output[i], output[j].job_id)
  /\ \A j \in DOMAIN returned : returned[j].kind = "partial" =>
       /\ deliveries[returned[j].job_id] = 0
       /\ \A i \in DOMAIN output : ~Answer(output[i], returned[j].job_id)
       /\ \A i \in 1 .. (j - 1) : ~Answer(returned[i], returned[j].job_id)

EventsInv == EventTypes /\ EventsConserved /\ PartialsFirst

LiveInv == PipelineInv /\ LiveTypes /\ UpdatesInOrder /\ EventsInv

(* The answers of an utterance among events, as Count counts them.           *)
Answers(id, events) == {i \in DOMAIN events : Answer(events[i], id)}

(* The events that answer a final can be counted, and none means zero.       *)
LEMMA CountIs ==
  ASSUME NEW id, NEW events \in Seq(Events)
  PROVE  /\ IsFiniteSet(Answers(id, events)) /\ Count(id, events) = Cardinality(Answers(id, events))
         /\ Count(id, events) \in Nat
         /\ Count(id, events) = 0 <=> \A i \in DOMAIN events : ~Answer(events[i], id)
<1>1. IsFiniteSet(1..Len(events)) /\ DOMAIN events = 1..Len(events)
  BY FS_Interval, LenProperties
<1>2. IsFiniteSet(Answers(id, events))
  BY <1>1, FS_Subset DEF Answers
<1>3. Count(id, events) = Cardinality(Answers(id, events))
  BY DEF Count, Answers, Answer
<1>4. Cardinality(Answers(id, events)) \in Nat
  BY <1>2, FS_CardinalityType
<1>5. Cardinality(Answers(id, events)) = 0 <=> Answers(id, events) = {}
  BY <1>2, FS_EmptySet
<1> QED
  BY <1>2, <1>3, <1>4, <1>5 DEF Answers

(* No events answer nothing.                                                 *)
LEMMA CountEmpty == \A id : Count(id, <<>>) = 0
<1> SUFFICES ASSUME NEW id PROVE Count(id, <<>>) = 0
  OBVIOUS
<1>1. <<>> \in Seq(Events) /\ \A i \in DOMAIN <<>> : ~Answer(<<>>[i], id)
  OBVIOUS
<1> QED
  BY <1>1, CountIs

(* What one event adds to the answers, at either end of a sequence.          *)
Weight(id, event) == IF Answer(event, id) THEN 1 ELSE 0

(* An event that is appended adds one to the count of the final it answers.  *)
LEMMA CountAppend ==
  ASSUME NEW id, NEW events \in Seq(Events), NEW event \in Events
  PROVE  /\ Append(events, event) \in Seq(Events)
         /\ DOMAIN Append(events, event) = 1..(Len(events) + 1)
         /\ \A i \in 1..Len(events) : Append(events, event)[i] = events[i]
         /\ Append(events, event)[Len(events) + 1] = event
         /\ Count(id, Append(events, event)) = Count(id, events) + Weight(id, event)
<1> DEFINE longer == Append(events, event)
<1>1. /\ longer \in Seq(Events) /\ Len(longer) = Len(events) + 1
      /\ \A i \in 1..Len(events) : longer[i] = events[i]
      /\ longer[Len(events) + 1] = event
  BY AppendProperties
<1>2. Len(events) \in Nat /\ DOMAIN events = 1..Len(events)
  BY LenProperties
<1>3. DOMAIN longer = 1..(Len(events) + 1)
  <2> HIDE DEF longer
  <2> QED
    BY <1>1, LenProperties
<1> HIDE DEF longer
<1>4. IsFiniteSet(Answers(id, events)) /\ Count(id, events) = Cardinality(Answers(id, events))
  BY CountIs
<1>5. Count(id, longer) = Cardinality(Answers(id, longer))
  BY <1>1, CountIs
<1>6. CASE Answer(event, id)
  <2>1. Answers(id, longer) = Answers(id, events) \cup {Len(events) + 1}
    BY <1>1, <1>2, <1>3, <1>6 DEF Answers
  <2>2. Len(events) + 1 \notin Answers(id, events)
    BY <1>2 DEF Answers
  <2>3. Cardinality(Answers(id, longer)) = Cardinality(Answers(id, events)) + 1
    BY <1>4, <2>1, <2>2, FS_AddElement
  <2> QED
    BY <1>1, <1>3, <1>4, <1>5, <1>6, <2>3 DEF Weight, longer
<1>7. CASE ~Answer(event, id)
  <2>1. Answers(id, longer) = Answers(id, events)
    BY <1>1, <1>2, <1>3, <1>7 DEF Answers
  <2>2. Count(id, events) \in Nat
    BY CountIs
  <2> QED
    BY <1>1, <1>3, <1>4, <1>5, <1>7, <2>1, <2>2 DEF Weight, longer
<1> QED
  BY <1>6, <1>7

(* An event that is taken was the first, and takes its one with it.          *)
LEMMA CountTail ==
  ASSUME NEW id, NEW events \in Seq(Events), events # <<>>
  PROVE  /\ Head(events) \in Events /\ Head(events) = events[1]
         /\ Tail(events) \in Seq(Events) /\ DOMAIN Tail(events) = 1..(Len(events) - 1)
         /\ Len(events) \in Nat /\ Len(events) > 0 /\ DOMAIN events = 1..Len(events)
         /\ \A i \in 1..(Len(events) - 1) : Tail(events)[i] = events[i + 1]
         /\ Count(id, events) = Weight(id, Head(events)) + Count(id, Tail(events))
<1> DEFINE rest == Tail(events)
           later == Answers(id, events) \ {1}
           shift == [i \in Answers(id, rest) |-> i + 1]
<1>1. /\ Head(events) \in Events /\ rest \in Seq(Events) /\ Len(rest) = Len(events) - 1
      /\ \A i \in 1..Len(rest) : rest[i] = events[i + 1]
  BY HeadTailProperties
<1>2. Len(events) \in Nat /\ Len(events) > 0 /\ DOMAIN events = 1..Len(events) /\ Head(events) = events[1]
  BY LenProperties, EmptySeq
<1>3. Len(rest) \in Nat /\ DOMAIN rest = 1..Len(rest)
  <2> HIDE DEF rest
  <2> QED
    BY <1>1, LenProperties
<1> HIDE DEF rest
<1>4. \A i \in Answers(id, rest) : i \in Nat /\ i + 1 \in later
  BY <1>1, <1>2, <1>3 DEF Answers
<1>5. \A k \in later : k - 1 \in Answers(id, rest) /\ (k - 1) + 1 = k
  BY <1>1, <1>2, <1>3 DEF Answers
<1> HIDE DEF later
<1>6. shift \in Bijection(Answers(id, rest), later)
  <2>1. shift \in [Answers(id, rest) -> later]
    BY <1>4
  <2>2. \A a, b \in Answers(id, rest) : shift[a] = shift[b] => a = b
    BY <1>4
  <2>3. \A k \in later : \E a \in Answers(id, rest) : shift[a] = k
    BY <1>5
  <2> HIDE DEF shift
  <2> QED
    BY <2>1, <2>2, <2>3, Fun_IsBij
<1>7. ExistsBijection(Answers(id, rest), later)
  BY <1>6, Fun_ExistsBij
<1>8. IsFiniteSet(Answers(id, rest)) /\ Count(id, rest) = Cardinality(Answers(id, rest)) /\ Count(id, rest) \in Nat
  BY <1>1, CountIs
<1>9. Cardinality(later) = Count(id, rest)
  BY <1>7, <1>8, FS_Bijection
<1>10. IsFiniteSet(Answers(id, events)) /\ Count(id, events) = Cardinality(Answers(id, events)) /\ Count(id, events) \in Nat
  BY CountIs
<1>11. Cardinality(later) = IF 1 \in Answers(id, events) THEN Count(id, events) - 1 ELSE Count(id, events)
  BY <1>10, FS_RemoveElement DEF later
<1>12. 1 \in Answers(id, events) <=> Answer(Head(events), id)
  BY <1>2 DEF Answers
<1>13. Count(id, events) = Weight(id, Head(events)) + Count(id, rest)
  BY <1>8, <1>9, <1>10, <1>11, <1>12 DEF Weight
<1> QED
  BY <1>1, <1>2, <1>3, <1>13 DEF rest

(* What a call of the pipeline owes: as many answers more as it returns, and *)
(* at most one partial, of an utterance that has no answer.                  *)
Returns ==
  /\ returned' \in Seq(Events)
  /\ \A id \in JobIds : answers'[id] + Count(id, returned) = answers[id] + Count(id, returned')
  /\ \A j \in DOMAIN returned' : returned'[j].kind = "partial" =>
       \/ j \in DOMAIN returned /\ \A i \in 1..j : returned'[i] = returned[i]
       \/ j = 1 /\ answers[returned'[j].job_id] = 0

(* A call that returns an answer for each final it counts conserves the      *)
(* events.                                                                   *)
LEMMA CallKeepsEvents ==
  ASSUME PipelineInv, EventsInv, PipelineInv', Returns, UNCHANGED <<output, screen, deliveries>>,
         HeldWhileSending'
  PROVE  EventsInv'
<1>0. /\ answers \in [JobIds -> Nat] /\ answers' \in [JobIds -> Nat]
      /\ EventTypes /\ EventsConserved /\ PartialsFirst
  BY DEF PipelineInv, PipelineTypes, EventsInv
<1>1. EventTypes'
  BY <1>0 DEF EventTypes, Returns
<1>2. \A id \in JobIds : /\ Count(id, output) \in Nat /\ Count(id, returned) \in Nat
                         /\ Count(id, returned') \in Nat /\ deliveries[id] \in Nat
  BY <1>0, CountIs DEF EventTypes, Returns
<1>3. EventsConserved'
  <2>1. ASSUME NEW id \in JobIds
        PROVE  answers'[id] = deliveries[id] + Count(id, output) + Count(id, returned')
    <3>1. answers'[id] + Count(id, returned) = answers[id] + Count(id, returned')
      BY DEF Returns
    <3>2. answers[id] = deliveries[id] + Count(id, output) + Count(id, returned)
      BY <1>0 DEF EventsConserved
    <3>3. answers[id] \in Nat /\ answers'[id] \in Nat
      BY <1>0
    <3> QED
      BY <1>2, <3>1, <3>2, <3>3
  <2> QED
    BY <2>1 DEF EventsConserved
<1>4. PartialsFirst'
  <2>1. ASSUME NEW j \in DOMAIN returned', returned'[j].kind = "partial"
        PROVE  /\ deliveries[returned'[j].job_id] = 0
               /\ \A i \in DOMAIN output : ~Answer(output[i], returned'[j].job_id)
               /\ \A i \in 1..(j - 1) : ~Answer(returned'[i], returned'[j].job_id)
    <3>0. j \in Nat /\ returned'[j] \in Events
      BY LenProperties DEF Returns
    <3>1. CASE j \in DOMAIN returned /\ \A i \in 1..j : returned'[i] = returned[i]
      <4>1. returned'[j] = returned[j] /\ \A i \in 1..(j - 1) : returned'[i] = returned[i]
        <5>1. j \in 1..j
          BY <1>0, <3>1, LenProperties DEF EventTypes
        <5> QED
          BY <3>0, <3>1, <5>1
      <4> QED
        BY <1>0, <2>1, <3>1, <4>1 DEF PartialsFirst
    <3>2. CASE j = 1 /\ answers[returned'[j].job_id] = 0
      <4>1. PICK id \in JobIds : id = returned'[j].job_id
        BY <3>0 DEF Events
      <4>2. answers[id] = deliveries[id] + Count(id, output) + Count(id, returned)
        BY <1>0 DEF EventsConserved
      <4>3. deliveries[id] = 0 /\ Count(id, output) = 0
        BY <1>2, <3>2, <4>1, <4>2
      <4>4. \A i \in DOMAIN output : ~Answer(output[i], id)
        BY <1>0, <4>3, CountIs DEF EventTypes
      <4> QED
        BY <3>2, <4>1, <4>3, <4>4
    <3> QED
      BY <2>1, <3>1, <3>2 DEF Returns
  <2>2. UNCHANGED output /\ \A j \in DOMAIN output : output[j].kind = "partial" =>
          /\ deliveries[output[j].job_id] = 0
          /\ \A i \in 1 .. (j - 1) : ~Answer(output[i], output[j].job_id)
    BY <1>0 DEF PartialsFirst
  <2> QED
    BY <2>1, <2>2 DEF PartialsFirst, Answer
<1> QED
  BY <1>1, <1>3, <1>4 DEF EventsInv

(* Nothing is returned: neither answers nor partials.                        *)
LEMMA ReturnsNothing ==
  ASSUME returned = <<>> \/ UNCHANGED returned, returned \in Seq(Events), answers \in [JobIds -> Nat],
         returned' = <<>> \/ UNCHANGED returned, UNCHANGED answers
  PROVE  Returns
<1>1. CASE UNCHANGED returned
  <2>1. \A j \in DOMAIN returned : j \in DOMAIN returned /\ \A i \in 1..j : returned'[i] = returned[i]
    BY <1>1
  <2>2. \A id \in JobIds : answers'[id] + Count(id, returned) = answers[id] + Count(id, returned')
    BY <1>1
  <2> QED
    BY <1>1, <2>1, <2>2 DEF Returns
<1>2. CASE returned = <<>> /\ returned' = <<>>
  BY <1>2 DEF Returns
<1> QED
  BY <1>1, <1>2

(* One event is returned: an answer, or a partial that nothing has answered. *)
LEMMA ReturnsOne ==
  ASSUME returned = <<>>, answers \in [JobIds -> Nat],
         NEW event \in Events, returned' = <<event>>,
         \/ /\ event.kind # "partial"
            /\ answers' = [answers EXCEPT ![event.job_id] = @ + 1]
         \/ event.kind = "partial" /\ answers[event.job_id] = 0 /\ UNCHANGED answers
  PROVE  Returns
<1>1. event.job_id \in JobIds
  BY DEF Events
<1>2. /\ <<event>> \in Seq(Events) /\ DOMAIN <<event>> = {1} /\ <<event>>[1] = event
      /\ <<>> \in Seq(Events) /\ Append(<<>>, event) = <<event>>
  OBVIOUS
<1>3. \A id : Count(id, returned) = 0 /\ Count(id, returned') = Weight(id, event)
  <2> SUFFICES ASSUME NEW id PROVE Count(id, returned) = 0 /\ Count(id, returned') = Weight(id, event)
    OBVIOUS
  <2>1. Count(id, Append(<<>>, event)) = Count(id, <<>>) + Weight(id, event)
    BY <1>2, CountAppend
  <2>2. Count(id, <<>>) = 0
    BY CountEmpty
  <2>3. Weight(id, event) \in Nat
    BY DEF Weight
  <2> QED
    BY <1>2, <2>1, <2>2, <2>3
<1>4. \A id \in JobIds : answers'[id] = answers[id] + Weight(id, event)
  BY <1>1 DEF Weight, Answer
<1>5. \A id \in JobIds : answers'[id] + Count(id, returned) = answers[id] + Count(id, returned')
  <2> SUFFICES ASSUME NEW id \in JobIds
               PROVE  answers'[id] + Count(id, returned) = answers[id] + Count(id, returned')
    OBVIOUS
  <2>1. answers[id] \in Nat /\ Weight(id, event) \in Nat
    BY DEF Weight
  <2> QED
    BY <1>3, <1>4, <2>1
<1>6. \A j \in DOMAIN returned' : returned'[j].kind = "partial" => j = 1 /\ answers[returned'[j].job_id] = 0
  BY <1>2
<1> QED
  BY <1>2, <1>5, <1>6 DEF Returns

(* A submitted utterance returns its final's gap when it is refused.         *)
LEMMA SubmitUtteranceReturns ==
  ASSUME PipelineInv, returned \in Seq(Events), SubmitUtterance
  PROVE  Returns
<1>1. answers \in [JobIds -> Nat]
  BY DEF PipelineInv, PipelineTypes
<1>2. PICK b \in batch : \E id \in IdFor(b.source, Head(b.utterances).start_ms) :
        \/ UNCHANGED <<answers, returned>>
        \/ /\ answers' = [answers EXCEPT ![id] = @ + 1]
           /\ returned' = Append(returned, [kind |-> "gap", job_id |-> id])
  BY DEF SubmitUtterance
<1>3. PICK id \in IdFor(b.source, Head(b.utterances).start_ms) :
        \/ UNCHANGED <<answers, returned>>
        \/ /\ answers' = [answers EXCEPT ![id] = @ + 1]
           /\ returned' = Append(returned, [kind |-> "gap", job_id |-> id])
  BY <1>2
<1>4. CASE UNCHANGED <<answers, returned>>
  BY <1>1, <1>4, ReturnsNothing
<1>5. CASE /\ answers' = [answers EXCEPT ![id] = @ + 1]
           /\ returned' = Append(returned, [kind |-> "gap", job_id |-> id])
  <2>1. id \in JobIds
    <3>1. b.source \in Source /\ identities[b.source] \in SUBSET Identities
      BY DEF PipelineInv, PipelineTypes, Calls
    <3> QED
      BY <3>1 DEF IdFor, KnownId, Identities
  <2> DEFINE gap == [kind |-> "gap", job_id |-> id]
  <2>2. gap \in Events /\ gap.kind = "gap" /\ gap.job_id = id
    BY <2>1 DEF Events
  <2> HIDE DEF gap
  <2>3. returned' = Append(returned, gap)
    BY <1>5 DEF gap
  <2>4. /\ returned' \in Seq(Events) /\ DOMAIN returned' = 1..(Len(returned) + 1)
        /\ \A i \in 1..Len(returned) : returned'[i] = returned[i]
        /\ returned'[Len(returned) + 1] = gap
        /\ \A k : Count(k, returned') = Count(k, returned) + Weight(k, gap)
    BY <2>2, <2>3, CountAppend
  <2>5. \A k \in JobIds : answers'[k] + Count(k, returned) = answers[k] + Count(k, returned')
    <3> SUFFICES ASSUME NEW k \in JobIds
                 PROVE  answers'[k] + Count(k, returned) = answers[k] + Count(k, returned')
      OBVIOUS
    <3>1. answers[k] \in Nat /\ Count(k, returned) \in Nat
      BY <1>1, CountIs
    <3>2. answers'[k] = answers[k] + Weight(k, gap)
      BY <1>1, <1>5, <2>1, <2>2 DEF Weight, Answer
    <3>3. Weight(k, gap) \in Nat
      BY DEF Weight
    <3> QED
      BY <2>4, <3>1, <3>2, <3>3
  <2>6. Len(returned) \in Nat /\ DOMAIN returned = 1..Len(returned)
    BY LenProperties
  <2>7. \A j \in DOMAIN returned' : returned'[j].kind = "partial" =>
          j \in DOMAIN returned /\ \A i \in 1..j : returned'[i] = returned[i]
    BY <2>2, <2>4, <2>6
  <2> QED
    BY <2>4, <2>5, <2>7 DEF Returns
<1> QED
  BY <1>3, <1>4, <1>5

(* A pump returns the answer of the final it took.                           *)
LEMMA PumpFinalReturns ==
  ASSUME PipelineInv, returned = <<>>, NEW outcome \in {"final", "gap"}, PumpFinal(outcome)
  PROVE  Returns
<1>1. answers \in [JobIds -> Nat] /\ finals \in Seq(Job) /\ finals # <<>>
  BY QueueFacts DEF PipelineInv, PipelineTypes, PumpFinal, NextFinalJob
<1>2. Head(finals) \in Job
  BY <1>1, HeadTailProperties
<1>3. PICK event : event = [kind |-> outcome, job_id |-> Head(finals).job_id]
  OBVIOUS
<1>4. event \in Events /\ event.kind # "partial" /\ event.job_id = Head(finals).job_id
  BY <1>2, <1>3 DEF Events, Job
<1>5. returned' = <<event>> /\ answers' = [answers EXCEPT ![event.job_id] = @ + 1]
  BY <1>3, <1>4 DEF PumpFinal
<1> QED
  BY <1>1, <1>4, <1>5, ReturnsOne

(* What waits as a partial is no final's yet, and so has no answer.          *)
LEMMA PumpPartialReturns ==
  ASSUME PipelineInv, returned = <<>>, NEW s \in Source, NEW succeeds \in BOOLEAN, PumpPartial(s, succeeds)
  PROVE  Returns
<1>1. answers \in [JobIds -> Nat] /\ UNCHANGED answers
  BY DEF PipelineInv, PipelineTypes, PumpPartial, observerVars
<1>2. PICK job \in partials[s] :
        returned' = IF succeeds THEN <<[kind |-> "partial", job_id |-> job.job_id]>> ELSE <<>>
  BY DEF PumpPartial
<1>3. CASE succeeds
  <2>1. job.job_id \in JobIds /\ job.job_id \notin received
    <3>1. job \in Job /\ SchedulerIndInv /\ IdsOwned
      BY <1>2, QueueFacts DEF PipelineInv
    <3>2. \E p \in identities[s] : p.job_id = job.job_id
      BY <1>2, <3>1 DEF IdsOwned
    <3> QED
      BY <3>1, <3>2 DEF IdsOwned, Job
  <2>2. answers[job.job_id] = 0
    BY <2>1 DEF PipelineInv, FinalsAnsweredOnce
  <2>3. PICK event : event = [kind |-> "partial", job_id |-> job.job_id]
    OBVIOUS
  <2>4. event \in Events /\ event.kind = "partial" /\ event.job_id = job.job_id
    BY <2>1, <2>3 DEF Events
  <2>5. returned' = <<event>> /\ answers[event.job_id] = 0
    BY <1>2, <1>3, <2>2, <2>3, <2>4
  <2> QED
    BY <1>1, <2>4, <2>5, ReturnsOne
<1>4. CASE ~succeeds
  <2>1. returned' = <<>> /\ returned \in Seq(Events)
    BY <1>2, <1>4
  <2> QED
    BY <1>1, <2>1, ReturnsNothing
<1> QED
  BY <1>3, <1>4

(* A queued final has one place in the queue and gets one gap.               *)
LEMMA CancelPendingReturns ==
  ASSUME PipelineInv, returned = <<>>, CancelPending
  PROVE  Returns
<1>1. /\ answers \in [JobIds -> Nat] /\ finals \in Seq(Job) /\ DOMAIN finals = 1..Len(finals) /\ Len(finals) \in Nat
      /\ \A i \in DOMAIN finals : finals[i] \in Job
      /\ \A i, j \in DOMAIN finals : i # j => finals[i].job_id # finals[j].job_id
  BY QueueFacts DEF PipelineInv, PipelineTypes, SchedulerIndInv, PendingIdsUnique
<1>2. /\ answers' = [id \in JobIds |-> IF QueuedFinal(id) THEN answers[id] + 1 ELSE answers[id]]
      /\ returned' = [i \in DOMAIN finals |-> Gap(finals[i])]
  BY DEF CancelPending
<1>3. \A i \in DOMAIN finals : /\ Gap(finals[i]) \in Events /\ Gap(finals[i]).kind = "gap"
                               /\ Gap(finals[i]).job_id = finals[i].job_id
  BY <1>1 DEF Gap, Events, Job
<1>4. DOMAIN returned' = DOMAIN finals /\ \A i \in DOMAIN finals : returned'[i] = Gap(finals[i])
  BY <1>2
<1>5. returned' \in Seq(Events)
  <2>1. [i \in 1..Len(finals) |-> Gap(finals[i])] \in [1..Len(finals) -> Events]
    BY <1>1, <1>3
  <2>2. returned' \in [1..Len(finals) -> Events]
    BY <1>1, <1>2, <2>1
  <2> QED
    BY <1>1, <2>2, SeqDef
<1>6. \A id \in JobIds : Count(id, returned') = IF QueuedFinal(id) THEN 1 ELSE 0
  <2> SUFFICES ASSUME NEW id \in JobIds PROVE Count(id, returned') = IF QueuedFinal(id) THEN 1 ELSE 0
    OBVIOUS
  <2>1. Count(id, returned') = Cardinality(Answers(id, returned')) /\ IsFiniteSet(Answers(id, returned'))
    BY <1>5, CountIs
  <2>2. Answers(id, returned') = {i \in DOMAIN finals : finals[i].job_id = id}
    BY <1>3, <1>4 DEF Answers, Answer
  <2>3. CASE QueuedFinal(id)
    <3>1. PICK i \in DOMAIN finals : finals[i].job_id = id
      BY <2>3 DEF QueuedFinal
    <3>2. Answers(id, returned') = {i}
      BY <1>1, <2>2, <3>1
    <3> QED
      BY <2>1, <2>3, <3>2, FS_Singleton
  <2>4. CASE ~QueuedFinal(id)
    <3>1. Answers(id, returned') = {}
      BY <2>2, <2>4 DEF QueuedFinal
    <3> QED
      BY <2>1, <2>4, <3>1, FS_EmptySet
  <2> QED
    BY <2>3, <2>4
<1>7. \A id \in JobIds : answers'[id] + Count(id, returned) = answers[id] + Count(id, returned')
  <2> SUFFICES ASSUME NEW id \in JobIds
               PROVE  answers'[id] + Count(id, returned) = answers[id] + Count(id, returned')
    OBVIOUS
  <2>1. Count(id, returned) = 0 /\ answers[id] \in Nat
    BY <1>1, CountEmpty
  <2>2. answers'[id] = IF QueuedFinal(id) THEN answers[id] + 1 ELSE answers[id]
    BY <1>2
  <2>3. Count(id, returned') = IF QueuedFinal(id) THEN 1 ELSE 0
    BY <1>6
  <2> QED
    BY <2>1, <2>2, <2>3
<1>8. \A j \in DOMAIN returned' : returned'[j].kind # "partial"
  BY <1>3, <1>4
<1> QED
  BY <1>5, <1>7, <1>8 DEF Returns

-----------------------------------------------------------------------------
(* The queue between the coordinator and the listener.                       *)

LEMMA EmitKeeps ==
  ASSUME EventsInv, Emit
  PROVE  EventsInv'
<1>0. /\ EventTypes /\ EventsConserved /\ PartialsFirst /\ returned # <<>>
      /\ output' = Append(output, Head(returned)) /\ returned' = Tail(returned)
      /\ UNCHANGED <<answers, pc, screen, deliveries>> /\ HeldWhileSending
  BY DEF EventsInv, EventTypes, Emit, observerVars, coordinatorVars, sinkVars
<1>1. output \in Seq(Events) /\ returned \in Seq(Events) /\ Len(output) \in Nat /\ DOMAIN output = 1..Len(output)
  BY <1>0, LenProperties DEF EventTypes
<1>2. PICK event \in Events : event = Head(returned)
  BY <1>0, <1>1, CountTail
<1>3. /\ event = returned[1] /\ returned' \in Seq(Events) /\ DOMAIN returned' = 1..(Len(returned) - 1)
      /\ Len(returned) \in Nat /\ Len(returned) > 0 /\ DOMAIN returned = 1..Len(returned)
      /\ \A i \in 1..(Len(returned) - 1) : returned'[i] = returned[i + 1]
      /\ \A id : Count(id, returned) = Weight(id, event) + Count(id, returned')
  BY <1>0, <1>1, <1>2, CountTail
<1>4. /\ output' \in Seq(Events) /\ DOMAIN output' = 1..(Len(output) + 1)
      /\ \A i \in 1..Len(output) : output'[i] = output[i]
      /\ output'[Len(output) + 1] = event
      /\ \A id : Count(id, output') = Count(id, output) + Weight(id, event)
  BY <1>0, <1>1, <1>2, CountAppend
<1>5. EventTypes'
  <2>1. HeldWhileSending'
    BY <1>0 DEF HeldWhileSending
  <2> QED
    BY <1>0, <1>3, <1>4, <2>1 DEF EventTypes
<1>6. EventsConserved'
  <2>1. ASSUME NEW id \in JobIds
        PROVE  answers'[id] = deliveries'[id] + Count(id, output') + Count(id, returned')
    <3>1. answers[id] = deliveries[id] + Count(id, output) + Count(id, returned)
      BY <1>0 DEF EventsConserved
    <3>2. Count(id, output) \in Nat /\ Count(id, returned') \in Nat /\ Weight(id, event) \in Nat /\ deliveries[id] \in Nat
      BY <1>0, <1>1, <1>3, CountIs DEF EventTypes, Weight
    <3>3. Count(id, output') = Count(id, output) + Weight(id, event)
      BY <1>4
    <3>4. Count(id, returned) = Weight(id, event) + Count(id, returned')
      BY <1>3
    <3>5. answers'[id] = answers[id] /\ deliveries'[id] = deliveries[id]
      BY <1>0
    <3> QED
      BY <3>1, <3>2, <3>3, <3>4, <3>5
  <2> QED
    BY <2>1 DEF EventsConserved
<1>7. PartialsFirst'
  <2>1. ASSUME NEW j \in DOMAIN output', output'[j].kind = "partial"
        PROVE  /\ deliveries[output'[j].job_id] = 0
               /\ \A i \in 1..(j - 1) : ~Answer(output'[i], output'[j].job_id)
    <3>1. CASE j \in 1..Len(output)
      BY <1>0, <1>1, <1>4, <2>1, <3>1 DEF PartialsFirst
    <3>2. CASE j = Len(output) + 1
      <4>1. 1 \in DOMAIN returned /\ output'[j] = returned[1]
        BY <1>3, <1>4, <3>2
      <4>2. /\ deliveries[output'[j].job_id] = 0
            /\ \A i \in DOMAIN output : ~Answer(output[i], output'[j].job_id)
        BY <1>0, <2>1, <4>1 DEF PartialsFirst
      <4>3. \A i \in 1..(j - 1) : i \in DOMAIN output /\ output'[i] = output[i]
        BY <1>1, <1>4, <3>2
      <4> QED
        BY <4>2, <4>3
    <3> QED
      BY <1>1, <1>4, <3>1, <3>2
  <2>2. ASSUME NEW j \in DOMAIN returned', returned'[j].kind = "partial"
        PROVE  /\ deliveries[returned'[j].job_id] = 0
               /\ \A i \in DOMAIN output' : ~Answer(output'[i], returned'[j].job_id)
               /\ \A i \in 1..(j - 1) : ~Answer(returned'[i], returned'[j].job_id)
    <3>1. j \in Nat /\ j > 0 /\ j + 1 \in DOMAIN returned /\ returned'[j] = returned[j + 1]
      BY <1>3
    <3>2. /\ deliveries[returned[j + 1].job_id] = 0
          /\ \A i \in DOMAIN output : ~Answer(output[i], returned[j + 1].job_id)
          /\ \A i \in 1..((j + 1) - 1) : ~Answer(returned[i], returned[j + 1].job_id)
      BY <1>0, <2>2, <3>1 DEF PartialsFirst
    <3>3. ~Answer(event, returned[j + 1].job_id)
      BY <1>3, <3>1, <3>2
    <3>4. \A i \in DOMAIN output' : ~Answer(output'[i], returned[j + 1].job_id)
      BY <1>1, <1>4, <3>2, <3>3
    <3>5. \A i \in 1..(j - 1) : ~Answer(returned'[i], returned[j + 1].job_id)
      BY <1>3, <3>1, <3>2
    <3> QED
      BY <3>1, <3>2, <3>4, <3>5
  <2> QED
    BY <1>0, <2>1, <2>2 DEF PartialsFirst, Answer
<1> QED
  BY <1>5, <1>6, <1>7 DEF EventsInv

(* The listener hears events in the order they were sent, so it has not yet  *)
(* heard an answer when it hears a partial.                                  *)
LEMMA DeliverKeeps ==
  ASSUME EventsInv, Deliver
  PROVE  EventsInv' /\ \A id \in JobIds : screen[id] = "answered" => screen'[id] = "answered"
<1>0. /\ EventTypes /\ EventsConserved /\ PartialsFirst /\ output # <<>> /\ output' = Tail(output)
      /\ UNCHANGED <<answers, pc, returned>> /\ HeldWhileSending
  BY DEF EventsInv, EventTypes, Deliver, pipelineVars, coordinatorVars
<1>1. /\ output \in Seq(Events) /\ screen \in [JobIds -> {"nothing", "partial", "answered"}]
      /\ deliveries \in [JobIds -> Nat] /\ returned \in Seq(Events)
  BY <1>0 DEF EventTypes
<1>2. PICK event \in Events : event = Head(output)
  BY <1>0, <1>1, CountTail
<1>3. /\ event = output[1] /\ output' \in Seq(Events) /\ DOMAIN output' = 1..(Len(output) - 1)
      /\ Len(output) \in Nat /\ Len(output) > 0 /\ DOMAIN output = 1..Len(output)
      /\ \A i \in 1..(Len(output) - 1) : output'[i] = output[i + 1]
      /\ \A id : Count(id, output) = Weight(id, event) + Count(id, output')
  BY <1>0, <1>1, <1>2, CountTail
<1>4. event.job_id \in JobIds
  BY DEF Events
<1>5. /\ \A id \in JobIds : deliveries'[id] = deliveries[id] + Weight(id, event)
      /\ deliveries' \in [JobIds -> Nat]
      /\ screen' \in [JobIds -> {"nothing", "partial", "answered"}]
      /\ \A id \in JobIds : screen'[id] = "answered" => screen[id] = "answered" \/ Weight(id, event) = 1
      /\ \A id \in JobIds : screen'[id] # "answered" /\ screen[id] = "answered" =>
           event.kind = "partial" /\ event.job_id = id
  <2>1. CASE event.kind = "partial"
    <3>1. screen' = [screen EXCEPT ![event.job_id] = "partial"] /\ UNCHANGED deliveries
      BY <1>2, <2>1 DEF Deliver
    <3> QED
      BY <1>1, <1>4, <2>1, <3>1 DEF Weight, Answer
  <2>2. CASE event.kind # "partial"
    <3>1. /\ screen' = [screen EXCEPT ![event.job_id] = "answered"]
          /\ deliveries' = [deliveries EXCEPT ![event.job_id] = @ + 1]
      BY <1>2, <2>2 DEF Deliver
    <3> QED
      BY <1>1, <1>4, <2>2, <3>1 DEF Weight, Answer
  <2> QED
    BY <2>1, <2>2
<1>6. EventTypes'
  <2>1. HeldWhileSending'
    BY <1>0 DEF HeldWhileSending
  <2>2. \A id \in JobIds : screen'[id] = "answered" => deliveries'[id] > 0
    <3> SUFFICES ASSUME NEW id \in JobIds, screen'[id] = "answered" PROVE deliveries'[id] > 0
      OBVIOUS
    <3>1. deliveries[id] \in Nat /\ Weight(id, event) \in Nat /\ deliveries'[id] = deliveries[id] + Weight(id, event)
      BY <1>1, <1>5 DEF Weight
    <3>2. deliveries[id] > 0 \/ Weight(id, event) = 1
      BY <1>0, <1>5 DEF EventTypes
    <3> QED
      BY <3>1, <3>2
  <2> QED
    BY <1>0, <1>1, <1>3, <1>5, <2>1, <2>2 DEF EventTypes
<1>7. EventsConserved'
  <2>1. ASSUME NEW id \in JobIds
        PROVE  answers'[id] = deliveries'[id] + Count(id, output') + Count(id, returned')
    <3>1. answers[id] = deliveries[id] + Count(id, output) + Count(id, returned)
      BY <1>0 DEF EventsConserved
    <3>2. Count(id, output') \in Nat /\ Count(id, returned) \in Nat /\ Weight(id, event) \in Nat /\ deliveries[id] \in Nat
      BY <1>1, <1>3, CountIs DEF Weight
    <3>3. Count(id, output) = Weight(id, event) + Count(id, output')
      BY <1>3
    <3>4. answers'[id] = answers[id] /\ deliveries'[id] = deliveries[id] + Weight(id, event)
      BY <1>0, <1>5
    <3>5. Count(id, returned') = Count(id, returned)
      BY <1>0
    <3> QED
      BY <3>1, <3>2, <3>3, <3>4, <3>5
  <2> QED
    BY <2>1 DEF EventsConserved
<1>8. PartialsFirst'
  <2>1. ASSUME NEW j \in DOMAIN output', output'[j].kind = "partial"
        PROVE  /\ deliveries'[output'[j].job_id] = 0
               /\ \A i \in 1..(j - 1) : ~Answer(output'[i], output'[j].job_id)
    <3>1. j \in Nat /\ j > 0 /\ j + 1 \in DOMAIN output /\ output'[j] = output[j + 1] /\ output[j + 1] \in Events
      BY <1>1, <1>3, ElementOfSeq
    <3>2. PICK id \in JobIds : id = output[j + 1].job_id
      BY <3>1 DEF Events
    <3>3. /\ deliveries[id] = 0
          /\ \A i \in 1..((j + 1) - 1) : ~Answer(output[i], id)
      BY <1>0, <2>1, <3>1, <3>2 DEF PartialsFirst
    <3>4. Weight(id, event) = 0
      BY <1>3, <3>1, <3>3 DEF Weight
    <3>5. deliveries'[id] = 0
      BY <1>5, <3>3, <3>4
    <3>6. \A i \in 1..(j - 1) : ~Answer(output'[i], id)
      BY <1>3, <3>1, <3>3
    <3> QED
      BY <3>1, <3>2, <3>5, <3>6
  <2>2. ASSUME NEW j \in DOMAIN returned, returned[j].kind = "partial"
        PROVE  /\ deliveries'[returned[j].job_id] = 0
               /\ \A i \in DOMAIN output' : ~Answer(output'[i], returned[j].job_id)
               /\ \A i \in 1..(j - 1) : ~Answer(returned[i], returned[j].job_id)
    <3>0. DOMAIN returned = 1..Len(returned)
      BY <1>1, LenProperties
    <3>0a. returned[j] \in Events
      BY <1>1, <3>0, ElementOfSeq
    <3>1. PICK id \in JobIds : id = returned[j].job_id
      BY <3>0a DEF Events
    <3>2. /\ deliveries[id] = 0
          /\ \A i \in DOMAIN output : ~Answer(output[i], id)
          /\ \A i \in 1..(j - 1) : ~Answer(returned[i], id)
      BY <1>0, <2>2, <3>1 DEF PartialsFirst
    <3>3. Weight(id, event) = 0
      BY <1>3, <3>2 DEF Weight
    <3>4. deliveries'[id] = 0
      BY <1>5, <3>2, <3>3
    <3>5. \A i \in DOMAIN output' : ~Answer(output'[i], id)
      BY <1>3, <3>2
    <3> QED
      BY <3>1, <3>2, <3>4, <3>5
  <2> QED
    BY <1>0, <2>1, <2>2 DEF PartialsFirst, Answer
<1>9. \A id \in JobIds : screen[id] = "answered" => screen'[id] = "answered"
  <2> SUFFICES ASSUME NEW id \in JobIds, screen[id] = "answered", screen'[id] # "answered" PROVE FALSE
    OBVIOUS
  <2>1. event.kind = "partial" /\ event.job_id = id
    BY <1>5
  <2>2. deliveries[id] = 0
    BY <1>0, <1>3, <2>1 DEF PartialsFirst
  <2>3. deliveries[id] > 0
    BY <1>0 DEF EventTypes
  <2> QED
    BY <2>2, <2>3
<1> QED
  BY <1>6, <1>7, <1>8, <1>9 DEF EventsInv

-----------------------------------------------------------------------------
(* The updates: the threads of the sources and the coordinator.              *)

(* A thread leaves the past behind and may send one update that keeps to it. *)
LEMMA FeedKeepsOrder ==
  ASSUME LiveTypes, UpdatesInOrder, NEW s \in Source, feed[s].thread = "running",
         UNCHANGED <<pc, update, open_from>>,
         feed' \in [Source -> Feeds], \A r \in Source : r # s => feed'[r] = feed[r],
         AtMostOne(feed'[s].open) /\ \A b \in feed'[s].open : b < feed'[s].clock,
         feed'[s].thread = "running" => \A t \in Nat : Reached(s, t) => Reached(s, t)',
         \/ UNCHANGED updates
         \/ \E u \in Updates :
              /\ updates' = Append(updates, u) /\ u.source = s /\ Chunk(u)
              /\ \A t \in Nat : Reached(s, t) => NotBefore(u, t)
              /\ feed'[s].thread = "running" => \A t \in Ends(u) : Reached(s, t)',
         open_from \in [Source -> Nat]
  PROVE  LiveTypes' /\ UpdatesInOrder'
<1>1. /\ feed \in [Source -> Feeds] /\ updates \in Seq(Updates)
      /\ update \in SUBSET Updates /\ AtMostOne(update)
      /\ Len(updates) \in Nat /\ DOMAIN updates = 1..Len(updates)
  BY LenProperties DEF LiveTypes
<1>2. \A u \in InHand \cup Queued : u \in Updates /\ \A t \in Ends(u) : t \in Nat
  <2>1. \A u \in Updates : \A t \in Ends(u) : t \in Nat
    <3> SUFFICES ASSUME NEW u \in Updates, NEW t \in Ends(u) PROVE t \in Nat
      OBVIOUS
    <3>1. u.watermark \in SUBSET Nat /\ u.utterances \in Seq(Request)
      BY DEF Updates
    <3>2. \A i \in DOMAIN u.utterances : u.utterances[i] \in Request
      BY <3>1, LenProperties, ElementOfSeq
    <3> QED
      BY <3>1, <3>2 DEF Ends, Request
  <2>2. \A u \in InHand : u \in Updates
    BY <1>1 DEF InHand
  <2>3. \A u \in Queued : u \in Updates
    BY <1>1, ElementOfSeq DEF Queued
  <2> QED
    BY <2>1, <2>2, <2>3
<1>3. InHand' = InHand
  BY DEF InHand
<1>4. /\ \A u \in InHand \cup Queued : Chunk(u) /\ NotBefore(u, open_from[u.source])
      /\ \A u \in InHand : \A j \in DOMAIN updates :
           updates[j].source = u.source => \A t \in Ends(u) : NotBefore(updates[j], t)
      /\ \A i, j \in DOMAIN updates :
           i < j /\ updates[i].source = updates[j].source =>
             \A t \in Ends(updates[i]) : NotBefore(updates[j], t)
      /\ Reached(s, open_from[s])
      /\ \A u \in InHand \cup Queued : u.source = s => \A t \in Ends(u) : Reached(s, t)
  BY DEF UpdatesInOrder
<1>5. \A r \in Source : feed'[r].thread = "running" =>
        /\ Reached(r, open_from[r])'
        /\ \A u \in InHand \cup Queued : u.source = r => \A t \in Ends(u) : Reached(r, t)'
  <2> SUFFICES ASSUME NEW r \in Source, feed'[r].thread = "running"
               PROVE  /\ Reached(r, open_from[r])'
                      /\ \A u \in InHand \cup Queued : u.source = r => \A t \in Ends(u) : Reached(r, t)'
    OBVIOUS
  <2>1. CASE r = s
    BY <1>2, <1>4, <2>1
  <2>2. CASE r # s
    <3>1. feed'[r] = feed[r]
      BY <2>2
    <3>2. /\ Reached(r, open_from[r])
          /\ \A u \in InHand \cup Queued : u.source = r => \A t \in Ends(u) : Reached(r, t)
      BY <3>1 DEF UpdatesInOrder
    <3> QED
      BY <3>1, <3>2 DEF Reached
  <2> QED
    BY <2>1, <2>2
<1>6. feed' \in [Source -> Feeds] /\ \A r \in Source : AtMostOne(feed'[r].open) /\ \A b \in feed'[r].open : b < feed'[r].clock
  <2> SUFFICES ASSUME NEW r \in Source PROVE AtMostOne(feed'[r].open) /\ \A b \in feed'[r].open : b < feed'[r].clock
    OBVIOUS
  <2>1. AtMostOne(feed[r].open) /\ \A b \in feed[r].open : b < feed[r].clock
    BY DEF LiveTypes
  <2> QED
    BY <2>1
<1>7. CASE UNCHANGED updates
  <2>1. LiveTypes'
    BY <1>1, <1>6, <1>7 DEF LiveTypes, AtMostOne
  <2>2. Queued' = Queued
    BY <1>7 DEF Queued
  <2> QED
    BY <1>3, <1>4, <1>5, <1>7, <2>1, <2>2 DEF UpdatesInOrder
<1>8. ASSUME NEW u \in Updates, updates' = Append(updates, u), u.source = s, Chunk(u),
             \A t \in Nat : Reached(s, t) => NotBefore(u, t),
             feed'[s].thread = "running" => \A t \in Ends(u) : Reached(s, t)'
      PROVE  LiveTypes' /\ UpdatesInOrder'
  <2>1. /\ updates' \in Seq(Updates) /\ Len(updates') = Len(updates) + 1
        /\ \A i \in 1..Len(updates) : updates'[i] = updates[i]
        /\ updates'[Len(updates) + 1] = u
    <3>1. /\ Append(updates, u) \in Seq(Updates) /\ Len(Append(updates, u)) = Len(updates) + 1
          /\ \A i \in 1..Len(updates) : Append(updates, u)[i] = updates[i]
          /\ Append(updates, u)[Len(updates) + 1] = u
      BY <1>1, AppendProperties
    <3> QED
      BY <1>8, <3>1
  <2>2. DOMAIN updates' = 1..(Len(updates) + 1)
    BY <2>1, LenProperties
  <2>3. Queued' = Queued \cup {u}
    BY <1>1, <2>1, <2>2 DEF Queued
  <2>4. LiveTypes'
    BY <1>1, <1>6, <2>1 DEF LiveTypes, AtMostOne
  <2>5. \A v \in (InHand \cup Queued)' : Chunk(v) /\ NotBefore(v, open_from[v.source])
    BY <1>3, <1>4, <1>8, <2>3
  <2>6. \A v \in InHand \cup Queued : v.source = s => \A t \in Ends(v) : NotBefore(u, t)
    BY <1>2, <1>4, <1>8
  <2>7. \A v \in InHand : \A j \in DOMAIN updates' :
          updates'[j].source = v.source => \A t \in Ends(v) : NotBefore(updates'[j], t)
    <3> SUFFICES ASSUME NEW v \in InHand, NEW j \in DOMAIN updates', updates'[j].source = v.source
                 PROVE  \A t \in Ends(v) : NotBefore(updates'[j], t)
      OBVIOUS
    <3>1. CASE j \in DOMAIN updates
      BY <1>1, <1>4, <2>1, <3>1
    <3>2. CASE j = Len(updates) + 1
      BY <1>8, <2>1, <2>6, <3>2
    <3> QED
      BY <1>1, <2>2, <3>1, <3>2
  <2>8. \A i, j \in DOMAIN updates' :
          i < j /\ updates'[i].source = updates'[j].source =>
            \A t \in Ends(updates'[i]) : NotBefore(updates'[j], t)
    <3> SUFFICES ASSUME NEW i \in DOMAIN updates', NEW j \in DOMAIN updates', i < j,
                        updates'[i].source = updates'[j].source
                 PROVE  \A t \in Ends(updates'[i]) : NotBefore(updates'[j], t)
      OBVIOUS
    <3>1. i \in DOMAIN updates /\ updates'[i] = updates[i]
      BY <1>1, <2>1, <2>2
    <3>2. CASE j \in DOMAIN updates
      BY <1>1, <1>4, <2>1, <3>1, <3>2
    <3>3. CASE j = Len(updates) + 1
      <4>1. updates[i] \in Queued
        BY <3>1 DEF Queued
      <4> QED
        BY <1>8, <2>1, <2>6, <3>1, <3>3, <4>1
    <3> QED
      BY <1>1, <2>2, <3>2, <3>3
  <2>9. \A r \in Source : feed'[r].thread = "running" =>
          /\ Reached(r, open_from[r])'
          /\ \A v \in (InHand \cup Queued)' : v.source = r => \A t \in Ends(v) : Reached(r, t)'
    BY <1>3, <1>5, <1>8, <2>3
  <2> QED
    BY <1>3, <2>4, <2>5, <2>7, <2>8, <2>9 DEF UpdatesInOrder
<1> QED
  BY <1>7, <1>8

(* A source's own thread touches nothing of the pipeline and the events.     *)
LEMMA SourceLeaves ==
  ASSUME PipelineInv, EventsInv, sourceUnchanged
  PROVE  PipelineInv' /\ EventsInv' /\ UNCHANGED <<pc, update, open_from>> /\ UNCHANGED screen
<1>1. UNCHANGED <<pipelineVars, output, pc, update, failed, screen, deliveries>>
  BY DEF sourceUnchanged, coordinatorVars, sinkVars
<1>2. PipelineInv'
  BY <1>1, PipelineNextHolds
<1>3. UNCHANGED <<returned, answers, open_from>>
  BY <1>1 DEF pipelineVars
<1>4. EventsInv'
  BY <1>1, <1>3 DEF EventsInv, EventTypes, HeldWhileSending, EventsConserved, PartialsFirst, Count
<1> QED
  BY <1>1, <1>2, <1>3, <1>4

(* The audio from b to t, cut from a clock that has passed b.                *)
LEMMA SpanFacts ==
  ASSUME NEW b \in Nat, NEW t \in Nat, b < t
  PROVE  /\ Span(b, t) \in Request /\ Span(b, t).start_ms = b /\ Span(b, t).end_ms = t
         /\ <<Span(b, t)>> \in Seq(Request) /\ DOMAIN <<Span(b, t)>> = {1} /\ <<Span(b, t)>>[1] = Span(b, t)
<1>1. SamplesPerMs \in Nat /\ SamplesPerMs > 0 /\ t - b \in Nat
  BY SchedulerAssumption, LiveAssumption
<1>2. PICK k \in Nat : k = (t - b) * SamplesPerMs
  BY <1>1
<1>3. (t - b + 1) * SamplesPerMs = k + SamplesPerMs
  BY <1>1, <1>2
<1>4. k < (t - b + 1) * SamplesPerMs
  BY <1>1, <1>2, <1>3
<1>5. Span(b, t) = [start_ms |-> b, end_ms |-> t, samples |-> k]
  BY <1>2 DEF Span
<1>6. Span(b, t) \in Request
  BY <1>2, <1>4, <1>5 DEF Request
<1> QED
  BY <1>5, <1>6

(* Where the clock and the open utterance of a source go as it advances.     *)
LEMMA AdvanceFacts ==
  ASSUME LiveTypes, NEW s \in Source, NEW open \in SUBSET Nat, Advance(s, open), AtMostOne(open),
         \A b \in open : b <= feed[s].clock
  PROVE  /\ feed[s].thread = "running" /\ feed' \in [Source -> Feeds] /\ feed[s].clock \in Nat
         /\ feed'[s].clock = feed[s].clock + 1 /\ feed'[s].open = open
         /\ \A r \in Source : r # s => feed'[r] = feed[r]
         /\ AtMostOne(feed'[s].open) /\ \A b \in feed'[s].open : b < feed'[s].clock
<1>1. feed \in [Source -> Feeds] /\ feed[s] \in Feeds /\ feed[s].thread = "running"
  BY DEF LiveTypes, Advance
<1>2. feed' = [feed EXCEPT ![s] = [feed[s] EXCEPT !.clock = @ + 1, !.open = open]]
  BY <1>1 DEF Advance, Feeds
<1>3. PICK old \in Feeds : old = feed[s]
  BY <1>1
<1>4. PICK new : new = [old EXCEPT !.clock = @ + 1, !.open = open]
  OBVIOUS
<1>5. old.clock \in Nat /\ old.thread \in {"running", "finished", "lost"}
  BY DEF Feeds
<1>6. new = [clock |-> old.clock + 1, open |-> open, thread |-> old.thread]
  BY <1>4 DEF Feeds
<1>7. new \in Feeds /\ new.clock = old.clock + 1 /\ new.open = open
  BY <1>5, <1>6 DEF Feeds
<1>8. feed' = [feed EXCEPT ![s] = new]
  BY <1>2, <1>3, <1>4
<1>9. feed' \in [Source -> Feeds] /\ feed'[s] = new /\ \A r \in Source : r # s => feed'[r] = feed[r]
  BY <1>1, <1>7, <1>8
<1>10. \A b \in open : b < old.clock + 1
  BY <1>3, <1>5
<1> QED
  BY <1>1, <1>3, <1>5, <1>7, <1>9, <1>10

(* What a thread's step owes, in one piece.                                  *)
LEMMA FeedStep ==
  ASSUME LiveInv, NEW s \in Source, sourceUnchanged, feed[s].thread = "running",
         feed' \in [Source -> Feeds], \A r \in Source : r # s => feed'[r] = feed[r],
         AtMostOne(feed'[s].open) /\ \A b \in feed'[s].open : b < feed'[s].clock,
         feed'[s].thread = "running" => \A t \in Nat : Reached(s, t) => Reached(s, t)',
         \/ UNCHANGED updates
         \/ \E u \in Updates :
              /\ updates' = Append(updates, u) /\ u.source = s /\ Chunk(u)
              /\ \A t \in Nat : Reached(s, t) => NotBefore(u, t)
              /\ feed'[s].thread = "running" => \A t \in Ends(u) : Reached(s, t)'
  PROVE  LiveInv' /\ UNCHANGED screen
<1>1. PipelineInv /\ LiveTypes /\ UpdatesInOrder /\ EventsInv /\ open_from \in [Source -> Nat]
  BY DEF LiveInv, PipelineInv, PipelineTypes
<1>2. PipelineInv' /\ EventsInv' /\ UNCHANGED <<pc, update, open_from>> /\ UNCHANGED screen
  BY <1>1, SourceLeaves
<1>3. LiveTypes' /\ UpdatesInOrder'
  BY <1>1, <1>2, FeedKeepsOrder
<1> QED
  BY <1>2, <1>3 DEF LiveInv

(* A source that is silent, and may report how far it is.                    *)
LEMMA SilenceKeeps ==
  ASSUME LiveInv, NEW s \in Source, Silence(s)
  PROVE  LiveInv' /\ UNCHANGED screen
<1> DEFINE now == feed[s].clock + 1
           u == Update(s, {}, <<>>, {now}, FALSE)
<1>0. /\ LiveTypes /\ Advance(s, {}) /\ feed[s].open = {} /\ sourceUnchanged
      /\ updates' = Append(updates, u) \/ UNCHANGED updates
  BY DEF LiveInv, Silence, Send
<1>1. /\ feed[s].thread = "running" /\ feed' \in [Source -> Feeds] /\ feed[s].clock \in Nat
      /\ feed'[s].clock = feed[s].clock + 1 /\ feed'[s].open = {}
      /\ \A r \in Source : r # s => feed'[r] = feed[r]
      /\ AtMostOne(feed'[s].open) /\ \A b \in feed'[s].open : b < feed'[s].clock
  <2>1. AtMostOne({})
    BY DEF AtMostOne
  <2> QED
    BY <1>0, <2>1, AdvanceFacts
<1>2. \A t \in Nat : Reached(s, t) => Reached(s, t)'
  BY <1>1 DEF Reached
<1>3. /\ u \in Updates /\ u.source = s /\ u.utterances = <<>> /\ u.watermark = {now}
  <2>1. {} \in SUBSET Request /\ <<>> \in Seq(Request) /\ {now} \in SUBSET Nat /\ FALSE \in BOOLEAN
    BY <1>1
  <2> QED
    BY <2>1 DEF Update, Updates
<1> HIDE DEF u
<1>4. Chunk(u) /\ Ends(u) = {now}
  BY <1>3 DEF Chunk, Ends
<1>5. \A t \in Nat : Reached(s, t) => NotBefore(u, t)
  BY <1>1, <1>3 DEF Reached, NotBefore
<1>6. \A t \in Ends(u) : Reached(s, t)'
  BY <1>1, <1>4 DEF Reached
<1> QED
  BY <1>0, <1>1, <1>2, <1>3, <1>4, <1>5, <1>6, FeedStep

(* A source that speaks, and may report what it has so far.                  *)
LEMMA SpeechKeeps ==
  ASSUME LiveInv, NEW s \in Source, Speech(s)
  PROVE  LiveInv' /\ UNCHANGED screen
<1>0. LiveTypes /\ feed \in [Source -> Feeds] /\ feed[s] \in Feeds
  BY DEF LiveInv, LiveTypes
<1>1. feed[s].clock \in Nat /\ feed[s].open \in SUBSET Nat
  BY <1>0 DEF Feeds
<1>2. PICK start : start = IF feed[s].open = {} THEN {feed[s].clock} ELSE feed[s].open
  OBVIOUS
<1>3. PICK now : now = feed[s].clock + 1
  OBVIOUS
<1>4. PICK u : u = Update(s, {Span(b, now) : b \in start}, <<>>, start, FALSE)
  OBVIOUS
<1>5. Advance(s, start) /\ sourceUnchanged /\ (updates' = Append(updates, u) \/ UNCHANGED updates)
  BY <1>2, <1>3, <1>4 DEF Speech, Send
<1>6. PICK b \in Nat : start = {b} /\ b <= feed[s].clock /\ (feed[s].open = {} \/ b \in feed[s].open)
                       /\ \A t \in Nat : Reached(s, t) => t <= b
  <2>1. CASE feed[s].open = {}
    <3>1. start = {feed[s].clock} /\ \A t \in Nat : Reached(s, t) => t <= feed[s].clock
      BY <1>2, <2>1 DEF Reached
    <3> QED
      BY <1>1, <2>1, <3>1
  <2>2. CASE feed[s].open # {}
    <3>1. PICK b \in feed[s].open : TRUE
      BY <2>2
    <3>2. b < feed[s].clock /\ feed[s].open = {b} /\ b \in Nat
      BY <1>0, <1>1, <3>1 DEF LiveTypes, AtMostOne
    <3>3. \A t \in Nat : Reached(s, t) => t <= b
      BY <3>1 DEF Reached
    <3> QED
      BY <1>1, <1>2, <2>2, <3>1, <3>2, <3>3
  <2> QED
    BY <2>1, <2>2
<1>7. AtMostOne(start) /\ start \in SUBSET Nat /\ \A x \in start : x <= feed[s].clock
  BY <1>6 DEF AtMostOne
<1>8. /\ feed[s].thread = "running" /\ feed' \in [Source -> Feeds]
      /\ feed'[s].clock = feed[s].clock + 1 /\ feed'[s].open = start
      /\ \A r \in Source : r # s => feed'[r] = feed[r]
      /\ AtMostOne(feed'[s].open) /\ \A x \in feed'[s].open : x < feed'[s].clock
  BY <1>0, <1>5, <1>7, AdvanceFacts
<1>9. \A t \in Nat : Reached(s, t) => Reached(s, t)'
  <2> SUFFICES ASSUME NEW t \in Nat, Reached(s, t) PROVE Reached(s, t)'
    OBVIOUS
  <2>1. t <= b /\ t <= feed[s].clock + 1
    BY <1>1, <1>6
  <2> QED
    BY <1>6, <1>8, <2>1 DEF Reached
<1>10. u \in Updates /\ u.source = s /\ u.utterances = <<>> /\ u.watermark = {b}
  <2>1. now \in Nat /\ b < now
    BY <1>1, <1>3, <1>6
  <2>2. {Span(x, now) : x \in start} \in SUBSET Request
    BY <1>6, <2>1, SpanFacts
  <2>3. <<>> \in Seq(Request) /\ start \in SUBSET Nat /\ FALSE \in BOOLEAN
    BY <1>7
  <2> QED
    BY <1>4, <1>6, <2>2, <2>3 DEF Update, Updates
<1>11. Chunk(u) /\ Ends(u) = {b}
  BY <1>10 DEF Chunk, Ends
<1>12. \A t \in Nat : Reached(s, t) => NotBefore(u, t)
  BY <1>6, <1>10 DEF NotBefore
<1>13. \A t \in Ends(u) : Reached(s, t)'
  <2>1. b <= feed[s].clock + 1
    BY <1>1, <1>6
  <2> QED
    BY <1>6, <1>8, <1>11, <2>1 DEF Reached
<1> QED
  BY <1>5, <1>8, <1>9, <1>10, <1>11, <1>12, <1>13, FeedStep

(* A source that reports utterances.                                         *)
LEMMA SpeechEndsKeeps ==
  ASSUME LiveInv, NEW s \in Source, SpeechEnds(s)
  PROVE  LiveInv' /\ UNCHANGED screen
<1>0. LiveTypes /\ feed \in [Source -> Feeds] /\ feed[s] \in Feeds
  BY DEF LiveInv, LiveTypes
<1>1. feed[s].clock \in Nat /\ feed[s].open \in SUBSET Nat
  BY <1>0 DEF Feeds
<1>2. PICK now : now = feed[s].clock + 1
  OBVIOUS
<1>3a. PICK b \in feed[s].open : \E shot \in {{}, {Span(b, now)}} :
        /\ Advance(s, {}) /\ sourceUnchanged
        /\ updates' = Append(updates, Update(s, shot, <<Span(b, now)>>, {now}, FALSE))
  BY <1>2 DEF SpeechEnds, Send
<1>3. PICK shot \in {{}, {Span(b, now)}} :
        /\ Advance(s, {}) /\ sourceUnchanged
        /\ updates' = Append(updates, Update(s, shot, <<Span(b, now)>>, {now}, FALSE))
  BY <1>3a
<1>4. b \in Nat /\ b < now /\ now \in Nat
  <2>1. b < feed[s].clock
    BY <1>0 DEF LiveTypes
  <2> QED
    BY <1>1, <1>2, <2>1
<1>5. /\ Span(b, now) \in Request /\ Span(b, now).start_ms = b
      /\ <<Span(b, now)>> \in Seq(Request) /\ DOMAIN <<Span(b, now)>> = {1} /\ <<Span(b, now)>>[1] = Span(b, now)
  BY <1>4, SpanFacts
<1>6. PICK u : u = Update(s, shot, <<Span(b, now)>>, {now}, FALSE)
  OBVIOUS
<1>7. u \in Updates /\ u.source = s /\ u.utterances = <<Span(b, now)>> /\ u.watermark = {now}
  <2>1. shot \in SUBSET Request /\ {now} \in SUBSET Nat /\ FALSE \in BOOLEAN
    BY <1>4, <1>5
  <2> QED
    BY <1>5, <1>6, <2>1 DEF Update, Updates
<1>8. /\ feed[s].thread = "running" /\ feed' \in [Source -> Feeds]
      /\ feed'[s].clock = now /\ feed'[s].open = {}
      /\ \A r \in Source : r # s => feed'[r] = feed[r]
      /\ AtMostOne(feed'[s].open) /\ \A x \in feed'[s].open : x < feed'[s].clock
  <2>1. AtMostOne({})
    BY DEF AtMostOne
  <2> QED
    BY <1>0, <1>2, <1>3, <2>1, AdvanceFacts
<1>9. \A t \in Nat : Reached(s, t) => Reached(s, t)'
  BY <1>1, <1>2, <1>8 DEF Reached
<1>10. Chunk(u) /\ Ends(u) = {now}
  BY <1>4, <1>5, <1>7 DEF Chunk, Ends
<1>11. \A t \in Nat : Reached(s, t) => NotBefore(u, t)
  <2> SUFFICES ASSUME NEW t \in Nat, Reached(s, t) PROVE NotBefore(u, t)
    OBVIOUS
  <2>1. t <= b /\ t <= now
    BY <1>1, <1>2 DEF Reached
  <2> QED
    BY <1>5, <1>7, <2>1 DEF NotBefore
<1>12. \A t \in Ends(u) : Reached(s, t)'
  BY <1>4, <1>8, <1>10 DEF Reached
<1>13. updates' = Append(updates, u) /\ sourceUnchanged
  BY <1>3, <1>6
<1> QED
  BY <1>7, <1>8, <1>9, <1>10, <1>11, <1>12, <1>13, FeedStep

(* A source that hands over its last update.                                 *)
LEMMA FinishKeeps ==
  ASSUME LiveInv, NEW s \in Source, Finish(s)
  PROVE  LiveInv' /\ UNCHANGED screen
<1>0. LiveTypes /\ feed \in [Source -> Feeds] /\ feed[s] \in Feeds /\ sourceUnchanged /\ feed[s].thread = "running"
  BY DEF LiveInv, LiveTypes, Finish
<1>1. feed[s].clock \in Nat /\ feed[s].open \in SUBSET Nat
  BY <1>0 DEF Feeds
<1>2. /\ feed' \in [Source -> Feeds] /\ feed'[s].thread = "finished" /\ feed'[s].open = {}
      /\ \A r \in Source : r # s => feed'[r] = feed[r]
      /\ AtMostOne(feed'[s].open) /\ \A x \in feed'[s].open : x < feed'[s].clock
  <2>1. feed' = [feed EXCEPT ![s] = [feed[s] EXCEPT !.thread = "finished", !.open = {}]]
    BY <1>0 DEF Finish, Feeds
  <2>2. PICK new : new = [feed[s] EXCEPT !.thread = "finished", !.open = {}]
    OBVIOUS
  <2>3. new \in Feeds /\ new.thread = "finished" /\ new.open = {}
    BY <1>0, <2>2 DEF Feeds
  <2>4. feed' = [feed EXCEPT ![s] = new]
    BY <2>1, <2>2
  <2> QED
    BY <1>0, <2>3, <2>4 DEF AtMostOne
<1>3. ASSUME NEW u \in Updates, updates' = Append(updates, u), u.source = s, Chunk(u),
             \A t \in Nat : Reached(s, t) => NotBefore(u, t)
      PROVE  LiveInv' /\ UNCHANGED screen
  <2>1. feed'[s].thread # "running"
    BY <1>2
  <2> QED
    BY <1>0, <1>2, <1>3, <2>1, FeedStep
<1>4. ASSUME NEW b \in feed[s].open,
             updates' = Append(updates, Update(s, {}, <<Span(b, feed[s].clock)>>, {}, TRUE))
      PROVE  LiveInv' /\ UNCHANGED screen
  <2>1. PICK now \in Nat : now = feed[s].clock
    BY <1>1
  <2>2. b \in Nat /\ b < now
    BY <1>0, <1>1, <1>4, <2>1 DEF LiveTypes
  <2>3. /\ Span(b, now) \in Request /\ Span(b, now).start_ms = b
        /\ <<Span(b, now)>> \in Seq(Request) /\ DOMAIN <<Span(b, now)>> = {1} /\ <<Span(b, now)>>[1] = Span(b, now)
    BY <2>2, SpanFacts
  <2>4. PICK u : u = Update(s, {}, <<Span(b, now)>>, {}, TRUE)
    OBVIOUS
  <2>5. u \in Updates /\ u.source = s /\ u.utterances = <<Span(b, now)>> /\ u.watermark = {}
    <3>1. {} \in SUBSET Request /\ {} \in SUBSET Nat /\ TRUE \in BOOLEAN
      OBVIOUS
    <3> QED
      BY <2>3, <2>4, <3>1 DEF Update, Updates
  <2>6. Chunk(u)
    BY <2>3, <2>5 DEF Chunk
  <2>7. \A t \in Nat : Reached(s, t) => NotBefore(u, t)
    BY <2>3, <2>5, <1>4 DEF Reached, NotBefore
  <2>8. updates' = Append(updates, u)
    BY <1>4, <2>1, <2>4
  <2> QED
    BY <1>3, <2>5, <2>6, <2>7, <2>8
<1>5. CASE updates' = Append(updates, Update(s, {}, <<>>, {}, TRUE))
  <2>1. PICK u : u = Update(s, {}, <<>>, {}, TRUE)
    OBVIOUS
  <2>2. u \in Updates /\ u.source = s /\ u.utterances = <<>> /\ u.watermark = {}
    <3>1. {} \in SUBSET Request /\ <<>> \in Seq(Request) /\ {} \in SUBSET Nat /\ TRUE \in BOOLEAN
      OBVIOUS
    <3> QED
      BY <2>1, <3>1 DEF Update, Updates
  <2>3. Chunk(u) /\ \A t \in Nat : NotBefore(u, t)
    BY <2>2 DEF Chunk, NotBefore
  <2>4. updates' = Append(updates, u)
    BY <1>5, <2>1
  <2> QED
    BY <1>3, <2>2, <2>3, <2>4
<1> QED
  BY <1>4, <1>5 DEF Finish, Send

(* A source that dies, or finds that nobody listens.                         *)
LEMMA LoseKeeps ==
  ASSUME LiveInv, NEW s \in Source, Lose(s)
  PROVE  LiveInv' /\ UNCHANGED screen
<1>0. LiveTypes /\ feed \in [Source -> Feeds] /\ feed[s] \in Feeds /\ sourceUnchanged
      /\ feed[s].thread = "running" /\ UNCHANGED updates
  BY DEF LiveInv, LiveTypes, Lose
<1>1. feed' = [feed EXCEPT ![s] = [feed[s] EXCEPT !.thread = "lost"]]
  BY <1>0 DEF Lose, Feeds
<1>2. PICK new : new = [feed[s] EXCEPT !.thread = "lost"]
  OBVIOUS
<1>3. new \in Feeds /\ new.thread = "lost" /\ new.open = feed[s].open /\ new.clock = feed[s].clock
  BY <1>0, <1>2 DEF Feeds
<1>4. feed' = [feed EXCEPT ![s] = new]
  BY <1>1, <1>2
<1>5. /\ feed' \in [Source -> Feeds] /\ feed'[s].thread # "running"
      /\ \A r \in Source : r # s => feed'[r] = feed[r]
      /\ AtMostOne(feed'[s].open) /\ \A x \in feed'[s].open : x < feed'[s].clock
  BY <1>0, <1>3, <1>4 DEF LiveTypes
<1> QED
  BY <1>0, <1>5, FeedStep

(* A call of the pipeline while the queue and the update in hand stay.       *)
LEMMA CallStep ==
  ASSUME LiveInv, coordinatorUnchanged, UNCHANGED <<updates, update, open_from>>,
         pc' \in {"snapshot", "batch"} => pc \in {"snapshot", "batch"},
         PipelineInv', Returns, HeldWhileSending'
  PROVE  LiveInv' /\ UNCHANGED screen
<1>0. /\ PipelineInv /\ LiveTypes /\ UpdatesInOrder /\ EventsInv
      /\ UNCHANGED <<feed, output, screen, deliveries>>
  BY DEF LiveInv, coordinatorUnchanged, sinkVars
<1>1. EventsInv'
  BY <1>0, CallKeepsEvents
<1>2. LiveTypes'
  BY <1>0 DEF LiveTypes, AtMostOne
<1>3. InHand' \subseteq InHand /\ Queued' = Queued
  BY DEF InHand, Queued
<1>4. \A s \in Source : \A t : Reached(s, t)' <=> Reached(s, t)
  BY <1>0 DEF Reached
<1>5. UpdatesInOrder'
  BY <1>0, <1>3, <1>4 DEF UpdatesInOrder
<1> QED
  BY <1>0, <1>1, <1>2, <1>5 DEF LiveInv

(* Outside a call the coordinator holds no events of it.                     *)
LEMMA NothingHeld ==
  ASSUME LiveInv
  PROVE  /\ PipelineInv /\ returned \in Seq(Events) /\ answers \in [JobIds -> Nat]
         /\ pc \notin {"submit", "terminal", "pump", "drain", "ending"} => returned = <<>>
         /\ update \in SUBSET Updates
BY DEF LiveInv, EventsInv, EventTypes, HeldWhileSending, PipelineInv, PipelineTypes, LiveTypes

(* The coordinator moves on without calling the pipeline.                    *)
LEMMA IdleStep ==
  ASSUME LiveInv, coordinatorUnchanged, UNCHANGED <<pipelineVars, updates, update>>,
         pc' \in {"snapshot", "batch"} => pc \in {"snapshot", "batch"}, HeldWhileSending'
  PROVE  LiveInv' /\ UNCHANGED screen
<1>1. PipelineInv /\ returned \in Seq(Events) /\ answers \in [JobIds -> Nat]
  BY NothingHeld
<1>2. PipelineInv' /\ UNCHANGED <<returned, answers, open_from>>
  BY <1>1, PipelineNextHolds DEF pipelineVars
<1>3. Returns
  BY <1>1, <1>2, ReturnsNothing
<1>4. UNCHANGED <<updates, update, open_from>>
  BY <1>2
<1> QED
  BY <1>2, <1>3, <1>4, CallStep

(* A call that returns nothing and answers nothing.                          *)
LEMMA SilentCallStep ==
  ASSUME LiveInv, coordinatorUnchanged, UNCHANGED <<updates, update, open_from, answers>>,
         pc' \in {"snapshot", "batch"} => pc \in {"snapshot", "batch"},
         PipelineInv', returned = <<>>, returned' = <<>>
  PROVE  LiveInv' /\ UNCHANGED screen
<1>1. Returns
  BY NothingHeld, ReturnsNothing
<1>2. HeldWhileSending'
  BY DEF HeldWhileSending
<1> QED
  BY <1>1, <1>2, CallStep

(* Cancellation and failure: the queued finals are answered at once.         *)
LEMMA CancelStep ==
  ASSUME LiveInv, coordinatorUnchanged, UNCHANGED <<updates, update>>, CancelPending,
         pc \notin {"submit", "terminal", "pump", "drain", "ending"}, pc' = "ending"
  PROVE  LiveInv' /\ UNCHANGED screen
<1>1. PipelineInv /\ returned = <<>> /\ UNCHANGED open_from
  BY NothingHeld DEF CancelPending
<1>2. PipelineInv' /\ Returns
  BY <1>1, CancelPendingStep, CancelPendingReturns
<1>3. HeldWhileSending'
  BY DEF HeldWhileSending
<1>4. UNCHANGED <<updates, update, open_from>>
  BY <1>1
<1> QED
  BY <1>2, <1>3, <1>4, CallStep

(* The coordinator's look at the cancellation.                               *)
LEMMA CheckKeeps ==
  ASSUME LiveInv, Check
  PROVE  LiveInv' /\ UNCHANGED screen
<1>0. pc = "check" /\ coordinatorUnchanged /\ UNCHANGED <<updates, update>> /\ returned = <<>>
  BY NothingHeld DEF Check
<1>1. CASE CancelPending /\ pc' = "ending"
  BY <1>0, <1>1, CancelStep
<1>2. CASE UNCHANGED pipelineVars /\ pc' = "receive"
  <2>1. HeldWhileSending'
    BY <1>0, <1>2 DEF HeldWhileSending, pipelineVars
  <2> QED
    BY <1>0, <1>2, <2>1, IdleStep
<1> QED
  BY <1>1, <1>2 DEF Check

(* Waiting for updates in vain.                                              *)
LEMMA WaitKeeps ==
  ASSUME LiveInv, Timeout \/ Disconnected
  PROVE  LiveInv' /\ UNCHANGED screen
<1>0. pc = "receive" /\ coordinatorUnchanged /\ UNCHANGED <<updates, update>> /\ returned = <<>>
  BY NothingHeld DEF Timeout, Disconnected
<1>1. CASE CancelPending /\ pc' = "ending"
  BY <1>0, <1>1, CancelStep
<1>2. CASE UNCHANGED pipelineVars /\ pc' \in {"check", "close"}
  <2>1. HeldWhileSending'
    BY <1>0, <1>2 DEF HeldWhileSending, pipelineVars
  <2> QED
    BY <1>0, <1>2, <2>1, IdleStep
<1> QED
  BY <1>1, <1>2 DEF Timeout, Disconnected

(* The head of the queue comes into hand.                                    *)
LEMMA ReceiveKeeps ==
  ASSUME LiveInv, Receive
  PROVE  LiveInv' /\ UNCHANGED screen
<1>0. /\ PipelineInv /\ LiveTypes /\ UpdatesInOrder /\ EventsInv /\ returned = <<>>
      /\ pc = "receive" /\ pc' = "snapshot" /\ updates # <<>>
      /\ update' = {Head(updates)} /\ updates' = Tail(updates)
      /\ UNCHANGED pipelineVars /\ UNCHANGED <<feed, output, screen, deliveries>>
  BY NothingHeld DEF LiveInv, Receive, coordinatorUnchanged, sinkVars
<1>1. /\ returned \in Seq(Events) /\ answers \in [JobIds -> Nat]
      /\ PipelineInv' /\ UNCHANGED <<returned, answers, open_from>>
  BY <1>0, NothingHeld, PipelineNextHolds DEF pipelineVars
<1>2. EventsInv'
  <2>1. Returns
    BY <1>1, ReturnsNothing
  <2>2. HeldWhileSending'
    BY <1>0, <1>1 DEF HeldWhileSending
  <2> QED
    BY <1>0, <1>1, <2>1, <2>2, CallKeepsEvents
<1>3. /\ updates \in Seq(Updates) /\ Len(updates) \in Nat /\ Len(updates) > 0 /\ DOMAIN updates = 1..Len(updates)
      /\ Head(updates) = updates[1]
  BY <1>0, LenProperties, EmptySeq DEF LiveTypes
<1>4. /\ Head(updates) \in Updates /\ updates' \in Seq(Updates) /\ Len(updates') = Len(updates) - 1
      /\ \A i \in 1..Len(updates') : updates'[i] = updates[i + 1]
  BY <1>0, <1>3, HeadTailProperties
<1>5. DOMAIN updates' = 1..(Len(updates) - 1)
  BY <1>4, LenProperties
<1>6. \A j \in DOMAIN updates' : j + 1 \in DOMAIN updates /\ j + 1 > 1 /\ updates'[j] = updates[j + 1]
  BY <1>3, <1>4, <1>5
<1>7. LiveTypes'
  BY <1>0, <1>4 DEF LiveTypes, AtMostOne
<1>8. InHand' = {updates[1]} /\ 1 \in DOMAIN updates /\ updates[1] \in Queued
  BY <1>0, <1>3 DEF InHand, Queued
<1>9. Queued' \subseteq Queued
  BY <1>6 DEF Queued
<1>10. \A s \in Source : \A t : Reached(s, t)' <=> Reached(s, t)
  BY <1>0 DEF Reached
<1>11. /\ \A u \in Queued : Chunk(u) /\ NotBefore(u, open_from[u.source])
       /\ \A i, j \in DOMAIN updates :
            i < j /\ updates[i].source = updates[j].source =>
              \A t \in Ends(updates[i]) : NotBefore(updates[j], t)
       /\ \A s \in Source : feed[s].thread = "running" =>
            /\ Reached(s, open_from[s])
            /\ \A u \in Queued : u.source = s => \A t \in Ends(u) : Reached(s, t)
  BY <1>0 DEF UpdatesInOrder
<1>12. \A u \in (InHand \cup Queued)' : u \in Queued
  BY <1>8, <1>9
<1>13. \A u \in InHand' : \A j \in DOMAIN updates' :
         updates'[j].source = u.source => \A t \in Ends(u) : NotBefore(updates'[j], t)
  BY <1>6, <1>8, <1>11
<1>14. \A i, j \in DOMAIN updates' :
         i < j /\ updates'[i].source = updates'[j].source =>
           \A t \in Ends(updates'[i]) : NotBefore(updates'[j], t)
  <2> SUFFICES ASSUME NEW i \in DOMAIN updates', NEW j \in DOMAIN updates', i < j,
                      updates'[i].source = updates'[j].source
               PROVE  \A t \in Ends(updates'[i]) : NotBefore(updates'[j], t)
    OBVIOUS
  <2>1. i + 1 \in DOMAIN updates /\ j + 1 \in DOMAIN updates /\ i + 1 < j + 1
    BY <1>3, <1>5, <1>6
  <2> QED
    BY <1>6, <1>11, <2>1
<1>15. UpdatesInOrder'
  BY <1>0, <1>1, <1>10, <1>11, <1>12, <1>13, <1>14 DEF UpdatesInOrder
<1> QED
  BY <1>0, <1>1, <1>2, <1>7, <1>15 DEF LiveInv

(* Handling a snapshot.                                                      *)
LEMMA HandleSnapshotKeeps ==
  ASSUME LiveInv, HandleSnapshot
  PROVE  LiveInv' /\ UNCHANGED screen
<1>0. /\ pc = "snapshot" /\ coordinatorUnchanged /\ PipelineInv /\ returned = <<>>
      /\ update \in SUBSET Updates
  BY NothingHeld DEF HandleSnapshot
<1>1. PICK u \in update :
        \/ pc' = "batch" /\ UNCHANGED <<pipelineVars, updates, update, failed>>
        \/ \E r \in u.partial :
             \/ SubmitSnapshot(u.source, r) /\ pc' = "batch" /\ UNCHANGED <<updates, update, failed>>
             \/ Fail
  BY DEF HandleSnapshot
<1>2. u.source \in Source /\ u.partial \in SUBSET Request
  BY <1>0 DEF Updates
<1>3. CASE pc' = "batch" /\ UNCHANGED <<pipelineVars, updates, update, failed>>
  <2>1. HeldWhileSending'
    BY <1>0, <1>3 DEF HeldWhileSending, pipelineVars
  <2> QED
    BY <1>0, <1>3, <2>1, IdleStep
<1>4. ASSUME NEW r \in u.partial, SubmitSnapshot(u.source, r), pc' = "batch",
             UNCHANGED <<updates, update, failed>>
      PROVE  LiveInv' /\ UNCHANGED screen
  <2>1. r \in Request
    BY <1>2
  <2>2. PipelineInv'
    BY <1>0, <1>2, <1>4, <2>1, SubmitSnapshotStep
  <2>3. returned' = <<>> /\ UNCHANGED <<answers, open_from>>
    BY <1>4 DEF SubmitSnapshot, observerVars
  <2> QED
    BY <1>0, <1>4, <2>2, <2>3, SilentCallStep
<1>5. CASE Fail
  BY <1>0, <1>5, CancelStep DEF Fail
<1> QED
  BY <1>1, <1>3, <1>4, <1>5

(* The call in which the pipeline takes over the order of the update.        *)
LEMMA HandleBatchKeeps ==
  ASSUME LiveInv, HandleBatch
  PROVE  LiveInv' /\ UNCHANGED screen
<1>0. /\ PipelineInv /\ LiveTypes /\ UpdatesInOrder /\ EventsInv /\ returned = <<>>
      /\ pc = "batch" /\ coordinatorUnchanged /\ UNCHANGED <<feed, output, screen, deliveries>>
      /\ update \in SUBSET Updates /\ open_from \in [Source -> Nat]
      /\ returned \in Seq(Events) /\ answers \in [JobIds -> Nat]
  BY NothingHeld DEF LiveInv, HandleBatch, coordinatorUnchanged, sinkVars, PipelineInv, PipelineTypes
<1>1. PICK u \in update :
        \/ /\ BeginBatch(u.source, u.utterances, u.watermark)
           /\ pc' = "submit"
           /\ UNCHANGED <<updates, update, failed>>
        \/ Fail
  BY DEF HandleBatch
<1>2. CASE Fail
  BY <1>0, <1>2, CancelStep DEF Fail
<1>3. CASE /\ BeginBatch(u.source, u.utterances, u.watermark)
           /\ pc' = "submit"
           /\ UNCHANGED <<updates, update, failed>>
  <2>1. u.source \in Source /\ u.utterances \in Seq(Request) /\ u.watermark \in SUBSET Nat
    BY <1>0 DEF Updates
  <2>2. PICK s \in Source, us \in Seq(Request), w \in SUBSET Nat :
          s = u.source /\ us = u.utterances /\ w = u.watermark
    BY <2>1
  <2>3. /\ \A v \in w : w = {v}
        /\ \A i \in DOMAIN us : i = 1 /\ \A v \in w : us[i].start_ms < v
        /\ \A v \in w : open_from[s] <= v
        /\ \A i \in DOMAIN us : open_from[s] <= us[i].start_ms
    <3>1. u \in InHand
      BY <1>0 DEF InHand
    <3>2. Chunk(u) /\ NotBefore(u, open_from[u.source])
      BY <1>0, <3>1 DEF UpdatesInOrder
    <3> QED
      BY <2>2, <3>2 DEF Chunk, NotBefore
  <2>4. Len(us) \in Nat /\ DOMAIN us = 1..Len(us) /\ \A i \in DOMAIN us : us[i] \in Request /\ us[i].start_ms \in Nat
    BY LenProperties, ElementOfSeq DEF Request
  <2>5. Segmented(s, us, w)
    BY <1>0, <2>3, <2>4 DEF Segmented, Timely
  <2>6. BeginBatch(s, us, w)
    BY <1>3, <2>2
  <2>7. PipelineInv'
    BY <1>0, <2>3, <2>5, <2>6, BeginBatchStep
  <2>8. returned' = <<>> /\ UNCHANGED answers
    BY <2>6 DEF BeginBatch
  <2>9. EventsInv'
    <3>1. Returns
      BY <1>0, <2>8, ReturnsNothing
    <3>2. HeldWhileSending'
      BY <2>8 DEF HeldWhileSending
    <3> QED
      BY <1>0, <2>7, <3>1, <3>2, CallKeepsEvents
  <2>10. LiveTypes'
    BY <1>0, <1>3 DEF LiveTypes, AtMostOne
  <2>11. \A t \in OpenAfter(s, us, w) : t \in Ends(u) \/ t = open_from[s]
    <3>1. CASE w # {}
      BY <2>2, <3>1 DEF OpenAfter, Ends
    <3>2. CASE w = {} /\ us # <<>>
      <4>1. Len(us) \in DOMAIN us
        BY <2>4, <3>2, EmptySeq
      <4>2. OpenAfter(s, us, w) = {us[Len(us)].end_ms}
        BY <3>2 DEF OpenAfter, Last
      <4>3. us[Len(us)].end_ms \in Ends(u)
        BY <2>2, <3>2, <4>1 DEF Ends
      <4> QED
        BY <4>2, <4>3
    <3>3. CASE w = {} /\ us = <<>>
      BY <3>3 DEF OpenAfter
    <3> QED
      BY <3>1, <3>2, <3>3
  <2>12. PICK t \in OpenAfter(s, us, w) : open_from' = [open_from EXCEPT ![s] = t]
    BY <2>6 DEF BeginBatch
  <2>13. open_from'[s] = t /\ \A r \in Source : r # s => open_from'[r] = open_from[r]
    BY <1>0, <2>12
  <2>14. InHand' = {} /\ Queued' = Queued
    BY <1>3 DEF InHand, Queued
  <2>15. u \in InHand /\ u.source = s
    BY <1>0, <2>2 DEF InHand
  <2>16. /\ \A v \in Queued : Chunk(v) /\ NotBefore(v, open_from[v.source])
         /\ \A j \in DOMAIN updates :
              updates[j].source = s => \A x \in Ends(u) : NotBefore(updates[j], x)
         /\ \A i, j \in DOMAIN updates :
              i < j /\ updates[i].source = updates[j].source =>
                \A x \in Ends(updates[i]) : NotBefore(updates[j], x)
         /\ \A r \in Source : feed[r].thread = "running" =>
              /\ Reached(r, open_from[r])
              /\ \A v \in Queued : v.source = r => \A x \in Ends(v) : Reached(r, x)
         /\ feed[s].thread = "running" => \A x \in Ends(u) : Reached(s, x)
    BY <1>0, <2>15 DEF UpdatesInOrder
  <2>17. \A v \in Queued : v.source \in Source
    <3>1. updates \in Seq(Updates) /\ DOMAIN updates = 1..Len(updates)
      BY <1>0, LenProperties DEF LiveTypes
    <3>2. \A j \in DOMAIN updates : updates[j] \in Updates
      BY <3>1, ElementOfSeq
    <3> QED
      BY <3>2 DEF Queued, Updates
  <2>18. \A v \in Queued : NotBefore(v, open_from'[v.source])
    <3> SUFFICES ASSUME NEW v \in Queued PROVE NotBefore(v, open_from'[v.source])
      OBVIOUS
    <3>1. CASE v.source # s
      BY <2>13, <2>16, <2>17, <3>1
    <3>2. CASE v.source = s
      <4>1. \A x \in Ends(u) : NotBefore(v, x)
        BY <2>16, <3>2 DEF Queued
      <4> QED
        BY <2>11, <2>12, <2>13, <2>16, <3>2, <4>1
    <3> QED
      BY <3>1, <3>2
  <2>19. \A r \in Source : feed[r].thread = "running" => Reached(r, open_from'[r])
    <3> SUFFICES ASSUME NEW r \in Source, feed[r].thread = "running" PROVE Reached(r, open_from'[r])
      OBVIOUS
    <3>1. CASE r # s
      BY <2>13, <2>16, <3>1
    <3>2. CASE r = s
      BY <2>11, <2>12, <2>13, <2>16, <3>2
    <3> QED
      BY <3>1, <3>2
  <2>20. \A r \in Source : \A x : Reached(r, x)' <=> Reached(r, x)
    BY <1>0 DEF Reached
  <2>20a. \A r \in Source : feed[r].thread = "running" => Reached(r, open_from[r])'
    BY <1>0, <2>19 DEF Reached
  <2>21. UpdatesInOrder'
    BY <1>0, <1>3, <2>14, <2>16, <2>18, <2>20, <2>20a DEF UpdatesInOrder
  <2> QED
    BY <1>0, <2>7, <2>9, <2>10, <2>21 DEF LiveInv
<1> QED
  BY <1>1, <1>2, <1>3

(* Submitting the utterances of a batch.                                     *)
LEMMA SubmitKeeps ==
  ASSUME LiveInv, Submit
  PROVE  LiveInv' /\ UNCHANGED screen
<1>0. pc = "submit" /\ coordinatorUnchanged /\ UNCHANGED <<updates, update>> /\ PipelineInv
      /\ returned \in Seq(Events) /\ answers \in [JobIds -> Nat]
  BY NothingHeld DEF Submit
<1>1. CASE SubmitUtterance /\ UNCHANGED pc
  <2>1. PipelineInv' /\ Returns /\ UNCHANGED open_from
    BY <1>0, <1>1, SubmitUtteranceStep, SubmitUtteranceReturns DEF SubmitUtterance
  <2>2. HeldWhileSending'
    BY <1>0, <1>1 DEF HeldWhileSending
  <2>3. UNCHANGED <<updates, update, open_from>>
    BY <1>0, <2>1
  <2> QED
    BY <1>0, <1>1, <2>1, <2>2, <2>3, CallStep
<1>2. CASE EndBatch /\ pc' = "terminal"
  <2>1. UNCHANGED <<returned, answers, open_from>>
    BY <1>2 DEF EndBatch, observerVars
  <2>2. PipelineInv' /\ Returns
    BY <1>0, <1>2, <2>1, EndBatchStep, ReturnsNothing
  <2>3. HeldWhileSending'
    BY <1>2 DEF HeldWhileSending
  <2>4. UNCHANGED <<updates, update, open_from>>
    BY <1>0, <2>1
  <2> QED
    BY <1>0, <1>2, <2>2, <2>3, <2>4, CallStep
<1> QED
  BY <1>1, <1>2 DEF Submit

(* A call of the coordinator that begins the stop.                           *)
LEMMA StopCall ==
  ASSUME LiveInv, BeginStop, coordinatorUnchanged, UNCHANGED <<updates, update>>, returned = <<>>,
         pc' \notin {"snapshot", "batch"}
  PROVE  LiveInv' /\ UNCHANGED screen
<1>1. returned' = <<>> /\ UNCHANGED <<updates, update, open_from, answers>>
  BY DEF BeginStop, observerVars
<1>2. PipelineInv'
  BY NothingHeld, BeginStopStep
<1> QED
  BY <1>1, <1>2, SilentCallStep

(* A call that seals a source.                                               *)
LEMMA SealCall ==
  ASSUME LiveInv, NEW s \in Source, SealSource(s), coordinatorUnchanged, UNCHANGED <<updates, update>>,
         returned = <<>>, pc' \notin {"snapshot", "batch"}
  PROVE  LiveInv' /\ UNCHANGED screen
<1>1. returned' = <<>> /\ UNCHANGED <<updates, update, open_from, answers>>
  BY DEF SealSource, observerVars
<1>2. PipelineInv'
  BY NothingHeld, SealSourceStep
<1> QED
  BY <1>1, <1>2, SilentCallStep

(* A call that leaves the pipeline alone.                                    *)
LEMMA IdleCall ==
  ASSUME LiveInv, UNCHANGED pipelineVars, coordinatorUnchanged, UNCHANGED <<updates, update>>,
         returned = <<>>, pc' \notin {"snapshot", "batch"}
  PROVE  LiveInv' /\ UNCHANGED screen
<1>1. HeldWhileSending'
  BY DEF HeldWhileSending, pipelineVars
<1>2. UNCHANGED <<pipelineVars, updates, update>>
  OBVIOUS
<1> QED
  BY <1>1, <1>2, IdleStep

(* Handling the last update of a source.                                     *)
LEMMA HandleTerminalKeeps ==
  ASSUME LiveInv, HandleTerminal
  PROVE  LiveInv' /\ UNCHANGED screen
<1>0. coordinatorUnchanged /\ UNCHANGED <<updates, update>> /\ returned = <<>>
      /\ pc' \notin {"snapshot", "batch"} /\ (BeginStop \/ UNCHANGED pipelineVars)
  BY DEF HandleTerminal
<1> QED
  BY <1>0, StopCall, IdleCall

(* Sealing the source whose last update was handled.                         *)
LEMMA SealKeeps ==
  ASSUME LiveInv, Seal
  PROVE  LiveInv' /\ UNCHANGED screen
<1>0. pc = "seal" /\ coordinatorUnchanged /\ returned = <<>> /\ update \in SUBSET Updates
  BY NothingHeld DEF Seal
<1>1. PICK u \in update :
        \/ SealSource(u.source) /\ pc' = "pump" /\ UNCHANGED <<updates, update, failed>>
        \/ Fail
  BY DEF Seal
<1>2. u.source \in Source
  BY <1>0 DEF Updates
<1>3. CASE Fail
  BY <1>0, <1>3, CancelStep DEF Fail
<1>4. CASE SealSource(u.source) /\ pc' = "pump" /\ UNCHANGED <<updates, update, failed>>
  BY <1>0, <1>2, <1>4, SealCall
<1> QED
  BY <1>1, <1>3, <1>4

(* Closing the sources when no update can come any more.                     *)
LEMMA CloseKeeps ==
  ASSUME LiveInv, Close
  PROVE  LiveInv' /\ UNCHANGED screen
<1>0. pc = "close" /\ coordinatorUnchanged /\ UNCHANGED <<updates, update>> /\ returned = <<>>
      /\ pc' \notin {"snapshot", "batch"}
  BY NothingHeld DEF Close
<1>1. BeginStop \/ UNCHANGED pipelineVars \/ \E s \in Source : SealSource(s)
  BY DEF Close
<1> QED
  BY <1>0, <1>1, StopCall, IdleCall, SealCall

(* Pumping the pipeline.                                                     *)
LEMMA PumpKeeps ==
  ASSUME LiveInv, Pump
  PROVE  LiveInv' /\ UNCHANGED screen
<1>0. /\ pc \in {"pump", "drain"} /\ coordinatorUnchanged /\ UNCHANGED <<updates, update>> /\ returned = <<>>
      /\ pc' \notin {"snapshot", "batch"} /\ PipelineInv
  BY NothingHeld DEF Pump
<1>1. ASSUME NEW outcome \in {"final", "gap"}, PumpFinal(outcome), UNCHANGED pc
      PROVE  LiveInv' /\ UNCHANGED screen
  <2>1. PipelineInv' /\ Returns
    BY <1>0, <1>1, PumpFinalStep, PumpFinalReturns
  <2>2. HeldWhileSending'
    BY <1>0, <1>1 DEF HeldWhileSending
  <2>3. UNCHANGED <<updates, update, open_from>>
    BY <1>0, <1>1 DEF PumpFinal
  <2> QED
    BY <1>0, <2>1, <2>2, <2>3, CallStep
<1>2. ASSUME NEW s \in Source, PumpPartial(s, TRUE), UNCHANGED pc
      PROVE  LiveInv' /\ UNCHANGED screen
  <2>1. PipelineInv' /\ Returns
    BY <1>0, <1>2, PumpPartialStep, PumpPartialReturns
  <2>2. HeldWhileSending'
    BY <1>0, <1>2 DEF HeldWhileSending
  <2>3. UNCHANGED <<updates, update, open_from>>
    BY <1>0, <1>2 DEF PumpPartial, observerVars
  <2> QED
    BY <1>0, <2>1, <2>2, <2>3, CallStep
<1>3. ASSUME NEW s \in Source, PumpPartial(s, FALSE)
      PROVE  LiveInv' /\ UNCHANGED screen
  <2>1. PipelineInv'
    BY <1>0, <1>3, PumpPartialStep
  <2>2. returned' = <<>> /\ UNCHANGED <<updates, update, open_from, answers>>
    BY <1>0, <1>3 DEF PumpPartial, observerVars
  <2> QED
    BY <1>0, <2>1, <2>2, SilentCallStep
<1>4. CASE PumpNothing
  <2>1. PipelineInv'
    BY <1>0, <1>4, PumpNothingStep
  <2>2. returned' = <<>> /\ UNCHANGED <<updates, update, open_from, answers>>
    BY <1>0, <1>4 DEF PumpNothing, observerVars
  <2> QED
    BY <1>0, <2>1, <2>2, SilentCallStep
<1> QED
  BY <1>1, <1>2, <1>3, <1>4 DEF Pump

(* The coordinator's end.                                                    *)
LEMMA EndKeeps ==
  ASSUME LiveInv, End
  PROVE  LiveInv' /\ UNCHANGED screen
<1>0. coordinatorUnchanged /\ UNCHANGED <<pipelineVars, updates, update, failed>> /\ returned = <<>>
      /\ pc' \notin {"snapshot", "batch"}
  BY DEF End
<1> QED
  BY <1>0, IdleCall

(* The sources and their updates are left alone.                             *)
LEMMA OrderStays ==
  ASSUME LiveTypes, UpdatesInOrder, UNCHANGED <<feed, updates, update, pc, open_from>>
  PROVE  LiveTypes' /\ UpdatesInOrder'
<1>1. LiveTypes'
  BY DEF LiveTypes, AtMostOne
<1>2. InHand' = InHand /\ Queued' = Queued
  BY DEF InHand, Queued
<1>3. \A s \in Source : \A t : Reached(s, t)' <=> Reached(s, t)
  BY DEF Reached
<1>4. UpdatesInOrder'
  BY <1>2, <1>3 DEF UpdatesInOrder
<1> QED
  BY <1>1, <1>4

(* Events are queued and delivered in their order, and no answer is taken    *)
(* back.                                                                     *)
LEMMA EventsMove ==
  ASSUME LiveInv, Emit \/ Deliver
  PROVE  /\ LiveInv'
         /\ \A id \in JobIds : screen[id] = "answered" => screen'[id] = "answered"
<1>0. PipelineInv /\ LiveTypes /\ UpdatesInOrder /\ EventsInv
  BY DEF LiveInv
<1>1. CASE Emit
  <2>1. /\ UNCHANGED <<schedulerVars, state, frontiers, next_job_id, identities, last_started, batch,
                       received, answers, open_from>>
        /\ UNCHANGED <<feed, updates, update, pc, open_from>> /\ UNCHANGED screen
    BY <1>1 DEF Emit, lifecycleVars, identityVars, observerVars, coordinatorVars, sinkVars
  <2>2. PipelineInv' /\ LiveTypes' /\ UpdatesInOrder' /\ EventsInv'
    BY <1>0, <1>1, <2>1, PipelineSame, OrderStays, EmitKeeps
  <2> QED
    BY <2>1, <2>2 DEF LiveInv
<1>2. CASE Deliver
  <2>1. UNCHANGED pipelineVars /\ UNCHANGED <<feed, updates, update, pc>>
    BY <1>2 DEF Deliver, coordinatorVars
  <2>2. PipelineInv' /\ UNCHANGED open_from
    BY <1>0, <2>1, PipelineNextHolds DEF pipelineVars
  <2>3. UNCHANGED <<feed, updates, update, pc, open_from>>
    BY <2>1, <2>2
  <2>4. LiveTypes' /\ UpdatesInOrder'
    BY <1>0, <2>3, OrderStays
  <2>5. EventsInv' /\ \A id \in JobIds : screen[id] = "answered" => screen'[id] = "answered"
    BY <1>0, <1>2, DeliverKeeps
  <2> QED
    BY <2>2, <2>4, <2>5 DEF LiveInv
<1> QED
  BY <1>1, <1>2

(* Steps that touch flags only.                                              *)
LEMMA OnlyFlags ==
  ASSUME LiveInv,
         UNCHANGED <<pipelineVars, feed, updates, output, pc, update, screen, deliveries>>
  PROVE  LiveInv' /\ UNCHANGED screen
<1>0. PipelineInv /\ LiveTypes /\ UpdatesInOrder /\ EventsInv
      /\ UNCHANGED <<output, pc, screen, deliveries>>
  BY DEF LiveInv
<1>1. PipelineInv' /\ UNCHANGED <<returned, answers, open_from>>
  BY <1>0, PipelineNextHolds DEF pipelineVars
<1>2. LiveTypes' /\ UpdatesInOrder'
  BY <1>0, <1>1, OrderStays
<1>3. EventsInv'
  BY <1>0, <1>1 DEF EventsInv, EventTypes, HeldWhileSending, EventsConserved, PartialsFirst, Count
<1> QED
  BY <1>0, <1>1, <1>2, <1>3 DEF LiveInv

-----------------------------------------------------------------------------
(* A run begins with its invariant.                                          *)
LEMMA LiveInitHolds == LiveInit => LiveInv
<1> SUFFICES ASSUME LiveInit PROVE LiveInv
  OBVIOUS
<1>1. PipelineInv
  BY PipelineInitHolds DEF LiveInit
<1>2. updates = <<>> /\ output = <<>> /\ returned = <<>> /\ update = {} /\ pc = "check"
  BY DEF LiveInit, PipelineInit
<1>3. DOMAIN updates = {} /\ DOMAIN output = {} /\ DOMAIN returned = {}
  BY <1>2
<1>4. \A s \in Source : feed[s].clock = 0 /\ feed[s].open = {} /\ open_from[s] = 0
  BY DEF LiveInit, PipelineInit
<1>5. LiveTypes
  <2>1. feed \in [Source -> Feeds]
    BY DEF LiveInit, Feeds
  <2> QED
    BY <1>2, <1>4, <2>1 DEF LiveTypes, AtMostOne
<1>6. UpdatesInOrder
  <2>1. InHand = {} /\ Queued = {}
    BY <1>2, <1>3 DEF InHand, Queued
  <2> QED
    BY <1>3, <1>4, <2>1 DEF UpdatesInOrder, Reached
<1>7. EventsInv
  <2>1. EventTypes
    BY <1>2 DEF LiveInit, EventTypes, HeldWhileSending
  <2>2. EventsConserved
    BY <1>2, CountEmpty DEF EventsConserved, LiveInit, PipelineInit
  <2>3. PartialsFirst
    BY <1>3 DEF PartialsFirst
  <2> QED
    BY <2>1, <2>2, <2>3 DEF EventsInv
<1> QED
  BY <1>1, <1>5, <1>6, <1>7 DEF LiveInv

(* Every step of a run keeps its invariant and every answer on the screen.   *)
LEMMA LiveNextHolds ==
  ASSUME LiveInv, [LiveNext]_liveVars
  PROVE  /\ LiveInv'
         /\ \A id \in JobIds : screen[id] = "answered" => screen'[id] = "answered"
<1>1. CASE Check \/ Receive \/ Timeout \/ Disconnected \/ HandleSnapshot \/ HandleBatch \/ Submit
  BY <1>1, CheckKeeps, ReceiveKeeps, WaitKeeps, HandleSnapshotKeeps, HandleBatchKeeps, SubmitKeeps
<1>2. CASE HandleTerminal \/ Seal \/ Close \/ Pump \/ End
  BY <1>2, HandleTerminalKeeps, SealKeeps, CloseKeeps, PumpKeeps, EndKeeps
<1>3. CASE Emit \/ Deliver
  BY <1>3, EventsMove
<1>4. ASSUME NEW s \in Source, SourceStep(s) PROVE LiveInv' /\ UNCHANGED screen
  BY <1>4, SilenceKeeps, SpeechKeeps, SpeechEndsKeeps, FinishKeeps, LoseKeeps
     DEF SourceStep, LoseReceiver, Panic
<1>5. CASE RequestStop \/ Cancel \/ Over \/ UNCHANGED liveVars
  <2>1. UNCHANGED <<pipelineVars, feed, updates, output, pc, update, screen, deliveries>>
    BY <1>5 DEF RequestStop, Cancel, Over, liveVars, coordinatorVars, sinkVars
  <2> QED
    BY <2>1, OnlyFlags
<1> QED
  BY <1>1, <1>2, <1>3, <1>4, <1>5 DEF LiveNext, Coordinator

-----------------------------------------------------------------------------
(* A live run never pauses.  It drains only what no source can add to, so    *)
(* that it leaves nothing behind when it ends.                               *)
RunEnds ==
  /\ state \in {"Running", "Stopping", "Stopped", "Cancelled"}
  /\ pc = "drain" => state # "Running" /\ (state = "Stopping" => BothSealed)
  /\ pc \in {"ending", "done"} => state \in {"Stopped", "Cancelled"}

(* Every step keeps that a run ends with nothing left behind.                *)
LEMMA RunEndsStep ==
  ASSUME RunEnds, [LiveNext]_liveVars
  PROVE  RunEnds'
<1>0. /\ state \in {"Running", "Stopping", "Stopped", "Cancelled"}
      /\ pc = "drain" => state # "Running" /\ (state = "Stopping" => BothSealed)
      /\ pc \in {"ending", "done"} => state \in {"Stopped", "Cancelled"}
  BY DEF RunEnds
<1>1. CASE UNCHANGED <<state, frontiers, pc>>
  BY <1>0, <1>1 DEF RunEnds, BothSealed
<1>2. CASE CancelPending /\ pc' = "ending"
  BY <1>2 DEF RunEnds, CancelPending
<1>3. CASE UNCHANGED state /\ pc' \notin {"drain", "ending", "done"}
  BY <1>0, <1>3 DEF RunEnds
<1>4. CASE Check \/ Receive \/ Timeout \/ Disconnected \/ HandleSnapshot \/ HandleBatch \/ Submit
  <2>1. \/ CancelPending /\ pc' = "ending"
        \/ UNCHANGED state /\ pc' \notin {"drain", "ending", "done"}
    BY <1>4 DEF Check, Receive, Timeout, Disconnected, HandleSnapshot, HandleBatch, Submit, Fail,
       pipelineVars, SubmitSnapshot, BeginBatch, SubmitUtterance, EndBatch, lifecycleVars
  <2> QED
    BY <1>2, <1>3, <2>1
<1>5. CASE Emit \/ Deliver \/ RequestStop \/ Cancel \/ Over \/ UNCHANGED liveVars
  BY <1>1, <1>5 DEF Emit, Deliver, RequestStop, Cancel, Over, liveVars, pipelineVars, coordinatorVars, lifecycleVars
<1>6. ASSUME NEW s \in Source, SourceStep(s) PROVE RunEnds'
  BY <1>1, <1>6 DEF SourceStep, Silence, Speech, SpeechEnds, Finish, LoseReceiver, Panic, Lose,
     sourceUnchanged, pipelineVars, coordinatorVars
<1>7. ASSUME BeginStop, pc' \notin {"drain", "ending", "done"} PROVE RunEnds'
  BY <1>7 DEF RunEnds, BeginStop
<1>8. ASSUME NEW s, SealSource(s), pc' \notin {"drain", "ending", "done"} PROVE RunEnds'
  <2>1. state' \in {state, "Stopped"}
    BY <1>0, <1>8 DEF SealSource, Settled
  <2> QED
    BY <1>0, <1>8, <2>1 DEF RunEnds
<1>9. CASE HandleTerminal
  <2>1. pc' \notin {"drain", "ending", "done"} /\ (BeginStop \/ UNCHANGED state)
    BY <1>9 DEF HandleTerminal, pipelineVars
  <2> QED
    BY <1>3, <1>7, <2>1
<1>10. CASE Seal
  <2>1. \/ CancelPending /\ pc' = "ending"
        \/ pc' = "pump" /\ \E u \in update : SealSource(u.source)
    BY <1>10 DEF Seal, Fail
  <2> QED
    BY <1>2, <1>8, <2>1
<1>11. CASE Close
  <2>1. CASE BeginStop /\ UNCHANGED pc
    BY <1>7, <1>11, <2>1 DEF Close
  <2>2. ASSUME NEW s \in Source, SealSource(s), UNCHANGED pc PROVE RunEnds'
    BY <1>8, <1>11, <2>2 DEF Close
  <2>3. CASE /\ state # "Running" /\ \A s \in Source : SealRefused(s)
             /\ pc' = "drain" /\ UNCHANGED pipelineVars
    BY <1>0, <2>3 DEF RunEnds, SealRefused, BothSealed, pipelineVars
  <2> QED
    BY <1>11, <2>1, <2>2, <2>3 DEF Close
<1>12. CASE Pump
  <2>1. ASSUME NEW outcome \in {"final", "gap"}, PumpFinal(outcome), UNCHANGED pc PROVE RunEnds'
    <3>1. state' \in {state, "Stopped"} /\ UNCHANGED <<frontiers, pc>> /\ pc \in {"pump", "drain"}
      BY <1>0, <1>12, <2>1 DEF Pump, PumpFinal, Settled
    <3> QED
      BY <1>0, <3>1 DEF RunEnds, BothSealed
  <2>2. ASSUME NEW s \in Source, NEW succeeds \in BOOLEAN, PumpPartial(s, succeeds),
               pc' = pc \/ pc' = (IF pc = "drain" \/ state' = "Stopped" THEN "ending" ELSE "check")
        PROVE  RunEnds'
    <3>1. state = "Running" /\ UNCHANGED <<state, frontiers>> /\ pc \in {"pump", "drain"}
      BY <1>12, <2>2 DEF Pump, PumpPartial, lifecycleVars
    <3>2. pc = "pump" /\ pc' \in {"pump", "check"}
      BY <1>0, <2>2, <3>1
    <3> QED
      BY <1>0, <3>1, <3>2 DEF RunEnds
  <2>3. CASE PumpNothing /\ pc' = IF pc = "drain" \/ state' = "Stopped" THEN "ending" ELSE "check"
    <3>1. /\ state' = Settled(finals, BothSealed) /\ ~FinalReady /\ pc \in {"pump", "drain"}
      BY <1>12, <2>3 DEF Pump, PumpNothing
    <3>2. state' \in {state, "Stopped"}
      BY <1>0, <3>1 DEF Settled
    <3>3. CASE pc = "pump"
      BY <1>0, <2>3, <3>2, <3>3 DEF RunEnds
    <3>4. CASE pc = "drain"
      <4>1. CASE state = "Stopping"
        <5>1. finals = <<>> /\ BothSealed
          BY <1>0, <3>1, <3>4, <4>1 DEF FinalReady, BothSealed
        <5>2. state' = "Stopped"
          BY <3>1, <4>1, <5>1 DEF Settled
        <5> QED
          BY <2>3, <3>4, <5>2 DEF RunEnds
      <4>2. CASE state # "Stopping"
        BY <1>0, <2>3, <3>2, <3>4, <4>2 DEF RunEnds
      <4> QED
        BY <4>1, <4>2
    <3> QED
      BY <3>1, <3>3, <3>4
  <2> QED
    BY <1>12, <2>1, <2>2, <2>3 DEF Pump
<1>13. CASE End
  BY <1>0, <1>13 DEF End, RunEnds, pipelineVars
<1> QED
  BY <1>4, <1>5, <1>6, <1>9, <1>10, <1>11, <1>12, <1>13 DEF LiveNext, Coordinator

-----------------------------------------------------------------------------
(* The inductive invariant of a live run: the pipeline's, the order of the   *)
(* updates that reach it, and the events that leave it.                      *)
THEOREM LiveInvariant == LiveSpec => []LiveInv
<1>1. LiveInv /\ [LiveNext]_liveVars => LiveInv'
  BY LiveNextHolds
<1> QED
  BY <1>1, LiveInitHolds, PTL DEF LiveSpec

(* No result or gap is lost or duplicated on its way to the listener, also   *)
(* when the coordinator waits for room, fails or is cancelled.               *)
THEOREM EventsAreConserved == LiveSpec => []EventsConserved
<1>1. LiveInv => EventsConserved
  BY DEF LiveInv, EventsInv
<1> QED
  BY <1>1, LiveInvariant, PTL

(* The listener never hears a partial of an utterance after its answer.      *)
THEOREM PartialsComeFirst == LiveSpec => PartialNeverAfterAnswer
<1>1. LiveInv /\ [LiveNext]_liveVars =>
        [\A id \in JobIds : screen[id] = "answered" => screen'[id] = "answered"]_liveVars
  BY LiveNextHolds
<1> QED
  BY <1>1, LiveInvariant, PTL DEF LiveSpec, PartialNeverAfterAnswer

(* Between its threads the pipeline still answers every final exactly once   *)
(* and starts them in the order of the meeting: the updates that arrive keep *)
(* the segmenters' side of the contract.                                     *)
THEOREM LiveFinalsAnsweredInOrder == LiveSpec => [](FinalsAnsweredOnce /\ StartsChronological)
<1>1. LiveInv => FinalsAnsweredOnce /\ StartsChronological
  BY DEF LiveInv, PipelineInv
<1> QED
  BY <1>1, LiveInvariant, PTL

(* When the coordinator has returned, every final it took was answered, both *)
(* sources are sealed and nothing waits, also when a source died.            *)
THEOREM RunsEndSettled == LiveSpec => []EndsSettled
<1>1. LiveInit => RunEnds
  BY DEF LiveInit, PipelineInit, RunEnds
<1>2. RunEnds /\ [LiveNext]_liveVars => RunEnds'
  BY RunEndsStep
<1>3. LiveInv /\ RunEnds => EndsSettled
  <2> SUFFICES ASSUME LiveInv, RunEnds, pc = "done"
               PROVE  /\ state \in {"Stopped", "Cancelled"} /\ BoundaryDrained
                      /\ \A id \in received : answers[id] = 1
    BY DEF EndsSettled
  <2>1. state \in {"Stopped", "Cancelled"} /\ BoundaryDrained /\ FinalsAnsweredOnce /\ received \in SUBSET JobIds
    BY DEF RunEnds, LiveInv, PipelineInv, PipelineTypes, BoundariesHold
  <2>2. finals = <<>>
    BY <2>1 DEF BoundaryDrained
  <2>3. \A id \in JobIds : ~QueuedFinal(id)
    BY <2>2 DEF QueuedFinal
  <2>4. \A id \in received : answers[id] = 1
    BY <2>1, <2>3 DEF FinalsAnsweredOnce
  <2> QED
    BY <2>1, <2>4
<1> QED
  BY <1>1, <1>2, <1>3, LiveInvariant, PTL DEF LiveSpec

-----------------------------------------------------------------------------
(* The ledger.  Only a submitted utterance is taken and only a delivery is   *)
(* heard; once everything is drained, no thread has a step left.             *)

(* A submitted utterance is a new one.                                       *)
LEMMA SubmitTakes ==
  ASSUME LiveInv, SubmitUtterance, UNCHANGED <<screen, deliveries>>
  PROVE  \E u \in JobIds : Ledger!Take(u)
<1>0. PipelineTypes /\ IdsOwned
  BY DEF LiveInv, PipelineInv
<1>1. PICK b \in batch :
        /\ b.utterances # <<>>
        /\ \E id \in IdFor(b.source, Head(b.utterances).start_ms) : received' = received \cup {id}
        /\ TakeJobId(b.source, Head(b.utterances).start_ms)
  BY DEF SubmitUtterance
<1>2. b \in Calls
  BY <1>0, <1>1 DEF PipelineTypes
<1>3. PICK s \in Source, q \in Seq(Request) : s = b.source /\ q = b.utterances /\ q # <<>>
  BY <1>1, <1>2 DEF Calls
<1>4. Head(q) \in Request
  BY <1>3
<1>5. PICK start \in Nat : start = Head(b.utterances).start_ms
  BY <1>3, <1>4, SchedulerAssumption DEF Request
<1>6. PICK id \in IdFor(s, start) : received' = received \cup {id}
  BY <1>1, <1>3, <1>5
<1>7. id \in JobIds /\ id \notin received
  BY <1>0, <1>1, <1>3, <1>5, <1>6, IdFacts
<1> QED
  BY <1>6, <1>7 DEF Ledger!Take

(* What is heard is a partial of an unanswered utterance, or the only answer *)
(* of one that was taken.                                                    *)
LEMMA DeliveryHeard ==
  ASSUME LiveInv, Deliver
  PROVE  \E u \in JobIds : Ledger!HearPartial(u) \/ Ledger!HearAnswer(u)
<1>0. /\ EventTypes /\ EventsConserved /\ PartialsFirst /\ FinalsAnsweredOnce /\ output # <<>>
      /\ UNCHANGED received
  BY DEF LiveInv, EventsInv, PipelineInv, Deliver, pipelineVars
<1>1. /\ output \in Seq(Events) /\ returned \in Seq(Events) /\ deliveries \in [JobIds -> Nat]
  BY <1>0 DEF EventTypes
<1>2. PICK event \in Events : event = Head(output)
  BY <1>0, <1>1, CountTail
<1>3. event = output[1] /\ 1 \in DOMAIN output
  BY <1>0, <1>1, <1>2, CountTail
<1>4. PICK u \in JobIds : u = event.job_id
  BY DEF Events
<1>5. CASE event.kind = "partial"
  <2>1. deliveries[u] = 0
    BY <1>0, <1>3, <1>4, <1>5 DEF PartialsFirst
  <2>2. screen' = [screen EXCEPT ![u] = "partial"] /\ UNCHANGED deliveries
    BY <1>2, <1>4, <1>5 DEF Deliver
  <2> QED
    BY <1>0, <2>1, <2>2 DEF Ledger!HearPartial
<1>6. CASE event.kind # "partial"
  <2>1. /\ screen' = [screen EXCEPT ![u] = "answered"]
        /\ deliveries' = [deliveries EXCEPT ![u] = @ + 1]
    BY <1>2, <1>4, <1>6 DEF Deliver
  <2>2. Count(u, output) \in Nat /\ Count(u, output) # 0 /\ Count(u, returned) \in Nat
    BY <1>1, <1>3, <1>4, <1>6, CountIs DEF Answer
  <2>3. deliveries[u] \in Nat /\ answers[u] = deliveries[u] + Count(u, output) + Count(u, returned)
    BY <1>0, <1>1 DEF EventsConserved
  <2>4. answers[u] \in {0, 1} /\ (answers[u] = 1 => u \in received)
    BY <1>0 DEF FinalsAnsweredOnce
  <2>5. u \in received /\ deliveries[u] = 0
    BY <2>2, <2>3, <2>4
  <2>6. deliveries' = [deliveries EXCEPT ![u] = 1]
    BY <1>1, <2>1, <2>5
  <2> QED
    BY <1>0, <2>1, <2>5, <2>6 DEF Ledger!HearAnswer
<1> QED
  BY <1>5, <1>6

(* Every step of a run that is not over is one of the ledger's.              *)
LEMMA StepsOfLedger ==
  ASSUME LiveInv, [LiveNext]_liveVars
  PROVE  \/ \E u \in JobIds : Ledger!Take(u) \/ Ledger!HearPartial(u) \/ Ledger!HearAnswer(u)
         \/ UNCHANGED <<received, screen, deliveries>>
<1>1. CASE UNCHANGED <<received, screen, deliveries>>
  BY <1>1
<1>2. CASE Check \/ Receive \/ Timeout \/ Disconnected \/ HandleSnapshot \/ HandleBatch \/ Emit
  BY <1>1, <1>2 DEF Check, Receive, Timeout, Disconnected, HandleSnapshot, HandleBatch, Emit, Fail,
     CancelPending, SubmitSnapshot, BeginBatch, pipelineVars, observerVars, coordinatorUnchanged, sinkVars
<1>3. CASE Submit
  <2>1. UNCHANGED <<screen, deliveries>> /\ (SubmitUtterance \/ EndBatch)
    BY <1>3 DEF Submit, coordinatorUnchanged, sinkVars
  <2>2. EndBatch => UNCHANGED received
    BY DEF EndBatch, observerVars
  <2> QED
    BY <1>1, <2>1, <2>2, SubmitTakes
<1>4. CASE HandleTerminal \/ Seal \/ Close \/ End
  BY <1>1, <1>4 DEF HandleTerminal, Seal, Close, End, Fail, CancelPending, BeginStop, SealSource,
     pipelineVars, observerVars, coordinatorUnchanged, sinkVars
<1>5. CASE Pump
  BY <1>1, <1>5 DEF Pump, PumpFinal, PumpPartial, PumpNothing, observerVars, coordinatorUnchanged, sinkVars
<1>6. ASSUME NEW s \in Source, SourceStep(s) PROVE UNCHANGED <<received, screen, deliveries>>
  BY <1>6 DEF SourceStep, Silence, Speech, SpeechEnds, Finish, LoseReceiver, Panic, Lose,
     sourceUnchanged, pipelineVars, sinkVars
<1>7. CASE RequestStop \/ Cancel \/ Over \/ UNCHANGED liveVars
  BY <1>1, <1>7 DEF RequestStop, Cancel, Over, liveVars, pipelineVars, sinkVars
<1> QED
  BY <1>1, <1>2, <1>3, <1>4, <1>5, <1>6, <1>7, DeliveryHeard DEF LiveNext, Coordinator

(* Nothing moves in a run that is over.                                      *)
LEMMA OverForGood ==
  ASSUME Drained, [LiveNext]_liveVars
  PROVE  UNCHANGED <<received, screen, deliveries, Drained>>
<1>1. pc = "done" /\ output = <<>> /\ \A s \in Source : feed[s].thread # "running"
  BY DEF Drained
<1>2. UNCHANGED <<received, screen, deliveries, pc, output, feed>>
  <2>1. ~Coordinator /\ ~Deliver
    BY <1>1 DEF Coordinator, Check, Receive, Timeout, Disconnected, HandleSnapshot, HandleBatch,
       Submit, Emit, HandleTerminal, Seal, Close, Pump, End, Deliver
  <2>2. \A s \in Source : ~SourceStep(s)
    BY <1>1 DEF SourceStep, Silence, Speech, SpeechEnds, Advance, Finish, LoseReceiver, Panic, Lose
  <2> QED
    BY <2>1, <2>2 DEF LiveNext, RequestStop, Cancel, Over, liveVars, pipelineVars, coordinatorVars, sinkVars
<1> QED
  BY <1>2 DEF Drained

(* A run that is over owes nothing to its listener.                          *)
NothingOwed == Drained => \A u \in received : deliveries[u] = 1

LEMMA DrainedOwesNothing == LiveInv /\ EndsSettled => NothingOwed
<1> SUFFICES ASSUME LiveInv, EndsSettled, Drained, NEW u \in received PROVE deliveries[u] = 1
  BY DEF NothingOwed
<1>1. /\ EventTypes /\ EventsConserved /\ received \in SUBSET JobIds /\ pc = "done" /\ output = <<>>
  BY DEF LiveInv, EventsInv, PipelineInv, PipelineTypes, Drained
<1>2. returned = <<>> /\ answers[u] = 1 /\ u \in JobIds
  BY <1>1 DEF EventTypes, HeldWhileSending, EndsSettled
<1>3. Count(u, output) = 0 /\ Count(u, returned) = 0
  BY <1>1, <1>2, CountEmpty
<1>4. answers[u] = deliveries[u] + Count(u, output) + Count(u, returned) /\ deliveries[u] \in Nat
  BY <1>1, <1>2 DEF EventsConserved, EventTypes
<1> QED
  BY <1>2, <1>3, <1>4

(* A live run implements the ledger of its utterances: each of its steps, of *)
(* any thread, takes an utterance, is heard, or is not noticed, and when the *)
(* last thread has ended every utterance taken was answered once.            *)
THEOREM LiveImplementsLedger == LiveSpec => RunKeepsLedger
<1>1. LiveInit => Ledger!LedgerInit
  BY DEF LiveInit, PipelineInit, Ledger!LedgerInit, Drained
<1>2. LiveInv /\ NothingOwed' /\ [LiveNext]_liveVars
        => [Ledger!LedgerNext]_<<received, screen, deliveries, Drained>>
  <2> SUFFICES ASSUME LiveInv, NothingOwed', [LiveNext]_liveVars
               PROVE  [Ledger!LedgerNext]_<<received, screen, deliveries, Drained>>
    OBVIOUS
  <2>1. CASE Drained
    BY <2>1, OverForGood
  <2>2. CASE ~Drained
    <3>1. Drained' => \A u \in received' : deliveries'[u] = 1
      BY DEF NothingOwed
    <3>2. Drained' \in BOOLEAN
      BY DEF Drained
    <3>3. \/ \E u \in JobIds : Ledger!Take(u) \/ Ledger!HearPartial(u) \/ Ledger!HearAnswer(u)
          \/ UNCHANGED <<received, screen, deliveries>>
      BY StepsOfLedger
    <3> QED
      BY <2>2, <3>1, <3>2, <3>3 DEF Ledger!LedgerNext
  <2> QED
    BY <2>1, <2>2
<1>3. LiveSpec => []NothingOwed
  BY DrainedOwesNothing, LiveInvariant, RunsEndSettled, PTL
<1> QED
  BY <1>1, <1>2, <1>3, LiveInvariant, PTL DEF LiveSpec, RunKeepsLedger, Ledger!LedgerSpec

=============================================================================
