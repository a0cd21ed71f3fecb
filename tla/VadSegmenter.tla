---------------------------- MODULE VadSegmenter ----------------------------
(***************************************************************************)
(* The segmenter of one source (audio/vad.rs): chunks of samples are cut   *)
(* into frames, a predictor calls each frame speech or silence, and frames *)
(* become utterances with pre-roll, trailing silence and a hard split.     *)
(*                                                                         *)
(* Audio is a number of samples on the source's timeline, which is counted *)
(* in samples too: at 16 kHz every length the code converts is a whole     *)
(* number of milliseconds.  The predictor is free.  An Option of the code  *)
(* is a set with at most one element.                                      *)
(***************************************************************************)
EXTENDS Integers, Sequences, SequencesExt

CONSTANTS
  ChunkSamples,      (* NORMALIZED_CHUNK_SAMPLES                             *)
  FrameSamples,      (* VAD_FRAME_SAMPLES                                    *)
  PreRollSamples,    (* PRE_ROLL_SAMPLES                                     *)
  TrailingSamples,   (* TRAILING_SILENCE_SAMPLES                             *)
  MinimumSpeech,     (* MINIMUM_SPEECH_SAMPLES                               *)
  MaxUtterance,      (* MAX_UTTERANCE_SAMPLES                                *)
  PartialInterval,   (* PARTIAL_SNAPSHOT_INTERVAL_MS, in samples             *)
  Jumps,             (* how far the timeline may jump ahead at a gap         *)
  Horizon            (* bound of the model on the timeline                   *)

ASSUME VadAssumption ==
  /\ ChunkSamples \in Nat \ {0} /\ FrameSamples \in Nat /\ ChunkSamples <= FrameSamples
  /\ PreRollSamples \in Nat /\ TrailingSamples \in Nat \ {0}
  /\ MinimumSpeech \in Nat \ {0} /\ MaxUtterance \in Nat
  /\ PreRollSamples + FrameSamples <= MaxUtterance
  /\ PartialInterval \in Nat /\ Jumps \subseteq Nat /\ Horizon \in Nat

VARIABLES
  pending,           (* samples that do not fill a frame yet                 *)
  pending_start,     (* Option: pending_start_ms                             *)
  expected,          (* Option: expected_chunk_start_ms                      *)
  pre_roll,          (* samples held back before speech                      *)
  pre_roll_end,      (* observer: where the audio in pre_roll really ends    *)
  active,            (* Option<ActiveUtterance>                              *)
  last_partial_end,  (* Option: last_partial_end_ms                          *)
  outcome,           (* what the last call returned                          *)
  clock,             (* environment: start of the next chunk                 *)
  reported           (* observer: Option of the last watermark returned      *)

vadVars == <<pending, pending_start, expected, pre_roll, pre_roll_end, active,
             last_partial_end, outcome, clock, reported>>

Back(time, samples) == IF time > samples THEN time - samples ELSE 0

VadInit ==
  /\ pending = 0
  /\ pending_start = {}
  /\ expected = {}
  /\ pre_roll = 0
  /\ pre_roll_end = 0
  /\ active = {}
  /\ last_partial_end = {}
  /\ outcome = [utterances |-> <<>>, partial |-> {}]
  /\ clock = 0
  /\ reported = {}

-----------------------------------------------------------------------------
Piece(a) == [start |-> a.start, end |-> a.start + a.samples, skew |-> a.skew]

(* emit: an utterance with too little speech is dropped.                   *)
Emit(a) == IF a.speech < MinimumSpeech THEN <<>> ELSE <<Piece(a)>>

(* append_pending_to_active and finalize_active.                           *)
Flush == IF active = {} THEN <<>>
         ELSE Emit([SetToSeq(active)[1] EXCEPT !.samples = @ + pending])

(* clear_state; without pending or expected audio there is no watermark.   *)
Clear ==
  /\ outcome' = [utterances |-> Flush, partial |-> {}]
  /\ pending' = 0
  /\ pending_start' = {}
  /\ expected' = {}
  /\ pre_roll' = 0
  /\ active' = {}
  /\ last_partial_end' = {}
  /\ UNCHANGED <<pre_roll_end, reported>>

(* reset: the format changed, a chunk was invalid, or it does not begin    *)
(* where the last one ended (push then goes on with that chunk, which the  *)
(* model does as a step of its own).                                       *)
Reset(jump) == Clear /\ clock' = clock + jump

Finish == Clear /\ UNCHANGED clock

-----------------------------------------------------------------------------
CompletesFrame == pending + ChunkSamples >= FrameSamples

FrameStart == IF pending = 0 THEN {clock} ELSE pending_start

(* observe_frame, first half: the active utterance with the frame in it.   *)
Opened(frame_start) ==
  [start |-> Back(frame_start, pre_roll), samples |-> pre_roll + FrameSamples,
   speech |-> FrameSamples, trailing |-> 0,
   skew |-> IF pre_roll = 0 THEN 0 ELSE frame_start - pre_roll_end]

Extended(a, speech) ==
  [a EXCEPT !.samples = @ + FrameSamples,
            !.speech = IF speech THEN @ + FrameSamples ELSE @,
            !.trailing = IF speech THEN 0 ELSE @ + FrameSamples]

WithFrame(speech) ==
  IF active # {} THEN {Extended(a, speech) : a \in active}
                 ELSE {Opened(f) : f \in {g \in FrameStart : speech}}

Forced(a) == a.samples >= MaxUtterance

Trailed(a) == ~Forced(a) /\ a.trailing >= TrailingSamples

(* take_partial_snapshot of the utterance that the step leaves active.     *)
SnapshotDue(a, previous) ==
  /\ a.speech >= MinimumSpeech
  /\ a.samples <= MaxUtterance
  /\ \A p \in previous : a.start + a.samples - p >= PartialInterval

Return(utterances, previous) ==
  LET shot == {Piece(a) : a \in {b \in active' : SnapshotDue(b, previous)}}
  IN  /\ outcome' = [utterances |-> utterances, partial |-> shot]
      /\ last_partial_end' = IF shot = {} THEN previous ELSE {p.end : p \in shot}

(* A silent frame outside an utterance: extend_pre_roll.                   *)
Silence(frame_start, speech) ==
  /\ WithFrame(speech) = {}
  /\ active' = {}
  /\ pre_roll' = IF pre_roll + FrameSamples > PreRollSamples THEN PreRollSamples
                                                            ELSE pre_roll + FrameSamples
  /\ pre_roll_end' = frame_start + FrameSamples
  /\ Return(<<>>, last_partial_end)

(* The utterance opens or goes on; opening uses the pre-roll up.           *)
Speak(speech) ==
  /\ WithFrame(speech) # {}
  /\ \A a \in WithFrame(speech) : ~Forced(a) /\ ~Trailed(a)
  /\ active' = WithFrame(speech)
  /\ pre_roll' = IF active = {} THEN 0 ELSE pre_roll
  /\ Return(<<>>, last_partial_end)
  /\ UNCHANGED pre_roll_end

(* The hard split: what exceeds the maximum is dropped, and the tail of    *)
(* the utterance becomes the pre-roll of the next one.                     *)
Split(speech) ==
  \E a \in WithFrame(speech) :
    /\ Forced(a)
    /\ active' = {}
    /\ pre_roll' = PreRollSamples
    /\ pre_roll_end' = a.start + MaxUtterance
    /\ Return(Emit([a EXCEPT !.samples = MaxUtterance]), {})

(* Enough silence: the utterance ends, trimmed to exactly that silence.    *)
Trail(speech) ==
  \E a \in WithFrame(speech) :
    /\ Trailed(a)
    /\ active' = {}
    /\ pre_roll' = IF active = {} THEN 0 ELSE pre_roll
    /\ Return(Emit([a EXCEPT !.samples = @ - (a.trailing - TrailingSamples)]), {})
    /\ UNCHANGED pre_roll_end

Frame(speech) ==
  \E frame_start \in FrameStart :
    /\ pending' = pending + ChunkSamples - FrameSamples
    /\ pending_start' = IF pending' = 0 THEN {} ELSE {frame_start + FrameSamples}
    /\ Silence(frame_start, speech) \/ Speak(speech) \/ Split(speech) \/ Trail(speech)

(* A chunk that does not fill a frame only waits.                          *)
Collect ==
  /\ pending' = pending + ChunkSamples
  /\ pending_start' = FrameStart
  /\ active' = active
  /\ Return(<<>>, last_partial_end)
  /\ UNCHANGED <<pre_roll, pre_roll_end>>

(* Fault: an open utterance is reported as if it had ended.                *)
EagerFrontier ==
  IF active # {} THEN {a.start + a.samples : a \in active}
  ELSE {Back(t, pre_roll) : t \in IF pending_start # {} THEN pending_start ELSE expected}

(* ordering_watermark_ms, and the same of the state that the step leaves.   *)
Frontier ==
  IF active # {} THEN {a.start : a \in active}
  ELSE {Back(t, pre_roll) : t \in IF pending_start # {} THEN pending_start ELSE expected}

Watermark == Frontier'

Push(speech) ==
  /\ expected' = {clock + ChunkSamples}
  /\ clock' = clock + ChunkSamples
  /\ IF CompletesFrame THEN Frame(speech) ELSE Collect
  /\ reported' = Watermark

VadNext ==
  \/ clock + ChunkSamples <= Horizon /\ \E speech \in BOOLEAN : Push(speech)
  \/ \E jump \in Jumps : clock + jump <= Horizon /\ Reset(jump)
  \/ Finish

VadSpec == VadInit /\ [][VadNext]_vadVars

-----------------------------------------------------------------------------
(* MAX_VAD_BUFFERED_SAMPLES, which finish_outcome asserts after every call.*)
BufferedBounded ==
  \A a \in active :
    pending + pre_roll + a.samples <= MaxUtterance + PreRollSamples + FrameSamples - 1

(* The watermark is a promise: whatever the segmenter emits later, by      *)
(* silence, split or flush, begins no earlier than any watermark reported  *)
(* before, and neither is a later watermark earlier.  The chronological    *)
(* order of all finals rests on it, and the pipeline fails the run with    *)
(* WatermarkRegression otherwise.                                          *)
WatermarkKept ==
  [][\A w \in reported :
       /\ \A i \in DOMAIN outcome'.utterances : outcome'.utterances[i].start >= w
       /\ \A v \in reported' : w <= v]_vadVars

(* ... and a watermark reported with or after an utterance has passed its  *)
(* start, so that the utterance can become ready.                          *)
WatermarkPassesEmitted ==
  [][\A i \in DOMAIN outcome'.utterances, w \in Watermark :
       outcome'.utterances[i].start < w]_vadVars

(* An utterance of which a snapshot was taken is always emitted, with the  *)
(* start that identifies the snapshot: never dropped as too short.         *)
SnapshotsAreConfirmed ==
  [][\A a \in active :
       last_partial_end # {} /\ (\A b \in active' : b.start # a.start)
         => \E i \in DOMAIN outcome'.utterances : outcome'.utterances[i].start = a.start]_vadVars

(* "One validated 480,000-sample finalized utterance": the pipeline fails  *)
(* the run with InvalidVadOutput when an utterance is longer.              *)
UtteranceWithinMaximum ==
  \A i \in DOMAIN outcome.utterances :
    outcome.utterances[i].end - outcome.utterances[i].start <= MaxUtterance

(* "A snapshot ... carries an exact 16 kHz timeline": its samples are the  *)
(* audio captured from its start to its end.                               *)
SnapshotTimelineExact == \A p \in outcome.partial : p.skew = 0

=============================================================================
