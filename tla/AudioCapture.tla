----------------------------- MODULE AudioCapture -----------------------------
(***************************************************************************)
(* One audio source from the device to its live updates: the capture       *)
(* supervisor, which opens the endpoint again whenever it fails            *)
(* (audio/windows.rs supervise_attempts, capture_event_loop), the bounded  *)
(* packet queue, and the processing thread (process_packets) with the      *)
(* format pipeline of audio/processing.rs in front of the segmenter.       *)
(*                                                                         *)
(* Time and audio are counted in samples.  VadSegmenter's clock is the     *)
(* date of the next chunk, the origin of the format plus what it emitted.  *)
(* A resampler works on blocks as long as a chunk, so that native and      *)
(* normalized samples waiting for a chunk are one number.                  *)
(***************************************************************************)
EXTENDS VadSegmenter

CONSTANTS
  Formats,           (* native mix formats of the endpoints                  *)
  Unsupported,       (* those FormatPipeline::new refuses                    *)
  PacketSamples,     (* length of a captured packet                          *)
  PacketCapacity,    (* AUDIO_HANDOFF_CAPACITY                               *)
  Drifts,            (* by how much a device may outrun the clock per packet *)
  RetryDelay,        (* INITIAL_RETRY_DELAY                                  *)
  MaxRetryDelay,     (* MAX_RETRY_DELAY                                      *)
  WatermarkInterval, (* LIVE_WATERMARK_INTERVAL_MS                           *)
  DatingTolerance    (* by how much a packet may be misdated                 *)

ASSUME CaptureAssumption ==
  /\ Unsupported \subseteq Formats
  /\ PacketSamples \in Nat \ {0} /\ PacketCapacity \in Nat \ {0}
  /\ Drifts \subseteq 0..PacketSamples
  /\ RetryDelay \in Nat \ {0} /\ MaxRetryDelay \in Nat /\ RetryDelay <= MaxRetryDelay
  /\ WatermarkInterval \in Nat \ {0} /\ DatingTolerance \in Nat

VARIABLES
  now,               (* session clock                                        *)
  stop,              (* the run's stop flag                                  *)
  device,            (* Option of the format it is open with                 *)
  supervisor,        (* "running" or "ended", its sender dropped             *)
  retry,             (* the delay after the next failure, and what is left   *)
  packets,           (* queue of packets: format, start                      *)
  phase,             (* of the processing thread                             *)
  format,            (* Option: format of the current FormatPipeline         *)
  held,              (* its samples that do not fill a chunk yet             *)
  gathered,          (* ProcessingOutcome so far: utterances, partial        *)
  last_watermark,    (* Option: last_live_watermark_ms                       *)
  handed,            (* Option of the update handed over by this step        *)
  heard,             (* observer: Option of the last watermark handed over   *)
  owed,              (* observer: utterances closed but not handed over      *)
  refused            (* observer: a refused format swallowed an utterance    *)

deviceVars == <<now, stop, device, supervisor, retry>>
processorVars == <<phase, format, held, gathered, last_watermark, handed,
                   heard, owed, refused>>
captureVars == <<vadVars, deviceVars, packets, processorVars>>

Nothing == [utterances |-> <<>>, partial |-> {}]

CaptureInit ==
  /\ VadInit
  /\ now = 0
  /\ stop = FALSE
  /\ device = {}
  /\ supervisor = "running"
  /\ retry = [delay |-> RetryDelay, left |-> 0]
  /\ packets = <<>>
  /\ phase = "idle"
  /\ format = {}
  /\ held = 0
  /\ gathered = Nothing
  /\ last_watermark = {}
  /\ handed = {}
  /\ heard = {}
  /\ owed = 0
  /\ refused = FALSE

-----------------------------------------------------------------------------
(* The processing thread shares only the queue with the supervisor, so a   *)
(* packet's chunks are pushed without steps of the supervisor in between.  *)
Beside ==
  /\ phase # "pushing"
  /\ handed' = {}
  /\ UNCHANGED <<vadVars, phase, format, held, gathered, last_watermark, heard, owed,
                 refused>>

(* Time without a packet: a failed device, or nothing played to it.        *)
Wait ==
  /\ now < Horizon
  /\ now' = now + 1
  /\ retry' = [retry EXCEPT !.left = IF @ = 0 THEN 0 ELSE @ - 1]
  /\ UNCHANGED <<stop, device, supervisor, packets>>
  /\ Beside

Open(f) ==
  /\ supervisor = "running" /\ ~stop
  /\ device = {} /\ retry.left = 0
  /\ device' = {f}
  /\ UNCHANGED <<now, stop, supervisor, retry, packets>>
  /\ Beside

(* An attempt that cannot open the endpoint, or an error of the stream:    *)
(* the delay doubles up to its maximum and is never set back.              *)
Break ==
  /\ supervisor = "running"
  /\ device # {} \/ (~stop /\ retry.left = 0)
  /\ device' = {}
  /\ retry' = [delay |-> IF 2 * retry.delay > MaxRetryDelay THEN MaxRetryDelay
                                                           ELSE 2 * retry.delay,
               left |-> retry.delay]
  /\ UNCHANGED <<now, stop, supervisor, packets>>
  /\ Beside

(* A packet carries the time of its first sample, or the time of reading   *)
(* when the device flags its timestamp as wrong.  A full queue drops it.   *)
Capture(drift) ==
  \E f \in device, late \in BOOLEAN :
    /\ phase # "lost"
    /\ now + PacketSamples - drift <= Horizon
    /\ now' = now + PacketSamples - drift
    /\ packets' = IF Len(packets) < PacketCapacity
                  THEN Append(packets, [format |-> f, start |-> IF late THEN now' ELSE now])
                  ELSE packets
    /\ UNCHANGED <<stop, device, supervisor, retry>>
    /\ Beside

RequestStop ==
  /\ ~stop
  /\ stop' = TRUE
  /\ UNCHANGED <<now, device, supervisor, retry, packets>>
  /\ Beside

(* The supervisor sees the flag, in the event loop or while it waits to    *)
(* try again, or has no COM at all; its end drops the packet sender.       *)
End ==
  /\ supervisor = "running"
  /\ stop \/ (now = 0 /\ device = {} /\ retry.delay = RetryDelay)
  /\ supervisor' = "ended"
  /\ device' = {}
  /\ UNCHANGED <<now, stop, retry, packets>>
  /\ Beside

-----------------------------------------------------------------------------
Changed(p) == format # {} /\ format # {p.format}

(* The segmenter is flushed when the format changes.                       *)
FlushIf(changed) ==
  IF changed THEN Clear
  ELSE UNCHANGED <<pending, pending_start, expected, pre_roll, pre_roll_end, active,
                   last_partial_end, outcome, reported>>

(* SourceProcessor::process up to the format pipeline.                     *)
Take ==
  /\ phase = "idle"
  /\ packets # <<>>
  /\ packets' = Tail(packets)
  /\ handed' = {}
  /\ UNCHANGED <<deviceVars, last_watermark, heard>>

(* FormatPipeline::new refuses the format: the old pipeline stays, and     *)
(* what the segmenter was flushed of is lost with the error.               *)
Refuse ==
  LET p == Head(packets)
  IN  /\ Take
      /\ format # {p.format} /\ p.format \in Unsupported
      /\ FlushIf(Changed(p))
      /\ UNCHANGED clock
      /\ refused' = (refused \/ (Changed(p) /\ Flush # <<>>))
      /\ UNCHANGED <<phase, format, held, gathered, owed>>

(* A new pipeline begins at the time of the packet; samples the old one    *)
(* held are dropped, what the segmenter was flushed of is merged.          *)
Flushed(p) == IF Changed(p) THEN Flush ELSE <<>>

Switch ==
  LET p == Head(packets)
  IN  /\ Take
      /\ format # {p.format} /\ p.format \notin Unsupported
      /\ FlushIf(Changed(p))
      /\ clock' = p.start
      /\ format' = {p.format}
      /\ held' = PacketSamples
      /\ gathered' = [utterances |-> Flushed(p), partial |-> {}]
      /\ owed' = owed + Len(Flushed(p))
      /\ phase' = "pushing"
      /\ UNCHANGED refused

Continue ==
  /\ Take
  /\ format = {Head(packets).format}
  /\ held' = held + PacketSamples
  /\ gathered' = Nothing
  /\ phase' = "pushing"
  /\ UNCHANGED <<vadVars, format, owed, refused>>

(* merge_vad: a later chunk without a snapshot keeps the earlier one.      *)
Merge(next) ==
  [utterances |-> gathered.utterances \o next.utterances,
   partial |-> IF next.partial # {} THEN next.partial ELSE gathered.partial]

(* One chunk of FormatPipeline::push goes to the segmenter, which always   *)
(* expects it: a new origin came with a reset.                             *)
PushChunk(speech) ==
  /\ phase = "pushing"
  /\ held >= ChunkSamples
  /\ Push(speech)
  /\ held' = held - ChunkSamples
  /\ gathered' = Merge(outcome')
  /\ owed' = owed + Len(outcome'.utterances)
  /\ UNCHANGED <<deviceVars, packets, phase, format, last_watermark, handed, heard,
                 refused>>

Remembered(update) ==
  IF handed' # {} /\ update.watermark # {} THEN update.watermark ELSE last_watermark

(* should_forward_live_update of an update that is not terminal.           *)
Due(update) ==
  \/ update.utterances # <<>>
  \/ update.partial # {}
  \/ \E v \in update.watermark :
       \A w \in last_watermark : v - w >= WatermarkInterval

Handed(update) ==
  /\ handed' = {update}
  /\ heard' = IF update.watermark # {} THEN update.watermark ELSE heard
  /\ owed' = owed - Len(update.utterances)

(* The update of a packet whose chunks are all pushed.                     *)
Update == [utterances |-> gathered.utterances, partial |-> gathered.partial,
           watermark |-> Frontier, terminal |-> FALSE]

Forward ==
  /\ phase = "pushing"
  /\ held < ChunkSamples
  /\ IF Due(Update) THEN Handed(Update) ELSE handed' = {} /\ UNCHANGED <<heard, owed>>
  /\ last_watermark' = Remembered(Update)
  /\ gathered' = Nothing
  /\ phase' = "idle"
  /\ UNCHANGED <<vadVars, deviceVars, packets, format, held, refused>>

(* The coordinator is gone: the thread ends, its receiver with it.         *)
Lose ==
  /\ phase = "pushing"
  /\ held < ChunkSamples
  /\ Due(Update)
  /\ phase' = "lost"
  /\ packets' = <<>>
  /\ handed' = {}
  /\ UNCHANGED <<vadVars, deviceVars, format, held, gathered, last_watermark, heard, owed,
                 refused>>

(* The queue is empty and its sender gone: the segmenter is flushed into   *)
(* the terminal update.                                                    *)
FinishStream ==
  /\ phase = "idle"
  /\ packets = <<>> /\ supervisor = "ended"
  /\ Finish
  /\ handed' = {[utterances |-> Flush, partial |-> {}, watermark |-> {}, terminal |-> TRUE]}
  /\ phase' = "done"
  /\ UNCHANGED <<deviceVars, packets, format, held, gathered, last_watermark, heard, owed,
                 refused>>

CaptureNext ==
  \/ Wait
  \/ \E f \in Formats : Open(f)
  \/ Break
  \/ \E drift \in Drifts : Capture(drift)
  \/ RequestStop
  \/ End
  \/ Refuse
  \/ Switch
  \/ Continue
  \/ \E speech \in BOOLEAN : PushChunk(speech)
  \/ Forward
  \/ Lose
  \/ FinishStream

CaptureSpec == CaptureInit /\ [][CaptureNext]_captureVars

-----------------------------------------------------------------------------
(* What the processing thread hands over keeps the promise of the          *)
(* watermarks it handed over before, across packets, dropped packets,      *)
(* outages and changes of format, although chunks are dated by counting    *)
(* and a new format by the clock.  A watermark that regresses fails the    *)
(* whole run.  It rests on a retry delay that outlasts what a device may   *)
(* be ahead of the clock.                                                  *)
ForwardedInOrder ==
  [][\A update \in handed', w \in heard :
       /\ \A i \in DOMAIN update.utterances : update.utterances[i].start >= w
       /\ \A v \in update.watermark : v >= w]_captureVars

(* Every utterance the segmenter closes is handed over with its packet,    *)
(* also when one packet holds several chunks or changes the format.  Only  *)
(* a format that is refused swallows one.                                  *)
FlushForwarded == phase \in {"idle", "done"} => owed = 0

(* Withheld updates never leave the coordinator's frontier of the source   *)
(* an interval or more behind what the segmenter knows.                    *)
FrontierFresh ==
  phase = "idle" =>
    \A v \in Frontier : \E w \in heard : v - w < WatermarkInterval

(* "Map packet QPC timestamps to one session-relative millisecond          *)
(* timeline": in a format that goes on, a packet is dated at the time it   *)
(* was captured, within a tolerance.                                       *)
PacketsDatedByClock ==
  [][phase = "idle" /\ packets # <<>> /\ packets' = Tail(packets)
       /\ format = {Head(packets).format}
       => Head(packets).start - (clock + held) < DatingTolerance]_captureVars

=============================================================================
