-------------------------- MODULE LiveTranscription --------------------------
(***************************************************************************)
(* A live run: the processing threads of the two sources                   *)
(* (audio/windows.rs process_packets), the coordinator thread that owns    *)
(* the pipeline (transcription/live.rs run_coordinator), and the thread    *)
(* that passes events on (transcription/product.rs bridge_events), joined  *)
(* by two bounded blocking queues.                                         *)
(*                                                                         *)
(* The audio is abstract: a source advances its clock one unit at a time   *)
(* and speech starts and ends at any unit.                                 *)
(***************************************************************************)
EXTENDS LivePipeline

CONSTANTS
  Horizon,           (* bound of the model: how far a source's clock runs    *)
  UpdateCapacity,    (* AUDIO_HANDOFF_CAPACITY                               *)
  OutputCapacity     (* EVENT_HANDOFF_CAPACITY                               *)

ASSUME LiveAssumption ==
  /\ Horizon \in [Source -> Nat]
  /\ UpdateCapacity \in Nat \ {0}
  /\ OutputCapacity \in Nat \ {0}
  /\ SamplesPerMs > 0

VARIABLES
  feed,              (* per source the clock, the open utterance, the thread *)
  updates,           (* the queue to the coordinator                         *)
  output,            (* the queue from the coordinator                       *)
  pc,                (* where the coordinator is in its loop                 *)
  update,            (* Option of the update it is handling                  *)
  failed,            (* error_code is set                                    *)
  cancelled,
  stop_requested,    (* the control thread has told capture to stop          *)
  screen,            (* what the listener last heard of each identifier      *)
  deliveries         (* observer: results and gaps it heard per identifier   *)

coordinatorVars == <<pc, update, failed>>
flagVars == <<cancelled, stop_requested>>
sinkVars == <<screen, deliveries>>
liveVars == <<pipelineVars, feed, updates, output, pc, update, failed, cancelled,
              stop_requested, screen, deliveries>>

LiveInit ==
  /\ PipelineInit
  /\ feed = [s \in Source |-> [clock |-> 0, open |-> {}, thread |-> "running"]]
  /\ updates = <<>>
  /\ output = <<>>
  /\ pc = "check"
  /\ update = {}
  /\ failed = FALSE
  /\ cancelled = FALSE
  /\ stop_requested = FALSE
  /\ screen = [id \in JobIds |-> "nothing"]
  /\ deliveries = [id \in JobIds |-> 0]

-----------------------------------------------------------------------------
Span(start, end) ==
  [start_ms |-> start, end_ms |-> end, samples |-> (end - start) * SamplesPerMs]

(* BoundedSender::send: waits for room, fails once the coordinator has     *)
(* dropped its receiver.                                                   *)
Send(u) ==
  /\ pc # "done"
  /\ Len(updates) < UpdateCapacity
  /\ updates' = Append(updates, u)

Update(source, partial, utterances, watermark, terminal) ==
  [source |-> source, partial |-> partial, utterances |-> utterances,
   watermark |-> watermark, terminal |-> terminal]

Advance(source, open) ==
  /\ feed[source].thread = "running"
  /\ feed[source].clock < Horizon[source]
  /\ feed' = [feed EXCEPT ![source].clock = @ + 1, ![source].open = open]

sourceUnchanged ==
  UNCHANGED <<pipelineVars, output, coordinatorVars, flagVars, sinkVars>>

(* Silence moves the watermark; should_forward_live_update withholds the   *)
(* update while the movement is small.                                     *)
Silence(source) ==
  LET now == feed[source].clock + 1
  IN  /\ feed[source].open = {}
      /\ Advance(source, {})
      /\ \/ Send(Update(source, {}, <<>>, {now}, FALSE))
         \/ UNCHANGED updates
      /\ sourceUnchanged

(* Speech starts or goes on: the watermark stays at its start, and a       *)
(* snapshot is due from time to time.                                      *)
Speech(source) ==
  LET start == IF feed[source].open = {} THEN {feed[source].clock} ELSE feed[source].open
      now == feed[source].clock + 1
  IN  /\ Advance(source, start)
      /\ \/ Send(Update(source, {Span(b, now) : b \in start}, <<>>, start, FALSE))
         \/ UNCHANGED updates
      /\ sourceUnchanged

(* The snapshot of an earlier chunk may travel with the utterance that a   *)
(* later chunk of the same packet completes (merge_vad).                   *)
SpeechEnds(source) ==
  LET now == feed[source].clock + 1
  IN  \E start \in feed[source].open :
        /\ Advance(source, {})
        /\ \E shot \in {{}, {Span(start, now)}} :
             Send(Update(source, shot, <<Span(start, now)>>, {now}, FALSE))
        /\ sourceUnchanged

(* The packet channel is disconnected: the VAD is flushed into a terminal  *)
(* update without a watermark.  A supervisor that finds no COM drops its   *)
(* channel unasked; an early stop leads to the same states.                *)
Finish(source) ==
  /\ stop_requested
  /\ feed[source].thread = "running"
  /\ feed' = [feed EXCEPT ![source].thread = "finished", ![source].open = {}]
  /\ \/ \E start \in feed[source].open :
          Send(Update(source, {}, <<Span(start, feed[source].clock)>>, {}, TRUE))
     \/ feed[source].open = {} /\ Send(Update(source, {}, <<>>, {}, TRUE))
  /\ sourceUnchanged

(* The thread ends without a terminal update.                              *)
Lose(source) ==
  /\ feed[source].thread = "running"
  /\ feed' = [feed EXCEPT ![source].thread = "lost"]
  /\ UNCHANGED updates
  /\ sourceUnchanged

(* Fault: a sender notices that the receiver is gone only when the queue   *)
(* has been emptied.                                                       *)
FaultyLoseReceiver(source) == pc = "done" /\ updates = <<>> /\ Lose(source)

(* Its send failed because the coordinator is gone ...                     *)
LoseReceiver(source) == pc = "done" /\ Lose(source)

(* ... or it panicked.                                                     *)
Panic(source) == pc # "done" /\ Lose(source)

-----------------------------------------------------------------------------
coordinatorUnchanged == UNCHANGED <<feed, output, flagVars, sinkVars>>

Fail ==
  /\ CancelPending
  /\ failed' = TRUE
  /\ pc' = "ending"
  /\ UNCHANGED <<updates, update>>

(* The top of the loop: the cancellation flag, then recv_timeout.          *)
Check ==
  /\ pc = "check"
  /\ \/ /\ cancelled
        /\ CancelPending
        /\ pc' = "ending"
     \/ /\ ~cancelled
        /\ pc' = "receive"
        /\ UNCHANGED pipelineVars
  /\ UNCHANGED <<updates, update, failed>>
  /\ coordinatorUnchanged

Receive ==
  /\ pc = "receive"
  /\ updates # <<>>
  /\ update' = {Head(updates)}
  /\ updates' = Tail(updates)
  /\ pc' = "snapshot"
  /\ UNCHANGED <<pipelineVars, failed>>
  /\ coordinatorUnchanged

Timeout ==
  /\ pc = "receive"
  /\ updates = <<>>
  /\ \E s \in Source : feed[s].thread = "running"
  /\ pc' = "check"
  /\ UNCHANGED <<pipelineVars, updates, update, failed>>
  /\ coordinatorUnchanged

Disconnected ==
  /\ pc = "receive"
  /\ updates = <<>>
  /\ \A s \in Source : feed[s].thread # "running"
  /\ \/ /\ cancelled
        /\ CancelPending
        /\ pc' = "ending"
     \/ /\ ~cancelled
        /\ pc' = "close"
        /\ UNCHANGED pipelineVars
  /\ UNCHANGED <<updates, update, failed>>
  /\ coordinatorUnchanged

HandleSnapshot ==
  /\ pc = "snapshot"
  /\ \E u \in update :
       \/ /\ u.partial = {}
          /\ pc' = "batch"
          /\ UNCHANGED <<pipelineVars, updates, update, failed>>
       \/ \E r \in u.partial :
            \/ /\ SubmitSnapshot(u.source, r)
               /\ pc' = "batch"
               /\ UNCHANGED <<updates, update, failed>>
            \/ SnapshotRefused(u.source, r) /\ Fail
  /\ coordinatorUnchanged

(* A flush may add its rest to an utterance already at the maximum: then    *)
(* the pipeline refuses it as InvalidVadOutput.                            *)
Overlong(u) == u.terminal /\ u.utterances # <<>>

HandleBatch ==
  /\ pc = "batch"
  /\ \E u \in update :
       \/ /\ BeginBatch(u.source, u.utterances, u.watermark)
          /\ pc' = "submit"
          /\ UNCHANGED <<updates, update, failed>>
       \/ (BatchRefused(u.source, u.watermark) \/ Overlong(u)) /\ Fail
  /\ coordinatorUnchanged

Submit ==
  /\ pc = "submit"
  /\ \/ SubmitUtterance /\ UNCHANGED pc
     \/ EndBatch /\ pc' = "terminal"
  /\ UNCHANGED <<updates, update, failed>>
  /\ coordinatorUnchanged

(* Fault: an event that finds the queue full is dropped.                   *)
FaultyEmit ==
  /\ pc \notin {"submit", "done"}
  /\ returned # <<>>
  /\ output' = IF Len(output) < OutputCapacity THEN Append(output, Head(returned))
                                               ELSE output
  /\ returned' = Tail(returned)
  /\ UNCHANGED <<schedulerVars, lifecycleVars, identityVars, last_started, batch,
                 observerVars, feed, updates, coordinatorVars, flagVars, sinkVars>>

(* emit_all and pump_ready: an event is sent before anything else happens, *)
(* waiting for room in the output queue.                                   *)
Emit ==
  /\ pc \notin {"submit", "done"}
  /\ returned # <<>>
  /\ Len(output) < OutputCapacity
  /\ output' = Append(output, Head(returned))
  /\ returned' = Tail(returned)
  /\ UNCHANGED <<schedulerVars, lifecycleVars, identityVars, last_started, batch,
                 observerVars, feed, updates, coordinatorVars, flagVars, sinkVars>>

HandleTerminal ==
  /\ pc = "terminal"
  /\ returned = <<>>
  /\ \E u \in update :
       IF u.terminal
       THEN /\ pc' = "seal"
            /\ \/ state = "Running" /\ BeginStop
               \/ state # "Running" /\ UNCHANGED pipelineVars
       ELSE pc' = "pump" /\ UNCHANGED pipelineVars
  /\ UNCHANGED <<updates, update, failed>>
  /\ coordinatorUnchanged

Seal ==
  /\ pc = "seal"
  /\ \E u \in update :
       \/ /\ SealSource(u.source)
          /\ pc' = "pump"
          /\ UNCHANGED <<updates, update, failed>>
       \/ SealRefused(u.source) /\ Fail
  /\ coordinatorUnchanged

(* Fault: the sources are not sealed.                                      *)
FaultyClose ==
  /\ pc = "close"
  /\ BeginStop \/ (state # "Running" /\ UNCHANGED pipelineVars)
  /\ pc' = "drain"
  /\ UNCHANGED <<updates, update, failed>>
  /\ coordinatorUnchanged

(* close_open_sources                                                      *)
Close ==
  /\ pc = "close"
  /\ \/ BeginStop /\ UNCHANGED pc
     \/ state # "Running" /\ \E s \in Source : SealSource(s) /\ UNCHANGED pc
     \/ /\ state # "Running"
        /\ \A s \in Source : SealRefused(s)
        /\ pc' = "drain"
        /\ UNCHANGED pipelineVars
  /\ UNCHANGED <<updates, update, failed>>
  /\ coordinatorUnchanged

(* pump_ready: a final or a partial that succeeds is sent and the loop     *)
(* goes on; pump_one's None ends it.                                       *)
Pump ==
  /\ pc \in {"pump", "drain"}
  /\ returned = <<>>
  /\ \/ /\ \/ \E outcome \in {"final", "gap"} : PumpFinal(outcome)
           \/ \E s \in Source : PumpPartial(s, TRUE)
        /\ UNCHANGED pc
     \/ /\ \/ \E s \in Source : PumpPartial(s, FALSE)
           \/ PumpNothing
        /\ pc' = IF pc = "drain" \/ state' = "Stopped" THEN "ending" ELSE "check"
  /\ UNCHANGED <<updates, update, failed>>
  /\ coordinatorUnchanged

(* run_coordinator returns: both ends of its queues are dropped.           *)
End ==
  /\ pc = "ending"
  /\ returned = <<>>
  /\ pc' = "done"
  /\ UNCHANGED <<pipelineVars, updates, update, failed>>
  /\ coordinatorUnchanged

-----------------------------------------------------------------------------
(* bridge_events: a partial and its final share one segment identity.      *)
Deliver ==
  /\ output # <<>>
  /\ output' = Tail(output)
  /\ LET event == Head(output)
     IN  IF event.kind = "partial"
         THEN /\ screen' = [screen EXCEPT ![event.job_id] = "partial"]
              /\ UNCHANGED deliveries
         ELSE /\ screen' = [screen EXCEPT ![event.job_id] = "answered"]
              /\ deliveries' = [deliveries EXCEPT ![event.job_id] = @ + 1]
  /\ UNCHANGED <<pipelineVars, feed, updates, coordinatorVars, flagVars>>

RequestStop ==
  /\ ~stop_requested
  /\ stop_requested' = TRUE
  /\ UNCHANGED <<pipelineVars, feed, updates, output, coordinatorVars, cancelled, sinkVars>>

(* The coordinator's handle is cancelled or dropped.                       *)
Cancel ==
  /\ ~cancelled
  /\ cancelled' = TRUE
  /\ UNCHANGED <<pipelineVars, feed, updates, output, coordinatorVars, stop_requested,
                 sinkVars>>

Drained == pc = "done" /\ output = <<>> /\ \A s \in Source : feed[s].thread # "running"

Over == Drained /\ UNCHANGED liveVars

Coordinator ==
  \/ Check \/ Receive \/ Timeout \/ Disconnected
  \/ HandleSnapshot \/ HandleBatch \/ Submit \/ Emit
  \/ HandleTerminal \/ Seal \/ Close \/ Pump \/ End

SourceStep(source) ==
  \/ Silence(source)
  \/ Speech(source)
  \/ SpeechEnds(source)
  \/ Finish(source)
  \/ LoseReceiver(source)
  \/ Panic(source)

LiveNext ==
  \/ Coordinator
  \/ \E s \in Source : SourceStep(s)
  \/ Deliver
  \/ RequestStop
  \/ Cancel
  \/ Over

SourceStops(source) == stop_requested /\ (Finish(source) \/ LoseReceiver(source))

(* Every thread keeps running: the coordinator and the event thread loop   *)
(* without waiting for anything but their queues, and a source that is     *)
(* told to stop flushes or finds its receiver gone.  Nothing obliges a     *)
(* source to produce audio: loopback capture of a silent device does not.  *)
LiveSpec ==
  /\ LiveInit
  /\ [][LiveNext]_liveVars
  /\ WF_liveVars(Coordinator)
  /\ WF_liveVars(Deliver)
  /\ \A s \in Source : WF_liveVars(SourceStops(s))

-----------------------------------------------------------------------------
Count(id, events) ==
  Cardinality({i \in DOMAIN events : events[i].job_id = id /\ events[i].kind # "partial"})

(* No result or gap is lost or duplicated on its way through the bounded   *)
(* output queue, also when the coordinator has to wait for room, fails or  *)
(* is cancelled with events still to send.                                 *)
EventsConserved ==
  \A id \in JobIds :
    answers[id] = deliveries[id] + Count(id, output) + Count(id, returned)

(* When the coordinator has returned, every final it took was answered,    *)
(* every source is sealed and the run is at one of its two ends, also when *)
(* a source died and its terminal update never came.                       *)
EndsSettled ==
  pc = "done" => /\ state \in {"Stopped", "Cancelled"}
                 /\ BoundaryDrained
                 /\ \A id \in received : answers[id] = 1

(* The listener never hears a partial of an utterance after its result or  *)
(* gap: stale provisional text cannot come back.                           *)
PartialNeverAfterAnswer ==
  [][\A id \in JobIds : screen[id] = "answered" => screen'[id] = "answered"]_liveVars

Ledger == INSTANCE FinalLedger
            WITH Utterances <- JobIds, taken <- received, shown <- screen,
                 heard <- deliveries, over <- Drained

(* To its listener a run, with all its threads, queues, failures and        *)
(* cancellations, is the ledger of FinalLedger: an utterance is answered    *)
(* once if it was taken, its provisional text never follows its answer, and *)
(* a run that has ended owes nothing and takes nothing any more.            *)
RunKeepsLedger == Ledger!LedgerSpec

(* A requested stop ends the run: the bounded queues never leave every     *)
(* thread waiting for another one.                                         *)
StopTerminates == stop_requested ~> Drained

(* ... and the listener hears exactly one answer for every final that the  *)
(* pipeline took, whatever the engine, the sources and cancellation do.    *)
StopDeliversEveryFinal ==
  \A id \in JobIds : (stop_requested /\ id \in received) ~> (Drained /\ deliveries[id] = 1)

(* "Pause and stop accept both terminal flushes, seal both sources, ... ": *)
(* a run that nobody cancels does not fail.                                *)
StopAcceptsBothFlushes == pc = "done" /\ ~cancelled => ~failed

(* "Pause/stop terminal flushes reconcile any matching active snapshot     *)
(* with its final": after a regular stop no partial is left on the screen. *)
StopReconcilesPartials ==
  Drained /\ state = "Stopped" /\ (\A s \in Source : feed[s].thread = "finished")
    => \A id \in JobIds : screen[id] # "partial"

=============================================================================
