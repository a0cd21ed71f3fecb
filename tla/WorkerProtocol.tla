---------------------------- MODULE WorkerProtocol ----------------------------
(***************************************************************************)
(* The transcription engine of a run: the supervised accelerated worker    *)
(* process and the CPU engine that takes over when it is lost              *)
(* (transcription/worker.rs: VulkanWorkerProcess, serve_worker and         *)
(* SupervisedFallbackEngine; transcription/whisper.rs for the engines).    *)
(*                                                                         *)
(* Three parties step independently: the caller, which is the coordinator  *)
(* thread; the worker process, which may crash or hang at any moment; and  *)
(* the thread the caller starts for each pipe operation, which blocks on   *)
(* the pipe and hands its outcome over through a channel.  A request is    *)
(* one call of transcribe_with_cancel.  A frame is its kind and request    *)
(* identifier; audio, text and the limits on both are left out.  Of the    *)
(* failure kinds only "cancelled" is told apart, as in the code's control. *)
(***************************************************************************)
EXTENDS Naturals, Sequences, FiniteSets

CONSTANT Requests      (* bound: the calls of a run, numbered from 1       *)

ASSUME WorkerAssumption == Requests \in Nat

VARIABLES
  accelerated,  (* the engine still owns the worker process                *)
  cpu,          (* "unloaded", "loaded", or "spent": its factory failed    *)
  diagnostics,  (* counters: failures, accelerated, attempts, results      *)
  answers,      (* history: what each call returned                        *)
  cancelled,    (* the run's cancellation flag, never lowered              *)
  call,         (* where the caller is: [at, doing, way, failed]           *)
  expired,      (* the deadline of the pipe operation has passed           *)
  child,        (* "loading", "reading", "computing", "hung" or "gone"     *)
  job,          (* the message the process is working on, an option        *)
  stdin, stdout,(* the frame in each pipe, an option                       *)
  held,         (* the pipe ends the process handle still owns             *)
  io            (* the pipe thread: [way, state, frame]                    *)

engineVars == <<accelerated, cpu, diagnostics, answers, cancelled>>
childVars == <<child, job>>
pipeVars == <<stdin, stdout>>
waitVars == <<call, expired, held, io>>
workerVars == <<engineVars, childVars, pipeVars, waitVars>>

Frame(kind, id) == [kind |-> kind, id |-> id]

(* The identifier of the current request, and of the last one when idle. *)
Current == Len(answers)

Thread(way, frame) == [way |-> way, state |-> "busy", frame |-> frame]

(* The process is started and its startup message is being written. *)
WorkerInit ==
  /\ accelerated = TRUE /\ cpu = "unloaded"
  /\ diagnostics = [failures |-> 0, accelerated |-> 0, attempts |-> 0, results |-> 0]
  /\ answers = <<>> /\ cancelled = FALSE
  /\ call = [at |-> "check", doing |-> "startup", way |-> "write", failed |-> {}]
  /\ expired = FALSE
  /\ child = "loading" /\ job = {} /\ stdin = {} /\ stdout = {}
  /\ held = {"read"}
  /\ io = Thread("write", {Frame("startup", 0)})

----------------------------------------------------------------------------
(* The worker process: serve_worker                                         *)

(* Take the next message from the pipe; a shutdown ends the process. *)
ReadClient ==
  /\ child = "reading" \/ (child = "loading" /\ job = {})
  /\ \E frame \in stdin :
       /\ job' = IF frame.kind = "shutdown" THEN {} ELSE stdin
       /\ child' = CASE frame.kind = "shutdown" -> "gone"
                     [] frame.kind = "infer" -> "computing"
                     [] OTHER -> "loading"
  /\ stdin' = {}
  /\ UNCHANGED <<engineVars, stdout, waitVars>>

(* Attest the backend, or say that loading failed and end. *)
SayHello ==
  /\ child = "loading" /\ job # {}
  /\ \/ stdout' = {Frame("hello", 0)} /\ child' = "reading"
     \/ stdout' = {Frame("failure", 0)} /\ child' = "gone"
  /\ job' = {}
  /\ UNCHANGED <<engineVars, stdin, waitVars>>

(* Answer the request with a result or with its failure. *)
Answer ==
  /\ child = "computing"
  /\ \E r \in job, kind \in {"result", "failure"} : stdout' = {Frame(kind, r.id)}
  /\ child' = "reading" /\ job' = {}
  /\ UNCHANGED <<engineVars, stdin, waitVars>>

(* The native library or the driver: the process hangs, or dies and leaves  *)
(* its output whole, cut or spoiled.                                        *)
Misbehave ==
  /\ child \notin {"gone", "hung"}
  /\ \/ child' = "hung" /\ UNCHANGED <<job, stdout>>
     \/ child' = "gone" /\ job' = {} /\ stdout' \in {stdout, {}, {Frame("garbled", 0)}}
  /\ UNCHANGED <<engineVars, stdin, waitVars>>

----------------------------------------------------------------------------
(* The pipe thread: write_frame and read_frame                              *)

Ends(state, frame) == io' = [io EXCEPT !.state = state, !.frame = frame]

(* A frame the pipe has room for is written, unless the process no longer   *)
(* reads and the frame is larger than the pipe: then the write blocks until *)
(* the pipe is closed.                                                      *)
WriteFrame ==
  /\ io.way = "write" /\ io.state = "busy"
  /\ IF child = "gone" THEN Ends("broken", {}) /\ UNCHANGED stdin
     ELSE stdin = {} /\ stdin' = io.frame /\ Ends("ok", {})
  /\ UNCHANGED <<engineVars, childVars, stdout, call, expired, held>>

(* A read takes the frame in the pipe; without one it blocks until the      *)
(* process is gone.                                                         *)
ReadFrame ==
  /\ io.way = "read" /\ io.state = "busy"
  /\ \/ stdout # {} /\ stdout' = {} /\ Ends("ok", stdout)
     \/ stdout = {} /\ child = "gone" /\ Ends("broken", {}) /\ UNCHANGED stdout
  /\ UNCHANGED <<engineVars, childVars, stdin, call, expired, held>>

----------------------------------------------------------------------------
(* The caller: write_client, read_server, wait_for_io                       *)

(* The first failure of a call is the one it is handled for. *)
First(kind) == IF call.failed = {} THEN {kind} ELSE call.failed

(* Start a pipe operation: its thread takes the pipe end out of the handle; *)
(* without the end the operation fails at once.                             *)
Start(doing, way, frame) ==
  IF way \in held
  THEN /\ call' = [call EXCEPT !.at = "check", !.doing = doing, !.way = way]
       /\ held' = held \ {way} /\ io' = Thread(way, frame) /\ expired' = FALSE
  ELSE /\ call' = [call EXCEPT !.at = "lost", !.doing = doing, !.failed = First("failed")]
       /\ UNCHANGED <<held, io, expired>>

Lost(place, kind) == call' = [call EXCEPT !.at = place, !.failed = First(kind)]

(* terminate: the job object ends the process tree, the pipe ends go.       *)
Terminate ==
  /\ child' = "gone" /\ job' = {} /\ stdin' = {}
  /\ held' = {}

(* Fault: the process of a failed wait is left alone.                       *)
FaultyGiveUp(kind) == Lost("join", kind) /\ UNCHANGED <<childVars, stdin, held>>

(* A wait is given up: the process is ended before its thread is joined.    *)
GiveUp(kind) == Terminate /\ Lost("join", kind)

(* Startup and shutdown are given a flag that is never raised. *)
Cancelled == cancelled /\ call.doing = "infer"

ChildLeft == call.way = "read" /\ child = "gone"

(* Between two polls: the flag first, then the process, then the deadline. *)
Check ==
  /\ call.at = "check"
  /\ CASE Cancelled -> GiveUp("cancelled")
       [] ~Cancelled /\ ChildLeft -> Lost("join", "failed") /\ UNCHANGED <<childVars, stdin, held>>
       [] ~Cancelled /\ ~ChildLeft /\ expired -> GiveUp("failed")
       [] OTHER -> call' = [call EXCEPT !.at = "receive"] /\ UNCHANGED <<childVars, stdin, held>>
  /\ UNCHANGED <<engineVars, stdout, expired, io>>

(* Within a poll: the operation has completed, has failed, or still runs.   *)
Receive ==
  /\ call.at = "receive"
  /\ \/ io.state = "busy" /\ call' = [call EXCEPT !.at = "check"] /\ UNCHANGED held
     \/ io.state = "broken" /\ Lost("lost", "failed") /\ UNCHANGED held
     \/ /\ io.state = "ok"
        /\ IF \E frame \in io.frame : frame.kind = "garbled"
           THEN Lost("lost", "failed") /\ UNCHANGED held
           ELSE call' = [call EXCEPT !.at = "done"] /\ held' = held \cup {io.way}
  /\ UNCHANGED <<engineVars, childVars, pipeVars, expired, io>>

(* The thread of an abandoned operation ends when its pipe is closed. *)
Join ==
  /\ call.at = "join" /\ io.state # "busy"
  /\ call' = [call EXCEPT !.at = "lost"]
  /\ UNCHANGED <<engineVars, childVars, pipeVars, expired, held, io>>

(* The deadline passes. *)
Expire ==
  /\ call.at \in {"check", "receive"} /\ ~expired
  /\ expired' = TRUE
  /\ UNCHANGED <<engineVars, childVars, pipeVars, call, held, io>>

Cancel ==
  /\ ~cancelled
  /\ cancelled' = TRUE
  /\ UNCHANGED <<accelerated, cpu, diagnostics, answers, childVars, pipeVars, waitVars>>

----------------------------------------------------------------------------
(* The caller: spawn, transcribe_accelerated, SupervisedFallbackEngine      *)

Idle == call' = [at |-> "idle", doing |-> "nothing", way |-> "none", failed |-> {}]

Counted(counter) == diagnostics' = [diagnostics EXCEPT ![counter] = @ + 1]

(* The call returns. *)
Return(answer) == answers' = [answers EXCEPT ![Current] = Append(@, answer)] /\ Idle

Replied(kind) == \E frame \in io.frame : frame.kind = kind

(* spawn, once the startup message is written and once the reply is read.   *)
Started ==
  /\ call.at = "done" /\ call.doing = "startup"
  /\ IF call.way = "write" THEN Start("startup", "read", {})
     ELSE /\ IF Replied("hello") THEN Idle ELSE Lost("lost", "failed")
          /\ UNCHANGED <<held, io, expired>>
  /\ UNCHANGED <<engineVars, childVars, pipeVars>>

(* spawn ends the process it cannot use; the engine is built without it.    *)
NotStarted ==
  /\ call.at = "lost" /\ call.doing = "startup"
  /\ Terminate
  /\ accelerated' = FALSE /\ Counted("failures") /\ Idle
  /\ UNCHANGED <<cpu, answers, cancelled, stdout, expired, io>>

(* A call with the flag up returns at once; otherwise the worker is asked,  *)
(* if there is one.                                                         *)
Begin ==
  /\ call.at = "idle" /\ Len(answers) < Requests
  /\ IF cancelled THEN answers' = Append(answers, <<"cancelled">>) /\ UNCHANGED call
     ELSE /\ answers' = Append(answers, <<>>)
          /\ call' = [call EXCEPT !.at = IF accelerated THEN "send" ELSE "fallback"]
  /\ UNCHANGED <<accelerated, cpu, diagnostics, cancelled, childVars, pipeVars, expired, held, io>>

Send ==
  /\ call.at = "send"
  /\ IF cancelled THEN /\ call' = [call EXCEPT !.at = "lost", !.doing = "infer", !.failed = {"cancelled"}]
                       /\ UNCHANGED <<held, io, expired>>
     ELSE Start("infer", "write", {Frame("infer", Current)})
  /\ UNCHANGED <<engineVars, childVars, pipeVars>>

(* A failure that answers this request, or a reply that is not its result.  *)
Answered ==
  /\ call.at = "done" /\ call.doing = "infer"
  /\ CASE call.way = "write" -> /\ Start("infer", "read", {})
                                /\ UNCHANGED <<answers, diagnostics>>
       [] call.way = "read" /\ io.frame = {Frame("result", Current)} ->
            /\ Return("accelerated") /\ Counted("accelerated") /\ UNCHANGED <<held, io, expired>>
       [] OTHER -> Lost("lost", "failed") /\ UNCHANGED <<answers, diagnostics, held, io, expired>>
  /\ UNCHANGED <<accelerated, cpu, cancelled, childVars, pipeVars>>

(* Fault: the CPU engine takes over while the worker still shuts down.      *)
FaultyAfterwards == IF call.failed = {"cancelled"} THEN "refuse" ELSE "fallback"

(* The process is asked to shut down before anything else happens. *)
Afterwards == "shutdown"

(* The engine gives the worker up: it counts the failure and takes the      *)
(* process away; shutdown does nothing once it has been terminated.         *)
TakeWorker ==
  /\ call.at = "lost" /\ call.doing = "infer"
  /\ accelerated' = FALSE /\ Counted("failures")
  /\ call' = [call EXCEPT !.at = Afterwards, !.doing = "shutdown"]
  /\ UNCHANGED <<cpu, answers, cancelled, childVars, pipeVars, expired, held, io>>

Shutdown ==
  /\ call.at = "shutdown"
  /\ IF child = "gone" /\ held = {}
     THEN call' = [call EXCEPT !.at = "lost"] /\ UNCHANGED <<held, io, expired>>
     ELSE Start("shutdown", "write", {Frame("shutdown", 0)})
  /\ UNCHANGED <<engineVars, childVars, pipeVars>>

(* Whatever came of the shutdown message, the process is ended.             *)
Retire ==
  /\ call.doing = "shutdown" /\ call.at \in {"done", "lost"}
  /\ Terminate
  /\ call' = [call EXCEPT !.at = IF call.failed = {"cancelled"} THEN "refuse" ELSE "fallback"]
  /\ UNCHANGED <<engineVars, stdout, expired, io>>

Refuse ==
  /\ call.at = "refuse"
  /\ Return("cancelled")
  /\ UNCHANGED <<accelerated, cpu, diagnostics, cancelled, childVars, pipeVars, expired, held, io>>

(* The CPU engine is loaded when it is first needed; its factory can be     *)
(* called only once.                                                        *)
Load ==
  /\ call.at = "fallback"
  /\ \/ cpu = "loaded" /\ call' = [call EXCEPT !.at = "cpu"] /\ UNCHANGED <<cpu, answers>>
     \/ cpu = "unloaded" /\ cpu' = "loaded" /\ call' = [call EXCEPT !.at = "cpu"] /\ UNCHANGED answers
     \/ cpu # "loaded" /\ cpu' = "spent" /\ Return("unavailable")
  /\ UNCHANGED <<accelerated, diagnostics, cancelled, childVars, pipeVars, expired, held, io>>

(* The CPU engine does not look at the flag.                                *)
Transcribe ==
  /\ call.at = "cpu"
  /\ \/ Return("cpu") /\ diagnostics' = [diagnostics EXCEPT !.attempts = @ + 1, !.results = @ + 1]
     \/ Return("failed") /\ Counted("attempts")
  /\ UNCHANGED <<accelerated, cpu, cancelled, childVars, pipeVars, expired, held, io>>

(* The run is over and drops its engine, and with it the process.           *)
Drop ==
  /\ call.at = "idle"
  /\ Terminate
  /\ accelerated' = FALSE /\ cpu' = "unloaded"
  /\ call' = [call EXCEPT !.at = "over"]
  /\ UNCHANGED <<diagnostics, answers, cancelled, stdout, expired, io>>

----------------------------------------------------------------------------
Child == ReadClient \/ SayHello \/ Answer \/ Misbehave

PipeThread == WriteFrame \/ ReadFrame

Caller ==
  \/ Check \/ Receive \/ Join
  \/ Started \/ NotStarted \/ Send \/ Answered
  \/ TakeWorker \/ Shutdown \/ Retire \/ Refuse \/ Load \/ Transcribe

WorkerNext == Child \/ PipeThread \/ Caller \/ Expire \/ Cancel \/ Begin \/ Drop

(* The caller's threads run and its clock advances; nothing is assumed of   *)
(* the worker process or, when it does not read, of a write to it.          *)
WorkerFairness ==
  /\ WF_workerVars(Caller) /\ WF_workerVars(Expire)
  /\ WF_workerVars(ReadFrame) /\ WF_workerVars(WriteFrame /\ child = "gone")

WorkerSpec == WorkerInit /\ [][WorkerNext]_workerVars /\ WorkerFairness

----------------------------------------------------------------------------
(* Properties.                                                              *)

(* ADR 0007, the one-heavy-model rule: the CPU engine is loaded only when    *)
(* the worker process and the model it holds are gone, however the worker    *)
(* was lost, and no process outlives the run.                                *)
OneHeavyModel ==
  /\ cpu = "loaded" => child = "gone"
  /\ call.at = "over" => child = "gone"

Given(answer) == {r \in 1..Len(answers) : answers[r] = <<answer>>}

(* Acceleration is lost at most once in a run and never comes back, and each *)
(* call has returned exactly once, with the result of one engine: what the   *)
(* counters say is what the calls were answered.  Only the request at which  *)
(* the worker failed may have been tried twice.                              *)
LossAccounted ==
  /\ diagnostics.failures <= 1
  /\ call.at = "idle" => accelerated = (diagnostics.failures = 0)
  /\ call.at \in {"idle", "over"} =>
       /\ \A r \in 1..Len(answers) : Len(answers[r]) = 1
       /\ diagnostics.accelerated = Cardinality(Given("accelerated"))
       /\ diagnostics.results = Cardinality(Given("cpu"))
       /\ diagnostics.attempts = diagnostics.results + Cardinality(Given("failed"))
  /\ \A r \in Given("accelerated"), s \in Given("cpu") \cup Given("failed") : r < s

(* Every exchange ends: a process that hangs at startup, before it reads a   *)
(* request, or before it answers one, never holds the coordinator thread.    *)
CallReturns == call.at # "idle" ~> call.at \in {"idle", "over"}
=============================================================================
