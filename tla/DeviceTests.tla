----------------------------- MODULE DeviceTests -----------------------------
(***************************************************************************)
(* The tests of audio devices: AudioDeviceTestService (audio/windows.rs)   *)
(* with the threads of each test, the commands that start and stop one and *)
(* the bridge that reports its health to the main window                   *)
(* (commands/audio.rs).                                                    *)
(*                                                                         *)
(* Commands and bridges run concurrently and meet in the state's mutex,    *)
(* which `stop` holds while it waits for the threads of a test.  Levels    *)
(* are left out; what the channel reports is its ChannelHealthStatus.      *)
(***************************************************************************)
EXTENDS Naturals, FiniteSets

CONSTANTS
  Tests,         (* request identifiers, each used for one test             *)
  Retained       (* RETAINED_DEVICE_TESTS                                   *)

ASSUME DeviceTestsAssumption == Retained \in Nat \ {0}

VARIABLES
  running,       (* source -> Option of the test under it                   *)
  completed,     (* the tests whose last observation is retained            *)
  threads,       (* source -> the tests whose threads have its endpoint     *)
  channel,       (* test -> the health that its threads report              *)
  stopping,      (* Option of the test whose `stop` holds the mutex         *)
  bridge,        (* test -> "none", "due", "polling" or "ended"             *)
  shown          (* test -> the health the main window was told last        *)

deviceTestVars == <<running, completed, threads, channel, stopping, bridge, shown>>

TestSources == {"microphone", "system_output"}

TestsInit ==
  /\ running = [s \in TestSources |-> {}]
  /\ completed = {}
  /\ threads = [s \in TestSources |-> {}]
  /\ channel = [t \in Tests |-> "starting"]
  /\ stopping = {}
  /\ bridge = [t \in Tests |-> "none"]
  /\ shown = [t \in Tests |-> "starting"]

----------------------------------------------------------------------------
(* The commands                                                             *)

SourceOf(t) == {s \in TestSources : t \in running[s]}

(* Every operation of the service takes the mutex. *)
Unlocked == stopping = {}

(* start_audio_device_test: one test per source and one per request, and    *)
(* nothing is kept of a test whose threads could not all be spawned.        *)
StartTest(t, s) ==
  /\ Unlocked /\ bridge[t] = "none"
  /\ running[s] = {} /\ SourceOf(t) = {} /\ t \notin completed
  /\ running' = [running EXCEPT ![s] = {t}]
  /\ threads' = [threads EXCEPT ![s] = @ \cup {t}]
  /\ bridge' = [bridge EXCEPT ![t] = "due"]
  /\ UNCHANGED <<completed, channel, stopping, shown>>

(* Fault: the mutex is released before the threads are waited for. *)
FaultyHeld(t) == {}

Held(t) == {t}

(* stop_audio_device_test: a test that is retained has been stopped.        *)
StopTest(t) ==
  /\ Unlocked /\ t \notin completed /\ SourceOf(t) # {}
  /\ running' = [s \in TestSources |-> running[s] \ {t}]
  /\ stopping' = Held(t)
  /\ UNCHANGED <<completed, threads, channel, bridge, shown>>

Stopped(t) == SourceOf(t) = {} /\ bridge[t] # "none"

(* The threads end once the stop flag is up. *)
ThreadsEnd(t) ==
  /\ Stopped(t) /\ \E s \in TestSources : t \in threads[s]
  /\ threads' = [s \in TestSources |-> threads[s] \ {t}]
  /\ channel' = [channel EXCEPT ![t] = "stopped"]
  /\ UNCHANGED <<running, completed, stopping, bridge, shown>>

(* retain_completed: when the map is full, whichever observation comes      *)
(* first in it makes room.                                                  *)
Retain(t) ==
  IF Cardinality(completed) < Retained THEN {completed \cup {t}}
  ELSE {(completed \ {u}) \cup {t} : u \in completed}

EndStop(t) ==
  /\ t \in stopping /\ \A s \in TestSources : t \notin threads[s]
  /\ completed' \in Retain(t)
  /\ stopping' = {}
  /\ UNCHANGED <<running, threads, channel, bridge, shown>>

----------------------------------------------------------------------------
(* The threads of a test and its bridge                                     *)

(* The supervisor opens the endpoint, loses it, tries again or gives up.    *)
Report(t) ==
  /\ SourceOf(t) # {}
  /\ \E health \in {"active", "silent", "reconnecting", "unavailable"} \ {channel[t]} :
       channel' = [channel EXCEPT ![t] = health]
  /\ UNCHANGED <<running, completed, threads, stopping, bridge, shown>>

(* spawn_device_test_events, once the command has its answer.               *)
StartBridge(t) ==
  /\ bridge[t] = "due"
  /\ bridge' = [bridge EXCEPT ![t] = "polling"]
  /\ UNCHANGED <<running, completed, threads, channel, stopping, shown>>

(* Fault: a bridge goes on when the service does not know its test. *)
FaultyForgotten(t) == FALSE

(* observe fails for a test that neither runs nor is retained. *)
Forgotten(t) == t \notin completed /\ SourceOf(t) = {}

(* One turn of the bridge, at most every EVENT_POLL_INTERVAL. *)
Observe(t) ==
  /\ Unlocked /\ bridge[t] = "polling"
  /\ \/ Forgotten(t) /\ bridge' = [bridge EXCEPT ![t] = "ended"] /\ UNCHANGED shown
     \/ /\ t \in completed
        /\ shown' = [shown EXCEPT ![t] = "stopped"] /\ bridge' = [bridge EXCEPT ![t] = "ended"]
     \/ SourceOf(t) # {} /\ shown' = [shown EXCEPT ![t] = channel[t]] /\ UNCHANGED bridge
  /\ UNCHANGED <<running, completed, threads, channel, stopping>>

TestsNext ==
  \E t \in Tests :
    \/ \E s \in TestSources : StartTest(t, s)
    \/ StopTest(t) \/ ThreadsEnd(t) \/ EndStop(t)
    \/ Report(t) \/ StartBridge(t) \/ Observe(t)

(* Threads and blocking tasks run; nobody has to start or stop a test.      *)
TestsFairness ==
  \A t \in Tests :
    /\ WF_deviceTestVars(ThreadsEnd(t)) /\ WF_deviceTestVars(EndStop(t))
    /\ WF_deviceTestVars(StartBridge(t)) /\ WF_deviceTestVars(Observe(t))

TestsSpec == TestsInit /\ [][TestsNext]_deviceTestVars /\ TestsFairness

----------------------------------------------------------------------------
(* Properties.                                                              *)

(* Two tests never have one endpoint open, however starts and stops         *)
(* overlap: a source is free again only when the threads of its last test   *)
(* have ended (AudioDeviceTestService::stop).                               *)
OneTestPerSource == \A s \in TestSources : Cardinality(threads[s]) <= 1

(* The bridge of a stopped test ends, also when its observation had to make *)
(* room for others before it was polled (spawn_device_test_events).         *)
BridgeEnds == \A t \in Tests : Stopped(t) ~> bridge[t] = "ended"

(* Not kept by the code: the main window learns that a test has stopped.    *)
(* The observation may be gone when the bridge polls for it: the map gives  *)
(* up any of its observations, not the oldest (retain_completed).           *)
StopShown == \A t \in Tests : bridge[t] = "ended" => shown[t] = "stopped"

=============================================================================
