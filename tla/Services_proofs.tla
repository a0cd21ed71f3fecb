--------------------------- MODULE Services_proofs ---------------------------
(***************************************************************************)
(* Proofs about the services that stand beside a meeting: the engine of a  *)
(* run and its worker process, the tests of audio devices, the presets of  *)
(* a project, the access to the provider, the answer it streams, and the   *)
(* records of a session and its project.  They share no state, and each    *)
(* theorem is about the specification of one of them, for any number of    *)
(* calls, tests, presets, commands, chunks or changes.                     *)
(***************************************************************************)
EXTENDS WorkerProtocol, DeviceTests, PresetLibrary, ProviderAccess, AnswerStream,
        SessionRecord, FiniteSetTheorems, TLAPS

(* The worker: the heavy models.  The model of the worker is freed by the    *)
(* end of its process, so what has to be known is how the engine lost it.    *)

Calls ==
  [at : {"idle", "check", "receive", "join", "lost", "done", "send", "shutdown",
         "refuse", "fallback", "cpu", "over"},
   doing : {"nothing", "startup", "infer", "shutdown"},
   way : {"none", "read", "write"}, failed : SUBSET {"failed", "cancelled"}]

(* Where the caller may be after the process is gone for good. *)
Afterlife == {"refuse", "fallback", "cpu", "over"}

WorkerRetired ==
  /\ call \in Calls
  /\ cpu = "loaded" => child = "gone"
  /\ call.at \in Afterlife => child = "gone"
  /\ ~accelerated => child = "gone" \/ call.doing = "shutdown"
  /\ call.at = "idle" => call.doing = "nothing"
  /\ call.at = "shutdown" => call.doing = "shutdown"
  /\ call.at = "send" => accelerated

(* The engine begins without a process.                                      *)
LEMMA WorkerInitHolds == WorkerInit => WorkerRetired
BY DEF WorkerInit, WorkerRetired, Calls, Afterlife

(* A process that is gone stays gone. *)
LEMMA ChildStep ==
  ASSUME WorkerRetired, Child
  PROVE  WorkerRetired'
<1>1. UNCHANGED <<accelerated, cpu, call>>
  BY DEF Child, ReadClient, SayHello, Answer, Misbehave, engineVars, waitVars
<1>2. child # "gone"
  BY DEF Child, ReadClient, SayHello, Answer, Misbehave
<1> QED
  BY <1>1, <1>2 DEF WorkerRetired

(* What the caller becomes when a pipe operation is started, or fails. *)
LEMMA StartedCall ==
  ASSUME WorkerRetired, NEW doing \in {"startup", "infer", "shutdown"}, NEW way \in {"read", "write"},
         NEW frame, Start(doing, way, frame)
  PROVE  call' \in Calls /\ call'.doing = doing /\ call'.at \in {"check", "lost"}
<1>1. First("failed") \in SUBSET {"failed", "cancelled"}
  BY DEF WorkerRetired, Calls, First
<1> HIDE DEF First
<1> QED
  BY <1>1 DEF Start, WorkerRetired, Calls

(* A call whose process is lost goes on to report that.                      *)
LEMMA LostCall ==
  ASSUME WorkerRetired, NEW place \in {"join", "lost"}, NEW kind \in {"failed", "cancelled"},
         Lost(place, kind)
  PROVE  call' \in Calls /\ call'.doing = call.doing /\ call'.at = place
<1>1. First(kind) \in SUBSET {"failed", "cancelled"}
  BY DEF WorkerRetired, Calls, First
<1> HIDE DEF First
<1> QED
  BY <1>1 DEF Lost, WorkerRetired, Calls

(* An engine at rest has no call.                                            *)
LEMMA IdleCall ==
  ASSUME Idle
  PROVE  call' \in Calls /\ call'.doing = "nothing" /\ call'.at = "idle"
BY DEF Idle, Calls

(* The polls of a pipe operation. *)
LEMMA PollStep ==
  ASSUME WorkerRetired, Check \/ Receive \/ Join
  PROVE  WorkerRetired'
<1>1. /\ UNCHANGED <<accelerated, cpu>> /\ child' \in {child, "gone"}
      /\ call.at \notin Afterlife \cup {"idle", "shutdown"}
  BY DEF Check, Receive, Join, GiveUp, Lost, Terminate, engineVars, childVars, Afterlife
<1>2. call' \in Calls /\ call'.doing = call.doing /\ call'.at \in {"receive", "check", "join", "lost", "done"}
  <2>1. CASE Check
    BY <2>1, LostCall DEF Check, GiveUp, WorkerRetired, Calls
  <2>2. CASE Receive
    BY <2>2, LostCall DEF Receive, WorkerRetired, Calls
  <2>3. CASE Join
    BY <2>3 DEF Join, WorkerRetired, Calls
  <2> QED
    BY <2>1, <2>2, <2>3
<1> QED
  BY <1>1, <1>2 DEF WorkerRetired, Afterlife

(* A worker that could not be started is ended before the engine is built.   *)
LEMMA StartupStep ==
  ASSUME WorkerRetired, Started \/ NotStarted
  PROVE  WorkerRetired'
<1>1. CASE Started
  <2>1. UNCHANGED <<accelerated, cpu, child>> /\ call.doing = "startup"
    BY <1>1 DEF Started, engineVars, childVars
  <2>2. call' \in Calls /\ call'.at \in {"check", "lost", "idle"} /\ (call'.at = "idle" => call'.doing = "nothing")
    BY <1>1, StartedCall, LostCall, IdleCall DEF Started
  <2> QED
    BY <2>1, <2>2 DEF WorkerRetired, Afterlife
<1>2. CASE NotStarted
  <2>1. call' \in Calls /\ call'.at = "idle" /\ call'.doing = "nothing" /\ child' = "gone"
    BY <1>2, IdleCall DEF NotStarted, Terminate
  <2> QED
    BY <2>1 DEF WorkerRetired, Afterlife
<1> QED
  BY <1>1, <1>2

(* A request: the worker is asked, answers, or is taken away from the engine. *)
LEMMA RequestStep ==
  ASSUME WorkerRetired, Begin \/ Send \/ Answered \/ TakeWorker
  PROVE  WorkerRetired'
<1>1. CASE Begin
  BY <1>1 DEF Begin, WorkerRetired, Calls, Afterlife, childVars
<1>2. CASE Send
  <2>1. UNCHANGED <<accelerated, cpu, child>> /\ call.at = "send"
    BY <1>2 DEF Send, engineVars, childVars
  <2>2. call' \in Calls /\ call'.at \in {"check", "lost"} /\ call'.doing = "infer"
    BY <1>2, StartedCall DEF Send, WorkerRetired, Calls
  <2>3. accelerated \/ child = "gone"
    BY <2>1 DEF WorkerRetired
  <2> QED
    BY <2>1, <2>2, <2>3 DEF WorkerRetired, Afterlife
<1>3. CASE Answered
  <2>1. UNCHANGED <<accelerated, cpu, child>> /\ call.doing = "infer"
    BY <1>3 DEF Answered, childVars
  <2>2. call' \in Calls /\ call'.at \in {"check", "lost", "idle"} /\ (call'.at = "idle" => call'.doing = "nothing")
    BY <1>3, StartedCall, LostCall, IdleCall DEF Answered, Return
  <2> QED
    BY <2>1, <2>2 DEF WorkerRetired, Afterlife
<1>4. CASE TakeWorker
  BY <1>4 DEF TakeWorker, Afterwards, WorkerRetired, Calls, Afterlife, childVars
<1> QED
  BY <1>1, <1>2, <1>3, <1>4

(* The worker is retired, and only then does the CPU engine take over.        *)
LEMMA FallbackStep ==
  ASSUME WorkerRetired, Shutdown \/ Retire \/ Refuse \/ Load \/ Transcribe \/ Drop
  PROVE  WorkerRetired'
<1>1. CASE Shutdown
  <2>1. UNCHANGED <<accelerated, cpu, child>> /\ call.doing = "shutdown"
    BY <1>1 DEF Shutdown, engineVars, childVars, WorkerRetired
  <2>2. call' \in Calls /\ call'.at \in {"check", "lost"} /\ call'.doing = "shutdown"
    BY <1>1, <2>1, StartedCall DEF Shutdown, WorkerRetired, Calls
  <2> QED
    BY <2>1, <2>2 DEF WorkerRetired, Afterlife
<1>2. CASE Retire
  BY <1>2 DEF Retire, Terminate, WorkerRetired, Calls, Afterlife, engineVars
<1>3. CASE Refuse
  BY <1>3, IdleCall DEF Refuse, Return, WorkerRetired, Afterlife, childVars
<1>4. CASE Load
  BY <1>4, IdleCall DEF Load, Return, WorkerRetired, Calls, Afterlife, childVars
<1>5. CASE Transcribe
  BY <1>5, IdleCall DEF Transcribe, Return, WorkerRetired, Afterlife, childVars
<1>6. CASE Drop
  BY <1>6 DEF Drop, Terminate, WorkerRetired, Calls, Afterlife
<1> QED
  BY <1>1, <1>2, <1>3, <1>4, <1>5, <1>6

(* The CPU model is never in memory beside the worker's: whichever way the   *)
(* worker was lost, in a call, at startup or to a crash, and however late.   *)
THEOREM OneModelAtATime == WorkerSpec => []OneHeavyModel
<1>1. WorkerInit => WorkerRetired
  BY WorkerInitHolds
<1>2. WorkerRetired /\ [WorkerNext]_workerVars => WorkerRetired'
  <2>1. ASSUME WorkerRetired, PipeThread \/ Expire \/ Cancel \/ UNCHANGED workerVars PROVE WorkerRetired'
    BY <2>1 DEF PipeThread, WriteFrame, ReadFrame, Expire, Cancel, workerVars, engineVars, childVars,
       waitVars, WorkerRetired
  <2> QED
    BY <2>1, ChildStep, PollStep, StartupStep, RequestStep, FallbackStep DEF WorkerNext, Caller
<1>3. WorkerRetired => OneHeavyModel
  BY DEF WorkerRetired, OneHeavyModel, Afterlife
<1> QED
  BY <1>1, <1>2, <1>3, PTL DEF WorkerSpec

----------------------------------------------------------------------------
(* The device tests: who has an endpoint open.  The threads of a source are  *)
(* those of the test that runs there, or of the one whose stop still holds   *)
(* the mutex, under which no other test starts.                              *)

AtMostOne(S) == \A t, u \in S : t = u

EndpointsOwned ==
  /\ running \in [TestSources -> SUBSET Tests] /\ threads \in [TestSources -> SUBSET Tests]
  /\ AtMostOne(stopping)
  /\ \A s \in TestSources : AtMostOne(threads[s]) /\ threads[s] \subseteq running[s] \cup stopping

(* Every step keeps each endpoint with at most one test.                     *)
LEMMA EndpointsStep ==
  ASSUME EndpointsOwned, [TestsNext]_deviceTestVars
  PROVE  EndpointsOwned'
<1>1. ASSUME NEW t \in Tests, NEW s \in TestSources, StartTest(t, s) PROVE EndpointsOwned'
  <2>1. threads[s] = {}
    BY <1>1 DEF StartTest, Unlocked, EndpointsOwned
  <2>2. \A r \in TestSources : /\ threads'[r] = IF r = s THEN {t} ELSE threads[r]
                               /\ running'[r] = IF r = s THEN {t} ELSE running[r]
    BY <1>1, <2>1 DEF StartTest, EndpointsOwned
  <2>3. stopping' = stopping /\ running' \in [TestSources -> SUBSET Tests]
        /\ threads' \in [TestSources -> SUBSET Tests]
    BY <1>1 DEF StartTest, EndpointsOwned
  <2> QED
    BY <2>2, <2>3 DEF EndpointsOwned, AtMostOne
<1>2. ASSUME NEW t \in Tests, StopTest(t) PROVE EndpointsOwned'
  BY <1>2 DEF StopTest, Held, Unlocked, EndpointsOwned, AtMostOne
<1>3. ASSUME NEW t \in Tests, ThreadsEnd(t) PROVE EndpointsOwned'
  BY <1>3 DEF ThreadsEnd, EndpointsOwned, AtMostOne
<1>4. ASSUME NEW t \in Tests, EndStop(t) PROVE EndpointsOwned'
  BY <1>4 DEF EndStop, EndpointsOwned, AtMostOne
<1>5. ASSUME NEW t \in Tests, Report(t) \/ StartBridge(t) \/ Observe(t) PROVE EndpointsOwned'
  BY <1>5 DEF Report, StartBridge, Observe, EndpointsOwned
<1>6. CASE UNCHANGED deviceTestVars
  BY <1>6 DEF deviceTestVars, EndpointsOwned
<1> QED
  BY <1>1, <1>2, <1>3, <1>4, <1>5, <1>6 DEF TestsNext

(* Two tests never have one endpoint open, however starts and stops overlap. *)
THEOREM OneTestAtATime == TestsSpec => []OneTestPerSource
<1>1. TestsInit => EndpointsOwned
  BY DEF TestsInit, EndpointsOwned, AtMostOne
<1>2. EndpointsOwned => OneTestPerSource
  <2>1. ASSUME NEW S, AtMostOne(S) PROVE Cardinality(S) <= 1
    <3>1. CASE S = {}
      <4>1. Cardinality(S) = 0
        BY <3>1, FS_EmptySet
      <4> QED
        BY <4>1
    <3>2. CASE S # {}
      <4>1. PICK t \in S : S = {t}
        BY <2>1, <3>2 DEF AtMostOne
      <4>2. Cardinality(S) = 1
        BY <4>1, FS_Singleton
      <4> QED
        BY <4>2
    <3> QED
      BY <3>1, <3>2
  <2> QED
    BY <2>1 DEF EndpointsOwned, OneTestPerSource
<1> QED
  BY <1>1, <1>2, EndpointsStep, PTL DEF TestsSpec

----------------------------------------------------------------------------
(* The access to the provider: whose validation is stored.                   *)

Tasks == [op : {"change", "validate", "list"}, key : SUBSET Keys, at : {1, 2}, got : Nat]

(* A validation in flight was begun with the key that is stored, unless the  *)
(* key was replaced under it.                                                *)
ValidationsCurrent ==
  /\ tasks \in [Commands -> SUBSET Tasks] /\ offer \in Nat
  /\ secret \in SUBSET Keys /\ excused \in BOOLEAN
  /\ \A c \in Commands : AtMostOne(tasks[c])
  /\ \A c \in Commands : \A t \in tasks[c] : t.op = "validate" => t.key = secret \/ excused

(* A change of the key that has not dropped the validation yet. *)
Changing == \E c \in Commands : \E t \in tasks[c] : t.op = "change" /\ t.at > 1

(* What is in flight belongs to a command.                                   *)
LEMMA InFlightTask ==
  ASSUME NEW o
  PROVE  /\ \A t \in InFlight(o) : \E c \in Commands : t \in tasks[c] /\ t.op = o
         /\ \A c \in Commands : \A t \in tasks[c] : t.op = o => t \in InFlight(o)
BY DEF InFlight

(* A change is under way when a command changes the key.                     *)
LEMMA ChangingInFlight == Changing <=> \E t \in InFlight("change") : t.at > 1
BY InFlightTask DEF Changing

ProviderInv ==
  ValidationsCurrent /\ (validation = {} \/ validation = secret \/ excused \/ Changing)

(* A command begins or goes on: the others are as they were. *)
LEMMA TaskGoesOn ==
  ASSUME ValidationsCurrent, NEW c \in Commands, NEW t \in Tasks, tasks' = [tasks EXCEPT ![c] = {t}],
         secret' = secret, offer' = offer, excused' = excused,
         t.op = "validate" => t.key = secret \/ excused
  PROVE  ValidationsCurrent'
<1>1. \A d \in Commands : tasks'[d] = IF d = c THEN {t} ELSE tasks[d]
  BY DEF ValidationsCurrent
<1>2. tasks' \in [Commands -> SUBSET Tasks]
  BY DEF ValidationsCurrent
<1> QED
  BY <1>1, <1>2 DEF ValidationsCurrent, AtMostOne

(* A command ends. *)
LEMMA TaskEnds ==
  ASSUME ValidationsCurrent, NEW c \in Commands, End(c), secret' = secret, offer' = offer,
         excused' \in BOOLEAN, excused => excused'
  PROVE  ValidationsCurrent'
<1>1. \A d \in Commands : tasks'[d] = IF d = c THEN {} ELSE tasks[d]
  BY DEF ValidationsCurrent, End
<1>2. tasks' \in [Commands -> SUBSET Tasks]
  BY DEF ValidationsCurrent, End
<1> QED
  BY <1>1, <1>2 DEF ValidationsCurrent, AtMostOne

(* Commands that begin, and a catalog that arrived.                          *)
LEMMA BeginStep ==
  ASSUME ProviderInv, NEW c \in Commands, ChangeKey(c) \/ Validate(c) \/ ListModels(c) \/ Fetched(c)
  PROVE  ProviderInv'
<1>1. /\ UNCHANGED <<secret, validation, offer, excused>>
      /\ \E t \in Tasks : /\ tasks' = [tasks EXCEPT ![c] = {t}]
                          /\ t.op = "validate" => t.key = secret
      /\ \A t \in tasks[c] : t.op = "list"
  <2>1. CASE ChangeKey(c)
    <3>1. PICK key \in {{}} \cup {{k} : k \in Keys} : Enter(c, "change", key)
      BY <2>1 DEF ChangeKey
    <3>2. [op |-> "change", key |-> key, at |-> 1, got |-> 0] \in Tasks
      BY DEF Tasks
    <3> QED
      BY <2>1, <3>1, <3>2 DEF ChangeKey, Enter
  <2>2. CASE Validate(c)
    <3>1. [op |-> "validate", key |-> secret, at |-> 1, got |-> 0] \in Tasks
      BY DEF Tasks, ProviderInv, ValidationsCurrent
    <3> QED
      BY <2>2, <3>1 DEF Validate, Enter
  <2>3. CASE ListModels(c)
    <3>1. [op |-> "list", key |-> {}, at |-> 1, got |-> 0] \in Tasks
      BY DEF Tasks
    <3> QED
      BY <2>3, <3>1 DEF ListModels, Enter
  <2>4. CASE Fetched(c)
    <3>1. PICK t \in tasks[c] : t.op = "list" /\ tasks' = [tasks EXCEPT ![c] = {[t EXCEPT !.at = 2, !.got = offer]}]
      BY <2>4 DEF Fetched
    <3>2. t \in Tasks /\ \A u \in tasks[c] : u = t
      BY DEF ProviderInv, ValidationsCurrent, AtMostOne
    <3>3. [t EXCEPT !.at = 2, !.got = offer] \in Tasks /\ [t EXCEPT !.at = 2, !.got = offer].op = "list"
      BY <3>1, <3>2 DEF Tasks, ProviderInv, ValidationsCurrent
    <3> QED
      BY <2>4, <3>1, <3>2, <3>3 DEF Fetched
  <2> QED
    BY <2>1, <2>2, <2>3, <2>4
<1>2. ValidationsCurrent'
  BY <1>1, TaskGoesOn DEF ProviderInv
<1>3. Changing => Changing'
  <2>1. ASSUME NEW d \in Commands, NEW t \in tasks[d], t.op = "change" PROVE t \in tasks'[d]
    BY <1>1, <2>1 DEF ProviderInv, ValidationsCurrent
  <2> QED
    BY <2>1 DEF Changing
<1> QED
  BY <1>1, <1>2, <1>3 DEF ProviderInv

(* The key is written, then the validation is dropped.                       *)
LEMMA ChangeStep ==
  ASSUME ProviderInv, NEW c \in Commands, Change(c)
  PROVE  ProviderInv'
<1>1. PICK t \in tasks[c] :
        /\ t.op = "change"
        /\ IF t.at = Len(Order) THEN End(c) ELSE Onward(c, t)
        /\ \/ /\ Order[t.at] = "write" /\ secret' = t.key /\ UNCHANGED validation
              /\ excused' = (excused \/ \E v \in InFlight("validate") : v.key # t.key)
           \/ /\ Order[t.at] = "clear" /\ validation' = {} /\ UNCHANGED <<secret, excused>>
  BY DEF Change
<1>2. t \in Tasks /\ t.at \in {1, 2} /\ t.key \in SUBSET Keys /\ offer' = offer
  BY DEF ProviderInv, ValidationsCurrent, Change, Tasks
<1>3. Len(Order) = 2 /\ Order[1] = "write" /\ Order[2] = "clear"
  BY DEF Order
<1>4. CASE t.at = 1
  <2> DEFINE later == [t EXCEPT !.at = @ + 1]
  <2>1. later \in Tasks /\ later.op = "change" /\ later.at = 2
    BY <1>1, <1>2, <1>4 DEF Tasks
  <2>2. tasks' = [tasks EXCEPT ![c] = {later}]
    BY <1>1, <1>3, <1>4 DEF Onward
  <2> HIDE DEF later
  <2>3. PICK u \in Tasks : u = later
    BY <2>1
  <2>4. \A d \in Commands : tasks'[d] = IF d = c THEN {u} ELSE tasks[d]
    BY <2>2, <2>3 DEF ProviderInv, ValidationsCurrent
  <2>5. tasks' \in [Commands -> SUBSET Tasks]
    BY <2>2, <2>3 DEF ProviderInv, ValidationsCurrent
  <2>6. secret' = t.key /\ excused' = (excused \/ \E v \in InFlight("validate") : v.key # t.key)
    BY <1>1, <1>3, <1>4
  <2>7. ASSUME NEW d \in Commands, NEW v \in tasks[d], v.op = "validate"
        PROVE  v.key = secret' \/ excused'
    BY <2>6, <2>7, InFlightTask
  <2>8. ValidationsCurrent'
    <3>1. \A d \in Commands : AtMostOne(tasks[d])' /\ offer' \in Nat
      BY <1>2, <2>4 DEF AtMostOne, ProviderInv, ValidationsCurrent
    <3>2. \A d \in Commands : \A v \in tasks'[d] : v.op = "validate" => v.key = secret' \/ excused'
      BY <2>1, <2>3, <2>4, <2>7
    <3>3. secret' \in SUBSET Keys /\ excused' \in BOOLEAN
      BY <1>2, <2>6
    <3> QED
      BY <2>5, <3>1, <3>2, <3>3 DEF ValidationsCurrent
  <2>9. Changing'
    BY <2>1, <2>3, <2>4 DEF Changing
  <2> QED
    BY <2>8, <2>9 DEF ProviderInv
<1>5. CASE t.at = 2
  BY <1>1, <1>2, <1>3, <1>5, TaskEnds DEF ProviderInv, ValidationsCurrent
<1> QED
  BY <1>2, <1>4, <1>5

(* A command that ends without a change of the key.                          *)
LEMMA EndStep ==
  ASSUME ProviderInv, NEW c \in Commands,
         ChangeFails(c) \/ Refused(c) \/ RecordValidation(c) \/ StoreCatalog(c)
  PROVE  ProviderInv'
<1>1. End(c) /\ secret' = secret /\ offer' = offer
  BY DEF ChangeFails, Refused, RecordValidation, StoreCatalog
<1>2. \A d \in Commands : tasks'[d] = IF d = c THEN {} ELSE tasks[d]
  BY <1>1 DEF End, ProviderInv, ValidationsCurrent
<1>3. excused' \in BOOLEAN /\ (excused => excused')
  BY DEF ChangeFails, Refused, RecordValidation, StoreCatalog, ProviderInv, ValidationsCurrent
<1>4. ValidationsCurrent'
  BY <1>1, <1>3, TaskEnds DEF ProviderInv
<1>5. Changing => Changing' \/ excused'
  <2>1. ASSUME NEW d \in Commands, NEW t \in tasks[d], t.op = "change", t.at > 1, d = c PROVE excused'
    BY <2>1 DEF ProviderInv, ValidationsCurrent, AtMostOne, ChangeFails, Refused, RecordValidation, StoreCatalog
  <2> QED
    BY <1>2, <2>1 DEF Changing
<1>6. \/ validation' = validation
      \/ validation' = secret \/ excused
  BY DEF ChangeFails, Refused, RecordValidation, StoreCatalog, ProviderInv, ValidationsCurrent
<1> QED
  BY <1>1, <1>3, <1>4, <1>5, <1>6 DEF ProviderInv

(* What is shown as validated is the stored key, in every interleaving of    *)
(* changes and validations but the ones the code excuses.                    *)
THEOREM ValidationOfTheKey == ProviderSpec => []ValidatedAsStored
<1>1. ProviderInit => ProviderInv
  <2>1. ProviderInit => ValidationsCurrent
    <3>1. ProviderInit => tasks \in [Commands -> SUBSET Tasks] /\ \A c \in Commands : tasks[c] = {}
      BY DEF ProviderInit
    <3>2. ProviderInit => offer \in Nat /\ secret \in SUBSET Keys
      BY DEF ProviderInit
    <3>3. ProviderInit => excused \in BOOLEAN
      BY DEF ProviderInit
    <3> QED
      BY <3>1, <3>2, <3>3 DEF ValidationsCurrent, AtMostOne
  <2> QED
    BY <2>1 DEF ProviderInit, ProviderInv
<1>2. ProviderInv /\ [ProviderNext]_providerVars => ProviderInv'
  <2>1. ASSUME ProviderInv, Relaunch PROVE ProviderInv'
    <3>1. Changing => excused'
      BY <2>1, ChangingInFlight DEF Relaunch
    <3>2. ValidationsCurrent'
      BY <2>1 DEF Relaunch, ProviderInv, ValidationsCurrent, AtMostOne
    <3> QED
      BY <2>1, <3>1, <3>2 DEF Relaunch, ProviderInv
  <2>2. ASSUME ProviderInv, Outdate \/ Offer \/ UNCHANGED providerVars PROVE ProviderInv'
    BY <2>2 DEF Outdate, Offer, providerVars, ProviderInv, ValidationsCurrent, Changing
  <2> QED
    BY <2>1, <2>2, BeginStep, ChangeStep, EndStep DEF ProviderNext
<1>3. ProviderInv => ValidatedAsStored
  BY ChangingInFlight DEF ProviderInv, ValidatedAsStored
<1> QED
  BY <1>1, <1>2, <1>3, PTL DEF ProviderSpec

----------------------------------------------------------------------------
(* The presets: a preset has at most one document in its folder, and a       *)
(* document that is there is never older than what was answered.             *)

PresetDocuments == [name : Names, guidance : Guidance, version : Nat, revision : Nat]

Folders == [docs : [Names -> SUBSET PresetDocuments], backups : [Names -> SUBSET PresetDocuments]]

Single(f) == \A m, n \in Names : \A d \in f.docs[m], e \in f.docs[n] : m = n /\ d = e

NoneOlder(f, revision) == \A n \in Names : \A d \in f.docs[n] : d.revision >= revision

(* Something at least as new is on disk. *)
OnDisk(p, f, trash, revision) ==
  \/ \E n \in Names : \E d \in f.docs[n] \cup f.backups[n] : d.revision >= revision
  \/ \E t \in trash : t[1] = p /\ t[2].revision >= revision

PresetInv ==
  /\ folder \in [Presets -> Folders] /\ kept \in [Presets -> Nat]
  /\ \A p \in Presets :
       /\ Single(folder[p]) /\ NoneOlder(folder[p], kept[p])
       /\ kept[p] > 0 => OnDisk(p, folder[p], trashed, kept[p])

(* An operation on one preset leaves the folders of the others alone. *)
LEMMA FolderChange ==
  ASSUME PresetInv, NEW p \in Presets, NEW f \in Folders, NEW k \in Nat,
         folder' = [folder EXCEPT ![p] = f], kept' = [kept EXCEPT ![p] = k], trashed \subseteq trashed',
         Single(f), NoneOlder(f, k), k > 0 => OnDisk(p, f, trashed', k)
  PROVE  PresetInv'
<1>1. folder' \in [Presets -> Folders] /\ kept' \in [Presets -> Nat]
  BY DEF PresetInv
<1>2. \A q \in Presets : /\ folder'[q] = IF q = p THEN f ELSE folder[q]
                         /\ kept'[q] = IF q = p THEN k ELSE kept[q]
  BY DEF PresetInv
<1>3. ASSUME NEW q \in Presets, q # p
      PROVE  /\ Single(folder[q]) /\ NoneOlder(folder[q], kept[q])
             /\ kept[q] > 0 => OnDisk(q, folder[q], trashed', kept[q])
  BY DEF PresetInv, OnDisk
<1>4. ASSUME NEW q \in Presets
      PROVE  /\ Single(folder'[q]) /\ NoneOlder(folder'[q], kept'[q])
             /\ kept'[q] > 0 => OnDisk(q, folder'[q], trashed', kept'[q])
  <2>1. CASE q = p
    BY <1>2, <2>1
  <2>2. CASE q # p
    BY <1>2, <1>3, <2>2
  <2> QED
    BY <2>1, <2>2
<1> QED
  BY <1>1, <1>4 DEF PresetInv

(* Whatever step an update has reached, the folder holds the old document,   *)
(* the new one, or only their backup.                                        *)
LEMMA UpdateStepFolder ==
  ASSUME NEW f \in Folders, Single(f), NEW old \in Names, NEW d \in f.docs[old],
         NEW new \in PresetDocuments, NEW g \in UpdateSteps(f, old, new)
  PROVE  /\ g \in Folders /\ Single(g)
         /\ \A n \in Names : g.docs[n] \subseteq {d, new}
         /\ \E n \in Names : \E e \in g.docs[n] \cup g.backups[n] : e \in {d, new}
         /\ g = Updated(f, old, new) =>
              /\ \A n \in Names : g.docs[n] \subseteq {new}
              /\ \E n \in Names : new \in g.docs[n]
<1> DEFINE docs == [[f.docs EXCEPT ![old] = {}] EXCEPT ![new.name] = {new}]
           saved == [f.backups EXCEPT ![old] = f.docs[old]]
           empty == [f.docs EXCEPT ![old] = {}]
           over == [f.docs EXCEPT ![old] = {new}]
<1>1. /\ f.docs \in [Names -> SUBSET PresetDocuments] /\ f.backups \in [Names -> SUBSET PresetDocuments]
      /\ f = [docs |-> f.docs, backups |-> f.backups] /\ new.name \in Names /\ d \in PresetDocuments
  BY DEF Folders, PresetDocuments
<1>2. f.docs[old] = {d} /\ \A n \in Names \ {old} : f.docs[n] = {}
  BY DEF Single
<1>3. /\ docs \in [Names -> SUBSET PresetDocuments] /\ saved \in [Names -> SUBSET PresetDocuments]
      /\ empty \in [Names -> SUBSET PresetDocuments] /\ over \in [Names -> SUBSET PresetDocuments]
  BY <1>1, <1>2
<1>4. /\ \A n \in Names : docs[n] = IF n = new.name THEN {new} ELSE {}
      /\ \A n \in Names : over[n] = IF n = old THEN {new} ELSE {}
      /\ \A n \in Names : empty[n] = {}
      /\ saved[old] = {d}
  BY <1>1, <1>2
<1>5. Replaced(f, old, new) = [docs |-> over, backups |-> saved]
  BY <1>1 DEF Replaced
<1>6. Moved(Replaced(f, old, new), old, new) = [docs |-> docs, backups |-> saved]
  BY <1>5, <1>1 DEF Moved
<1>8. [Replaced(f, old, new) EXCEPT !.docs[old] = {}] = [docs |-> empty, backups |-> saved]
  BY <1>1, <1>5
<1> HIDE DEF docs, saved, empty, over
<1> DEFINE cleared == [saved EXCEPT ![old] = {}]
<1>7. /\ Updated(f, old, new) = [docs |-> docs, backups |-> cleared]
      /\ cleared \in [Names -> SUBSET PresetDocuments]
  <2>1. cleared \in [Names -> SUBSET PresetDocuments]
    BY <1>3
  <2>2. [[docs |-> docs, backups |-> saved] EXCEPT !.backups[old] = {}] = [docs |-> docs, backups |-> cleared]
    OBVIOUS
  <2>3. Updated(f, old, new) = [[docs |-> docs, backups |-> saved] EXCEPT !.backups[old] = {}]
    BY <1>6 DEF Updated
  <2> QED
    BY <2>1, <2>2, <2>3
<1> HIDE DEF cleared
<1>9. g \in {f, [docs |-> empty, backups |-> saved], [docs |-> over, backups |-> saved],
            [docs |-> docs, backups |-> saved], [docs |-> docs, backups |-> cleared]}
  BY <1>5, <1>6, <1>7, <1>8 DEF UpdateSteps
<1>10. g \in Folders
  BY <1>3, <1>7, <1>9 DEF Folders
<1>11. g.docs \in {f.docs, empty, over, docs} /\ (g.docs = empty => g.backups = saved)
       /\ (g = Updated(f, old, new) => g.docs = docs)
  <2>1. f.docs # empty /\ over # empty /\ docs # empty
    BY <1>1, <1>2, <1>4
  <2>2. g.docs \in {f.docs, empty, over, docs} /\ (g.docs = empty => g.backups = saved)
    BY <1>9, <2>1
  <2>3. g = Updated(f, old, new) => g.docs = docs
    BY <1>7
  <2> QED
    BY <2>2, <2>3
<1>12. Single(g) /\ \A n \in Names : g.docs[n] \subseteq {d, new}
  BY <1>1, <1>2, <1>4, <1>11 DEF Single
<1>13. \E n \in Names : \E e \in g.docs[n] \cup g.backups[n] : e \in {d, new}
  BY <1>1, <1>2, <1>4, <1>11
<1> QED
  BY <1>1, <1>4, <1>10, <1>11, <1>12, <1>13

(* Creating a preset.                                                        *)
LEMMA CreatePresetStep ==
  ASSUME PresetInv, NEW p \in Presets, CreatePreset(p)
  PROVE  PresetInv'
<1>1. PICK n \in Names, g \in Guidance :
        /\ folder' = [folder EXCEPT ![p].docs[n] = {[name |-> n, guidance |-> g, version |-> 1, revision |-> 1]}]
        /\ \/ kept' = [kept EXCEPT ![p] = 1]
           \/ kept' = kept
  BY DEF CreatePreset
<1>2. /\ kept[p] = 0 /\ trashed' = trashed
      /\ \A m \in Names : folder[p].docs[m] = {}
  BY DEF CreatePreset, Documents
<1>3. [name |-> n, guidance |-> g, version |-> 1, revision |-> 1] \in PresetDocuments
  BY DEF PresetDocuments
<1>4. PICK d \in PresetDocuments : d = [name |-> n, guidance |-> g, version |-> 1, revision |-> 1]
  BY <1>3
<1> DEFINE docs == [folder[p].docs EXCEPT ![n] = {d}]
           f == [folder[p] EXCEPT !.docs = docs]
<1>5. folder[p] \in Folders /\ kept \in [Presets -> Nat]
  BY DEF PresetInv
<1>6. docs \in [Names -> SUBSET PresetDocuments] /\ \A m \in Names : docs[m] = IF m = n THEN {d} ELSE {}
  BY <1>2, <1>5 DEF Folders
<1>7. folder' = [folder EXCEPT ![p] = f]
  BY <1>1, <1>4
<1> HIDE DEF docs
<1>8. f \in Folders /\ f.docs = docs
  BY <1>5, <1>6 DEF Folders
<1> HIDE DEF f
<1>9. d.revision = 1
  BY <1>4
<1>10. /\ Single(f) /\ NoneOlder(f, 1) /\ NoneOlder(f, 0)
       /\ OnDisk(p, f, trashed', 1)
  BY <1>6, <1>8, <1>9 DEF Single, NoneOlder, OnDisk
<1>11. CASE kept' = [kept EXCEPT ![p] = 1]
  BY <1>2, <1>7, <1>8, <1>10, <1>11, FolderChange
<1>12. CASE kept' = kept
  <2>1. kept' = [kept EXCEPT ![p] = 0]
    BY <1>2, <1>5, <1>12
  <2>2. 0 \in Nat /\ ~(0 > 0) /\ trashed \subseteq trashed'
    BY <1>2
  <2> QED
    BY <1>7, <1>8, <1>10, <2>1, <2>2, FolderChange
<1> QED
  BY <1>1, <1>11, <1>12

(* Updating a preset.                                                        *)
LEMMA UpdatePresetStep ==
  ASSUME PresetInv, NEW p \in Presets, UpdatePreset(p)
  PROVE  PresetInv'
<1>0. PICK old \in Names : \E d \in folder[p].docs[old], n \in Names, g \in Guidance :
        \/ /\ folder' = [folder EXCEPT ![p] = Updated(@, old, Revised(d, n, g))]
           /\ kept' = [kept EXCEPT ![p] = Revised(d, n, g).revision]
        \/ /\ kept' = kept
           /\ \E f \in UpdateSteps(folder[p], old, Revised(d, n, g)) : folder' = [folder EXCEPT ![p] = f]
  BY DEF UpdatePreset, Found
<1>1. PICK d \in folder[p].docs[old], n \in Names, g \in Guidance :
        \/ /\ folder' = [folder EXCEPT ![p] = Updated(@, old, Revised(d, n, g))]
           /\ kept' = [kept EXCEPT ![p] = Revised(d, n, g).revision]
        \/ /\ kept' = kept
           /\ \E f \in UpdateSteps(folder[p], old, Revised(d, n, g)) : folder' = [folder EXCEPT ![p] = f]
  BY <1>0
<1>2. folder[p] \in Folders /\ kept[p] \in Nat /\ Single(folder[p]) /\ d.revision >= kept[p]
      /\ d \in PresetDocuments /\ kept \in [Presets -> Nat] /\ trashed' = trashed
  BY DEF PresetInv, Folders, NoneOlder, UpdatePreset
<1>3. Revised(d, n, g) \in PresetDocuments /\ Revised(d, n, g).revision = d.revision + 1
  BY <1>2 DEF Revised, VersionOf, PresetDocuments
<1>4. PICK new \in PresetDocuments : new = Revised(d, n, g)
  BY <1>3
<1>5. new.revision = d.revision + 1 /\ d.revision \in Nat
  BY <1>2, <1>3, <1>4 DEF PresetDocuments
<1>6. CASE /\ folder' = [folder EXCEPT ![p] = Updated(@, old, new)]
           /\ kept' = [kept EXCEPT ![p] = new.revision]
  <2>1. Updated(folder[p], old, new) \in UpdateSteps(folder[p], old, new)
    BY DEF UpdateSteps
  <2>2. PICK f \in UpdateSteps(folder[p], old, new) : f = Updated(folder[p], old, new)
    BY <2>1
  <2>3. /\ f \in Folders /\ Single(f)
        /\ \A m \in Names : f.docs[m] \subseteq {new}
        /\ \E m \in Names : new \in f.docs[m]
    BY <1>2, <2>2, UpdateStepFolder
  <2>4. NoneOlder(f, new.revision) /\ OnDisk(p, f, trashed', new.revision)
    BY <1>5, <2>3 DEF NoneOlder, OnDisk
  <2>5. new.revision \in Nat /\ trashed \subseteq trashed' /\ folder' = [folder EXCEPT ![p] = f]
    BY <1>2, <1>5, <1>6, <2>2
  <2> QED
    BY <1>6, <2>3, <2>4, <2>5, FolderChange
<1>7. CASE kept' = kept /\ \E f \in UpdateSteps(folder[p], old, new) : folder' = [folder EXCEPT ![p] = f]
  <2>1. PICK f \in UpdateSteps(folder[p], old, new) : folder' = [folder EXCEPT ![p] = f]
    BY <1>7
  <2>2. /\ f \in Folders /\ Single(f)
        /\ \A m \in Names : f.docs[m] \subseteq {d, new}
        /\ \E m \in Names : \E e \in f.docs[m] \cup f.backups[m] : e \in {d, new}
    BY <1>2, UpdateStepFolder
  <2>3. \A e \in {d, new} : e.revision >= kept[p]
    BY <1>2, <1>5
  <2>4. NoneOlder(f, kept[p]) /\ OnDisk(p, f, trashed', kept[p])
    BY <2>2, <2>3 DEF NoneOlder, OnDisk
  <2>5. kept' = [kept EXCEPT ![p] = kept[p]]
    BY <1>2, <1>7
  <2> QED
    BY <1>2, <2>1, <2>2, <2>4, <2>5, FolderChange
<1> QED
  BY <1>1, <1>4, <1>6, <1>7

(* Moving a preset to the trash.                                             *)
LEMMA TrashPresetStep ==
  ASSUME PresetInv, NEW p \in Presets, TrashPreset(p)
  PROVE  PresetInv'
<1>1. PICK n \in Names :
        /\ n \in Found(p)
        /\ trashed' = trashed \cup ({p} \X folder[p].docs[n])
        /\ folder' = [folder EXCEPT ![p].docs[n] = {}]
  BY DEF TrashPreset, Found
<1>2. folder[p] \in Folders /\ kept[p] \in Nat /\ kept \in [Presets -> Nat]
      /\ Single(folder[p]) /\ NoneOlder(folder[p], kept[p])
  BY DEF PresetInv
<1>3. PICK d \in folder[p].docs[n] : d.revision >= kept[p]
  BY <1>1, <1>2 DEF Found, NoneOlder
<1> DEFINE docs == [folder[p].docs EXCEPT ![n] = {}]
           f == [folder[p] EXCEPT !.docs = docs]
<1>4. docs \in [Names -> SUBSET PresetDocuments] /\ \A m \in Names : docs[m] = {}
  BY <1>2, <1>3 DEF Folders, Single
<1>5. folder' = [folder EXCEPT ![p] = f]
  BY <1>1
<1> HIDE DEF docs
<1>6. f \in Folders /\ f.docs = docs
  BY <1>2, <1>4 DEF Folders
<1> HIDE DEF f
<1>7. Single(f) /\ NoneOlder(f, kept[p]) /\ NoneOlder(f, 0)
  BY <1>4, <1>6 DEF Single, NoneOlder
<1>8. OnDisk(p, f, trashed', kept[p])
  <2>1. <<p, d>> \in trashed' /\ <<p, d>>[1] = p /\ <<p, d>>[2] = d
    BY <1>1, <1>3
  <2> QED
    BY <1>3, <2>1 DEF OnDisk
<1>9. kept' \in {[kept EXCEPT ![p] = 0], [kept EXCEPT ![p] = kept[p]]}
  BY <1>2 DEF TrashPreset
<1>10. CASE kept' = [kept EXCEPT ![p] = 0]
  <2>1. 0 \in Nat /\ ~(0 > 0) /\ trashed \subseteq trashed'
    BY <1>1
  <2> QED
    BY <1>5, <1>6, <1>7, <1>10, <2>1, FolderChange
<1>11. CASE kept' = [kept EXCEPT ![p] = kept[p]]
  BY <1>1, <1>2, <1>5, <1>6, <1>7, <1>8, <1>11, FolderChange
<1> QED
  BY <1>9, <1>10, <1>11

(* An acknowledged revision of a preset, or a newer one, stays on disk, in   *)
(* the folder, in a backup or in trash/.                                     *)
THEOREM PresetsSurvive == PresetSpec => []PresetSurvives
<1>1. PresetInit => PresetInv
  <2>0. [docs |-> NoDocument, backups |-> NoDocument] \in Folders
    BY DEF Folders, NoDocument
  <2>1. PresetInit => /\ folder \in [Presets -> Folders]
                      /\ \A p \in Presets : folder[p].docs = NoDocument
    BY <2>0 DEF PresetInit
  <2>2. PresetInit => kept \in [Presets -> Nat] /\ \A p \in Presets : kept[p] = 0
    BY DEF PresetInit
  <2>3. \A n \in Names : NoDocument[n] = {}
    BY DEF NoDocument
  <2> QED
    BY <2>1, <2>2, <2>3 DEF PresetInv, Single, NoneOlder
<1>2. PresetInv /\ [PresetNext]_presetVars => PresetInv'
  <2>1. ASSUME PresetInv, UNCHANGED presetVars PROVE PresetInv'
    BY <2>1 DEF presetVars, PresetInv
  <2> QED
    BY <2>1, CreatePresetStep, UpdatePresetStep, TrashPresetStep DEF PresetNext
<1>3. PresetInv => PresetSurvives
  <2>1. ASSUME PresetInv, NEW p \in Presets, kept[p] > 0
        PROVE  \E d \in Documents(p) \cup {t[2] : t \in {u \in trashed : u[1] = p}} : d.revision >= kept[p]
    BY <2>1 DEF PresetInv, OnDisk, Documents
  <2> QED
    BY <2>1 DEF PresetSurvives
<1> QED
  BY <1>1, <1>2, <1>3, PTL DEF PresetSpec

----------------------------------------------------------------------------
(* The answer of the language model, for every length of an answer, every   *)
(* choice of segments and every set of models that the events may name.  The *)
(* invariant relates what was taken from the stream to what the provider has *)
(* sent: they agree as long as the stream is read, because the first chunk   *)
(* that is not taken ends it.                                                *)

Pieces == Segments \cup {"", "prose", "return", "noise", "close"}

Sent == [text : Seq(Pieces), reason : Reasons \cup {"none"}, usages : Nat,
         late : BOOLEAN, done : BOOLEAN]

AnswerTypes ==
  /\ content \in Seq(Pieces) /\ ending \in Reasons \cup {"none"} /\ usages \in Nat
  /\ said \in Sent

(* All that the provider sent was taken, and it never went back on its end. *)
InStep ==
  /\ content = said.text /\ ending = said.reason /\ usages = said.usages
  /\ usages \in {0, 1} /\ said.late = FALSE

AnswerInv ==
  /\ AnswerTypes
  /\ reading \in {"stream", "judge"} => InStep
  /\ reading = "judge" => said.done /\ ending # "none" /\ usages # 0
  /\ AnswerWhole /\ AnswerGrounded

(* A chunk brings one piece of text or none. *)
LEMMA PieceType ==
  ASSUME NEW c \in Chunk
  PROVE  Piece(c) \in Seq(Pieces)
<1>1. c.piece \in Pieces
  BY DEF Chunk, Pieces
<1> DEFINE p == c.piece
<1>2. <<>> \in Seq(Pieces)
  OBVIOUS
<1> HIDE DEF p
<1>3. ASSUME NEW q \in Pieces PROVE <<q>> \in Seq(Pieces)
  OBVIOUS
<1>4. <<p>> \in Seq(Pieces)
  BY <1>1, <1>3 DEF p
<1>5. Piece(c) = <<>> \/ Piece(c) = <<p>>
  BY DEF Piece, p
<1> QED
  BY <1>2, <1>4, <1>5

(* What the provider has sent grows by the chunk. *)
LEMMA SaysType ==
  ASSUME NEW c \in Chunk, said \in Sent
  PROVE  Says(c) \in Sent
<1>1. said.text \in Seq(Pieces) /\ said.usages \in Nat /\ said.late \in BOOLEAN
      /\ said.reason \in Reasons \cup {"none"}
  BY DEF Sent
<1>2. said.text \o Piece(c) \in Seq(Pieces)
  BY <1>1, PieceType
<1>3. c.reason \in Reasons \cup {"none"}
  BY DEF Chunk
<1>4. said.usages + (IF c.usage THEN 1 ELSE 0) \in Nat
  BY <1>1
<1>5. (\/ said.late
       \/ /\ said.reason # "none"
          /\ c.piece # "" \/ c.reason \notin {"none", said.reason}) \in BOOLEAN
  BY <1>1
<1>6. (IF c.reason = "none" THEN said.reason ELSE c.reason) \in Reasons \cup {"none"}
  BY <1>1, <1>3
<1> QED
  BY <1>2, <1>4, <1>5, <1>6 DEF Says, Sent

(* A candidate's returns become spaces, its citations stay. *)
LEMMA NormalizedTextType ==
  ASSUME NEW text \in Seq(Pieces)
  PROVE  /\ NormalizedText(text) \in Seq(Pieces)
         /\ DOMAIN NormalizedText(text) = DOMAIN text
<1>1. \A i \in DOMAIN text : text[i] \in Pieces
  OBVIOUS
<1>2. \A i \in DOMAIN text : (IF text[i] = "return" THEN "prose" ELSE text[i]) \in Pieces
  BY <1>1 DEF Pieces
<1>3. Len(text) \in Nat /\ DOMAIN text = 1..Len(text)
  OBVIOUS
<1>4. NormalizedText(text) \in [1..Len(text) -> Pieces]
  BY <1>2, <1>3 DEF NormalizedText
<1> QED
  BY <1>3, <1>4 DEF NormalizedText

(* The invariant holds at first and every step keeps it. *)
THEOREM AnswerInvariant == AnswerSpec => []AnswerInv
<1>1. AnswerInit => AnswerInv
  <2> SUFFICES ASSUME AnswerInit PROVE AnswerInv
    OBVIOUS
  <2>1. <<>> \in Seq(Pieces)
    OBVIOUS
  <2>2. Silent \in Sent
    BY <2>1 DEF Silent, Sent
  <2>3. AnswerTypes
    BY <2>1, <2>2 DEF AnswerInit, AnswerTypes
  <2>4. InStep
    BY DEF AnswerInit, InStep, Silent
  <2> QED
    BY <2>3, <2>4 DEF AnswerInit, AnswerInv, AnswerWhole, AnswerGrounded
<1>2. AnswerInv /\ [AnswerNext]_answerVars => AnswerInv'
  <2> SUFFICES ASSUME AnswerInv, [AnswerNext]_answerVars
               PROVE  AnswerInv'
    OBVIOUS
  <2> USE DEF AnswerInv
  <2>1. CASE StreamChunk
    <3>1. PICK c \in Chunk :
            /\ said' = Says(c)
            /\ \/ /\ Takes(c)
                  /\ content' = content \o Piece(c)
                  /\ ending' = IF c.reason = "none" THEN ending ELSE c.reason
                  /\ usages' = usages + (IF c.usage THEN 1 ELSE 0)
                  /\ UNCHANGED reading
               \/ ~Takes(c) /\ reading' = "refused" /\ UNCHANGED <<content, ending, usages>>
      BY <2>1 DEF StreamChunk
    <3>2. said' \in Sent
      BY <3>1, SaysType DEF AnswerTypes
    <3>3. reading = "stream" /\ InStep
      BY <2>1 DEF StreamChunk
    <3>4. CASE Takes(c)
      <4>1. content' \in Seq(Pieces)
        <5>1. content \in Seq(Pieces) /\ Piece(c) \in Seq(Pieces)
          BY PieceType DEF AnswerTypes
        <5>2. content \o Piece(c) \in Seq(Pieces)
          BY <5>1
        <5>3. content' = content \o Piece(c)
          BY <3>1, <3>4
        <5> QED
          BY <5>2, <5>3
      <4>2. c.reason \in Reasons \cup {"none"} /\ c.usage \in BOOLEAN
        BY DEF Chunk
      <4>3. ending' \in Reasons \cup {"none"} /\ usages' \in Nat /\ usages' \in {0, 1}
        <5>1. ending' \in Reasons \cup {"none"}
          BY <3>1, <3>4, <4>2 DEF AnswerTypes
        <5>2. usages \in {0, 1} /\ (c.usage => usages = 0)
          BY <3>3, <3>4 DEF InStep, Takes
        <5>3. usages' = usages + (IF c.usage THEN 1 ELSE 0)
          BY <3>1, <3>4
        <5>4. usages' \in {0, 1}
          BY <4>2, <5>2, <5>3
        <5> QED
          BY <5>1, <5>4
      <4>4. /\ content' = said'.text /\ usages' = said'.usages /\ ending' = said'.reason
        BY <3>1, <3>3, <3>4 DEF Says, InStep
      <4>5. said'.late = FALSE
        BY <3>1, <3>3, <3>4 DEF Says, InStep, Takes
      <4>6. reading' = "stream"
        BY <3>1, <3>3, <3>4
      <4> QED
        BY <3>2, <4>1, <4>3, <4>4, <4>5, <4>6
           DEF AnswerTypes, InStep, AnswerWhole, AnswerGrounded
    <3>5. CASE ~Takes(c)
      BY <3>1, <3>2, <3>5 DEF AnswerTypes, AnswerWhole, AnswerGrounded
    <3> QED
      BY <3>4, <3>5
  <2>2. CASE StreamDone
    <3>1. said' = [said EXCEPT !.done = TRUE] /\ said \in Sent
      BY <2>2 DEF StreamDone, AnswerTypes
    <3>2. /\ said' \in Sent /\ said'.done /\ said'.text = said.text /\ said'.reason = said.reason
          /\ said'.usages = said.usages /\ said'.late = said.late
      BY <3>1 DEF Sent
    <3> QED
      BY <2>2, <3>2 DEF StreamDone, AnswerTypes, InStep, AnswerWhole, AnswerGrounded
  <2>3. CASE StreamBreaks
    BY <2>3 DEF StreamBreaks, AnswerTypes, AnswerWhole, AnswerGrounded
  <2>4. CASE Judge
    <3>1. CASE ending = "stop" /\ ValidResult(content) /\ reading' = "accepted"
      <4>1. /\ content' = NormalizedText(content) /\ UNCHANGED <<ending, usages, said>>
            /\ reading = "judge"
        BY <2>4, <3>1 DEF Judge, NewStream
      <4>2. AnswerTypes'
        BY <4>1, NormalizedTextType DEF AnswerTypes
      <4>3. AnswerWhole'
        BY <3>1, <4>1 DEF AnswerWhole, InStep
      <4>4. ValidCitations(NormalizedText(content))
        BY <3>1 DEF ValidResult
      <4>5. AnswerGrounded'
        BY <4>1, <4>4 DEF AnswerGrounded, ValidCitations
      <4> QED
        BY <3>1, <4>2, <4>3, <4>5
    <3>2. CASE NewStream("repair")
      <4>1. <<>> \in Seq(Pieces)
        OBVIOUS
      <4>2. Silent \in Sent
        BY <4>1 DEF Silent, Sent
      <4> QED
        BY <3>2, <4>1, <4>2
           DEF NewStream, AnswerTypes, InStep, Silent, AnswerWhole, AnswerGrounded
    <3>3. CASE reading' = "refused" /\ UNCHANGED <<request, content, ending, usages, said>>
      BY <3>3 DEF AnswerTypes, AnswerWhole, AnswerGrounded
    <3> QED
      BY <2>4, <3>1, <3>2, <3>3 DEF Judge
  <2>5. CASE UNCHANGED answerVars
    BY <2>5 DEF answerVars, AnswerTypes, InStep, AnswerWhole, AnswerGrounded
  <2> QED
    BY <2>1, <2>2, <2>3, <2>4, <2>5 DEF AnswerNext
<1> QED
  BY <1>1, <1>2, PTL DEF AnswerSpec

(* What a command is given is all that the provider wrote in one request,   *)
(* closed by the provider itself; it is never a fragment.                   *)
THEOREM AnswerIsWhole == AnswerSpec => []AnswerWhole
<1>1. AnswerInv => AnswerWhole
  BY DEF AnswerInv
<1> QED
  BY <1>1, AnswerInvariant, PTL

(* It cites only segments of the prompt, also after a repair. *)
THEOREM AnswerIsGrounded == AnswerSpec => []AnswerGrounded
<1>1. AnswerInv => AnswerGrounded
  BY DEF AnswerInv
<1> QED
  BY <1>1, AnswerInvariant, PTL

----------------------------------------------------------------------------
(* The records of sessions and projects, for every set of contents, every   *)
(* sequence of readings of the clock and every largest revision.  That a     *)
(* change is never refused follows from the order of the times of a record,  *)
(* which is inductive together with its type and the soundness of its        *)
(* content; the validation alone is not enough, for it accepts a record that *)
(* started after its last update, and such a record could not be completed.  *)

(* The option of a detail code. *)
DetailOptions == {{}} \cup {{d} : d \in Details}

(* One session record: its type, its soundness and the order of its times.  *)
GoodSession(r) ==
  /\ r \in SessionRecords
  /\ Acceptable(r.content) /\ r.created <= r.updated
  /\ \A start \in r.started : r.created <= start /\ start <= r.updated
  /\ \A end \in r.ended : r.created <= end /\ end <= r.updated
  /\ \A start \in r.started, end \in r.ended : start <= end
  /\ r.state = "completed" => r.ended # {}
  /\ r.ended # {} => r.state = "completed"

GoodProject(p) == p \in ProjectRecords /\ Acceptable(p.content) /\ p.created <= p.updated

RecordInv ==
  /\ \A r \in session : GoodSession(r)
  /\ \A p \in project : GoodProject(p)

(* The time of a new version is a reading of the clock, not before the last. *)
LEMMA ClampedOrder ==
  ASSUME NEW r, r.updated \in Times, NEW now \in Times
  PROVE  Clamped(r, now) \in Times /\ r.updated <= Clamped(r, now)
<1>1. now \in Nat /\ r.updated \in Nat
  BY RecordAssumption
<1>2. now >= r.updated => r.updated <= now
  BY <1>1
<1>3. r.updated <= r.updated
  BY <1>1
<1> QED
  BY <1>2, <1>3 DEF Clamped

(* What is not after the last version is not after the new one. *)
LEMMA ClampedAfter ==
  ASSUME NEW r, r.updated \in Times, NEW now \in Times,
         NEW t \in Times, t <= r.updated
  PROVE  t <= Clamped(r, now)
<1> DEFINE time == Clamped(r, now)
           last == r.updated
<1>1. time \in Times /\ last <= time
  BY ClampedOrder
<1> HIDE DEF time, last
<1>2. time \in Nat /\ last \in Nat /\ t \in Nat
  BY <1>1, RecordAssumption DEF last
<1>3. t <= last
  BY DEF last
<1>4. t <= time
  BY <1>1, <1>2, <1>3
<1> QED
  BY <1>4 DEF time

(* A new session is good if its content is. *)
LEMMA NewSessionGood ==
  ASSUME NEW matter \in Contents, Acceptable(matter), NEW now \in Times
  PROVE  GoodSession(NewSession(matter, now))
<1>1. [status |-> "stopped", detail |-> {}, at |-> now] \in ChannelHealth
  BY DEF ChannelHealth, HealthStatuses
<1>2. NewSession(matter, now) \in SessionRecords
  BY <1>1, RecordAssumption DEF NewSession, SessionRecords, SessionStates
<1>3. now <= now
  BY RecordAssumption
<1> QED
  BY <1>2, <1>3 DEF GoodSession, NewSession

(* An edit keeps a session good. *)
LEMMA EditedSessionGood ==
  ASSUME NEW r, GoodSession(r), r.revision < LastRevision,
         NEW matter \in Contents, Acceptable(matter), NEW now \in Times
  PROVE  GoodSession(EditedSession(r, matter, now))
<1> DEFINE time == Clamped(r, now)
           new == EditedSession(r, matter, now)
<1>1. r \in SessionRecords /\ r.updated \in Times /\ r.created \in Times
  BY DEF GoodSession, SessionRecords
<1>2. time \in Times /\ r.updated <= time
  BY <1>1, ClampedOrder
<1>3. r.revision + 1 \in 1..LastRevision
  BY <1>1, RecordAssumption DEF SessionRecords, GoodSession
<1>4. new = [r EXCEPT !.content = matter, !.updated = time, !.revision = @ + 1]
  BY DEF EditedSession
<1>5. \A t \in Times : t <= r.updated => t <= time
  BY <1>1, ClampedAfter
<1> HIDE DEF time, new
<1>6. new \in SessionRecords
  BY <1>1, <1>2, <1>3, <1>4 DEF SessionRecords
<1>7. /\ new.content = matter /\ new.created = r.created /\ new.updated = time
      /\ new.started = r.started /\ new.ended = r.ended /\ new.state = r.state
  BY <1>1, <1>4 DEF SessionRecords
<1>8. /\ r.started \subseteq Times /\ r.ended \subseteq Times
  BY <1>1 DEF SessionRecords
<1>9. GoodSession(new)
  BY <1>1, <1>6, <1>7, <1>5, <1>8 DEF GoodSession
<1> QED
  BY <1>9 DEF new

(* So does a change of state that the session allows. *)
LEMMA ChangedSessionGood ==
  ASSUME NEW r, GoodSession(r), r.revision < LastRevision,
         NEW state \in SessionStates, Allowed(r.state, state),
         NEW detail \in DetailOptions, NEW now \in Times
  PROVE  GoodSession(ChangedSession(r, state, detail, now))
<1> DEFINE time == Clamped(r, now)
           new == ChangedSession(r, state, detail, now)
           health == [status |-> HealthOf(state), detail |-> detail, at |-> time]
<1>1. r \in SessionRecords /\ r.updated \in Times /\ r.created \in Times
  BY DEF GoodSession, SessionRecords
<1>2. time \in Times /\ r.updated <= time
  BY <1>1, ClampedOrder
<1>3. r.revision + 1 \in 1..LastRevision
  BY <1>1, RecordAssumption DEF SessionRecords, GoodSession
<1>4. health \in ChannelHealth
  BY <1>2 DEF ChannelHealth, HealthStatuses, HealthOf, DetailOptions
<1>5. new = [r EXCEPT !.state = state,
                      !.started = IF @ = {} /\ state # "failed" THEN {time} ELSE @,
                      !.ended = IF state = "completed" THEN {time} ELSE @,
                      !.health = health, !.updated = time, !.revision = @ + 1]
  BY DEF ChangedSession
<1>6. \A t \in Times : t <= r.updated => t <= time
  BY <1>1, ClampedAfter
<1> HIDE DEF time, new, health
<1>7. /\ r.started \subseteq Times /\ r.ended \subseteq Times
  BY <1>1 DEF SessionRecords
<1>8. /\ new.content = r.content /\ new.created = r.created /\ new.updated = time
      /\ new.state = state
      /\ new.started = IF r.started = {} /\ state # "failed" THEN {time} ELSE r.started
      /\ new.ended = IF state = "completed" THEN {time} ELSE r.ended
  BY <1>1, <1>5 DEF SessionRecords
<1>9. new.started \subseteq Times /\ new.ended \subseteq Times
  BY <1>2, <1>7, <1>8
<1>10. new \in SessionRecords
  <2>1. new.started \in SUBSET Times /\ new.ended \in SUBSET Times
    BY <1>9
  <2> QED
    BY <1>1, <1>2, <1>3, <1>4, <1>5, <1>8, <2>1 DEF SessionRecords
<1>11. r.created <= time /\ time <= time
  <2>1. time \in Nat
    BY <1>2, RecordAssumption
  <2>2. time <= time
    BY <2>1
  <2> QED
    BY <1>1, <1>6, <2>2 DEF GoodSession
<1>12. r.ended = {}
  BY DEF GoodSession, Allowed
<1>13. \A start \in new.started : r.created <= start /\ start <= time
  BY <1>7, <1>8, <1>6, <1>11 DEF GoodSession
<1>14. \A end \in new.ended : r.created <= end /\ end <= time /\ end = time
  BY <1>8, <1>11, <1>12
<1>15. \A start \in new.started, end \in new.ended : start <= end
  BY <1>13, <1>14
<1>16. (new.state = "completed" => new.ended # {}) /\ (new.ended # {} => new.state = "completed")
  BY <1>8, <1>12
<1>17. GoodSession(new)
  BY <1>8, <1>10, <1>11, <1>13, <1>14, <1>15, <1>16 DEF GoodSession
<1> QED
  BY <1>17 DEF new

(* A good session passes the validation. *)
LEMMA GoodSessionValid ==
  ASSUME NEW r, GoodSession(r)
  PROVE  ValidSession(r)
<1>1. r \in SessionRecords
  BY DEF GoodSession
<1>2. r.revision <= LastRevision /\ r.started \subseteq Times /\ r.ended \subseteq Times
  BY <1>1, RecordAssumption DEF SessionRecords
<1>3. ValidLifecycle(r)
  BY <1>2 DEF GoodSession, ValidLifecycle
<1> QED
  BY <1>2, <1>3 DEF GoodSession, ValidSession

(* A new project is good if its content is, and an edit keeps it good. *)
LEMMA NewProjectGood ==
  ASSUME NEW matter \in Contents, Acceptable(matter), NEW now \in Times
  PROVE  GoodProject(NewProject(matter, now))
  BY RecordAssumption DEF GoodProject, NewProject, ProjectRecords

(* An acceptable edit leaves a project that passes its validation.           *)
LEMMA EditedProjectGood ==
  ASSUME NEW p, GoodProject(p), p.revision < LastRevision,
         NEW matter \in Contents, Acceptable(matter), NEW now \in Times
  PROVE  GoodProject(EditedProject(p, matter, now))
<1> DEFINE time == Clamped(p, now)
           new == EditedProject(p, matter, now)
<1>1. p \in ProjectRecords /\ p.updated \in Times /\ p.created \in Times
  BY DEF GoodProject, ProjectRecords
<1>2. time \in Times /\ p.updated <= time
  BY <1>1, ClampedOrder
<1>3. p.revision + 1 \in 1..LastRevision
  BY <1>1, RecordAssumption DEF ProjectRecords, GoodProject
<1>4. new = [p EXCEPT !.content = matter, !.updated = time, !.revision = @ + 1]
  BY DEF EditedProject
<1>5. p.created <= time
  BY <1>1, ClampedAfter DEF GoodProject
<1> HIDE DEF time, new
<1>6. GoodProject(new)
  BY <1>1, <1>2, <1>3, <1>4, <1>5 DEF GoodProject, ProjectRecords
<1> QED
  BY <1>6 DEF new

(* A good project passes the validation. *)
LEMMA GoodProjectValid ==
  ASSUME NEW p, GoodProject(p)
  PROVE  ValidProject(p)
  BY RecordAssumption DEF GoodProject, ValidProject, ProjectRecords

----------------------------------------------------------------------------

(* The invariant holds at first and every step keeps it. *)
THEOREM RecordInvariant == RecordSpec => []RecordInv
<1>1. RecordInit => RecordInv
  BY DEF RecordInit, RecordInv
<1>2. RecordInv /\ [RecordNext]_recordVars => RecordInv'
  <2> SUFFICES ASSUME RecordInv, [RecordNext]_recordVars
               PROVE  RecordInv'
    OBVIOUS
  <2>1. ASSUME NEW matter \in Contents, NEW now \in Times, CreateSession(matter, now)
        PROVE  RecordInv'
    <3>1. Acceptable(matter)
      BY <2>1 DEF CreateSession, ValidSession, NewSession
    <3>2. GoodSession(NewSession(matter, now))
      BY <3>1, NewSessionGood
    <3> QED
      BY <2>1, <3>2 DEF CreateSession, RecordInv
  <2>2. ASSUME NEW matter \in Contents, NEW now \in Times, UpdateSession(matter, now)
        PROVE  RecordInv'
    <3>1. PICK r \in session : /\ r.state = "idle" /\ r.revision < LastRevision
                               /\ ValidSession(EditedSession(r, matter, now))
                               /\ session' = {EditedSession(r, matter, now)}
      BY <2>2 DEF UpdateSession
    <3>2. GoodSession(r)
      BY DEF RecordInv
    <3>3. EditedSession(r, matter, now).content = matter
      BY <3>2 DEF EditedSession, GoodSession, SessionRecords
    <3>4. Acceptable(matter)
      BY <3>1, <3>3 DEF ValidSession
    <3>5. GoodSession(EditedSession(r, matter, now))
      BY <3>1, <3>2, <3>4, EditedSessionGood
    <3> QED
      BY <2>2, <3>1, <3>5 DEF UpdateSession, RecordInv
  <2>3. ASSUME NEW state \in SessionStates, NEW detail \in DetailOptions, NEW now \in Times,
               ChangeState(state, detail, now)
        PROVE  RecordInv'
    <3>1. PICK r \in session : /\ Allowed(r.state, state) /\ r.revision < LastRevision
                               /\ session' = {ChangedSession(r, state, detail, now)}
      BY <2>3 DEF ChangeState
    <3>2. GoodSession(ChangedSession(r, state, detail, now))
      BY <3>1, ChangedSessionGood DEF RecordInv
    <3> QED
      BY <2>3, <3>1, <3>2 DEF ChangeState, RecordInv
  <2>4. ASSUME NEW matter \in Contents, NEW now \in Times, CreateProject(matter, now)
        PROVE  RecordInv'
    <3>1. Acceptable(matter)
      BY <2>4 DEF CreateProject, ValidProject, NewProject
    <3>2. GoodProject(NewProject(matter, now))
      BY <3>1, NewProjectGood
    <3> QED
      BY <2>4, <3>2 DEF CreateProject, RecordInv
  <2>5. ASSUME NEW matter \in Contents, NEW now \in Times, UpdateProject(matter, now)
        PROVE  RecordInv'
    <3>1. PICK p \in project : /\ p.revision < LastRevision
                               /\ ValidProject(EditedProject(p, matter, now))
                               /\ project' = {EditedProject(p, matter, now)}
      BY <2>5 DEF UpdateProject
    <3>2. GoodProject(p)
      BY DEF RecordInv
    <3>3. EditedProject(p, matter, now).content = matter
      BY <3>2 DEF EditedProject, GoodProject, ProjectRecords
    <3>4. Acceptable(matter)
      BY <3>1, <3>3 DEF ValidProject
    <3>5. GoodProject(EditedProject(p, matter, now))
      BY <3>1, <3>2, <3>4, EditedProjectGood
    <3> QED
      BY <2>5, <3>1, <3>5 DEF UpdateProject, RecordInv
  <2>6. CASE UNCHANGED recordVars
    BY <2>6 DEF recordVars, RecordInv
  <2> QED
    BY <2>1, <2>2, <2>3, <2>4, <2>5, <2>6 DEF RecordNext, DetailOptions
<1> QED
  BY <1>1, <1>2, PTL DEF RecordSpec

(* No change that a record allows, and no edit, is ever refused because of  *)
(* the record: the clock may be set back at any time.                       *)
THEOREM RecordChangesApply == RecordSpec => []ChangesApply
<1>1. RecordInv => ChangesApply
  <2> SUFFICES ASSUME RecordInv
               PROVE  ChangesApply
    OBVIOUS
  <2>1. ASSUME NEW r \in session, r.revision < LastRevision, NEW now \in Times,
               NEW state \in SessionStates, Allowed(r.state, state)
        PROVE  ValidSession(ChangedSession(r, state, {}, now))
    <3>1. GoodSession(r) /\ {} \in DetailOptions
      BY DEF RecordInv, DetailOptions
    <3> QED
      BY <2>1, <3>1, ChangedSessionGood, GoodSessionValid
  <2>2. ASSUME NEW r \in session, r.revision < LastRevision, NEW now \in Times,
               NEW matter \in Sound
        PROVE  ValidSession(EditedSession(r, matter, now))
    <3>1. GoodSession(r) /\ matter \in Contents /\ Acceptable(matter)
      BY RecordAssumption DEF RecordInv, Acceptable
    <3> QED
      BY <2>2, <3>1, EditedSessionGood, GoodSessionValid
  <2>3. ASSUME NEW p \in project, p.revision < LastRevision, NEW now \in Times,
               NEW matter \in Sound
        PROVE  ValidProject(EditedProject(p, matter, now))
    <3>1. GoodProject(p) /\ matter \in Contents /\ Acceptable(matter)
      BY RecordAssumption DEF RecordInv, Acceptable
    <3> QED
      BY <2>3, <3>1, EditedProjectGood, GoodProjectValid
  <2> QED
    BY <2>1, <2>2, <2>3 DEF ChangesApply
<1> QED
  BY <1>1, RecordInvariant, PTL

(* The times of a record are in the order of its life. *)
THEOREM RecordTimesOrdered == RecordSpec => []TimesOrdered
<1>1. RecordInv => TimesOrdered
  BY DEF RecordInv, GoodSession, TimesOrdered
<1> QED
  BY <1>1, RecordInvariant, PTL

=============================================================================
