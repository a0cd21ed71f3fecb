# KokoroKoe in TLA+

KokoroKoe is a Windows desktop application (Tauri: Rust core in `src-tauri/src/`,
React frontend in `src/`) that captures a meeting's microphone and system audio,
transcribes both with a local Whisper worker, keeps the transcript in a journal
beside a `session.md` file, and asks an OpenRouter model for insights.

This directory holds specifications translated from the Rust core, the TLC
configurations that check them, and proofs that TLAPS checks. Paths below are
relative to `src-tauri/src/` unless they start with `docs/`. `PROJECT.json` ties
every definition to the lines it models, every property to the hazards it is for,
and every property to a seeded fault that breaks it.

## 1. The system

```
 microphone --> process_packets --\                        /--> projection pump --> transcript.md
                (VAD segmenter)    > bounded queue --> coordinator --> bounded queue --> bridge_events
 loopback  --> process_packets --/     (64 updates)   (pipeline,        (64 events)      |-> frontend
                (VAD segmenter)                        scheduler, engine)                \-> journal
```

| Component (source) | State it keeps | Operations | What makes it correct |
|---|---|---|---|
| Scheduler (`transcription/scheduler.rs`) | sorted final queue, two counters, a partial slot per source, partial switch, round-robin turn | submit final or partial, next final, next partial, discard | ceilings hold; chronological; no eviction; unique ids; hysteresis; both sources served |
| Pipeline (`transcription/integration.rs`) | lifecycle state, a frontier per source, identities of partials, last final started | submit snapshot or batch, pump, pause, resume, stop, seal, cancel | every final answered once; no source overtaken; a final ends the provisional work of its utterance; boundaries mean drained |
| Live run (`transcription/live.rs`, `product.rs`) | coordinator's loop position and error, two bounded queues, cancellation, status | receive, handle, emit, pump, close, stop, bridge | events conserved; stop terminates; every accepted final is heard once |
| Segmenter, processing, capture (`audio/vad.rs`, `processing.rs`, `timeline.rs`, `windows.rs`) | pending samples, pre-roll, active utterance; timeline and format of a source; packet queue, retry delay, device thread | push, finish, format change, reconnect, stop | watermark never broken; nothing dated twice or lost at a format change |
| Device tests (`audio/windows.rs`, `commands/audio.rs`) | a test per source, retained observations, threads | start, poll, stop, bridge | one test holds an endpoint; bridges end |
| Session lifecycle (`persistence/session_lifecycle.rs`) | active run, operation lock; durable journal and `session.md` | start, resume, pause, stop, undo, startup recovery | a capture always has an owner; `session.md` never ahead of the journal; ended stays ended; startup repairs |
| Journal, writer, annotations (`persistence/session_journal.rs`, `session_writer.rs`, `transcript_store.rs`, `transcript_service.rs`) | append-only records, torn tail, batch, snapshot fingerprint | append, flush, materialize, annotate, read | what was acknowledged survives a crash; the snapshot is a projection of the journal and catches up with it |
| Search and reading (`persistence/transcript_index.rs`, `transcript_service.rs`) | a rebuildable index with generations, cursors | rebuild, search, page, rescan, quarantine | answers from the chosen workspace; the pages of a walk are of one version |
| Document stores (`persistence/session_store.rs`, `project_store.rs`, `session_index.rs`, `project_index.rs`, `preset_store.rs`) | file, backup, temporary file, revision; rebuildable indexes | create, read with recovery, update, trash, list | no acknowledged revision lost; a listing shows the documents |
| Settings (`persistence/settings_store.rs`) | versions, newest first, selected workspace | load or recover, update, quarantine | a revision names one content |
| Worker and fallback (`transcription/worker.rs`, `whisper.rs`) | child process, frame in flight, CPU engine | start, transcribe, time out, retire, CPU retry | one answer per call; one heavy model at a time |
| Model installer (`models/`) | partial file, metadata, published file, one active download | queue, resume, cancel, verify, publish, delete | only verified models are published |
| LLM requests (`llm/retry.rs`, `budget.rs`, `completion.rs`, `openrouter.rs`, `security/credentials.rs`) | reservations, stream state, key, validation, catalog | reserve, send, retry, repair, settle, change key | the limit is kept by concurrent and retried requests; what is accepted is the whole answer |
| Insights, summaries, questions (`llm/insights.rs`, `summaries.rs`, `manual_question.rs`, `prompts/context.rs`, `persistence/summary_store.rs`) | prompt selection, usage rows, `summary.md` | generate, question, publish | charges counted once; published summaries survive; prompts fit |
| Detached windows and hotkey (`windows/mod.rs`, `hotkey.rs`) | native windows, rows in memory and on disk, registrations | open, hide, click-through, look, shortcut, restore | no window is left that ignores the pointer where it should not; looks are remembered; the launch ends |
| Records (`domain/projects.rs`) | a session's and a project's record | create, update, transition | an allowed change is never refused by the validation |
| Frontend, native whisper adapter, path and authorization predicates | none of the core's | | not modelled |

Interaction. The two source threads send `FinalizedAudioUpdate`s over one bounded
blocking queue to the coordinator thread, which alone owns the pipeline, which owns
the scheduler and calls the engine synchronously. Events go over a second bounded
blocking queue to the bridge, which gives results to the journal sink and to the
frontend. Stop is a flag to the sources; each answers with a terminal update, and the
coordinator ends when both have come or the queue is disconnected. The session
lifecycle drives that runtime and writes journal boundaries around it; the projection
pump renders the journal into `transcript.md` and refreshes two indexes from a
thread of its own. Commands of the frontend run concurrently with all of it and meet
in the stores, under a workspace lock that the pump does not take.

What is hard: two sources that finalize out of order; back-pressure through two
bounded queues while a stop waits for every thread; sources that die without
their terminal update; provisional text that must be superseded exactly once; overload;
sample arithmetic at frame and utterance boundaries; crashes and half-failed writes
between the journal, `session.md`, a backup and an index; two threads that publish
the same document; requests whose cost is unknown; a native window state that is set
before the flag that describes it. The hazards in `PROJECT.json` list these line
by line.

## 2. Modules

`A <- B` reads "B EXTENDS A". `MC*` modules only give values to constants, except `MCServices`.

| Module | Models | State and actions against the code |
|---|---|---|
| `TranscriptionScheduler` | `scheduler.rs` | Variables are the struct's fields (`partials` is a set of at most one job per source; the diagnostics counters are left out). `SubmitFinal` = `RejectFinal` or `AdmitFinal`, `SubmitPartial`, `NextFinalJob`, `NextPartialJob`, `DiscardPartials`; each includes the recalculation of the partial switch that ends the method. `passed_over` is an observer. |
| <- `LivePipeline` | `integration.rs` | One thread owns the pipeline, so a method is a step, but `submit_finalized_vad` is `BeginBatch`, one `SubmitUtterance` each, `EndBatch`, with nothing in between. The engine is free: `PumpFinal` answers with a result or a gap, `PumpPartial` succeeds or is dropped. `open_from` is the segmenter's side of the watermark contract; `Timely` and `Segmented` let a source submit only what `ForwardedInOrder` of `AudioCapture` promises. |
| <- `LiveTranscription` | `live.rs`, `queue.rs`, `process_packets`, `bridge_events` | `pc` follows `run_coordinator`: check, receive, one of snapshot / batch / terminal, emit, pump, close, drain. A full queue disables the sender. Sources speak, fall silent, flush, notice that the receiver is gone, or panic. |
| `FinalLedger` | what a run promises its listener | Abstract: utterances taken, what was heard of each, and whether the run is over. `Ledger == INSTANCE FinalLedger` in `LiveTranscription` is the refinement mapping (an utterance is an identifier, a run is over when the events are drained), `RunKeepsLedger` the refinement. |
| `VadSegmenter` | `vad.rs` | Variables are the segmenter's fields in samples; the predictor is a free boolean per frame. `skew` observes where audio really came from. |
| <- `AudioCapture` | `processing.rs`, `timeline.rs`, the supervisor and packet queue of `windows.rs` | One source from the device to its updates: `Open`, `Break` and the retry delay, packets with formats and dates, `Switch`, `Refuse`, the chunks of a packet, coalescing of watermarks, the final flush. Audio itself is the predictor's booleans. |
| `DeviceTests` | device tests of `windows.rs`, `commands/audio.rs` | Starts and stops of tests per source, their threads, the observations that are retained or evicted, the bridge that polls. |
| `SessionLifecycle` | `session_lifecycle.rs`, the journal's transition table, recovery in `lib.rs` | `op` is the operation that holds the operation lock, step by step; each durable write may succeed, be lost, or be written and still reported as failed; `Restart` is possible anywhere; `ChooseWorkspace` interleaves where the workspace lock is free. |
| `DurableLog` | what the journal promises | Abstract: a log and the events acknowledged. |
| `SessionJournal` | `session_journal.rs` | Appends that succeed, are torn, are lost, or are written and reported as failed; repair of the tail by the next append; replay and history. `Log == INSTANCE DurableLog` is the refinement mapping, `JournalDurable` the refinement. |
| <- `SessionWriter` | `session_writer.rs`, `transcript_store.rs`, annotating and reading in `transcript_service.rs` | The writer and a command, each with the file steps of `materialize` (render, compare, write, publish, verify, adopt) and of `read_transcript`; the batch, the interval, the index refresh. Troubles: failing file operations, foreign edits, crashes. |
| `DocumentStore` <- `SessionCatalog` | `session_store.rs`, `session_index.rs` | The file steps of create, update, trash and recovering reads; the pump's discovery beside them without the lock; the index, listings and pages. |
| `ProjectLibrary` | `project_store.rs`, `project_index.rs`, `project_service.rs`, `settings_store.rs` | Settings versions with recovery and quarantine; projects of several workspaces behind one index; deletion beside a run. |
| `TranscriptReading` | `transcript_index.rs`, search and metrics in `transcript_service.rs` | Rebuilds by the pump and by rescans, searches and pages with cursors, speech time, damage and quarantine, change of workspace. |
| `WorkerProtocol` | `worker.rs`, the CPU fallback of a run | The parent's call position, the child's position, one frame each way; lost and wrong frames, timeouts, cancellation, shutdown, the fallback. |
| `SpendingLedger` | `budget.rs`, `retry.rs`, the repair of `completion.rs` | A session's ledger and the calls of concurrent commands: reserve, send, settle, retain, release, retry, repair. |
| `PromptContext` | `prompts/context.rs`, the candidates of `llm/insights.rs` | Which segments a prompt takes: candidates, sampling, room. Pure operators. |
| both <- `AssistantCommands` | `commands/insights.rs` and `summaries.rs`, `llm/` behind them, `metrics/store.rs`, `summary_store.rs` | Commands that build a prompt, ask, record usage, store insights, publish `summary.md`; crashes and failing writes. |
| `AnswerStream` | `completion.rs` | A stream's chunks against what is accepted of them, and the one repair. |
| `ProviderAccess` | `commands/credentials.rs`, `openrouter.rs`: the key, its validation, the catalog | Overlapping changes, validations and listings, each in its steps. |
| `PresetLibrary` | `preset_store.rs` | Create, update (replace, then rename), trash, listing. |
| `SessionRecord` | `domain/projects.rs` | Creation, edits and transitions of records under any clock, with the validation. |
| `ModelInstaller` | `models/installer.rs`, `service.rs` | Queue, download, cancel, resume metadata, verification, publication, deletion, default model, restarts. |
| `DetachedWindows` | `windows/mod.rs`, `hotkey.rs`, `lib.rs` | Each thread's call in its steps: event loop, commands, hotkey thread; native state, rows in memory and on disk, the request channel. |
| `MCServices` | | Runs six modules that share no state (`WorkerProtocol`, `DeviceTests`, `PresetLibrary`, `ProviderAccess`, `AnswerStream`, `SessionRecord`) side by side: a behaviour is one of the part that it begins with. |
| `*_proofs` | | Theorems, section 4. |

Definitions whose name begins with `Faulty`, and `EagerFrontier`, are seeded
faults: what a definition would be with a plausible bug (each says which, after
`Fault:`). No specification uses them; `PROJECT.json` pairs each with the property that it
breaks, which shows that the property depends on the code and is not true by the shape of
the model.

`LivePipeline` and the audio modules meet at the watermark. `Timely` and `Segmented` in
`LivePipeline` let a source submit only what a segmenter that keeps `ForwardedInOrder`
hands over: nothing below an earlier watermark, in the order of dates. So
`StartsChronological` is not assumed from nowhere.

## 3. Runs

| Run | What it shows | Distinct states, time |
|---|---|---|
| `pipeline` | Any owner's calls in any order: each final is answered exactly once, a late source is not overtaken, no source's partial is passed over twice. The owner here may also pause and resume a pipeline, which the coordinator never does (the product pauses by ending the run and resumes with a new one). | 1,023,362; 25 s |
| `live` | The threads together, with queues of capacity one: events are conserved, the run implements `FinalLedger` (each utterance taken is answered once, its partials come before the answer or not at all, and a run that is over owes nothing and stays over), a requested stop ends, and every accepted final is heard once. Deadlock is checked. | 186,358; 65 s |
| `capture` | One source over speech, silence, outages, dropped packets, format changes and stops: what it hands over is in order and never below a watermark. | 4.0 M; 66 s |
| `session` | Two sessions with crashes everywhere and every outcome of every durable write. Deadlock is checked. | 43,190 |
| `writer` | A writer beside a command: the journal is a durable log, a boundary is published, and acknowledged finals reach the document. | 359,200 |
| `assistant` | A summary beside insights and questions: the limit, the bill, the dashboard, the published summary, the room of a prompt. | 1.8 M; 70 s |
| `installer` | Two models with restarts between any two steps. Deadlock is checked. | 887,000; 81 s |
| `documents` | Two session documents, their index and the pump. | 1.65 M; 27 s |
| `library` | Two workspaces: settings, projects, one index, deletions beside a run. | 479,456; 33 s |
| `windows` | Two windows, the shortcut, click-through and native calls that fail, the end of the main window. | 1,889,451; 125 s |
| `reading` | Search, pages, rescans and rebuilds over two workspaces. Deadlock is checked. | 2,480,951; 36 s |
| `services` | Six parts that share no state. | 173,485; 51 s |

`CHECK_DEADLOCK FALSE` stands in the configurations whose bounds end every behaviour
(`pipeline`, `capture`, `writer`, `assistant`, `documents`, `library`, `windows`, `services`).

Bounds, and why they are enough.

- *pipeline*: three identifiers, batches of up to two utterances, watermarks 1 and 2, a
  queue of two, thresholds inside it, four sequence numbers: a final of each source, a
  partial, an overload and a late source occur together.
- *live*: queues of capacity one, the smallest that still block in every position (the
  code's capacities only reduce blocking); a clock of two units for the microphone and one
  for the loopback, so that both sources have an utterance open at the stop. A pipeline
  queue that admits one final makes overload common.
- *capture*: chunks of 2, frames of 3, packets of 3 samples, so that a packet holds one
  chunk or two and a frame crosses chunks; pre-roll and trailing silence of 4, minimum 6
  and maximum 13, which keeps the code's inequalities, including that neither pre-roll nor
  trailing silence is a whole number of frames; a horizon of 22 covers a forced split, a
  trailing end and a reconnection after either. Two supported formats, which are
  interchangeable (symmetry), and one that is refused. `Drifts = {0}`: see section 6 for
  what a drifting clock does.
- *session*: two sessions, because an operation concerns one and recovery visits the
  other before or after it; no counter needs a bound.
- *writer*: two finals, a correction of the first and a boundary; one trouble (a failing
  operation, a torn or late append, a foreign edit or a crash) at any point; batches of two
  events and an interval of one tick; one revision is kept (with two kept of three corrections, and no
  trouble, `HistoryMatchesReplay` still holds).
- *assistant*: two commands whose requests together do not fit the limit, two attempts and
  two sends each, two pending reservations, one trouble; meetings with a segment that does
  not fit beside others, one that fits alone or not at all, and more small ones than may
  be selected.
- *installer*: two models of two chunks, so that a download can stop half-way, and a server
  whose file changes once.
- *documents*: two sessions, three revisions (a backup may be two behind), one trouble, pages
  of one, so that a listing has two.
- *library*: two workspaces, one project with one session in each, two revisions of a
  project and of the settings, one trouble.
- *windows*: both windows, commands for one of them, one command thread beside the event
  loop and the hotkey thread, two looks, at most one shortcut request outstanding (with two,
  3,686,073 states, everything still holds).
- *reading*: one session per workspace with at most two segments that both match, one walk of
  pages at a time, two versions, three generations, one damage while nothing runs.
- *services*: three engine calls (before, at and after the loss of the worker); two device
  tests and one retained observation; one preset with two names and three guidances; two
  commands and two keys; answers of at most three pieces over two segments and three model
  names; four revisions of a record and three readings of the clock. With three tests, or
  three provider commands, everything still holds.

`MCVadMaximum.cfg` (module `VadSegmenter`) belongs to no run: it is the segmenter alone, with
the exact proportions of the code, for section 6.

Fairness. `LiveSpec` assumes weak fairness of the coordinator (its loop waits only for a
queue with a timeout, or for room in the event queue), of the bridge (it waits only for
that queue), and of a source *once a stop is requested* (it polls the flag between
packets). Nothing obliges a source to produce audio, since loopback capture of a
silent device does not, and nothing obliges the user to stop. A source that is blocked in
`send` is released either by the coordinator or by the receiver going away. The engine
answers or fails within a step: the worker's timeouts bound it. `WorkerFairness` is about the
parent and its pipe threads, which end when the process does, and about deadlines; nothing is
asked of the child. `TestsFairness` is about the threads of a test, which poll their stop flag,
and the bridge, which polls by a timer; `WriterFairness` about the two threads and the pump's
timer; `InstallerSpec` about the download thread, whose reads have timeouts. `WindowsSpec`
asks it of the event loop and of the hotkey thread, but not of commands: the code waits
for the hotkey thread at most five seconds, so that even a hotkey thread that waits for the event
loop does not stop the launch. In `services` fairness is asked only of the part that
runs (`RunningCallReturns` is `CallReturns` of `WorkerProtocol` in the behaviours in which the worker
runs).

What is assumed of the environment: the event sink keeps listening until its queue is
disconnected, as `bridge_events` does; a file operation takes effect, does not, or takes effect
and reports an error; a device is not ahead of the session clock by more than the
retry delay.

## 4. What is proved

Every theorem holds for all values of the constants that satisfy the module's named
assumption; the assumptions say what constants are (naturals, subsets, distinct names)
and what the code's constants satisfy (`RestoreSpeechMs <= DisableSpeechMs`). Each proof
module begins with its inductive invariants; each conjunct was first checked by TLC on
the instance of section 3.

**`LivePipeline_proofs`**, first the scheduler by itself: ceilings, order, unique identifiers,
hysteresis, fair turns, no eviction. The properties lean on each other: uniqueness
survives `SubmitFinal` only because the two slots and the queue are disjoint in
identifiers, the hysteresis survives a pop only with the counters' types, and a partial is
passed over at most once only because the source that was passed over is the next turn.
`InsertAtProperties` and `AdmittedQueue` are the lemmas about the ordered insertion.
Then the pipeline: `FinalsAnsweredOnce`, `StartsChronological`, `PartialsShareTheWorker`, and
that finals supersede partials and boundaries are drained. On top of the scheduler's invariant,
which survives every method, stand three parts: who has taken which identifier
(`IdsOwned`); that no frontier is later than what its segmenter may still submit, and that
nothing that is still to come precedes the final last started (`FrontiersHold`,
`NothingEarlier`; when both sources are sealed only one of them need have passed it, which is
where a resumed run begins); and that a boundary leaves nothing behind (`BoundariesHold`). The last
one needs the speech counter to be zero when the queue is empty, so the invariant says what both
counters are: the numbers of the milliseconds and of the samples queued, as sets
(`BacklogCounted`; it needs that no job is queued twice). That `BacklogAccounted` holds is
a theorem of its own.

Then the live run around the pipeline: `EventsConserved`, `PartialNeverAfterAnswer`, and that what was proved of
the pipeline alone still holds between the threads and queues, which is not a matter of course:
`PipelineNext` lets a source submit only what is in the order of its audio, and the run has to
keep that. `UpdatesInOrder` says so along the whole way of an update, from the
source's clock through the queue and the coordinator's hand to the source's frontier.
On the way out, an utterance's partial has no answer ahead of it, among the events that a call returned,
those that are queued and those that were delivered (`PartialsFirst`); every pipeline call hands over exactly one
answer for each final that it counts as answered (`Returns`). `EndsSettled` is proved too: a coordinator that
returns leaves nothing behind, because it drains only what no source can add to
(`RunEnds`).

From all of this follows `LiveImplementsLedger`: `LiveSpec` implements `FinalLedger`. A call that
accepts an utterance takes one (`SubmitTakes`), a delivery is a partial or an answer that the ledger
allows (`DeliveryHeard`), every other step leaves the ledger alone. That a run that is over owes nothing
joins both ends: no update is left, so every identifier taken was answered by the pipeline
(`NothingOwed`), and no event is left, so each of those answers has been heard
(`DrainedOwesNothing`).

**`AudioCapture_proofs`**, first the segmenter by itself: its buffers are bounded and every watermark is
kept (`WatermarkKept`), by an invariant that says where each buffer begins (`BuffersHold`) and with it
the first sample that is still to come (`Low`). Then the source, from its device to its updates:
`ForwardedInOrder`, which is the contract that the pipeline assumes of its segmenters
(`Timely`). Its invariant gives every packet of the queue the time it was captured at;
the samples that the segmenter counted are at most one packet ahead of that, because the date a
format begins with may be the end of its first packet (`CapturedAt`), and a device of another format is
opened only after the supervisor's delay. So the theorem has an assumption, `KeepsTime`: devices do not
run faster than the session clock (with `Drifts = {0, 1}` the property is violated, section 6), and a retry
waits at least as long as a packet lasts (`INITIAL_RETRY_DELAY` is 250 ms, a packet is one buffer of the
device; TLC finds the violation with shorter delays).

**`Session_proofs`**, first the run of a session: `RunOwned`, `RecordFollowsJournal`, `EndedStaysEnded`, `RecoveredAgrees`. The
invariant says which operation may hold the lock in which phase of the process
(`Exclusive`), how far each operation has brought the journal and the runtime (`Progress`) and what
the startup pass has settled (`Recovered`).
Then its files: the journal implements `DurableLog`, alone and under the writer and the
commands that append beside it; and `BoundaryPublished`, by an invariant that follows the flush a
boundary starts: behind a boundary no command has written, what the writer has rendered
since is the whole journal (`BoundaryLast`), and the document is complete when the writer
rests or refreshes the index, unless it reports a failure (`BoundaryCaught`).
Last, `HistoryMatchesReplay`: the replay that the transcript is rendered from and the history that is
shown of one segment are two walks over the records, each written as a recursive function of
the position. By induction over the records, in any journal in which no segment is recorded twice
(an invariant, because an append replays its candidate first), they know the same segments, and the last
revision kept is the wording of the transcript.

**`SpendingLedger_proofs`**: `LimitKept` for the ledger, and that `AssistantSpec` refines
`SpendingSpec`, which carries the limit over to the commands with all their prompts, rows and files.
`BillCovered`: the units of the ceilings that are open are counted as pairs of a command and a
unit, and no command has more open than it has reserved, so the bill fits in the reservations.
`SummaryKept`: at every point of a publication where it can stop, the old document or the new one
is in `summary.md` or its backup. `UsageCounted`: a row belongs to a request that is over, and
identifiers only grow, so no step writes a row twice or over another; sums of costs are counts of units, which
makes them additive over disjoint sets. `PromptsFit`: each pass over the candidates (required,
relevant, recent) is a recursive function of the segment's index, and every segment keeps what is
wanted of the envelope (`PassKeeps`): what is selected fits, omissions are counted exactly, and whatever
was left out has no room now, since a selection only grows. The attempt found an ambiguity in an earlier form of `EvenlySpaced` (two arms of a
CASE both applied to a limit of one), which is gone.

Two of these proofs need induction over data, for which the library's theorems cannot be used
(they take an operator as a parameter). Instead `EveryNumber` is stated of sets: a set that holds zero
and with a number the next one holds all numbers. It follows from the well-foundedness of inclusion between
finite sets, which the library states without such a parameter (`LeastNumber`: the least counterexample
is the one with the smallest initial segment).

**`Services_proofs`**: `OneHeavyModel` (the invariant says how the engine lost the process, since
the memory is freed by its end), `OneTestPerSource`, `PresetSurvives` (a preset has at most one
document, none older than what was answered), `ValidatedAsStored` (validations in flight are of
the current key, or excused; a stored one differs from the key only while a change is between
its steps), `AnswerWhole` and that answers cite only segments of the prompt (what was taken and
what was sent agree as long as the stream is read, because the first chunk that is not taken ends
it), `ChangesApply` (the order of a record's times is inductive; the validation alone is not
enough).

**`Application_proofs`**: for the windows `PointerRestored`, `PointerAsShown` and `RowRemembered`. A window
that ignores the pointer has its flag on or a thread past the window that is about to set it, and no
thread that is about to clear it; a thread that opens a window and has read that the flag is on still finds
it on (`PointerOf`). Threads change one window side by side and native calls fail anywhere: only two
crossings break the invariant, and the window then enters `crossed`. One is a window made to ignore
the pointer while another thread, past the window, is about to clear the flag (`SetCrossing`); the other is
the flag cleared while an opening has read it and is about to follow it (`ClearCrossing`). Once the main
window is gone nobody switches click-through on any more, except calls that had found it open, whose windows
count as crossed as well (`SwitchedOn`), and the flag is off in the windows the restoration has behind it, except where
a window refused it (`refused`; `FreedOf`). For rows: disk, memory and the copies that threads hold
agree with the look last set. For the library `RevisionNamesContent` (a client holds no revision
later than the newest), `ListedAsChosen` (a fresh index agrees with the documents of the workspace
it describes, except those that other programs touched; no backup is damaged) and
`NoWriterInTrash` (the record of a session that is written says active, and so does a fresh
listing).

**`Storage_proofs`**: for the installer `PublishedVerified` (the part that is about to be published
was found good, and nothing touches it between that look and the publication, whatever the thread
announces or clears in between). For the documents `AcknowledgedKept` and `ListedAsStored`, from
one invariant over the files, the command and the pump: at each step of an update the document,
its backup and its temporary file hold what `Updating` says; the pump recovers only a document that
is missing, and what it publishes is the backup it has seen (`PumpRecovers`); an index with a
generation shows what can be read, and while a command is past its invalidation there is no
generation (`CommandHolds`). Sessions in `hurt` are outside both promises: those that
another program damaged, whose update lost its temporary file to the pump, or that the pump put back
from a backup that had meanwhile given way to another.

**`TranscriptReading_proofs`**: `AnswersFromProjection` and `PagesStayTogether`. For the first, a
command that has settled for the index reads rows of the chosen workspace, unless the pump has put
others in place, and in no state does the index hold rows of that workspace older than what the command
was promised (`CallInv`). For the second, a cursor's generation is never above the
index's, and where the two agree the cursor is of the version the index holds (`CursorInv`). Only one
thing can break this, a commit that gives the generation of the cursor out a second time: because it
overlapped another rebuild, or because generations began again after a quarantine. It marks that cursor
(`Reissued`), and the walk that goes on with it is excepted; overlapping rebuilds and quarantines as such
are not. A search compares generations in one statement and reads rows in
another, so what it compared has to hold until then (`WalkInv`);
a commit of the pump between the two statements is the other exception.

Only model-checked:

- what is temporal under fairness (`StopTerminates`, `StopDeliversEveryFinal`, `RunningCallReturns`,
  `BridgeEnds`, `DownloadEnds`, `LaunchEnds`, `FinalsPublished`): liveness and ENABLED are beyond the
  prover.

Every invariant, action property and refinement that the runs check is also a theorem.

## 5. What is not modelled

- Data: inference, decoding, downmixing, resampling and levels, Markdown, SQLite pages,
  texts of prompts and presets, geometry. SSE line framing and error texts in `AnswerStream`; the ceiling on
  presets of a project in `PresetLibrary`; checksums and sequence numbers of the journal, which are the
  position of a record.
- Control that was left out: the diagnostics counters of the scheduler and of the capture,
  the recovery-gap diagnostics, the levels of device tests, the status record and model
  selection in `product.rs`, `choose_workspace`'s fallback to another default folder,
  the error log and disk usage of the metrics, edits and deletions of sessions in
  `SessionLifecycle` (refused unless the record is idle; `ProjectLibrary` has the deletion beside a run).
- The validation of what the segmenter hands over (`InvalidVadOutput`, `integration.rs:250-260` and `:312-322`):
  `VadSegmenter` models what it hands over, and that only a flush that exceeds the maximum is refused.
  `LiveTranscription` has that refusal as an outcome of any last batch with utterances (`Overlong`); the
  other conditions (configuration, source, duration, dates) the segmenter meets in every state.
- Bounds that are abstractions: foreign edits do not reach `SessionRecord` (section 6 says why that
  matters); `TranscriptReading` has one walk of pages at a time, damage only at rest, one session
  per workspace; jobs of the installer are the latest per model; a call in `AnswerStream` is one
  stream and one repair.
- The frontend, the native whisper adapter, authorization and path predicates.

## 6. Where the code and its documents disagree, and what else was observed

To reproduce an entry put the property in place of the INVARIANTS and PROPERTIES section of the
named configuration (with the constants given); TLC answers with a counterexample. The
definitions stay in the modules, with the sentence they quote.

| Property | Configuration | What the code does |
|---|---|---|
| `StopAcceptsBothFlushes` (invariant) | `MCLiveTranscription` | The first terminal flush puts the pipeline into `Stopping`; a snapshot that the other source has queued is then refused and fails the run, although `docs/architecture.md:221` says a stop accepts both flushes. (A flush that is too long for the pipeline fails it as well: `UtteranceWithinMaximum`.) |
| `StopReconcilesPartials` (invariant) | `MCLiveTranscription` | The same flush forgets the identities of both sources, so the final of the other one gets a new identifier and its partial stays on the screen (`docs/project-memory.md:522`). |
| `UtteranceWithinMaximum` (invariant) | `MCVadMaximum` | A flush appends pending samples to an utterance that is already at the maximum; the pipeline's validation then fails the run (`docs/vad-segmentation-prototype.md:30`). |
| `SnapshotTimelineExact` (invariant) | `MCVadMaximum` | Samples cut off at a forced split are missing from the start of the next utterance (`docs/project-memory.md:519`). |
| `PacketsDatedByClock` (property) | `MCAudioCapture` | Within a format packets are dated by counting; after a time without packets (a silent loopback, an outage, dropped packets) the dates stay behind the clock (`docs/architecture.md:205`, `docs/audio-clock-recovery-prototype.md:11`). |
| `ForwardedInOrder` (property) | `MCAudioCapture`, `Drifts = {0, 1}` | With a device clock that runs fast a new format can begin earlier than what was handed over, and the regressing watermark fails the run. |
| `StartupSettlesRecords` (property) | `MCSessionLifecycle`, `WriteOutcomes = {"ok"}`, `WorkspaceMoves = FALSE` | One session that recovery refuses (a crash while it was being resumed) ends the startup pass for all that follow (`docs/architecture.md:956`). |
| `RuntimeFailureRecordsFailed` (property) | same | A run whose coordinator failed is recorded as paused or completed (`docs/architecture.md:956`). |
| `AnnotationKept` (property) | `MCSessionWriter`, `MaxTroubles = 0` | The writer, having rendered before, can replace the document an annotation was just published in; `annotate_segment` answers from a document without it (`persistence/transcript_service.rs:675`). |
| `ForeignEditKept` (property) | `MCSessionWriter` | The reading that decides whether the writer may adopt a document restores the backup over a foreign file (`docs/architecture.md:952`). |
| `PagesDoNotShift` (property) | `MCSessionCatalog`, `MaxTroubles = 0` | Every session write deletes the row with the index generation, so an old cursor is accepted by a rebuilt index and skips or repeats a session (`docs/project-memory.md:717`). |
| `RebuildsEndCursors` (invariant) | `MCTranscriptReading` | Two overlapping rebuilds read one generation and commit the same next one, and after a quarantine generations are given out again: a cursor survives a rebuild (`docs/architecture.md:944`). |
| `TerminallyAccounted` (invariant) | `MCModelInstaller` | When recording the installation, or reading the staged bytes of a cancelled download, fails, the job stays shown as running although nothing runs (`docs/project-memory.md:453`: "terminally accounts for completed, cancelled/paused, or failed work"). |
| `PointerAlwaysRestored`, `RegisteredAsShown` (invariants) | `MCDetachedWindows` | A window that is made to ignore the pointer while another thread clears its flag, or by a call that had still found the main window, ignores the pointer after the main window is gone; a shortcut pressed during the launch makes the registration time out and be shown as unregistered although it is bound (`lib.rs:56`). |
| `StopShown` (invariant) | `MCServices` | Retained observations of device tests are evicted in arbitrary order, so the bridge may never show that a test stopped. |
| `PresetListed` (invariant) | `MCServices` | An update replaces a document's content and then renames it: a crash or failure between leaves a name that does not match, and the preset is unreadable and unlisted. |
| `CatalogMovesForward` (property) | `MCServices` | Overlapping `list_models` may store the older answer last. |

The last five quote no document and are design remarks rather than divergences, except
`RegisteredAsShown`.

Further properties are defined in the modules, hold in the named instances and are listed by no run,
because they follow from listed ones or cost more than they say: `BoundaryDrained`, `BacklogAccounted`,
`PartialHysteresis`, `BacklogBounded`, `FinalSupersedesPartial`, `FinalsChronological`,
`PendingIdsUnique` (`MCLivePipeline`); `EndsSettled`, `PartialNeverAfterAnswer` (`MCLiveTranscription`); `FrontierFresh`, `FlushForwarded` (`MCAudioCapture`);
`WatermarkKept`, `WatermarkPassesEmitted`, `SnapshotsAreConfirmed`, `BufferedBounded` (`MCVadMaximum`);
`HistoryMatchesReplay` (`MCSessionWriter`); `OneReservationEach` (`MCAssistantCommands`); `DefaultKept`
(`MCModelInstaller`); `ProjectsKept` (`MCProjectLibrary`); `LossAccounted`, `VersionNamesGuidance`,
`AnswerGrounded`, `TimesOrdered` (`MCServices`); `PointerAsShown` (`MCDetachedWindows`);
`SpeechCountedOnce` (`MCTranscriptReading`). Several of them are proved (section 4).

Observations that no property states, because no document promises otherwise:

- *Capture.* `retry_delay` is never set back after a successful reconnect (`audio/windows.rs:797`). A refused
  format swallows the utterance that was flushed for it (`audio/processing.rs:148`), and
  returning to the old format goes on with the old pipeline's dates. A supervisor whose COM
  initialisation fails drops its channel, which makes the coordinator stop the run for both
  sources (against `docs/architecture.md:215`). The segmenter's `TimelineDiscontinuity` reset never fires.
  A device test's stop holds the state's mutex while it joins threads, so starts, stops and polls
  of the other source wait.
- *Session lifecycle.* The undo of a start after `session.md` was rewritten carries a stale revision and
  leaves the session transcribing until the next startup pass. An undo whose boundary was written
  but reported lost leaves a failed record beside a paused journal, which recovery refuses at
  every start. A pause or stop whose `finish_boundary` fails leaves the record transcribing without a
  writer until the next startup.
- *Writer.* A final whose append failed "late" is not counted as pending and is published only by the
  next flush. A temporary file left by a crash blocks the recovery of a damaged transcript. A
  publication that fails because a concurrent read removed its temporary file also loses the
  backup. `annotate_segment` never refreshes the search index. The annotation race can take a
  published final back until the next flush. The pump's thread ends on a clock error.
- *Worker.* `cpu_load_attempts` also counts requests after the factory was spent; a factory that failed
  makes the CPU engine unavailable for the run; a cancellation raised during another failure still
  runs the CPU inference; a reply written just before the process exits is discarded;
  `Disconnected` joins the reader without terminating the child. `fallback.rs` is an older variant
  that only tests use.
- *Requests.* The ledger is process-local by design. Retained reservations are never released, so 32
  ambiguous failures block a session until a restart; usage beyond a ceiling is not
  reconciled; cancellation flags are raised by no command today; editing a session's limit while
  the process runs makes later requests fail (`llm/budget.rs:256`). A summary that is paid for is lost
  when the workspace or session changes before it is written (`summaries.rs:84` against `:137`); a
  half-failed replacement of `summary.md` leaves only its backup, which `read_summary` never recovers.
  With 64 samples and a cap of 64 the closing segments of a long meeting get in only as far as they
  are among the samples (`docs/architecture.md:1014`).
- *Key.* A validation in flight while the key is replaced, a crash between `write_secret` and
  `delete_validation`, or a failed `delete_validation` leaves the new key shown as validated
  (`docs/architecture.md:972`, `docs/project-memory.md:911`): the exceptions of `ValidatedAsStored`. Deleting
  the key keeps the catalog.
- *Installer.* A resume sends no If-Range, so mixed revisions are caught only by the hash.
  `write_resume_metadata` removes the old metadata before the rename, so a crash there loses the staged
  bytes. An invalid installed default model cannot be repaired by commands. A cancel between
  completion and the end of the download shows an installed model's job as cancelled. Queueing,
  listing and session starts wait for the manager's mutex during a download.
- *Documents.* The writer's index refresh (`session_writer.rs:282`) recovers documents without the workspace
  lock: a stale recovery can overwrite the temporary file of an update, and with two half-failures of
  updates it can put back an older revision than the backup beside it (both are `hurt` in the model), and the discovery of a valid document removes
  another operation's temporary file so that the update fails. Startup recovery updates documents without
  invalidating the projection.
- *Settings and projects.* Quarantine restarts settings revisions at zero, so an `expected_revision` of the
  old database may match. `choose_workspace` is not guarded by a running session. Invalidation
  resets the index generation, so a cursor can be accepted after a rewrite, even across workspaces.
  Recovery from an older settings version silently selects its workspace again.
- *Windows.* Opening beside `set_click_through` leaves flag and window in disagreement. Two native errors
  are swallowed: a window that refuses the restoration (`windows/mod.rs:279`) goes on ignoring the
  pointer, and its flag stays on, since `apply_click_through` returns the error before it clears the
  flag (`:252`); a new window that cannot be made to ignore the pointer (`:486`) takes it although its flag is on. A
  quick-hide with a disabled shortcut and a closed main window leaves an invisible process. Overlapping
  copies of a row are stored out of order.
- *Search.* Of two concurrent rebuilds the older discovery may win, so that finals of a finished run are
  not found until a rescan. Generation and rows are not read in one transaction; another
  workspace's rebuild between check and read gives an empty search or zero speech. Quarantine
  restarts generations.
- *Records.* A hand-edited `session.md` whose `started_at` lies after its `updated_at` passes validation and
  can then never be completed.

## 7. Plan

Done: the modules of section 2, twelve runs, and the proofs of section 4.

What could come next:

1. The status record and the model selection of `product.rs` around `LiveTranscription`, as a module that
   refines `FinalLedger` across the runs of one session.
2. Foreign edits that reach `SessionRecord` and the journal's records, which section 5 leaves out.
3. Proofs of the properties of section 6 that no run lists and no theorem states (`DefaultKept`,
   `ProjectsKept`, `OneReservationEach`, `LossAccounted`).
