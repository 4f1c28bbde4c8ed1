# A TLA+ model of Continue

Continue is a coding assistant: a `core` process per IDE window (TypeScript,
`core`), a React GUI (`gui`), extensions for VS Code and IntelliJ, and a
command-line agent (`extensions/cli`).  This directory holds TLA+ modules that
model the parts of it in which order, concurrency and failure matter, TLC
configurations that check them on small instances, and theorems that TLAPS has
checked for every instance.  Paths are relative to the repository's root.

- [Inventory](#inventory): what there is, what it promises, what is hard
- [What is modelled](#what-is-modelled): the modules against the code
- [What is checked](#what-is-checked): runs, bounds, fairness
- [What is proved](#what-is-proved)
- [What the code does not keep](#what-the-code-does-not-keep)
- [What is not modelled](#what-is-not-modelled)
- [Plan](#plan)

To check: `tlc -config CodebaseIndexer.cfg MCCodebaseIndexer`, and so on for
each pair below; `tlapm` on `NumberLemmas.tla` and on each `*_proofs.tla`:
`CodebaseIndexer`, `RefreshIndex`, `AgentLoop`, `ServiceContainer`, `Cli`, `Core` and
`VerticalDiff`.

## Inventory

The core serves one window over a messenger.  The GUI sends it requests and
gets streams back; the IDE extension tells it of saved files, branch switches
and configuration changes, which start indexing.  All windows of a user share
the files under `~/.continue`: one SQLite index, session files, settings.

| Component | State | Operations | Hard | Ought to hold |
|---|---|---|---|---|
| Codebase indexer, `core/indexing/CodebaseIndexer.ts` | abort controller, pause token, a row per indexing window in `indexing_lock` | `refreshCodebaseIndex`, `refreshCodebaseIndexFiles`, `paused`, heartbeat | calls overlap within a window and between windows; a holder crashes; a lock is broken by its age | one window indexes; every run can be canceled and ends; a live lock is not taken for dead |
| Index refresh, `refreshIndex.ts` and the indexing loops | `tag_catalog`, `global_cache` | plan, batches, `markComplete` | edits and checkouts meanwhile, aborts, errors, crashes between statements, equal contents, many versions of a path | what is recorded is there; the cache counts tags rightly; the catalog follows the disk |
| Chunks, `chunk/ChunkCodebaseIndex.ts` | `chunks`, `chunk_tags` | compute, addTag, removeTag, del | as above | a branch's work leaves the others' chunks alone |
| Full text, snippets, vectors | tables of their own, one vector table per tag | as above | two stores written in turn | as above |
| SQLite connection | the open file | `SqliteDb.get`, `clearIndexes` | concurrent first calls; the file is unlinked under other windows | one connection, tables exist |
| Agent loop, `gui/src/redux` | history, status of tool calls, `isStreaming` | submit, stream, call, accept, reject, stop, new session | streams and tools return in any order, after stops and new sessions; failures | no call twice, none without consent; every result goes back once; the user can go on |
| Docs, `core/indexing/docs` | queue, status | index, reindex, abort | awaits between check and addition | a site is crawled once at a time |
| Autocomplete, `core/autocomplete` | debounce timer, running generator, LRU table | request, cancel, get, put | a request reuses the stream of an earlier one | a reader gets each character once and ends |
| Next edit, `core/nextEdit` | two queues, abort controller | process, abort | abort while a chain is awaited | nothing of an aborted chain is shown |
| MCP, `core/context/mcp` | connections, their status | connect, refresh, timeout | a late attempt ends after a newer one | the status is that of the last attempt |
| Configuration, `core/config` | cached results, pending promise | load, reload, select profile | loads overlap | the last load wins |
| Messengers, `core/protocol`, `binary` | partial line, pending requests | data, request, answer | chunk boundaries anywhere | every message arrives once |
| Core dispatcher, `core/core.ts` | abort controllers by message | handlers, `abort` | ids, late aborts | an abort hits its own request |
| Applying edits, `core/edit`, `core/diff` | abort controllers by stream | apply, abort; diffs | two applies of one file; a line matches any of the old ones to come | a diff rebuilds the old and the new text |
| VS Code diffs, `extensions/vscode/src/diff` | queue of diff lines, document, red and green lines, blocks | queue, accept, reject, clear, typing | blocks are decided in any order, each moves those below it | the document is what was decided |
| Chat to request, `core/llm` | none | `compileChatMessages`, formats | a chat too long for the model | no result without its call; the last turn is sent |
| CLI services, `extensions/cli/src/services` | state and value of each service | load, get, set, reload | reload during a load | a service is made from current values |
| CLI chat and server, `extensions/cli/src` | history, message queue, permission request | message, interrupt, permission | messages while streaming, retries | each message once, in order |
| Sessions and settings, `core/util` | JSON files | read, change, write | several windows | no update is lost |
| Sync, `sync` (Rust) | Merkle tree | diff | not called by the extensions | the diff is exact |

The rest converts data (LLM clients and adapters, schemas, prompts, ignore
patterns), does I/O (tools, context providers, HTTP) or renders.

## What is modelled

An action is what one task does between two awaits, or between two statements
on the database: JavaScript lets no other task of the process in between, and
anything may happen at an await.  Where a crash between two statements matters
they are two actions.

### `CodebaseIndexer`: who may index, and when

One variable per piece of state: `controller` and `aborted` (the abort
controllers, named by the run that made them), `paused`, `rows`, `age`
(`indexing_lock` and its timestamps), `pc` (where each run is).  A run is a
call of `refreshCodebaseIndex` or `refreshCodebaseIndexFiles`.

| Actions | Code |
|---|---|
| `StartCodebase`, `StartFiles`, `DropFiles` | the two entry points up to their first await (706-713, 753-762) |
| `PollLock`, `BreakLock`, `AcquireLock` | `waitForDBIndex`: SELECT, the DELETE of a stale lock, the INSERT (680-728) |
| `UpdateTimestamp`, `Unlock` | the interval (718) and `IndexLock.unlock` |
| `WalkFile`, `WalkEnd`, `IndexYield`, `Resume`, `NextDirectory`, `FinishDirs`, `DirsError` | the loops of `refreshDirs`: abort first, then pause |
| `Settle`, `LockTableError` | the end of `refreshCodebaseIndex`, and a lock statement that is rejected |
| `NextFile`, `FileDone`, `ResumeFiles`, `FinishFiles`, `FilesError` | `refreshFiles` |
| `SetPaused`, `Crash`, `Restart`, `Tick` | the user, the process, the clock |

An aborted run looks at its signal before each file of the walk and whenever
`indexFiles` yields; the loop over the directories does not look at it, and with no
index to build (`getIndexesToBuild`, 147-167) `indexFiles` yields nothing.  `NextDirectory`
and `FinishDirs` therefore start from "plan" too.  `late` and `empty` are history: how
many generator steps a run began after its abort, and how many directories without an
index to build it left; both are forgotten when the run has left `refreshDirs`.

Time is counted in ticks.  `Tick` keeps the heartbeat of a live holder at most
`MaxLag` late, as an event loop that is not blocked longer does.

### `RefreshIndex`: what a run does to the index

The tables are sets of rows.  A content stands for its hash, a branch for a tag
(the directory is fixed).  `Plan` is `getAddRemoveForTag` with
`getComputeDeleteAddRemove`; `NextBatch` cuts the four lists; `Compute`,
`AddTag`, `RemoveTag`, and `Delete` with `Untag` are the four parts of `update`: a
deletion is two statements, first the chunk's and then that of its tags.
`MarkCatalog`, `MarkCache`, `Touch` are the statements of `markComplete`, one item
each.  `Edit` and `Checkout` are the user.  Each change on disk gets a new time
stamp, so edits in the same millisecond are not distinguished.

What may go wrong:

| Actions | Code |
|---|---|
| `Abort` | the signal, where `indexFiles` yields |
| `UpdateError` | a statement or a file read of `update` rejects; after the first statement of a deletion, rows of `chunk_tags` stay |
| `InsertRejected` | INSERTs of `insertChunks` reject. Their callbacks are written for `(result, err)` (`ChunkCodebaseIndex.ts:219`, `234`) and sqlite3 calls them with `(err)`: nobody notices, COMMIT resolves, and the batch is marked complete |
| `TransactionRejected` | BEGIN or COMMIT rejects: the batch is given up, some of its rows may be there |
| `MarkError` | a statement of `markComplete` rejects |
| `Crash` | the process ends, anywhere |

`adrift` is history: the contents on which one of these fell while their chunks, catalog
row and cache row did not agree.  The code does not repair them, and the properties of
the tables except these contents, and no others.

### `AgentLoop` and `ToolLifecycle`: the chat's agent

`session` is the slice of the store (history, status of the tool calls,
`isStreaming`); its reducers are operators from one session to the next
(`SubmitAt`, `StreamUpdate`, `SetStatus`, `ClearDangling`).  A stream is a run
of `streamNormalInput`: `at` says whether it gathers context, has its messages
compiled, receives chunks or waits for its automatic tools.  `Submit`,
`Resolve`, `StartLLM`, `TooLong`, `Chunk`, `LaterDelta`, `Finish` and `Fail` are the pieces
of the thunks between their awaits; `Accept`, `Reject`, `ToolResult` and
`ToolFails` those of `callToolById` and `streamResponseAfterToolCall`; `Stop`
and `NewSession` come from the user at any time, `TruncateHistoryToMessage` and
`DeleteMessage` while nothing streams: accepted calls may still run then.  A
message either makes calls (`tools`) or is the result of one (`answers`).  `sent`
counts how often a result that was in the history went back to the model.

`ToolLifecycle` is the abstract specification: the life the type `ToolStatus`
gives a tool call, with consent unless its policy is automatic.  `AgentLoop`
implements it (`Lifecycle == L!Spec`, with `status <- session.status`).

`Chunk` brings text or the first deltas of calls, `LaterDelta` a fragment of the
arguments of one: it sets that call to "generating" whatever its status is
(`toolCallState.ts:57`).  As long as the call is being generated in the last message
that changes nothing.  `stray` is history: the calls of which a fragment found
something else, which can happen ([below](#what-the-code-does-not-keep)).  The first
such step is the last one of a behaviour (`Next == stray = {} /\ Step`): afterwards a call
may be in two messages with a status in each, which the model's one status per call
does not tell apart.  `Lifecycle` and `SentOnce` hold up to that step, and `NothingStrays`
proves that an unattended loop never takes it.  A fragment that finds no call of its
stream in the last message is taken for one that makes its own call again there.

The model does not abort streams: a stopped stream goes on until its next chunk
finds `isStreaming` false, which is what the code does when the abort signal is
late or was replaced.

### `ServiceContainer`: the services of the command-line agent

`state` and `value` are the maps of the container.  A call of `load()` that runs
is an activation, in a slot of its service: `acts[s][n]` says whether it waits
for its dependencies, runs its factory or is about to fail, and for whose events
it waits.  An event of a service wakes all that wait for it, whichever load
caused it; an activation that started a load itself waits for that load.

| Actions | Code |
|---|---|
| `InitializeAll`, `Load`, `Reload`, `SetValue` | the calls from outside; the cascade of loads each starts is synchronous, `Started` says what is in it, `Origins` who started what |
| `CallFactory` | the dependencies have loaded; the factory `get`s each of them, which may load it again or wait |
| `FactoryReturns`, `FactoryThrows`, `DependencyFailed` | the ends of `load()` with the events they emit |

`created`, `madeFrom` and `reloaded` are history: which creation of a service its
value is, the values it was made from, and the last reload unless something
disturbed it.

### `ChatServer`: the headless server

The queue of `serve.ts` (`Post`, `NextMessage`), the timer that looks at the
interrupt flag (`CheckInterruption`), the conversation loop with its requests
(`SendRequest`, `Chunk`, `StreamBreaks`, `StreamEnds`), retries (`Retry`) and
batches of tool calls (`Preprocess`, `ToolsMissing`, `ToolReturns`, `ToolDenied`,
`ToolAsks`, `ToolsDone`), and the ends of the process.  `at` is where the loop awaits.  Of the
history the model keeps what order and completeness need: the user's messages
(`taken`) and the calls without a result (`open`).  `abandoned` is history: a batch of
calls was given up, because one of them was denied or because `getAvailableTools()` threw
(`ToolsMissing`), outside of the `try` of each call.  Returning from the loop and
taking the next message are one step, as in the code, where nothing is awaited
in between.

### `StreamReuse`: autocompletion requests that share a generator

`requests` are the calls for a completion, `generators` the `ListenableGenerator`s
with what they buffered, `currentGenerator` and `pendingCompletion` the fields of
the reuse manager.  `Request`, `Debounced`, `GetGenerator` are the way to a
generator; `Yield` and `SourceEnds` its source; `ReadChunk` and `ReachEnd` the
reader, which skips what was typed since; `CancelToken` and `FullStop` the two
ways a request is given up.  Texts are sequences of one letter and the newline:
skipping and cutting look at nothing else.

### `VerticalDiff`: an edit in the editor

`DiffLines` is `streamDiff` with `matchLine` and the filter of empty lines, as recursive
functions over the generated lines; a line is one of the texts `LineText` and its
indentation.  `MyersDiffs` is `myersDiff` above the diff package, which
may keep any longest common subsequence.  The distance of two texts is a constant
relation.  `HandleLine` applies one diff line to the document (`HandleDiffLine`,
`InsertDeletionBuffer`); `Reapply` puts everything back and shows the final diff;
`DecideBlock` and `DecideAll` are accept and reject; `TypeLine` is the user, whose
line end shifts what is below.  `plan` is history: each line of the final diff and
what was decided of it, against which the document and its marks are compared.

### `CompileMessages`: a chat cut to the context length

`Compile` is `compileChatMessages` after the system message, the tools and the
output have their tokens: empty messages go (`Filled`), the last turn is split off, `Prune`
drops the oldest messages with their results.

### `McpConnection`: one connection, many attempts

A call of `connectClient` has a number; the attempt it starts goes by it, and so
do its abort controller and its promise.  `RefreshConnections`,
`RefreshConnection` and `DropConnection` are the callers, `TokenReturns` the wait
for a token of the `sse` transport, `Connected`, `Fails`, `TimesOut` and
`ConnectedLate` how an attempt ends: no abort stops one.

### `MCCli`, `MCCore`: the instances

`MCCli` puts the container and the server beside each other, `MCCore` the four
modules of core and editor.  The parts share no variable and nothing is claimed
across them: the variable `focus` picks the one a behaviour is about, and the
others rest.

## What is checked

Every run with `CHECK_DEADLOCK FALSE` may stop because its user may.

| Run | Module, configuration | Instance | Shows |
|---|---|---|---|
| `requests` | `MCCodebaseIndexer`, `CodebaseIndexer.cfg` | 2 windows, 3 runs of up to 2 directories, 1 crash | `OnlyCurrentUnaborted`, `BusyMeansRunning`, `FilesNeverCancel`: who is aborted by whom; `RowsHaveOwners`, `OnlyDeadLocksLookStale`: the lock; `BoundedWorkAfterAbort` |
| `requests_end` | same, `CodebaseIndexerLive.cfg` | a run in each window, a crash, rejected statements | `EveryRunEnds` |
| `refresh` | `MCRefreshIndex`, `RefreshIndex.cfg` | 2 files, 2 branches, 2 changes, 1 abort, error or crash anywhere, batches of 2 | `RecordedIsTagged`, `CacheMirrorsCatalog`, `FreshIsExact`, `OtherTagsUntouched` |
| `refresh_converges` | same, `RefreshIndexLive.cfg` | 1 file, 2 branches, 2 changes at any moment, 2 aborts, errors or crashes | `Converges` |
| `tool_calls` | `MCAgentLoop`, `AgentLoop.cfg` | 2 messages, 2 calls (1 automatic), a stop, a rejection, a failure, a new session, a trimmed or deleted message | `Lifecycle`, `SentOnce` |
| `unattended` | same, `AgentLoopAuto.cfg` | 3 messages, 2 automatic calls | `StreamsDoNotOverlap`, `StreamingMeansBusy`, `ResultsAreSent`, `StreamingEnds` |
| `cli` | `MCCli`, `Cli.cfg` | 4 services, 2 asks, 1 factory that throws; 3 messages, 2 calls, 1 retry | `NoOrphans`, `ReloadIsFresh`, `LoadsEnd` of the container; `IdleMeansEmpty`, `MessagesInOrder`, `InterruptHasReason`, `RequestsAreComplete`, `InterruptTakesEffect` of the server |
| `core` | `MCCore`, `Core.cfg` | 2 requests; files of up to 3 lines, 2 generated; chats of 4 messages; 3 calls of `connectClient` | `ReadersGetTheirText`, `PendingIsCurrent`, `RequestsEnd`; `NoLineIsLost`, `StreamedCanBeTakenBack`, `DocumentIsDecided`, `BlocksMarkTheirLines`; `CompiledChatIsSound`; `McpSettles` |

**Bounds.**  Two runs in one window are the least that take over from each
other, a third in another window competes for the lock; one crash is enough for
a lock left behind, and a restarted window pauses and resumes freely.  Two
directories (`MaxDirs`) make a run that was aborted in the first one begin the second;
the theorem is for any number.  The two runs of one window may change places, so that `requests`
is checked up to their exchange.
`Stale = 2` with `Heartbeat = MaxLag = 1` is the tightest timing the assumption
allows.  In `RefreshIndex` two changes make a file pass through both its
contents, so that a path has two versions in the catalog; a second file fills a
batch; a second branch shares a content.  `MaxCopies` bounds equal chunk rows,
which pile up when a file is computed again, or whose tags outlive them: with
four there is room for the next one (`HaveRoom`) in every reachable state of these runs.  In `refresh` files change only
between runs (`RacingEdits = FALSE`): that they change during one is the
subject of `refresh_converges`.  `MaxStops` counts aborts, errors and crashes together:
one of them in `refresh`, so that what it leaves meets whole runs, two in
`refresh_converges`, so that one falls on the repair of the other.  No definition tells
the two contents of the first file apart, nor the branches, so that `refresh` is checked
up to their exchange.  Batches of two hold every plan of two files, as
`filesPerBatch = 200` holds most; what a plan of several batches may do after a
stop is told [below](#what-the-code-does-not-keep).  In `AgentLoop` there is a stream for each message and one more for each
call: a call returns once (`Lifecycle`), so this is never exceeded.
The services of `cli` are a path and a short cut of the graph in
`services/index.ts`: one that many depend on, one with two dependencies, one behind
it.  Two asks are a reload beside a load or a set, three activations of a service
never fill up then.  Three messages are one that is answered, one that interrupts
it and one that waits behind; two calls make a batch of which one fails.  In `core`
two requests are the least that share a generator, and texts of three characters
with chunks of two let a chunk begin in what was typed and end behind it.  Lines
of the diff are alike in all ways the code tells apart: equal, indented, similar,
long, empty.  Chats have all sequences of four messages, also such as nothing
would write, and of five those in which each result follows its call.  The
connection of `core` is `sse`; a token that is there at once is any other
transport.

**Fairness.**  In `CodebaseIndexer` a pending await settles and a timer fires
(weak fairness); the ends of the walk and of the plan get strong fairness,
because a pause interrupts them again and again but the files are finite;
so are the directories (`NextDirectory \/ FinishDirs`).
Nothing is assumed of users, crashes or errors, and `EveryRunEnds` excepts
windows that are paused.  In `RefreshIndex` a started run goes on and the
workspace is refreshed again and again, as it is at start-up, on a branch
switch and on request.  In `AgentLoop` every request the thunks await is
answered: context, compiled messages, the end of a stream, a tool's return (until a
fragment strays, which it does not in `unattended`).
In `ServiceContainer` some activation that can go on does, and nothing is assumed
of which.  In `ChatServer` the timer fires, delays pass, a request gets a chunk, an
error or an end, and tools return; the model may call tools, or stream, for ever,
so that `InterruptTakesEffect` rests on the code alone.  In `StreamReuse` sources
end or fail, the debouncer fires, readers read.  In `McpConnection` the token is
read, the timeout fires, promises that are settled are seen; no server has to
answer.

`StreamingEnds` is checked where all calls are automatic and nothing fails.
Elsewhere it does not hold: when a call failed and kept the status "calling",
and a user's message overlapped the other, the last result of that batch starts
no stream and `isStreaming` stays set until the user stops.

Each property of these runs is also seen to fail for a mutant, an operator
beside the one it replaces, marked "Mutant" in the module.

## What is proved

Each theorem is about the specification as the runs check it, with all of its
actions, and holds for every value of the constants that the named assumptions, and
the hypotheses written in the theorem, allow.

`CodebaseIndexer_proofs`, for any windows, runs and bounds, and any timing with
`Heartbeat + MaxLag <= Stale` (`TimeAssumption`):

| Theorem | States | Along |
|---|---|---|
| `Typing` | `TypeOK` | inductive as it is |
| `Cancellable`, `BusyTheorem` | `OnlyCurrentUnaborted`, `BusyMeansRunning` | `ControllerInv`: only a run that goes on, or one a rejected statement left, has a live controller, and it is the current one of its window. Neither property is inductive alone: the step in which a run ends needs to know that its controller is the current one or aborted already |
| `NeverViceVersa` | `FilesNeverCancel` | `ControllerInv`: a file refresh starts only if the current controller is aborted |
| `NoRowLeftBehind`, `StaleMeansDead` | `RowsHaveOwners`, `OnlyDeadLocksLookStale` | `TimeInv`: a holder wrote at most `Heartbeat + MaxLag` ago, and its row is no older. The age of a row alone says nothing: the row may be another window's, freshened by every heartbeat |
| `AbortIsPrompt` | `BoundedWorkAfterAbort` | `LateInv`: how many steps an aborted run may have begun at each place, by the directories it has left and those that found no index to build.  The run itself may still begin every walk, so the bound is 3 only where there is an index to build |

`RefreshIndex_proofs`, for any files, branches, contents and bounds
(`ContentAssumption`):

| Theorem | States | Along |
|---|---|---|
| `IndexTyping` | `TypeOK` | `TypeInv`, which adds that the tables are finite and that each row fits its file |
| `CacheIsRight` (`Distinct`) | `CacheMirrorsCatalog` | `MirrorInv`: the property, but for the items between their catalog statement and their cache statement (`Behind`), of which the catalog says what the operation is to do. The property is only about the states outside of `markComplete`; what carries it over is what the cache still owes |
| `BranchesAreApart` (`Settings`) | `OtherTagsUntouched` | `PlanInv`: what is to be deleted is tagged by no other branch, what is to lose a tag by another one, what is to be computed by none; `ChunkInv`: a content has one chunk, with the tags the cache has. So `del`, which looks at no tag, meets the run's own chunk |
| `RecordIsTrue` (`Settings`, `WholePlans \/ MaxStops = 0`) | `RecordedIsTagged` | `TaggedInv`, on top of `WorkInv` (`PlaceInv`, `KeyInv`, `VersionInv`): what is still to be added (`Undone`) is what is on disk, and as long as nothing was stopped a file has two rows only while one of them is to go (`Going`) |
| `FullRunIsExact` (`Settings`) | `FreshIsExact` | `FreshInv`: from the plan on, each file on disk is recorded or still to be, each row of the branch is on disk or still to go (`Ahead`); at the end nothing is left to do (`Exact`). `TimeInv`: a row that is not older than its file has the content of the file, which is why the plan may skip it |

The hypotheses are the conditions under which the code keeps these properties:

- `Distinct`: no two files share a content.  The run `equal_files` shows what
  happens otherwise.
- `Settings` adds to this that a document is one chunk (`OnePart`; the run
  `many_chunks` shows why) and that files change between runs only
  (`~RacingEdits`).  Where they change during one, what is recorded may be of an
  older text; the next run repairs it, which `refresh_converges` checks.
- `WholePlans \/ MaxStops = 0`: a plan fits in a batch, or no run is ever aborted or
  fails.  Without it `RecordedIsTagged` is false
  ([below](#what-the-code-does-not-keep)).

Errors and crashes are not excluded: what they may break is a content in `adrift`, which
the property itself excepts.  The invariants therefore speak of the other contents
(`Intact`), and the new obligation at each failure is that whatever it leaves in
disagreement is in `adrift` from then on.

The constants of `refresh` satisfy all of them, with batches that a plan may fill, an
abort, error or crash anywhere, and branches that share contents.

`AgentLoop_proofs`, for any tools, policies and bounds:

| Theorem | States | Along |
|---|---|---|
| `ImplementsLifecycle` | `Spec => Lifecycle`, a refinement | `LifeInv`: a running call has the status "calling". Without it `ToolResult` could settle a call that was canceled; with it, and lemmas on what each reducer does to the statuses, every action is a step of `ToolLifecycle` or a stutter |
| `RunningIsCalling` | as long as `stray = {}`, what runs has the status "calling" | the same; `InPlace` and `FragmentsStay`: a fragment of a call that is being generated in the last message changes nothing |
| `Typing` | `TypeOK` | inductive, with a lemma for each reducer on sessions |
| `ResultsGoOnce` | `SentOnce` | `SentInv`: a call is made once in a history and answered behind it (`Ordered`), what the history holds of a call agrees with its status (`Settled`), and once a result of a message was sent and is still there, all calls of that message had returned (`Whole`). So the step that sends, which is the return of a call that had not, cannot meet them again. `Lifecycle` gives the rest: no call returns twice |
| `NothingStrays` (`Unattended`) | `stray = {}` for ever | `LoopInv`, which adds that a call that is being generated is in the last message and of the stream at work (`Made`) |
| `AnswersTakeTurns`, `FlagIsRight`, `ResultsGoBack` (`Unattended`) | `StreamsDoNotOverlap`, `StreamingMeansBusy`, `ResultsAreSent` | `LoopInv`: the chat rests, or one stream works on the last message, or calls of one message run (`Resting`, `Answering`, `Calling`), and in each of these the flag, the statuses and the counts are what they ought to be. `Enough`: there is a free stream for each answer, since a call returns once |

`Unattended` says that every tool is automatic, that nobody stops, trims or starts a
session, and that no request or tool fails.  It is the setting of the run
`unattended`, and needed: a message submitted after a stop starts a stream beside the
one that still ends, and a call that failed while "calling" leaves its batch
incomplete.

`ServiceContainer_proofs`, for any services and dependencies, cyclic ones too
(`DepsAssumption`), and any bounds (`ActsAssumption`):

| Theorem | States | Along |
|---|---|---|
| `SvcTyping` | `SvcTypeOK` | the same invariant |
| `NobodyIsForgotten` | `NoOrphans` | inductive together with the types.  `CascadeIsSound`: a cascade has an activation for each service it marks as loading, and one behind each event or load its activations wait for, because it goes down to what is loading already (`StartedCovers`).  `EndIsSound`: an activation that ends has woken all that wait for its load or for any event of its service, so nobody is left to wait for it alone; `ReadyHears` and `FailedHears` say so of the two events |
| `ReloadsAreFresh` | `ReloadIsFresh` | `FreshInv`: from an undisturbed reload on, each service loads once at a time, waits for each dependency that is not ready, runs its factory with the values its dependencies have now, and is afterwards made from what is there (`OneLoad`, `DepsAwaited`, `DepsGot`, `MadeFresh`). The property speaks of the end only |

`Cli_proofs`, for any bounds, of `ChatServer`:

| Theorem | States | Along |
|---|---|---|
| `NothingWaitsForRest` | `IdleMeansEmpty` | `QueueInv` |
| `MessagesStayInOrder` | `MessagesInOrder` | `QueueInv`, which says the same of the two sequences position by position (`InOrderIsMessagesInOrder`) |
| `InterruptsHaveReasons` | `InterruptHasReason` | `QueueInv`: the flag itself is raised only for a message that waits, and stays so until that message, or one before it, is taken.  The property speaks of the signal; without the flag the step in which the timer copies it proves nothing |
| `ChatTyping` | `ChatTypeOK` | inductive as it is (`RetriesAssumption`) |
| `ResultsGoWithCalls` | `RequestsAreComplete` | `OpenInv`: until a batch is given up, a call without a result is one of the batch that is being prepared or executed. The property only looks at the moment of a request |

A behaviour of the two components side by side, as the run `cli` has them, is a
behaviour of each (`EachAsAlone`); so the theorems above hold of `MCCli`, its `TypeOK`
among them (`CliTyping`).

`Core_proofs`, for any texts, requests and bounds (`StreamAssumption`), any chats
(`ChatAssumption`) and any number of connection attempts:

| Theorem | States | Along |
|---|---|---|
| `StreamTyping` | `StreamTypeOK` | `StreamTyped`, which also places each request: it has a generator, one that exists, just when it is past the debouncer and the preparation |
| `ManagerIsCurrent` | `PendingIsCurrent` | `ManagerInv`: `pendingCompletion` is what the current generator generated, and every other generator is ended, so that none adds to it |
| `ReadersAreInStep` | `ReadersGetTheirText` | `ReadersInv`: for each reader `seen \o typed = prefix \o out` (`InStep`), where `seen` is what it read of the generator, `typed` what it is still to skip, `prefix` what was typed when it joined and `out` what it is shown; nothing is shown before all is skipped. Concatenations are compared character by character; that `FlattenSeq` of a longer buffer is the old one and the new chunk is shown by a minimal counterexample |
| `CompiledIsSound` | `CompiledChatIsSound` | `CompileKeeps`, about one call of `Compile`: the filter separates no result from its call, because an empty message neither makes nor answers a call (`FilledAnswered`, by induction over the messages); the loop of `Prune` stops at the first message behind which there is room, no result among them (`PruneEnds`, by its greatest counterexample). Of `TokensOf` nothing is used, so it holds for any way to count |
| `McpTyping` | `McpTypeOK`, with it that the promise of a connection is that of an attempt under way | `McpInv`, which types the calls and what they wait for: whichever attempt ends, also one that was replaced, leaves no promise behind |

`VerticalDiff_proofs`, for any files, generated lines, relation of alike texts and
bounds (`DiffAssumption`: the lines are lines, and an edit has a range of at least one):

| Theorem | States | Along |
|---|---|---|
| `DiffLosesNothing` | `NoLineIsLost` | `DiffLinesKeeps`, about one call of `DiffLines`. What a diff has of the old lines, and of the texts of the new ones, is put together piece by piece (`Gathered`). One turn of `streamDiff` keeps: the old lines of the output and those still to be matched are the old lines of the edit, and the texts of the output are those of the lines read so far (`DiffStepKeeps`); one turn of the filter drops nothing but empty inserted lines (`FilterStepKeeps`) |
| `DiffTyping` | `DiffTypeOK` | `DiffInv`: besides the types, the document has a line for each old line still to come, from the place of the next one on, so that a deletion never meets the end of the document too early |
| `StreamIsTakenBack` | `StreamedCanBeTakenBack` | `TakenInv`, below |
| `CoreTyping` | `TypeOK` of `MCCore` | the invariants of the four modules together; each of them sees its own steps and stutters during the others' (`EachComponentSteps`) |

The property of `StreamIsTakenBack` says what a chain of edits gives, so it is not
inductive by far.  `TakenInv` takes the document apart (`Parts`): what is done with, the
green lines of the open block, the old lines still to come, those behind the range, and
the empty line that may be left at the end of a file.  Of what is done with it says that,
*whatever follows it*, rejecting the blocks so far leaves the old lines there
(`GoesBack`); and of the marks, that the red and green ranges are those of the blocks and
of the open one, and that green ranges of two blocks do not touch, or `AddGreen` would
join them (`Marks`).  `RejectedOne` is one call of `AcceptRejectBlock` for the last
block: it finds the red lines of that block and no others (`RedsFound`), removes the
green lines, removes the empty ones, and inserts the old ones; the marks above stay where
they are (`PriorStay`).  `OldStreams`, `NewStreams` and `SameStreams` are the three kinds
of diff lines.

Only model-checked: the liveness properties (outside TLAPS), and the two invariants of
`VerticalDiff` about the time after the stream, `DocumentIsDecided` and
`BlocksMarkTheirLines`.  These two rest on what the external diff package returns, which
the model chooses with sorted sets, and on blocks that are decided in any order while
lines are typed between them.

The library's induction theorems cannot be used with these provers, but an induction can
be made by hand: of all numbers that fail there is a least one (`LeastOf`, `AllNumbers` in
`NumberLemmas`), and the step below it gives the contradiction.  `Core_proofs` does so for
`FlattenSeq`, `Filled` and `Prune`, `VerticalDiff_proofs` for the loops of the diff and of
the rejection of all blocks, after it was shown that the function their recursion asks for
exists.  `SelectSeq` and the folds are opaque to the provers: a filter or a loop that is
proved about is written as a recursive function or with `FlattenSeq`.

## What the code does not keep

Four runs expect a violation of what the repository says of itself.

- `lock_race` (`OneWindowIndexes`): a window SELECTs no lock, then INSERTs its
  own; between the two another may do the same, and both index.  A window that
  breaks a stale lock may also delete the fresh one of a window that was faster.
- `equal_files` (`RecordedIsTagged` with two files of one content): the plan
  counts the tags of a content, not its files; when one of two equal files goes,
  the chunks the other needs are deleted or untagged.
- `many_chunks` (`DeletedChunksAreGone` with two chunks per document): `del`
  looks up one chunk row of the key and removes it; the others stay.
- `stopped_answer` (`DanglingCleared`): a stop keeps a message that has text
  together with its half generated call, which then is offered or made.

Also in the models, but contradicting nothing that is written down, or too
little: an aborted file refresh goes on to its next file; a call that cannot be
made keeps the status "calling"; of a batch in which one call was rejected the
other results wait for the user's next message; a tool goes on after a stop, and
its late result starts the model again; a stream looks at its end at what the
history is then; a stopped stream may put its calls into the next answer, or, after
the chat was trimmed to a message with calls, into that message, which then waits for
them too.  Deleting an answer "and the previous user message"
(`sessionSlice.ts:442`) removes the message before it, which after a tool call is the
tool's result.

- Index: an INSERT of a chunk, or of its tag, that is rejected is not noticed
  (`ChunkCodebaseIndex.ts:219`, `234`): the file is recorded without its chunk and stays
  out of the index until its next edit, against "so that if the extension is closed
  mid-indexing we don't falsely record progress" (`indexing/README.md:17`).  After a
  rejected INSERT the tag is given to whatever row `last_insert_rowid()` names.  A
  deletion that is cut off between its statements leaves rows of `chunk_tags` for a chunk
  that is gone, or a catalog row for one; a `markComplete` that is cut off leaves the
  cache with a wrong number of tags, by which later plans delete what another branch
  uses.  `RecordedIsTagged`, `CacheMirrorsCatalog` and `OtherTagsUntouched` except the
  contents this fell on (`adrift`).
- Index: a stopped run may leave two versions of a file recorded.  When the file is
  then changed back, and the plan spans several batches (more than `filesPerBatch =
  200` items, `CodebaseIndexer.ts:54`, `526-531`), an earlier batch may delete the
  chunk of the content that is on disk, for it is tagged by no other row, and a later
  one finds no chunk to tag and records the file all the same.  The file stays out of
  the index until its next edit.  The inductive step of `RecordIsTrue` fails there,
  and TLC reaches the violation from the state it fails in; from the initial state it
  takes more changes than the runs allow.
- Indexing requests: a codebase refresh with no index to build that is aborted behind
  the last file of a walk begins the walk of the next directory all the same, and goes on
  to the one after it when it finds no file there (`CodebaseIndexer.ts:363`).
- Agent loop: "Only process tool calls that are in "generating" status (newly created
  during this streaming session)" (`streamNormalInput.ts:44`) takes the one for the other.
  Each fragment of a call's arguments makes it "generating" again.  A stop while the
  messages are compiled does not reach the stream, which has no listener yet (239); when
  the user submits again, `isStreaming` is set and the old stream goes on beside the new
  one.  The new one's end has the old one's call called; a later fragment of the old one
  resets it, the old one's end has it called again, and its results are sent again.  A tool result
  that is appended between two fragments, or a trimmed chat, has the call made again in
  a new message.  `Lifecycle` and `SentOnce` hold until then.
- Services: `ReloadIsFresh` is stated of reloads that nothing overlaps.  A `load()`
  or `set()` beside one leaves dependents made from values that are gone; and the
  factory of the configuration itself sets `AUTH` for a user who is signed in
  (`services/index.ts:144`).  `load()` starts dependencies again that are ready.
- Server: a rejected call ends the answer and leaves the calls of its batch without
  results in the history, which the next request sends, against "to maintain chat
  history consistency" (`streamChatResponse.helpers.ts:393`).  So does an error of
  `getAvailableTools()` (298), when the MCP service failed to load or one of its tools has
  no properties (`tools/index.ts:110`), for the calls are in the history by then
  (`streamChatResponse.ts:95`).  `RequestsAreComplete` excepts both (`abandoned`); a retry in the middle of a stream keeps the text and the calls of the
  failed attempt; a policy that asks ends the process; a message that is queued
  behind another does not interrupt that one's answer.
- Autocompletion: a filter, or a source that took too long, cancels the current
  generator, also when it serves a newer request; a generator that failed or was
  canceled is reused as long as the prefix fits; the promise of a request that was
  debounced stays pending for ever.
- Diffs: of lines that match by similarity old and new ones alternate, so that "Old
  lines in a hunk are always output before the new lines" (`streamDiff.ts:12`) holds of
  single lines only.  Typing a line end in the first line of a block drops its
  buttons.  A range that ends the file, or in an empty line, may gain an empty line.
  Deciding while lines still stream loses those that were removed and not put back
  yet; a line that fails, as when the editor is not active, is put back behind its
  successors (`handler.ts:151`), and lines queued then come after the final diff.
- Chat to request: the description of `compileChatMessages` says that adjacent similar
  messages are flattened (`countTokens.ts:389`, `398`); they are sent as they are, two
  user's messages in a row too, and `CompiledChatIsSound` says so (`IsSuffix`).  It also
  says that trailing messages which are no user's or tool's are filtered (394, and the
  comment at 443); only empty ones are, and a chat that ends with an answer throws (228).
  Tool results with no message at all before them are sent unchecked (247).
- MCP: an attempt that was replaced clears the promise of its successor, or says
  "connected" while that still connects; one that connects after its timeout
  overrides "error"; a token request that is rejected leaves "connecting" for ever
  (`McpSettles` assumes that it is not); the callback of a refresh that was aborted
  still runs.

## What is not modelled

`PROJECT.json` lists each component with the reason.  Within the modelled ones:

- `CodebaseIndexer`: `clearIndexes` (it replaces the SQLite file), progress
  messages, and what the walk finds.
- `RefreshIndex`: the remote cache, artifacts other than chunks, the texts of
  chunks (a file edited between plan and chunking stores the newer text under
  the older key; the next run replaces it), and the number of a chunk that is still to
  come: a tag given to a row that is not there yet is not followed.
- `AgentLoop`: edit tools whose result comes from a reviewed diff, reasoning
  messages, sessions loaded from disk, compaction, the abort signal.
- `ServiceContainer`: what the services do, and `register` at run time.
- `ChatServer`: SIGINT, compaction, saved sessions, permission by a user, and a
  permission service that is not ready when a request lists its tools
  (`streamChatResponse.ts:155`).
- `StreamReuse`: the cache and its LRU table, templates, the single filters (one step
  stops a request), post-processing.
- `VerticalDiff`: an editor that is not active, decisions while lines stream, commands
  that overlap, the limit on end brackets and the thresholds of similarity.
- `CompileMessages`: the counting of tokens and of images.
- `McpConnection`: what a server offers, the calls of its tools, signing in.

Not modelled at all, with what was seen there:

- Documentation: between the check of the queue and the addition to it there is an
  await (`DocsService.ts:434`); the end of an old run removes the entry of a newer
  one; a deletion removes the entry before it aborts the run.
- Configuration: an older load that ends late overwrites the newer result
  (`ProfileLifecycleManager.ts:135`).
- Next edit: the outcome of an aborted chain enters the new queue
  (`NextEditPrefetchQueue.ts:83`).
- Messengers: data that is only a line end is dropped, and the next message is
  joined to the one before (`binary/src/IpcMessenger.ts:101`).
- LRU table: a hit updates the time of the row whose key is the prefix asked for, not
  that of the row it found (`AutocompleteLruCache.ts:56`).

LLM adapters, tools, context providers, prompts, configuration files, rendering and
the editors' adapters convert or do I/O.  They are the larger part of the source, and
have no order of events to check.

## Plan

Done: `CodebaseIndexer`, `RefreshIndex`, `AgentLoop` with `ToolLifecycle`,
`ServiceContainer`, `ChatServer`, `StreamReuse`, `CompileMessages`, `McpConnection` and
`VerticalDiff`, each with proofs.

Left, in this order:

1. `DocsQueue`: queue, status and abort of crawls, with restarts.
2. `ConfigLoad` and `PrefetchQueue`: a late attempt against a newer one.
3. `LineFraming`: the messenger's splitting of data as a function over chunkings,
   against the reference that joins first and splits then.
4. `VerticalDiff` with an editor that goes away while lines stream.
5. Proofs: `BlocksMarkTheirLines` and `DocumentIsDecided` of `VerticalDiff`, which need
   the plan in parts as `TakenInv` has the document, and the order of a final diff.

Modules stay provable: parameters as constants with named assumptions, one
action per operation, no RECURSIVE operator.
