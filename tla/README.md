# Specifications of the builder harness

TLA+ modules for this repository: a harness that lets a language model build a
small web application in a chat. They say what the parts of the system do, TLC
checks them on small instances, and TLAPS proves the facts that matter most for
every instance. Every definition is translated from the code, and `map` in
`PROJECT.json` names the lines; where the code and a document disagree, the
model follows the code and the document's sentence becomes a property that TLC
refutes (see *Disagreements*).

    tlc -workers 2 -config MCTurn.cfg MCTurn        # one of the runs
    tlapm TurnProofs.tla                            # the proofs

## The system

Three processes take part, and the model provider behind the second.

    browser                        router (Python)              build service (Bun)
    ┌───────────────────────┐      ┌────────────────────┐       ┌──────────────────┐
    │ chat hook ◄─ bus ─► preview  │ chat route         │       │ /bundle          │
    │   │                  │    │──┼► run_turn ─► tools │       │ /packages/install│
    │   └── SSE ◄──────────┼────┼──┤    │         │     │       │ install chain    │
    │ files hook           │    │  │    ▼         ▼     │──────►│ semaphore        │
    │              sandboxed    │  │   store (SQLite|fs)│       │ build children   │
    │              iframe ◄bridge  │ connectors         │       │ node_modules     │
    └───────────────────────┘      └────────────────────┘       └──────────────────┘
                                        │
                                        ▼ model provider

The browser sends a message; the chat route starts `run_turn`, an async
generator that asks the model, runs the tools it calls and yields one event
after another until `done`. The turn saves the transcript to the store before
the first token, after every tool and when it ends. The tools change the
project's files. Each result bumps the preview's rebuild key, the preview has
the build service bundle the files and loads them in a sandboxed frame; when
that fails the preview sends a repair message through the chat.

| part | code | state it keeps | operations |
|---|---|---|---|
| agent loop | `py/.../loop.py` | step, context retry, nudge, marks "mutated" and "snapshot taken", transcript, calls of the generation | one turn: load, announce, stream, call, snapshot, run, record, save, end; abort, disconnect, cancellation, crash |
| event stream | `py/.../sse.py`, `spec/chat-protocol.md` | none | the seven events and their order |
| history | `py/.../history.py` | none (pure) | `sanitize_history`, `fit_to_window`, attachments |
| stores | `py/.../stores.py` | files, messages and snapshots of each project, on disk or in SQLite; a lock per project | read and write each half, create and prune snapshots, staged replacement and recovery |
| file tools | `py/.../tools/files.py` | none of its own | Write, Edit, Delete, Read, InstallPackage: load the map, change it, put it back |
| router | `py/.../config.py` | none of its own | chat, bundle, project CRUD, import, rollback and undo |
| connectors | `py/.../connectors/*` | schema and tool caches with a TTL, sessions | queries and calls for the preview and for the model |
| model provider | outside, through `llm.py` | none | streams text and calls; refuses; overflows; dies |
| build service | `packages/bundler/src/index.ts` | install chain, semaphore, build directories, `node_modules`, children | bundle, install, refuse, time out, clean up, restart |
| chat hook | `packages/.../useHarnessChat.ts` | items, busy flag, abort controller | send, stop, handle each event, switch project |
| preview hook | `packages/.../useHarnessPreview.ts`, `context.tsx` | rebuild key, build status, the key a failure was reported for | build, show, report, hand over a repair |
| preview bridge | `packages/.../preview.ts` | pending requests by id, timers, in the frame and in the host | request, answer, time out, tear down |
| files and versions hook | `packages/.../useHarnessFiles.ts`, `VersionTimeline.tsx` | files, versions, the undo that is offered | load, restore, undo, dismiss |
| panes | `packages/.../ChatPane.tsx`, `PreviewPane.tsx`, `diff.ts`, `choices.ts`, `items.ts`, `sse.ts` | what is rendered | guard the composer, hand over a repair; diff, segments, cards, event reader as functions |

`PROJECT.json` lists the same parts, and the ones left aside (prompt assembly,
type declarations, connectors, the browser bundler, the examples), with their
status.

### What is hard about them

* **A turn can be cut off anywhere.** The reader leaves at a `yield`, the server
  cancels at an `await`, the user aborts between two calls, the provider dies
  with calls half streamed, a tool outlives its timeout, a save fails. Whatever
  happens, the stored transcript has to be one a provider accepts, with nothing
  in it taken back.
* **Three loops bound each other.** Steps, the context ladder and the nudge,
  with the forced tool choice that may be rejected, interleave; together they
  have to stop.
* **The snapshot is lazy.** It is attempted at the first call of a mutating tool
  rather than at the start of the turn, and must precede every write, one that
  lands after its tool was given up included.
* **The build service shares one `node_modules` and a few permits** among
  requests that suspend at every `await`, spawn children that may not start, and
  race timers.
* **Nothing orders a turn, a rollback and an import of one project.** Each reads
  a whole map and writes a whole map back.
* **The browser is one thread with many callbacks.** Reads, builds, turns and
  frames of a project that has left the screen come back when another is on it;
  what a hook renders lags behind what its refs say; a failed build is reported
  at most once per key, across reloads, stops and changes of project.
* **Two halves of the data bridge time out on their own**, and the frame is loaded
  again into the same window while replies are on their way to it.
* **A long transcript is cut** wherever the ladder says, in the middle of a round
  of calls too.

`hazards` in `PROJECT.json` lists these one by one, at the line where they bite,
with the properties that would catch them; the ones without a property say why.

## The modules

| module | what it is |
|---|---|
| `History` | the transcript and `sanitize_history`, and what a provider accepts (`Replayable`) |
| `HistoryProofs` | theorems about `sanitize_history`, which the ones about `Turn` and `Window` use |
| `Turn` | one chat turn with the model, tools, store, abort signal and server task around it |
| `TurnEvents` | abstract: what a turn promises the reader of its stream |
| `TurnProperties` | the properties of `Turn`, and its refinement mapping to `TurnEvents` |
| `TurnProofs` | theorems about `Turn` |
| `MCTurn` | instances of `Turn` for TLC |
| `Bundler` | the build service |
| `BundlerProperties` | its properties |
| `BundlerProofs` | theorems about `Bundler` |
| `MCBundler` | an instance of `Bundler` for TLC |
| `FileMaps` | file maps, the files their keys are kept in, and the requests of a store's clients |
| `AtomicFiles` | abstract: what `put_files` and `get_files` promise, an atomic map |
| `FsStore` | the file store's tree of one project: lock, threads, staging, renames, recovery |
| `FsStoreProperties` | its properties, and its refinement mapping to `AtomicFiles` |
| `FsStoreProofs` | theorems about `FsStore` |
| `MCFsStore` | an instance of `FsStore` for TLC |
| `Calls` | abstract: what a data call of a generated app promises |
| `Bridge` | the data bridge: the frame's half, the host's half, the effect that puts it up |
| `BridgeProperties` | its properties, and its refinement mapping to `Calls` |
| `BridgeProofs` | theorems about `Bridge` |
| `MCBridge` | an instance of `Bridge` for TLC |
| `Client` | the workspace in the browser: chat hook, preview hook, panes, the bus between them |
| `ClientProperties` | its properties |
| `ClientProofs` | theorems about `Client` |
| `MCClient` | an instance of `Client` for TLC |
| `Versions` | a project's files, conversation and versions: turns, rollbacks, the explorer and the timeline |
| `VersionsProperties` | its properties |
| `VersionsProofs` | theorems about `Versions` |
| `MCVersions` | an instance of `Versions` for TLC, and how far it is followed |
| `Diff` | the line diff and its hunks, against what a diff has to be |
| `Segments` | the segments of a text that streams in |
| `Sse` | the reader of the event stream, chunk by chunk |
| `Cards` | the tool cards of a turn, live and after a reload |
| `Window` | the messages that fit the model's window |
| `Views` | the five of them side by side, each on its own inputs |
| `ViewsProofs` | theorems about them |
| `MCViews` | an instance of `Views` for TLC |

`Turn` and `Client` meet in the events: `TurnEvents` is what `Client` and `Cards`
take a stream to be. `Versions` has a turn of its own, with the two steps in which
a tool changes files, because `Turn` sees of the files only whether they have
changed. `Client` shows what a restore sets off in the panes, `Versions` what it
does to the store.

### Turn

`pc` is where the generator is suspended: at a `yield` (the frame has been
handed out; `frame` is that frame) or at an `await`. An action is the code from
one suspension to the next, so the choice of actions is the choice the event
loop and the outside world have. `saving` is the `await` in `_persist`, which the
code calls from four places, and `after` is where the turn goes on.
Two locations (`step`, `answered`) are not suspensions; they only split a long
stretch of code into pieces with names.

The local variables of `run_turn` have a variable each, under their own names
(`nudged`, `mutated`, `snapTaken`, `calls`, `msgs`, ...). The store is what the
turn can see of it: the stored transcript, the number of pre-turn snapshots,
whether the files have been changed. A save is atomic, fails, or goes on after
its `await` was cancelled (`late`): the code shields it. A tool's write may land
at any time while the tool runs, and later when the turn gave the tool up
(`stray`).

Data is abstract. A message says something or nothing; a result went well, went
badly or is a stub; but the ids of calls are kept, because pairing results with
calls is what the repair is about. A generation makes any of a set of calls:
with an id or without, reading or writing, parseable or not.

### Bundler

`stage` is how far each request has got: `new`, `queued` (its install is in the
chain), `write` (writing its build directory), `waiting` at the gate, `granted`,
`child`, `answered`, `lost` with a killed process. The install chain is the
sequence `jobs` of tasks handed to `serialize`, settled ones included, so that
the order in which they were queued can be compared with the order in which they
ran. `dirs`, `removing` and `left` are the build directories, those whose removal
nobody waits for, and those whose removal failed. `Crash` and `Boot` are a
kill of the container and its next start, with the wipe of the builds directory.

### FsStore

One project's tree in `FsProjectStore`, called by any number of clients.
`live`, `staging` and `old` are the directories `files`, `.files.new` and
`.files.old`, each with its index and its files or absent. `pc[c]` is how far
the call of `c` has got: `queued` for the project's `asyncio.Lock` (`queue`, its
holder first), then the place in `_read_files` or `_write_files` where its thread
is. Each operation on the file system is a step; `rmtree` is one step for each
entry it removes, and may leave the rest (`ClearPart`); `Raise` is any operation
that fails, with what was done so far left on the disk. `Crash` is a kill of the
process at any point, and the disk stays.

`Abandon` is a cancellation of the caller while its thread works: the `async
with` ends and the lock goes to the next in line, but a thread cannot be
cancelled. From then on nothing keeps the next thread away, and `overlapped`, a
variable of the specification and not of the code, records that one has been
started all the same.

What the data keeps: a key names a file or, if it would leave the directory,
none; two keys may name the same file, of which the last one written wins (the
order is left open). `_recover` is taken for one step: it is a test and a rename,
and only a thread that overlaps could get between them. Files and the index are
written whole: a reader of a tree still being filled exists only among
overlapping threads. `project.json` is written after the swap and nothing here
reads it. `delete_project` is not called by the router and is left out, and so are
messages and snapshots, which are files of their own next to the tree.

### Bridge

`frame[c]` is what has become of the promise of a call in the generated app, and
`host[c]` what the host makes of its request. `pending` is the loaded document's
map from ids to calls, `bridge` the host's bridge that is up. `Reload` replaces the
document: its promises, timers and map go, and what is on its way to it is
delivered to the next. `Destroy` is the cleanup of the effect; a handler that is
running goes on and returns later. A request is dropped when no bridge is up.
Messages are neither lost nor duplicated, as `postMessage` has it, and are not
ordered against the timers. A value with a key `id` of its own overwrites the
envelope's (`Reply`).

### Client

`turn[n]` is how far a turn has come in `runTurn` (`headers`, `streaming`, `over`);
`stopped` are the turns whose signal is aborted but whose `finally` has not run.
The hook's refs (`busyRef`, `abortRef`), its state (`busy`) and what is rendered and
told to the bus (`shown`) are variables of their own, because the guards read
different ones. `reads` and `builds` are requests under way, by number, so that a
late one can be told from the last. `frame` is the document in the preview and the
build it is from, `crashed` a report from it on its way, `firedFor` the key whose
failure was reported. `Move` is the host pointing the panes at another project.

### Versions

The store is `files`, `messages` and `snapshots` of a project. What a file map or
a conversation holds is the set of calls whose effect or result is in it: enough
to say that one belongs to the other, and that a version is what was replaced.
A turn reads the whole map and puts it back in two steps (`ReadFiles`,
`WriteFiles`), with the lazy snapshot at the first. A tool may instead raise,
having written or not, or be given up by `execute_tool` while it writes
(`ToolFails`); both are answered with an error, and the turn goes on. A save works,
fails without a word, or is cancelled and goes on behind its shield (`Persist`);
what was given up is in `late` and lands at any time or never (`Land`). A rollback has a step for each
await of the route (`Find`, `SeeFiles`, `SeeMessages`, `TakeUndo`, `PutFiles`,
`PutMessages`, `Answer`), and `Fail` at any of them. Versions are pruned to the
newest `Keep` of a kind; ids stand for the clock. In the browser, `reads` are the
GETs of the project, `wanted` says that a rebuild key has changed, `events` are
tool results on their way, `undo` is the undo on offer. `view` is what the tree
shows, the state of the hook; `ref` is `filesRef`, from which the viewer opens a file.
An answer sets `ref` before the hook looks whether its read was cancelled, so a
late one reaches the viewer and not the tree (`Arrive`). The viewer reads the
project by itself when it is asked for a file it lacks (`Open`).

Four variables record history the code does not keep: `was`, what each rollback
replaced; `torn`, that files and conversation may have come apart in one of the
ways nothing in the code prevents; `missed`, that the browser was never told of a
write; `stale`, that the last answer of all was to a cancelled read. The
properties set aside the states in which the code cannot keep them, by these, and
their comments name what sets each.

### Views

Pure code, as operators, over every small input. `Diff` is the trimming, the
table, the walk and the grouping into hunks of `diff.ts`. `Segments` cuts a text of
abstract words into fences, choices, code and prose. `Sse` joins chunks of marks, with
`CR` and `LF` in every position. `Cards` follows a turn of several rounds and
compares the live cards with `historyToItems` of what was stored; whether the
provider sends ids for its calls is chosen at the start (`provided`), and where it
does not, a call's id is its index in the round. `Window` grows a
transcript round by round and cuts it on every rung; the lower rungs, which
shorten what messages say, leave the transcript as it is.

## What the runs show

| run | properties | bounds |
|---|---|---|
| `turn` | `TypeOK`, `StoredReplayable`, `SavedBeforeAsking`, `FinalSaveComplete`, `ShownIsRecorded`, `SnapshotBeforeWrite`, `RequestsBounded`, `ForcedOnlyWhenStalled`, `SavesOnlyAdd`, `EventsInOrder`, `TurnEnds` | 3 steps, 1 context retry, 2 calls of three kinds, 1 delta per generation, 1 cancellation, 1 lost save; 1.2 million states |
| `bundler` | `BuildsBounded`, `WaitOnlyWhenFull`, `InstallsSerial`, `DepsResolve`, `DirsOwned`, `Answered` | 3 builds, 2 installs (one refused), 1 permit, 1 kill or failed removal; 0.9 million states |
| `fsstore` | `TypeOK`, `OneThread`, `AtomicUntilOverlap`, `Served` | 2 clients, 4 keys (one a second name, one outside), 2 contents, 2 maps to put; 0.3 million states |
| `bridge` | `TypeOK`, `TimersGuardRunning`, `AnswersOnce`, `EveryCallItsAnswer`, `EveryCallSettles` | 3 calls (one the host does not take), 3 ids, 1 reload, 2 bridges; 0.8 million states |
| `client` | `TypeOK`, `TurnHeld`, `ShowsThisProject`, `OneRepairPerBuild`, `BusyClears` | 2 projects, 3 turns, 1 new rebuild key, 1 change of project; 1.0 million states |
| `versions` | `TypeOK`, `FilesMatchMessages`, `UndoHoldsReplaced`, `ShowsStore` | 2 turns, 2 writes, 2 rollbacks, 1 version kept of a kind, 2 reads under way, 1 write given up; 2.0 million states |
| `views` | `DiffExact`, `SegmentsGrow`, `ReadsWhole`, `CardsAgree`, `WindowLegal` | 10 lines in two texts, 6 words, 8 marks, 4 calls in rounds of up to 3, with ids or without, 9 messages; 0.5 million states |
| `turn_text`, `turn_cancel` | refuted, see below | 1 and 2 steps |
| `fsstore_stray` | `NeverHalfApplied` refuted, see below | as `fsstore`, beyond the overlap |
| `client_repair` | `RepairFollows` refuted, see below | 1 project, 2 turns, 1 rebuild |
| `views_request` | `RequestSurvives` refuted, see below | as `views` |

*Why the bounds are enough.* The nudge needs a step that stalls, the step it is
followed by and the step after that one, in which it must not have an effect any
more: three steps. Two calls are enough for one that was answered before one
that was not, in one generation or in two, and for a repeated position-made id;
one kind runs and writes, one cannot be parsed, and both come everywhere and in
every order; one runs and only reads, and is followed where it is the one call of
the first step (`CONSTRAINT ReadsFirst`), since it takes the path of the first
without the snapshot and leaves the marks as the second does.
One context retry meets each of the ladder's two ends, taken and refused. One
cancellation on one lost save reaches every `await`; a second would find the turn
unwinding. In the build service one permit makes every second build wait, and
three requests make a queue of two, so that the order of wake-ups matters; a
build that declares two packages suspends between its installs, where another's
install of the same package runs; a fault can be placed in every stage of every
request. The file store has no bound on kills, failures, cancellations or calls;
two clients suffice for one to wait for the other, and the two maps differ in
every kind of key. Its run stops (`CONSTRAINT UntilOverlap`) at the states where
threads overlap: every property excuses these states themselves. `Served`
therefore says nothing of what becomes of those who wait from then on; followed
past the overlap, the tree has more states than TLC gets through.

In the bridge a call may be open in the old document, another in the new, and the
replies to both be on the way, with the bridge replaced in between. In the
workspace a turn of the old project unwinds while one of the new waits to be let
in, and a third follows; one change of project is enough for every answer to be
late, and one new key for a crash of the old frame to be taken for the new one's.
Two rollbacks are one and its undo, or two that overlap, and with one version kept
of a kind the second prunes what the first has made. One write that was given up
can be a tool's or a save's, and lands in any later step, of the next turn too. Once
`torn`, only what the explorer shows is asked of a state, so that those are
followed to two turns and rollbacks in all (`CONSTRAINT Followed`). The texts, streams, rounds and
transcripts of `views` hold every shape the functions tell apart: a change between
two that are far enough apart to make two hunks, a fence that opens inside a
word's piece, `CR` and `LF` torn apart, three calls whose arguments come in any
order, a cut on every message of a round of three. The theorems below hold
without the bounds.

*Deadlock* is checked in every run but `versions` and `views`: where a turn, the
service or the bridge may stop, the model says so with a stuttering step (`Quiet`
for a turn or a bridge that is over, `Idle` for a service with every request
served). A project that its users leave alone and inputs that have reached their
length really stop, so these two runs do not check it.

### Properties of a turn

The transcript in the store is always one a provider accepts
(`StoredReplayable`); it holds the user's message and every finished call before
the model is asked again (`SavedBeforeAsking`); it is the whole of what the turn
recorded when the turn is over, however it ended (`FinalSaveComplete`), with a
stub for a call whose result frame the reader left at, since a result is recorded
once its frame is taken; it records as many results as the reader was handed, up
to that one frame (`ShownIsRecorded`, which counts; `StoredReplayable` says that
each stands behind its call); and no save takes back what an earlier one stored
(`SavesOnlyAdd`). The last one leaves out the time in which a save whose `await`
was cancelled is still under way: such a save can overwrite a later one with an
older transcript, which the code accepts.

No write precedes the attempt at the snapshot (`SnapshotBeforeWrite`; whether the
snapshot succeeds is the store's affair: a failure is logged and the turn goes
on). The number of requests is bounded by steps, retries and one rejection
together (`RequestsBounded`). Tool use is forced only on a stalled turn that has
tools and has not written (`ForcedOnlyWhenStalled`).

`TurnEvents` is the protocol's promise in eleven lines: the user's message first,
each call followed by its own result or by an error, one error at most, `done`
last. An error leaves a card open when a tool returned something that cannot be
encoded (see *Disagreements*). `Turn` implements it under the mapping `EventPhase` (what the frames handed out so far
say) and `called - told` (cards that are open). `TurnEnds` is its liveness half.

### Properties of the build service

`BuildsBounded` and `WaitOnlyWhenFull` together say that the semaphore neither
lets too many in nor loses a wake-up. `InstallsSerial` is what `node_modules`
depends on. `DepsResolve` relates what a request found missing when it looked to
what is there when it builds, with any number of other installs between; a
package whose install was killed half way is set aside, since the code does not
look again. `DirsOwned` says that each build directory has an owner. `Answered`
is liveness: neither the chain nor the gate strands a request.

### Properties of the file store

`AtomicFiles` is the contract in the docstring of `put_files`: a put takes effect
at one instant between call and return, or not at all if it fails; a get returns
the whole of the map. `AtomicUntilOverlap` says that the tree implements it. The
map is the one `live` stands for or, while there is no `live`, the one set aside;
a put takes effect with the rename of `staging`, so a kill between the two
renames leaves the old map, which `_recover` puts back, and a kill, a failed
`rmtree` or a failed rename anywhere else changes nothing that a get could see.
The action property lasts until a thread is started beside one whose call was
cancelled; `NeverHalfApplied` says without that proviso what the docstring says,
and is refuted. `OneThread` is the lock, threads of cancelled calls aside, and
`Served` its liveness half: until threads overlap, whatever is cancelled or fails
in the queue or in a thread, everyone who waits is let in, and every thread ends.

### Properties of the bridge

`Calls` is the promise of the comment on `bridgePreamble`: a call resolves once,
with the host's answer to it or an error, and always while its document is
loaded. `EveryCallItsAnswer` is the refinement, under a mapping in which a call that
resolved with the answer to another is in no state `Calls` has; `EveryCallSettles`
its liveness. `AnswersOnce` is the race of timer, handler, teardown and the next
bridge on the host's side; `TimersGuardRunning` says that neither a request is
left without its timer nor a timer outlives its bridge.

### Properties of the workspace

`TurnHeld` relates four things that change at different times (turns under way,
refs, state, rendered flag): at most one turn, and Stop reaches it.
`ShowsThisProject` sets what is shown against every answer that comes late; a
change of project while the chat is busy keeps the old transcript in the pane
(`useHarnessChat.ts:162`), and of that one it says nothing.
`OneRepairPerBuild` is what keeps the repair loop from running by itself, crashes
of earlier frames included. `BusyClears` is liveness: every turn gives the composer
back. `RepairFollows`, the promise of a repair for a failed build, is refuted.

### Properties of versions

`FilesMatchMessages`: two writes store what belongs together, in the project and
in its versions; a save that fails in the course of a turn is made good by the next.
They do come apart when two writers overlap, when a rollback is cut off between its
writes, when the last save of a turn fails or lacks the result its reader left at,
when a tool that failed or was given up has written, and when a save that was given
up lands after its turn. `UndoHoldsReplaced`: the undo on offer restores exactly what the
restore has replaced, through pruning, failures and other rollbacks.
`ShowsStore`: the explorer's tree agrees with the store once nothing is under way,
whichever of its reads came back late, unless its last read failed or a write came
after it of which nobody told the browser; so does its viewer, unless the last
answer was to a cancelled read.

### Properties of views

`DiffExact`: a diff holds every line of both texts once and in order, lines it
calls unchanged are equal, and below the limit of the table no common subsequence
is longer than they are; the hunks are exactly what lies within reach of a change. `SegmentsGrow`: while a text streams in every
segment but the last stays as it is, chips that are shown do not change, and a
block being written is never shown as text: from the word that completes a fence
the last segment is the loading one, until the fence is closed. `ReadsWhole`: the events are the same however the stream is cut.
`CardsAgree`: when the provider sends ids, live cards and those of a reload agree
between rounds.
`WindowLegal`: every rung leaves an end of the transcript, in a form a provider
accepts, first of all a user's message, and never more than the rung below; a rung
that drops messages may leave nothing of it, though not when a user's message
comes last. `RequestSurvives`, that the request being answered is part of it, is
refuted.

### Fairness

`Turn`: weak fairness of `Progress`: the generator runs on, a generation ends or
raises, a tool answers or runs into the loop's timeout (`TOOL_TIMEOUT_S`), the
store answers or raises. There is none for the reader, the abort signal, the
cancellation or a write that was given up. The model is assumed to end a
generation: the loop has no timeout of its own for it, and relies on the
provider's.

`Bundler`: weak fairness of `Work`: the event loop runs on, and an install or a
build ends because a timer kills it. Requests, kills, restarts and the end of a
removal are not forced to happen.

`FsStore`: weak fairness of each client's `Work`: `asyncio.Lock` lets waiters in
in the order they came, and a thread that was started runs to its end. Nobody is
obliged to call, to cancel or to fail.

`Bridge`: weak fairness of `FrameTimeout`: the timers of a document that stays
loaded fire. Nothing is assumed of the host, which need not have a bridge up, of
the handlers, which need not return, or of the messages.

`Client`: weak fairness of the end of each turn (the service ends every stream and
sends the headers of every response) and of `Render`. Reads and builds need not
come back, and nobody has to press anything. `BusyClears` therefore says nothing
of a response that hangs: the hook has no timeout of its own.

`Versions` and `Views` state no fairness and no liveness.

## What is proved

Every theorem but the four about `sanitize_history` is of the form
`Spec => []Property` (or `Spec => Property` for an action property), for all
values of the constants that satisfy the named assumptions of the module: bounds
that are natural numbers, at least one step, calls that parse or do not; stored
histories that are lists of messages, well-formed or not (`HistoriesAssumption`);
a finite set of requests, builds and installs apart; at least one version kept of
a kind; no more rungs than the ladder of `loop.py` has (`AttemptsAssumption`); for the diff
a limit of the table and an amount of context (`DiffAssumption`).

| theorem | argument |
|---|---|
| `HistoryProofs!SanitizedIsReplayable` | the repair of any list of messages is `Canonical`: what a provider accepts, with results of a repeated id equal; a repair is blocks, a message with its results or nothing, put one behind the other (`Upto`), and canonical blocks join |
| `HistoryProofs!SanitizeIdempotent` | a canonical transcript is its own repair: each of its blocks is (`BlockFixed`) |
| `HistoryProofs!SanitizeKeeps` | in a longer list the first result of a call is where it was (`AnswerKept`), so that every block stays, or has a result in place of a stub |
| `HistoryProofs!SanitizeCut` | what is cut off a canonical transcript orphans only the results at the front (`AnswerInFrom`, `BlockInFrom`) |
| `TurnProofs!TypeCorrect` | `TypeOK` is inductive: it says where a call is being handled (`Handling`) and where a step is under way (`InStep`), so that an index stays within the calls and a step within its bound |
| `TurnProofs!StoredReplayableHolds`, `SavesOnlyAddHolds` | `TranscriptInv`: what is stored, and what a late save is about to store, is the repair of a beginning of what the turn has recorded; with the theorems about the repair |
| `TurnProofs!SavedBeforeAskingHolds` | `SavedInv`: while no save was lost, the store has the repair of all that is recorded whenever a step begins, but for the preamble that was just nudged |
| `TurnProofs!ShownIsRecordedHolds` | `ShownInv`: results handed out and results recorded differ by the one that is taken, at every location and while unwinding |
| `TurnProofs!ForcedOnlyWhenStalledHolds` | `StalledInv`: the results recorded line up with the calls (`Settled`, and `InHand` for the generation in hand), so that a write that worked is one the turn has counted; the step after a nudge comes at once |
| `TurnProofs!SnapshotBeforeWriteHolds` | `SnapshotInv`: a mutating tool is only ever running once the snapshot was attempted, and a write that has landed belongs to one |
| `TurnProofs!RequestsBoundedHolds` | `RequestsInv`: requests never exceed the steps begun, the retries used and one if the forced choice was `Rejected`, with one of them unused outside the wait for the model |
| `TurnProofs!FinalSaveCompleteHolds` | `FinalSaveInv`: from the last save on, the store holds the repaired transcript unless a save was lost |
| `TurnProofs!EventsInOrderHolds` | refinement of `TurnEvents`: `EventsInv` fixes, for every location, which frames can have been the last (`LastFrames`), and every step maps to a step of `TurnEvents` or to a stutter |
| `BundlerProofs!TypeCorrect`, `BuildsBoundedHolds`, `WaitOnlyWhenFullHolds` | `GateInv`: permits in the pool and permits held add up to the capacity, the waiters are exactly the requests in `waiting`, once each, and there are none while the pool has a permit |
| `BundlerProofs!InstallsSerialHolds` | `JobsInv` with `InstallsSerial` itself: a request has a task in the chain that is not settled just when it is queued, and only one |
| `BundlerProofs!DepsResolveHolds` | `DepsInv`: what a queued build declared resolves, is spoiled or is still on its list, and what a build past the installs declared resolves or is spoiled |
| `BundlerProofs!DirsOwnedHolds` | `DirsInv`: a build past its writing has its directory, and only those of answered requests are being removed |
| `FsStoreProofs!TypeCorrect` | `TypeOK`, with `JobInv`: a thread is only ever at a place that its job leads to |
| `FsStoreProofs!OneThreadHolds` | `LockInv`: the holder of the lock is the only client whose thread runs and is not abandoned |
| `FsStoreProofs!AtomicUntilOverlapHolds` | refinement of `AtomicFiles`: without overlap at most one thread runs (`Alone`), and `TreeInv` says for each of its places what the three trees hold, so that every step maps to a step of `AtomicFiles` or to a stutter |
| `BridgeProofs!TypeCorrect`, `TimersGuardRunningHolds`, `AnswersOnceHolds` | `Dispatched`: what the host takes a call for agrees with what it has posted, and every running request belongs to a bridge |
| `BridgeProofs!EveryCallItsAnswerHolds` | refinement of `Calls`: `Distinct` (no two calls were sent under one id) and `Addressed` (a reply on its way carries the id of its own call, or one that nobody waits for) |
| `ClientProofs!TypeCorrect`, `TurnHeldHolds` | `Held`: a turn under way keeps the pane busy by the ref or by what is rendered, after a change of project has cleared the ref too |
| `ClientProofs!OneRepairPerBuildHolds` | `Reported`: a turn sent to repair the present build has used up the report of the present key |
| `ClientProofs!ShowsThisProjectHolds` | `Current`: the one read that is waited for is of this project |
| `VersionsProofs!TypeCorrect`, `FilesMatchMessagesHolds` | `Matched`: what a writer has in hand agrees with the store, and a stored conversation lags behind by what the turn has yet to save, until `torn` |
| `VersionsProofs!UndoHoldsReplacedHolds` | `UndoKept`: an undo version stays until `Keep` others have followed, and holds what its rollback replaced; on lemmas about pruning by least id (`LeastId`, `FewNewer`, `NewerUndos`) |
| `VersionsProofs!ShowsStoreHolds` | `Fresh`: whatever has changed the files is still to be told to the browser, or is what its last read has found or will find |
| `ViewsProofs!WindowLegalHolds` | `LogInv`: the transcript a turn grows is canonical and begins with the user; then `SanitizeCut` says what is left of it on each rung (`FitIsEnd`), and that a lower rung drops at least as much (`DroppedGrows`) |
| `ViewsProofs!ReadsWholeHolds` | `StreamInv`: what was handed on are the events of all blocks of the stream but the last, which is buffered; a further chunk changes no block but the last (`BlocksPut`, `BlocksReplace`), and normalising piece by piece is normalising the whole (`NormalOfSent`) |
| `ViewsProofs!SegmentsGrowHolds` | one more word moves no fence and no closing tick that was there (`WordMore`); from each position on, backwards, all segments but the last are kept (`ParseGrows`), and where the last segment loads a fence is open at the end of the text, which only a tick closes (`ParseLoads`, `LoadsBehind`) |
| `ViewsProofs!CardsAgreeHolds` | `CardsInv`, under `provided`: each card is that of an announced call, as it is stored, or of an entry that waits (`Matched`); a call leaves at most as many entries as calls to come (`PendingInv`); arguments in order put every call at the head of what waits (`CountedDown`) |
| `ViewsProofs!DiffExactHolds` | the walk from each cell on is a diff of what is left of both sides (`Part`) with as many lines unchanged as the table says (`WalkIsDiff`), and no common subsequence is longer than that (`TableBounds`), nor with what was trimmed put back (`TrimBound`); the scan of the hunks has covered, at each line, just what the changes so far reach or, with a hunk open, all that is in reach (`ScanInv`) |

Each part of an invariant was checked by TLC on the run's instance before it was
proved. What the parts need of each other decides how they are put together.
`TranscriptInv` says more than `StoredReplayable`, since one save can be on its
way while another is done: it relates both to what is recorded, of which they are
beginnings, and `SanitizeKeeps` says how two beginnings differ. `SavedInv`,
`ShownInv` and `StalledInv` build on it, each by itself. `IInv` in `BundlerProofs`
is the conjunction of its parts because they need each other: a task that
settles moves its request on to the gate, and an acquire at the gate depends on
the request not being there already. In `FsStoreProofs` the three parts of the
lock and the job hold always, and `TreeInv` until threads overlap, after which the
refinement has nothing left to show. In `VersionsProofs` the properties of the
store and of the browser share `Typed` and `KeepsFew` (at most `Keep` versions of
a kind, each with an id of its own).

*Functions on sequences.* What a recursive function makes of every input is
proved by least counterexample: `LeastNatural` in `HistoryProofs` follows from the
library's theorem that `<` is well-founded on the naturals, and `Induction`,
`StrongInduction` and `Downward` follow from it for a set of numbers, which is
then the set of lengths or positions at which the claim holds. That a recursive
function has the values its definition says is proved the same way, once for each
(`UptoSteps`, `TakenSteps`, `CutSteps`, `ParseSteps`, `ItemsSteps`, `ScanSteps`);
for the table of the diff and the walk through it, over pairs, by a rank that
falls at every step (`Solvable`, `RankInduction`). The modules
proved about define recursion by functions for that reason.

`SavedBeforeAsking` is stated as narrowly as it is true: the one thing that a
step may find unsaved is the preamble of the step that was nudged, which the code
appends without a save.

*Only model-checked:* the liveness properties (`TurnEnds`, `Answered`, `Served`,
`EveryCallSettles`, `BusyClears`), which rest on fairness.

## Disagreements

* `turn_text`: `spec/message-format.md:91-92` says that an interruption never
  loses more than the in-flight token. A reader who leaves while the model
  streams unwinds `run_turn` past the line that makes the generation's text a
  message (`loop.py:801`), so that none of the generation is saved.
* `turn_cancel`: the comment at `loop.py:936-938` says that a cancellation must
  propagate so that the server can tear the response down. One that arrives
  during the `await` of a save is swallowed there (`loop.py:565-566`), and the turn
  goes on to ask the model.
* `fsstore_stray`: the docstring of `put_files` (`stores.py:113-114`) says that a
  partial application must never be observable by a concurrent reader. Cancelling
  the caller of a put (`execute_tool` does when a tool runs into its timeout, the
  server when the reader of a turn is gone) releases the project's
  lock while the put's thread runs on (`stores.py:887-888`); a get that is let in
  then can list the keys of one tree and read the files of another, or walk a tree
  on its way out. `SQLiteProjectStore` takes a lock within its thread, and does
  not have the problem.
* `client_repair`: `docs/architecture.md:101-103` and the comment at
  `useHarnessChat.ts:457-458` say that the preview holds its repair until the turn
  is over. A failed build that is reported while a turn runs uses up the report of
  its key (`useHarnessPreview.ts:117-118`), the pane drops it
  (`ChatPane.tsx:158`), and nothing sends it later.
* `views_request`: the comment at `history.py:889-890` says that the request being
  answered survives every rung. `_drop_oldest` keeps the last message only if it is
  the user's (`history.py:899`); after the first round of calls it is not, and a rung
  that drops can leave the request out of what the model is sent.

* `turn`: the docstring of `execute_tool` (`loop.py:339`) says that one bad tool must
  never kill the turn, the comment at `loop.py:856-858` that a card is always resolved,
  and `sse.py:68-69` that `default=str` keeps an exotic value from killing the stream.
  A value that `json.dumps` rejects all the same (a mapping whose key is a tuple, a
  value that contains itself) makes the result's frame raise (`loop.py:893`): the turn
  ends with `error` and `done`, and the card stays open. `EventsInOrder` holds because
  `TurnEvents` grants an error in the phase `calling`; without that disjunct of
  `Fail` TLC refutes it.
* `views`: the comment at `items.ts:165-166` says that a reloaded page shows the cards
  of the live stream. For a provider that sends no ids the loop numbers the calls of
  each round anew (`loop.py:836`); live, a result then patches every card of that id
  (`useHarnessChat.ts:210-216`), on a reload the first (`items.ts:247-250`), and a
  second round whose call fails where the first one's did not tells the two apart.
  `CardsAgree` has the premise `provided`; without it TLC refutes it in six steps.

Seen while modelling, without a run:

* the docstring of `truncate_tool_results` keeps the fresh results of the turn
  whole, but the loop passes the whole transcript (`loop.py:720`), so they are cut
  like the old ones;
* `runTurn`'s `finally` (`useHarnessChat.ts:413-414`) clears the refs of whichever
  turn is the present one; only the rendered flag in `ChatPane` keeps a second
  turn from being it;
* the answer to a read that was overtaken does not reach the explorer's tree, but the
  viewer opens files from it: `loadProject` sets `filesRef` (`useHarnessFiles.ts:170-173`)
  before the effect looks at `cancelled` (line 208), and `read` takes what is there;
* a save that fails is passed over (`loop.py:567-568`): if it is the last one of a turn,
  or a tool that was given up writes after it, files and messages are left apart;
* a rollback that fails after `put_files` leaves the files of one version with the
  messages of another, and the client is not told; `restore` is not held back while
  a turn runs;
* `useHarnessFiles` keeps the offered undo over a change of project, and
  `loadVersions` takes an answer that comes late.

## Not modelled

What a prompt, a query or a frame contains; telemetry and logging; what a build
puts out; request parsing and limits on sizes; the bundler's `close()` (`index.ts:978-981`); an answer on which
the frame's `unwrap` throws (`preview.ts:254`); the button that asks for a fix by
hand (`PreviewPane.tsx:128`); the numbers of the lines in a hunk; time other than as a choice
between an answer and a timeout; attachments, cache marks and the shortening of
texts.

*Connectors.* The server half keeps caches of schemas and tools with a lifetime;
the rest of it is queries. The client half (`connectors-mcp.ts`) forwards one
request and keeps nothing; to `Bridge` it is a handler like any other, and the
preamble it carries is the one `Bridge` models.

*`SQLiteProjectStore`* runs each operation in one transaction under a lock that its
thread takes, and is what `AtomicFiles` says.

*TypeScript without state.* About an eighth of the lines of TypeScript are
modelled. Most of the rest declare types of the protocol (`protocol.ts`), render
(`ChatPane.tsx`, `Changes.tsx`, `Builder.tsx`, icons, strings, markdown), put
together the text of an iframe's document, or are the examples: their mock
server plays back a script, and the demos show tables.

## What is left

* The connectors' caches, with the lock around the first load.
* Overlapping writers of one project: `Versions` records that they overlap (`torn`)
  and sets the outcome aside. What a turn and a rollback, or two turns, can leave
  in the store would be a property of its own, once the code says what is
  intended.
* The versions that are installed in the directory a build resolves from
  (`Bundler` knows packages by name, as `dependencyResolves` does).
