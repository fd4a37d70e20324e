------------------------------- MODULE Client -------------------------------
(***************************************************************************)
(* The workspace in the browser: one chat pane and one preview pane, which *)
(* the host points at one project after another, and the bus between them. *)
(* packages/spec_harness/src/react: useHarnessChat.ts, useHarnessPreview.ts*)
(* and the parts of context.tsx, ChatPane.tsx and PreviewPane.tsx that     *)
(* join them.                                                              *)
(*                                                                         *)
(* An action is what runs between two awaits, with the effects its state   *)
(* changes set off.  Only the flag that shows that a turn is running is    *)
(* rendered in a step of its own (Render): guards are read from both.      *)
(* Error bubbles are left out of the log: they name no project.            *)
(***************************************************************************)
EXTENDS Integers, FiniteSets

CONSTANTS
  Project,
  First,              \* the project the panes are mounted with
  MaxTurns,           \* bound: turns sent
  MaxBumps,           \* bound: rebuild keys handed out
  MaxMoves            \* bound: how often the host changes the project

ASSUME ProjectAssumption == First \in Project
ASSUME BoundsAssumption  == MaxTurns \in Nat /\ MaxBumps \in Nat /\ MaxMoves \in Nat

VARIABLES
  project, moves,     \* the panes' project; how often it has changed
  \* the chat
  sent,               \* turns sent
  turn,               \* how far each has come
  of,                 \* the project it was sent for
  stopped,            \* turns whose signal is aborted and that are not over
  about,              \* the build whose failure a turn was sent to repair
  busyRef, abortRef,  \* the refs of the hook; 0: no controller
  busy, shown,        \* its state, and as rendered and told to the bus
  items,              \* the projects whose conversation is in the log
  history, reads,     \* the last read of the history, and those under way
  visit,              \*   by number
  \* the preview
  seq, keys,          \* the rebuild keys handed out; that of each project
  build, builds,      \* the last build asked for; those under way
  building,
  frame,              \* the document in the frame and the build it is from
  crashed,            \* a report is on the way from the frame that is mounted
  firedFor            \* the key whose failure has been reported

chat    == <<sent, turn, of, stopped, about, busyRef, abortRef, busy>>
log     == <<items, history, reads, visit>>
preview == <<seq, keys, build, builds, building, frame, crashed, firedFor>>
vars    == <<project, moves, chat, shown, log, preview>>

Turns == 1..MaxTurns
Live  == {n \in Turns : turn[n] \in {"headers", "streaming"}}
NoKey == <<"none", 0>>
Key   == <<project, keys[project]>>

Init ==
  /\ project = First /\ moves = 0
  /\ sent = 0 /\ turn = [n \in Turns |-> "none"] /\ of = [n \in Turns |-> First]
  /\ stopped = {} /\ about = [n \in Turns |-> [build |-> 0, key |-> NoKey]]
  /\ busyRef = FALSE /\ abortRef = 0 /\ busy = FALSE /\ shown = FALSE
  /\ items = {} /\ history = "loading" /\ visit = 1
  /\ reads = {[visit |-> 1, of |-> First]}
  /\ seq = 0 /\ keys = [p \in Project |-> 0]
  /\ build = 1 /\ builds = {1} /\ building = TRUE
  /\ frame = [doc |-> "empty", build |-> 0] /\ crashed = FALSE /\ firedFor = NoKey

-----------------------------------------------------------------------------
(***************************************************************************)
(* Turns.                                                                  *)
(***************************************************************************)
\* runTurn, as far as the first await; b is the build it is to repair.
RunTurn(b, key) ==
  /\ sent < MaxTurns
  /\ sent' = sent + 1
  /\ turn' = [turn EXCEPT ![sent + 1] = "headers"]
  /\ of' = [of EXCEPT ![sent + 1] = project]
  /\ about' = [about EXCEPT ![sent + 1] = [build |-> b, key |-> key]]
  /\ busyRef' = TRUE /\ abortRef' = sent + 1 /\ busy' = TRUE
  /\ items' = items \cup {project}
  /\ UNCHANGED stopped

\* Mutation: what is rendered is not consulted.
MaySendAtOnce == ~busyRef

\* The composer and the bus handler go by what is rendered, runTurn by the ref.
MaySend == ~shown /\ ~busyRef

Submit ==
  /\ MaySend
  /\ RunTurn(0, NoKey)
  /\ UNCHANGED <<project, moves, shown, history, reads, visit, preview>>

\* The auth headers are there, and the request goes out.
Ask(n) ==
  /\ turn[n] = "headers" /\ n \notin stopped
  /\ turn' = [turn EXCEPT ![n] = "streaming"]
  /\ UNCHANGED <<project, moves, sent, of, stopped, about, busyRef, abortRef,
                 busy, shown, log, preview>>

\* Nothing is read from the stream after the signal was aborted.
Streams(n) == turn[n] = "streaming" /\ n \notin stopped

Delta(n) ==
  /\ Streams(n)
  /\ items' = items \cup {of[n]}
  /\ UNCHANGED <<project, moves, chat, shown, history, reads, visit, preview>>

\* Mutation: a stopped turn returns before it is cleared away.
EndUnlessStopped(n) ==
  /\ n \in Live
  /\ turn' = [turn EXCEPT ![n] = "over"] /\ stopped' = stopped \ {n}
  /\ abortRef' = 0 /\ busyRef' = FALSE
  /\ busy' = IF n \in stopped THEN busy ELSE FALSE
  /\ UNCHANGED <<project, moves, sent, of, about, shown, log, preview>>

\* The stream ends, the request fails or was aborted: whatever happened, the
\* finally block clears what is there, its own or not.
End(n) ==
  /\ n \in Live
  /\ turn' = [turn EXCEPT ![n] = "over"] /\ stopped' = stopped \ {n}
  /\ abortRef' = 0 /\ busyRef' = FALSE /\ busy' = FALSE
  /\ UNCHANGED <<project, moves, sent, of, about, shown, log, preview>>

AbortTurn == stopped' = stopped \cup ({abortRef} \ {0})

Stop ==
  /\ AbortTurn
  /\ UNCHANGED <<project, moves, sent, turn, of, about, busyRef, abortRef, busy,
                 shown, log, preview>>

\* chatRef.current.busy and the flag on the bus follow the state.
Render ==
  /\ shown # busy /\ shown' = busy
  /\ UNCHANGED <<project, moves, chat, log, preview>>

-----------------------------------------------------------------------------
(***************************************************************************)
(* The transcript.                                                         *)
(***************************************************************************)
ReadHistory(p) ==
  /\ visit' = visit + 1 /\ history' = "loading"
  /\ reads' = reads \cup {[visit |-> visit', of |-> p]}

\* Mutation: a read that fails does not say that it is over.
HistoryFailsSilently(r) ==
  /\ r \in reads /\ reads' = reads \ {r}
  /\ IF r.visit # visit THEN UNCHANGED <<items, history>>
     ELSE \/ /\ ~busyRef /\ items' = {r.of} /\ history' = "shown"
          \/ UNCHANGED <<items, history>>
  /\ UNCHANGED <<project, moves, chat, shown, visit, preview>>

\* A read that was cancelled does nothing; one that meets a turn, or fails,
\* leaves the log as it is.
HistoryArrives(r) ==
  /\ r \in reads /\ reads' = reads \ {r}
  /\ IF r.visit # visit THEN UNCHANGED <<items, history>>
     ELSE \/ /\ ~busyRef /\ items' = {r.of} /\ history' = "shown"
          \/ UNCHANGED items /\ history' = "kept"
  /\ UNCHANGED <<project, moves, chat, shown, visit, preview>>

-----------------------------------------------------------------------------
(***************************************************************************)
(* The preview.                                                            *)
(***************************************************************************)
StartBuild ==
  build' = build + 1 /\ builds' = builds \cup {build'} /\ building' = TRUE

\* bumpRebuild: the preview builds if the project is the one it shows.
Bump(p) ==
  /\ seq < MaxBumps /\ seq' = seq + 1
  /\ keys' = [keys EXCEPT ![p] = seq']
  /\ IF p = project THEN StartBuild ELSE UNCHANGED <<build, builds, building>>
  /\ UNCHANGED <<frame, crashed, firedFor>>

\* A result of a tool that changed files.
Wrote(n) ==
  /\ Streams(n) /\ Bump(of[n])
  /\ UNCHANGED <<project, moves, chat, shown, log>>

Rebuild ==
  /\ Bump(project)
  /\ UNCHANGED <<project, moves, chat, shown, log>>

\* A restore of a version came back: rebuild, and read the history again.
Restored(p) ==
  /\ Bump(p)
  /\ IF p = project THEN ReadHistory(p) ELSE UNCHANGED <<visit, history, reads>>
  /\ UNCHANGED <<project, moves, chat, shown, items>>

\* Mutation: every failure is reported.
ReportAlways ==
  /\ firedFor' = Key
  /\ IF MaySend THEN RunTurn(build, Key) ELSE UNCHANGED <<chat, items>>

\* A failure is reported once per key, and a turn is asked for through the
\* bus; while a turn is running that is refused, and nobody asks again.
ReportOnce ==
  IF firedFor = Key THEN UNCHANGED <<firedFor, chat, items>>
  ELSE /\ firedFor' = Key
       /\ IF MaySend THEN RunTurn(build, Key) ELSE UNCHANGED <<chat, items>>

\* Mutation: the answer to a cancelled build is taken.
BuildReturnsLate(b, doc) ==
  /\ b \in builds /\ builds' = builds \ {b}
  /\ frame' = [doc |-> doc, build |-> b] /\ building' = (b # build /\ building)
  /\ IF doc = "broken" THEN ReportOnce ELSE UNCHANGED <<firedFor, chat, items>>
  /\ UNCHANGED <<project, moves, shown, history, reads, visit, seq, keys,
                 build, crashed>>

\* The build's answer: an app, an error in the code, or a fault of the service,
\* which is shown but not reported.  A cancelled build does nothing.
BuildReturns(b, doc) ==
  /\ b \in builds /\ builds' = builds \ {b}
  /\ IF b # build
     THEN UNCHANGED <<building, frame, firedFor, chat, items>>
     ELSE /\ building' = FALSE /\ frame' = [doc |-> doc, build |-> b]
          /\ IF doc = "broken" THEN ReportOnce ELSE UNCHANGED <<firedFor, chat, items>>
  /\ UNCHANGED <<project, moves, shown, history, reads, visit, seq, keys,
                 build, crashed>>

\* The app throws; its message does not say of which build it is.
Crash ==
  /\ frame.doc = "app" /\ crashed' = TRUE
  /\ UNCHANGED <<project, moves, chat, shown, log, seq, keys, build, builds,
                 building, frame, firedFor>>

\* The bridge takes the reports of the frame that is mounted, of whatever
\* document in it.
CrashArrives ==
  /\ crashed /\ crashed' = FALSE
  /\ ReportOnce
  /\ UNCHANGED <<project, moves, shown, history, reads, visit, seq, keys,
                 build, builds, building, frame>>

-----------------------------------------------------------------------------
\* The host shows another project in the same panes: the cleanups run, then
\* the effects.  The frame is a new one, and messages of the old one find no
\* bridge; but until the build is there it loads the document of the project
\* before, as the log shows its transcript.
Move(p) ==
  /\ moves < MaxMoves /\ p # project
  /\ project' = p /\ moves' = moves + 1
  /\ AbortTurn /\ abortRef' = 0 /\ busyRef' = FALSE /\ shown' = busy
  /\ ReadHistory(p) /\ StartBuild /\ crashed' = FALSE
  /\ UNCHANGED <<sent, turn, of, about, busy, items, seq, keys, frame,
                 firedFor>>

\* Nothing is under way, and the bounds are used up.
Quiet ==
  /\ sent = MaxTurns /\ Live = {} /\ shown = busy /\ moves = MaxMoves
  /\ UNCHANGED vars

Turn(n) == Ask(n) \/ Delta(n) \/ Wrote(n) \/ End(n)

Next ==
  \/ \E n \in Turns : Turn(n)
  \/ Submit \/ Stop \/ Render \/ Rebuild \/ Crash \/ CrashArrives
  \/ Quiet
  \/ \E r \in reads : HistoryArrives(r)
  \/ \E b \in builds, doc \in {"app", "broken", "fault"} : BuildReturns(b, doc)
  \/ \E p \in Project : Restored(p) \/ Move(p)

\* The service ends every stream and the host's headers come; React renders.
Fairness ==
  /\ \A n \in Turns : WF_vars(End(n))
  /\ WF_vars(Render)

Safe == Init /\ [][Next]_vars
Spec == Safe /\ Fairness
=============================================================================
