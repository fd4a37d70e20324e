------------------------------ MODULE Versions ------------------------------
(***************************************************************************)
(* The versions of a project: a turn that writes files, and the rollbacks  *)
(* of the router (py/.../config.py, tools/files.py, loop.py), against the  *)
(* explorer and the timeline in the browser that ask for them and show     *)
(* what comes of them (useHarnessFiles.ts, VersionTimeline.tsx).           *)
(*                                                                         *)
(* What a file map holds, and a conversation, is the set of tool calls     *)
(* whose effect, or whose result, is in it.  A step is what runs between   *)
(* two awaits.                                                             *)
(***************************************************************************)
EXTENDS Integers, FiniteSets

CONSTANTS
  Keep,               \* snapshots kept of a kind
  MaxWrites,          \* bound: files written
  MaxTurns,           \* bound: turns
  MaxRollbacks,       \* bound: rollbacks asked for
  MaxReads,           \* bound: reads of the project under way
  MaxLate             \* bound: writes that were given up and may land yet

ASSUME KeepAssumption   == Keep \in Nat \ {0}
ASSUME BoundsAssumption == /\ MaxWrites \in Nat /\ MaxTurns \in Nat
                           /\ MaxRollbacks \in Nat /\ MaxReads \in Nat /\ MaxLate \in Nat

VARIABLES
  \* the store
  files, messages,    \* of the project
  snapshots, taken,   \*   and its versions; how many there were
  late,               \* writes nobody waits for any more, which may land yet
  \* the turn
  turns, writes,      \* how many there were, of calls too
  turn,               \* how far it has come
  mine,               \* the conversation it keeps
  before,             \* files and messages when it began; files a tool has read
  \* the rollbacks, by number
  asked, stage,
  id, target,         \* the version each restores, by its id and once it is read
  present, undoId,    \* what it has read of the present; the version made of it
  \* the browser
  undo,               \* the version that takes back the last restore, 0 if none
  pending,            \* the restore that is waited for, 0 if none
  view,               \* the files of the explorer's tree
  ref,                \*   and those its viewer opens a file from (filesRef)
  wanted, reads,      \* they are to be read again; reads under way
  events,             \* results of tools on their way
  \* history
  was,                \* what each rollback replaced
  torn,               \* files and conversation may have come apart
  missed,             \* the browser is not told of a write its last read lacks
  stale               \* the last answer to come was to a read that was cancelled

store   == <<files, messages, snapshots, taken, late>>
writer  == <<turns, writes, turn, mine, before>>
rolling == <<asked, stage, id, target, present, undoId>>
shown   == <<view, ref, stale>>
browser == <<undo, pending, shown, wanted, reads, events>>
vars    == <<store, writer, rolling, browser, was, torn, missed>>

Rollbacks == 1..MaxRollbacks
Call      == 1..MaxWrites
Version(f, m) == [files |-> f, messages |-> m]
Empty     == Version({}, {})
Put(f)    == [of |-> "files", at |-> f]
Save(m)   == [of |-> "messages", at |-> m]
Running   == {r \in Rollbacks : stage[r] \notin {"none", "over"}}
Named(nr) == {s \in snapshots : s.id = nr}

Init ==
  /\ files = {} /\ messages = {} /\ snapshots = {} /\ taken = 0 /\ late = {}
  /\ turns = 0 /\ writes = 0 /\ turn = "none" /\ mine = {}
  /\ before = Empty
  /\ asked = 0 /\ stage = [r \in Rollbacks |-> "none"]
  /\ id = [r \in Rollbacks |-> 0] /\ undoId = [r \in Rollbacks |-> 0]
  /\ target = [r \in Rollbacks |-> Empty]
  /\ present = [r \in Rollbacks |-> Empty]
  /\ undo = 0 /\ pending = 0 /\ view = {} /\ ref = {}
  /\ wanted = TRUE /\ reads = {} /\ events = 0
  /\ was = [r \in Rollbacks |-> Empty] /\ torn = FALSE
  /\ missed = FALSE /\ stale = FALSE

New(kind, f, m) == [id |-> taken + 1, kind |-> kind, files |-> f, messages |-> m]

\* Those of the kind that have at least `n' newer ones.
Behind(kind, n) == {s \in snapshots : /\ s.kind = kind
    /\ Cardinality({t \in snapshots : t.kind = kind /\ t.id > s.id}) >= n}

\* Mutation: it is pruned before the new one is there.
CreateSnapshotPruneFirst(kind, f, m) ==
  /\ taken' = taken + 1
  /\ snapshots' = (snapshots \ Behind(kind, Keep)) \cup {New(kind, f, m)}

\* Kept are the last `Keep' of the kind; the new one is among them.
CreateSnapshot(kind, f, m) ==
  /\ taken' = taken + 1
  /\ snapshots' = (snapshots \ Behind(kind, Keep - 1)) \cup {New(kind, f, m)}

-----------------------------------------------------------------------------
(***************************************************************************)
(* A turn.                                                                 *)
(***************************************************************************)
Begin ==
  /\ turn = "none" /\ turns < MaxTurns /\ turns' = turns + 1
  /\ turn' = "thinking" /\ mine' = messages /\ before' = Version(files, messages)
  /\ torn' = (torn \/ Running # {})
  /\ UNCHANGED <<store, writes, rolling, browser, was, missed>>

\* Mutation: the files are those the tool is about to change.
PreTurnLate(f) == CreateSnapshot("pre-turn", f \cup {writes + 1}, before.messages)

PreTurn(f) == CreateSnapshot("pre-turn", before.files, before.messages)

\* What the turn held is gone.
Forget == turn' = "none" /\ mine' = {} /\ before' = Empty

\* Before its first write a turn takes a snapshot, as well as it can; then the
\* tool reads the whole map.  `before' holds what it has read from here on.
ReadFiles ==
  /\ turn \in {"thinking", "writing"} /\ writes < MaxWrites
  /\ turn' = "read" /\ before' = [before EXCEPT !.files = files]
  /\ IF turn = "thinking" THEN PreTurn(files) \/ UNCHANGED <<snapshots, taken>>
                          ELSE UNCHANGED <<snapshots, taken>>
  /\ UNCHANGED <<files, messages, late, turns, writes, mine, rolling, browser,
                 was, torn, missed>>

\* The whole map is put back, with the tool's own file in it.
Written == before.files \cup {writes + 1}

GiveUp(ops) == late' = late \cup ops /\ Cardinality(late') <= MaxLate

\* The tool has written, and its result is sent and kept.
WriteFiles ==
  /\ turn = "read" /\ turn' = "written" /\ writes' = writes + 1
  /\ files' = Written /\ mine' = mine \cup {writes'} /\ events' = events + 1
  /\ UNCHANGED <<messages, snapshots, taken, late, turns, before, rolling, undo,
                 pending, shown, wanted, reads, was, torn, missed>>

\* The tool raises, having written or not, or is given up while it writes; it is
\* answered with an error, at which nobody reads the files again.
ToolFails ==
  /\ turn = "read" /\ turn' = "written" /\ writes' = writes + 1
  /\ \/ files' \in {files, Written} /\ UNCHANGED late
     \/ GiveUp({Put(Written)}) /\ UNCHANGED files
  /\ torn' = (torn \/ files' # files) /\ missed' = (missed \/ files' # files)
  /\ UNCHANGED <<messages, snapshots, taken, turns, mine, before, rolling,
                 browser, was>>

\* _persist: a save that raises is passed over; one that is cancelled is too,
\* and goes on behind its shield.
Persist(m, ops) ==
  \/ messages' \in {messages, m} /\ GiveUp(ops)
  \/ GiveUp(ops \cup {Save(m)}) /\ UNCHANGED messages

\* After every tool the conversation is saved whole.
SaveMessages ==
  /\ turn = "written" /\ turn' = "writing" /\ Persist(mine, {})
  /\ UNCHANGED <<files, snapshots, taken, turns, writes, mine, before, rolling,
                 browser, was, torn, missed>>

\* At the end it is saved once more.
End ==
  /\ turn \in {"thinking", "writing"} /\ Forget /\ Persist(mine, {})
  /\ torn' = (torn \/ messages' # mine)
  /\ UNCHANGED <<files, snapshots, taken, turns, writes, rolling, browser, was,
                 missed>>

\* The user stops it: results on their way are not read any more.  A tool that
\* was writing is given up, and a result that has not been kept is lost.
StopTurn ==
  /\ turn # "none" /\ Forget
  /\ missed' = (missed \/ events > 0) /\ events' = 0
  /\ writes' = IF turn = "read" THEN writes + 1 ELSE writes
  /\ \E ops \in SUBSET (IF turn = "read" THEN {Put(Written)} ELSE {}),
        m \in {mine} \cup (IF turn = "written" THEN {mine \ {writes}} ELSE {}) :
       Persist(m, ops)
  /\ torn' = (torn \/ messages' # mine)
  /\ UNCHANGED <<files, snapshots, taken, turns, rolling, undo, pending, shown,
                 wanted, reads, was>>

\* A write that was given up lands after all.  A save is put right by the next
\* one while a turn is under way.
Land(op) ==
  /\ op \in late /\ late' = late \ {op}
  /\ files' = IF op.of = "files" THEN op.at ELSE files
  /\ messages' = IF op.of = "messages" THEN op.at ELSE messages
  /\ torn' = (torn \/ files' # files \/ (turn = "none" /\ messages' # messages))
  /\ missed' = (missed \/ files' # files)
  /\ UNCHANGED <<snapshots, taken, writer, rolling, browser, was>>

-----------------------------------------------------------------------------
(***************************************************************************)
(* Rollbacks: the handler of POST /projects/{id}/rollback.                 *)
(***************************************************************************)
Ask(nr) ==
  /\ asked < MaxRollbacks /\ asked' = asked + 1
  /\ stage' = [stage EXCEPT ![asked'] = "asked"]
  /\ id' = [id EXCEPT ![asked'] = nr]
  /\ torn' = (torn \/ turn # "none" \/ Running # {})
  /\ UNCHANGED <<target, present, undoId>>

\* A version is picked in the timeline, which lists those of before a turn, and
\* lets one restore run at a time.
Restore ==
  /\ pending = 0
  /\ \E s \in snapshots : s.kind = "pre-turn" /\ Ask(s.id)
  /\ pending' = asked'
  /\ UNCHANGED <<store, writer, undo, shown, wanted, reads, events, was, missed>>

\* The last restore is to be taken back.  The offer goes before the answer is
\* there, and nothing keeps this from a restore that is running.
UndoRestore ==
  /\ undo # 0 /\ undo' = 0 /\ Ask(undo)
  /\ UNCHANGED <<store, writer, pending, shown, wanted, reads, events, was, missed>>

Dismiss ==
  /\ undo # 0 /\ undo' = 0
  /\ UNCHANGED <<store, writer, rolling, pending, shown, wanted, reads, events,
                 was, torn, missed>>

Becomes(r, next) == stage' = [stage EXCEPT ![r] = next]

\* The handler is left: what it had read is gone.
Leave(r) ==
  /\ Becomes(r, "over")
  /\ target' = [target EXCEPT ![r] = Empty] /\ present' = [present EXCEPT ![r] = Empty]
  /\ UNCHANGED <<asked, id, undoId>>

\* One that was pruned meanwhile is not found, and the rollback fails.
Find(r) ==
  /\ stage[r] = "asked" /\ Becomes(r, "found")
  /\ \E s \in Named(id[r]) : target' = [target EXCEPT ![r] = Version(s.files, s.messages)]
  /\ UNCHANGED <<store, writer, asked, id, present, undoId, browser, was, torn, missed>>

SeeFiles(r) ==
  /\ stage[r] = "found" /\ Becomes(r, "half")
  /\ present' = [present EXCEPT ![r].files = files]
  /\ UNCHANGED <<store, writer, asked, id, target, undoId, browser, was, torn, missed>>

SeeMessages(r) ==
  /\ stage[r] = "half" /\ Becomes(r, "seen")
  /\ present' = [present EXCEPT ![r].messages = messages]
  /\ UNCHANGED <<store, writer, asked, id, target, undoId, browser, was, torn, missed>>

\* Mutation: the version is made of what is restored.
KeepTarget(r) == CreateSnapshot("undo", target[r].files, target[r].messages)

KeepPresent(r) == CreateSnapshot("undo", present[r].files, present[r].messages)

TakeUndo(r) ==
  /\ stage[r] = "seen" /\ Becomes(r, "kept")
  /\ KeepPresent(r) /\ undoId' = [undoId EXCEPT ![r] = taken']
  /\ UNCHANGED <<files, messages, late, writer, asked, id, target, present, browser,
                 was, torn, missed>>

PutFiles(r) ==
  /\ stage[r] = "kept" /\ Becomes(r, "put")
  /\ files' = target[r].files
  /\ was' = [was EXCEPT ![r] = Version(files, messages)]
  /\ UNCHANGED <<messages, snapshots, taken, late, writer, asked, id, target,
                 present, undoId, browser, torn, missed>>

PutMessages(r) ==
  /\ stage[r] = "put" /\ Becomes(r, "saved")
  /\ messages' = target[r].messages
  /\ UNCHANGED <<files, snapshots, taken, late, writer, asked, id, target,
                 present, undoId, browser, was, torn, missed>>

\* bumpRebuild: what is shown is stale; a read that is under way is cancelled.
Bump == wanted' = TRUE /\ reads' = {[r EXCEPT !.cancelled = TRUE] : r \in reads}

\* The answer: the panes are told.  Only a restore offers to be taken back.
Answer(r) ==
  /\ stage[r] = "saved" /\ Leave(r) /\ Bump
  /\ IF pending = r THEN undo' = undoId[r] /\ pending' = 0 ELSE UNCHANGED <<undo, pending>>
  /\ UNCHANGED <<store, writer, shown, events, was, torn, missed>>

\* A step of the handler raises, or the answer is lost: nobody is told.
Fail(r) ==
  /\ r \in Running /\ Leave(r)
  /\ pending' = IF pending = r THEN 0 ELSE pending
  /\ torn' = (torn \/ stage[r] = "put")
  /\ missed' = (missed \/ stage[r] \in {"put", "saved"})
  /\ UNCHANGED <<store, writer, undo, shown, wanted, reads, events, was>>

-----------------------------------------------------------------------------
(***************************************************************************)
(* What the browser shows.                                                 *)
(***************************************************************************)
\* A result of a tool arrives.
Told ==
  /\ events > 0 /\ events' = events - 1 /\ Bump
  /\ UNCHANGED <<store, writer, rolling, undo, pending, shown, was, torn, missed>>

ReadProject ==
  /\ wanted /\ wanted' = FALSE /\ Cardinality(reads) < MaxReads
  /\ reads' = reads \cup {[cancelled |-> FALSE, files |-> files]} /\ missed' = FALSE
  /\ UNCHANGED <<store, writer, rolling, undo, pending, shown, events, was, torn>>

\* The viewer is asked for a file of the tree that it does not have: it reads
\* the project for itself, unless a read is under way that it can share.
Open ==
  /\ view \ ref # {} /\ (\A r \in reads : r.cancelled) /\ Cardinality(reads) < MaxReads
  /\ reads' = reads \cup {[cancelled |-> TRUE, files |-> files]}
  /\ UNCHANGED <<store, writer, rolling, undo, pending, shown, wanted, events,
                 was, torn, missed>>

\* Mutation: an answer is taken whichever read it is to.
ShownLate(r) == view' = r.files

\* An answer to a read that was cancelled does not reach the tree.
Shown(r) == view' = IF r.cancelled THEN view ELSE r.files

\* The viewer has it all the same: the ref is set before that is looked at.
Arrive(r) ==
  /\ r \in reads /\ reads' = reads \ {r} /\ Shown(r)
  /\ ref' = r.files /\ stale' = r.cancelled
  /\ UNCHANGED <<store, writer, rolling, undo, pending, wanted, events,
                 was, torn, missed>>

\* The read fails: what is shown stays.
ReadFails(r) ==
  /\ r \in reads /\ reads' = reads \ {r}
  /\ missed' = (missed \/ ~r.cancelled)
  /\ UNCHANGED <<store, writer, rolling, undo, pending, shown, wanted, events,
                 was, torn>>

Next ==
  \/ Begin \/ ReadFiles \/ WriteFiles \/ ToolFails \/ SaveMessages \/ End \/ StopTurn
  \/ Restore \/ UndoRestore \/ Dismiss \/ Told \/ ReadProject \/ Open
  \/ \E r \in Rollbacks : \/ Find(r) \/ SeeFiles(r) \/ SeeMessages(r) \/ TakeUndo(r)
                         \/ PutFiles(r) \/ PutMessages(r) \/ Answer(r) \/ Fail(r)
  \/ \E r \in reads : Arrive(r) \/ ReadFails(r)
  \/ \E op \in late : Land(op)

Spec == Init /\ [][Next]_vars
=============================================================================
