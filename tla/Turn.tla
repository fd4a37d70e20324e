-------------------------------- MODULE Turn --------------------------------
(***************************************************************************)
(* One chat turn: the async generator run_turn of                          *)
(* py/speculos_harness/speculos_harness/loop.py, with the model, the tools *)
(* and the store it calls, and the server task that iterates it.           *)
(*                                                                         *)
(* `pc' is where the generator is suspended.  It is suspended at a yield   *)
(* (the frame has been handed to the reader) or at an await.  The reader   *)
(* may close the generator at a yield; the task may be cancelled at an     *)
(* await.  The locations "step" and "answered" lie between two suspensions *)
(* and only split a long run of code into named pieces.                    *)
(*                                                                         *)
(* One turn runs here against the store; turns and rollbacks that share a  *)
(* project are left out.                                                   *)
(***************************************************************************)
EXTENDS History

CONSTANTS
  MaxSteps,           \* max_steps, at least 1
  MaxContextRetries,  \* MAX_CONTEXT_RETRIES
  Histories,          \* the transcripts a turn may find in the store
  CallSlots,          \* the calls a generation may make: [id, name, parses]
  MaxCalls,           \* bound: calls the model makes in the turn
  MaxText,            \* bound: text deltas in one generation
  MaxCancels,         \* bound: cancellations delivered to the task
  MaxLost             \* bound: saves that fail or are cut off

ASSUME StepsAssumption   == MaxSteps \in Nat \ {0}
ASSUME RetriesAssumption == MaxContextRetries \in Nat
ASSUME BoundsAssumption  == /\ MaxCalls \in Nat /\ MaxText \in Nat
                            /\ MaxCancels \in Nat /\ MaxLost \in Nat
ASSUME HistoriesAssumption == \A h \in Histories : IsTranscript(h)
ASSUME SlotsAssumption   == \A slot \in CallSlots : slot.parses \in BOOLEAN

VARIABLES
  pc,                 \* where the generator is
  after,              \* where it goes on after the save it is waiting for
  frame,              \* the event last handed to the reader
  plan,               \* plan_mode
  step,               \* _step
  retries,            \* context_attempt
  failure,
  unwinding,          \* a GeneratorExit or CancelledError is propagating
  nudged, nudgeStep,
  force,              \* force_tools
  mutated,            \* mutated_this_turn
  snapTaken,          \* snapshot_taken
  text,               \* deltas of text_parts that are not in msgs yet
  calls, ci,          \* the generation's calls, and the one being handled
  output,             \* the result of that call
  preMessages,        \* pre_turn_messages
  msgs,               \* new_messages
  aborted,            \* the AbortSignal
  stored,             \* the store: the project's messages,
  snapshots,          \*   how many pre-turn snapshots this turn added,
  dirty,              \*   whether a tool of this turn has changed the files
  landed,             \* the running tool's write is in the store
  stray,              \* a write whose tool was given up is still under way
  late,               \* saves whose await was cancelled, still under way
  cancels,            \* cancellations delivered so far
  lost,               \* saves that failed or whose await was cancelled
  requests,           \* how often the model was asked
  called, told        \* tool-call and tool-result frames handed out

where   == <<pc, after, frame>>
turn    == <<plan, step, retries, failure, unwinding>>
nudge   == <<nudged, nudgeStep, force>>
marks   == <<mutated, snapTaken>>
gen     == <<text, calls, ci, output>>
memory  == <<preMessages, msgs>>
files   == <<snapshots, dirty, landed, stray>>
saves   == <<stored, late, lost>>
outside == <<aborted, cancels>>
counts  == <<requests, called, told>>
vars    == <<where, turn, nudge, marks, gen, memory, files, saves, outside,
             counts>>

\* Suspended at a yield; "exec" is one too, at each keep-alive comment.
Yields == {"open", "announce", "stream", "call", "exec", "result", "note",
           "error", "crash"}
\* Suspended at an await outside _persist.
Awaits == {"load", "stream", "snapshot", "exec"}

\* Plan mode strips the registry.
Tools         == IF plan THEN {} ELSE {"read", "write"}
Mutates(name) == name = "write"          \* tool.mutates_files

-----------------------------------------------------------------------------
Init ==
  /\ pc = "open" /\ after = "ended" /\ frame = "none"
  /\ plan \in BOOLEAN
  /\ step = 0 /\ retries = 0 /\ failure = FALSE /\ unwinding = FALSE
  /\ nudged = FALSE /\ nudgeStep = -1 /\ force = FALSE
  /\ mutated = FALSE /\ snapTaken = FALSE
  /\ text = 0 /\ calls = <<>> /\ ci = 0 /\ output = "none"
  /\ preMessages = <<>> /\ msgs = <<>>
  /\ snapshots = 0 /\ dirty = FALSE /\ landed = FALSE /\ stray = FALSE
  /\ stored \in Histories /\ late = {} /\ lost = 0
  /\ aborted = FALSE /\ cancels = 0
  /\ requests = 0 /\ called = 0 /\ told = 0

\* The generator stands at `location', having handed out event `event'.
Yield(location, event) == pc' = location /\ frame' = event /\ UNCHANGED after

\* The generator goes on at `location' without handing anything out.
Go(location) == pc' = location /\ UNCHANGED <<after, frame>>

\* The card of a call, and its result.
ShowCall   == Yield("call", "tool-call") /\ called' = called + 1
ShowResult == Yield("result", "tool-result") /\ told' = told + 1

-----------------------------------------------------------------------------
\* Mutations of Persist: only the end of the turn saves; the finally does not.
PersistAtTheEnd(next) ==
  IF msgs' = <<>> \/ next \in {"step", "answered"} THEN Go(next)
  ELSE pc' = "saving" /\ after' = next /\ UNCHANGED frame

PersistNotFinally(next) ==
  IF msgs' = <<>> \/ next = "ended" THEN Go(next)
  ELSE pc' = "saving" /\ after' = next /\ UNCHANGED frame

(***************************************************************************)
(* _persist: saves the repaired transcript and goes on at `next' whether   *)
(* or not the save worked.  With nothing to save it returns at once.       *)
(***************************************************************************)
Persist(next) ==
  IF msgs' = <<>> THEN Go(next)
  ELSE pc' = "saving" /\ after' = next /\ UNCHANGED frame

\* Mutation: the transcript is saved as it is.
PayloadUnrepaired == msgs

Payload == SanitizeHistory(msgs)

SaveReturns ==
  /\ pc = "saving"
  /\ stored' = Payload
  /\ Go(after)
  /\ UNCHANGED <<turn, nudge, marks, gen, memory, files, late, lost, outside,
                 counts>>

SaveFails ==
  /\ pc = "saving" /\ lost < MaxLost
  /\ lost' = lost + 1
  /\ Go(after)
  /\ UNCHANGED <<turn, nudge, marks, gen, memory, files, stored, late, outside,
                 counts>>

\* The shield keeps the save going and _persist swallows the CancelledError.
SaveCancelled ==
  /\ pc = "saving" /\ cancels < MaxCancels /\ lost < MaxLost
  /\ cancels' = cancels + 1
  /\ lost' = lost + 1
  /\ late' = late \cup {[nr |-> cancels, payload |-> Payload]}
  /\ Go(after)
  /\ UNCHANGED <<turn, nudge, marks, gen, memory, files, stored, aborted,
                 counts>>

\* A shielded save finishes on its own, in any order with later saves.
LateSaveLands ==
  \E job \in late :
    /\ late' = late \ {job}
    /\ stored' = job.payload
    /\ UNCHANGED <<where, turn, nudge, marks, gen, memory, files, lost,
                   outside, counts>>

-----------------------------------------------------------------------------
(***************************************************************************)
(* The start of the turn.                                                  *)
(***************************************************************************)
Open ==
  /\ pc = "open"
  /\ Go("load")
  /\ UNCHANGED <<turn, nudge, marks, gen, memory, files, saves, outside, counts>>

\* Mutation: the history is not carried over.
InitialMessagesFresh == <<User("text")>>

\* The repaired history, then the user's message.
InitialMessages == Append(SanitizeHistory(stored), User("text"))

\* The project, its files and its messages are read, the tools and the prompt
\* assembled, and user-message is sent.
Load ==
  /\ pc = "load"
  /\ preMessages' = SanitizeHistory(stored)
  /\ msgs' = InitialMessages
  /\ Yield("announce", "user-message")
  /\ UNCHANGED <<turn, nudge, marks, gen, files, saves, outside, counts>>

\* A store or a provider that raises while the turn is set up.
LoadFails ==
  /\ pc = "load"
  /\ Yield("crash", "error")
  /\ UNCHANGED <<turn, nudge, marks, gen, memory, files, saves, outside, counts>>

Announced ==
  /\ pc = "announce"
  /\ UNCHANGED msgs
  /\ Persist("step")
  /\ UNCHANGED <<turn, nudge, marks, gen, preMessages, files, saves, outside,
                 counts>>

\* After the loop: the error frame if there was a failure, then the last save.
LeaveLoop(failed) == IF failed THEN Yield("error", "error") ELSE Persist("ending")

ForceTools == nudged /\ step = nudgeStep + 1 /\ Tools # {}

\* The model is asked, after a note if the transcript had to be shrunk.
Ask == /\ pc' = "stream" /\ frame' \in {frame, "text-delta"} /\ UNCHANGED after
       /\ requests' = requests + 1

\* The top of the step loop.
BeginStep ==
  /\ pc = "step" /\ step < MaxSteps /\ ~aborted
  /\ Ask
  /\ force' = ForceTools
  /\ text' = 0 /\ calls' = <<>>
  /\ UNCHANGED <<turn, nudged, nudgeStep, marks, ci, output, memory, files,
                 saves, outside, called, told>>

StopAborted ==
  /\ pc = "step" /\ step < MaxSteps /\ aborted
  /\ UNCHANGED msgs
  /\ LeaveLoop(failure)
  /\ UNCHANGED <<turn, nudge, marks, gen, preMessages, files, saves, outside,
                 counts>>

\* The range is used up: the else branch of the loop says so.
StepCap ==
  /\ pc = "step" /\ step = MaxSteps
  /\ Yield("note", "text-delta")
  /\ UNCHANGED <<turn, nudge, marks, gen, memory, files, saves, outside, counts>>

-----------------------------------------------------------------------------
(***************************************************************************)
(* The generation.                                                         *)
(***************************************************************************)
Produced == text > 0 \/ calls # <<>>

TextDelta ==
  /\ pc = "stream" /\ text < MaxText
  /\ text' = text + 1
  /\ Yield("stream", "text-delta")
  /\ UNCHANGED <<turn, nudge, marks, calls, ci, output, memory, files, saves,
                 outside, counts>>

CallDelta(slot) ==
  /\ pc = "stream" /\ told + Len(calls) < MaxCalls
  /\ calls' = Append(calls, slot)
  /\ Yield("stream", "tool-call-delta")
  /\ UNCHANGED <<turn, nudge, marks, text, ci, output, memory, files, saves,
                 outside, counts>>

\* The provider rejects tool_choice: the same step is asked once more.
ForceRejected ==
  /\ pc = "stream" /\ force /\ ~Produced
  /\ force' = FALSE
  /\ Ask
  /\ UNCHANGED <<turn, nudged, nudgeStep, marks, gen, memory, files,
                 saves, outside, called, told>>

\* Mutations: one rung too many; no end of the ladder but the cap on asking.
MayRetryOnceMore   == ~Produced /\ retries <= MaxContextRetries
MayRetryWithinStep == ~Produced /\ retries < MaxContextRetries + step

MayRetry == ~Produced /\ retries < MaxContextRetries

\* The context window overflowed: the step is asked again one rung further.
ContextRetry ==
  /\ pc = "stream" /\ MayRetry
  /\ retries' = retries + 1
  /\ Ask
  /\ UNCHANGED <<plan, step, failure, unwinding, nudge, marks, gen,
                 memory, files, saves, outside, called, told>>

\* The id the transcript and the frames carry: the provider's, else the index.
CallId(k) == IF calls[k].id = NoId THEN <<"call", k - 1>> ELSE calls[k].id

\* _assistant_message, appended unless the generation produced nothing.
RecordAssistant ==
  /\ text' = 0
  /\ msgs' = IF Produced
             THEN Append(msgs,
                    Assistant(IF text > 0 THEN "text" ELSE "empty",
                              [k \in DOMAIN calls |->
                                 [id |-> CallId(k), name |-> calls[k].name]]))
             ELSE msgs

StreamFails ==
  /\ pc = "stream"
  /\ RecordAssistant
  /\ failure' = TRUE
  /\ LeaveLoop(TRUE)
  /\ UNCHANGED <<plan, step, retries, unwinding, nudge, marks, calls, ci,
                 output, preMessages, files, saves, outside, counts>>

StreamEndsWithCalls ==
  /\ pc = "stream" /\ calls # <<>>
  /\ RecordAssistant
  /\ ci' = 1
  /\ ShowCall
  /\ UNCHANGED <<turn, nudge, marks, calls, output, preMessages, files, saves,
                 outside, requests, told>>

\* Mutation: a turn that has written is nudged too.
MayNudgeAfterWrite == ~nudged /\ Tools # {}

MayNudge == ~nudged /\ ~mutated /\ Tools # {}

\* Text that announces an action and no call: the step is taken once more,
\* with a nudge, if one is left.
Stall ==
  /\ pc = "stream" /\ calls = <<>> /\ text > 0 /\ MayNudge
  /\ RecordAssistant
  /\ nudged' = TRUE /\ nudgeStep' = step
  /\ IF step + 1 < MaxSteps THEN step' = step + 1 /\ Go("step")
                            ELSE UNCHANGED step /\ LeaveLoop(failure)
  /\ UNCHANGED <<plan, retries, failure, unwinding, force, marks, calls, ci,
                 output, preMessages, files, saves, outside, counts>>

\* Any other text, or nothing at all, ends the turn.
Reply ==
  /\ pc = "stream" /\ calls = <<>>
  /\ RecordAssistant
  /\ LeaveLoop(failure)
  /\ UNCHANGED <<turn, nudge, marks, calls, ci, output, preMessages, files,
                 saves, outside, counts>>

-----------------------------------------------------------------------------
(***************************************************************************)
(* One tool call after another.                                            *)
(***************************************************************************)
Current == calls[ci]

\* Mutation: a call that cannot run is recorded, but its card never answered.
RejectCallUnanswered ==
  /\ pc = "call"
  /\ ~Current.parses \/ Current.name \notin Tools
  /\ output' = "fail"
  /\ Go("result")
  /\ UNCHANGED <<turn, nudge, marks, text, calls, ci, memory, files, saves,
                 outside, counts>>

\* A call that does not parse or names no tool on offer is answered at once.
RejectCall ==
  /\ pc = "call"
  /\ ~Current.parses \/ Current.name \notin Tools
  /\ output' = "fail"
  /\ ShowResult
  /\ UNCHANGED <<turn, nudge, marks, text, calls, ci, memory, files, saves,
                 outside, requests, called>>

\* Mutation: the snapshot waits for the first write to land.
NeedsSnapshotLate == Mutates(Current.name) /\ ~snapTaken /\ dirty

NeedsSnapshot == Mutates(Current.name) /\ ~snapTaken

StartCall ==
  /\ pc = "call"
  /\ Current.parses /\ Current.name \in Tools
  /\ landed' = FALSE
  /\ IF NeedsSnapshot THEN snapTaken' = TRUE /\ Go("snapshot")
                      ELSE UNCHANGED snapTaken /\ Go("exec")
  /\ UNCHANGED <<turn, nudge, mutated, gen, memory, snapshots, dirty, stray,
                 saves, outside, counts>>

\* create_snapshot stores the state captured when the turn was loaded, or
\* fails and is not tried again.
Snapshot ==
  /\ pc = "snapshot"
  /\ snapshots' \in {snapshots, snapshots + 1}
  /\ Go("exec")
  /\ UNCHANGED <<turn, nudge, marks, gen, memory, dirty, landed, stray, saves,
                 outside, counts>>

\* The running tool's write reaches the store.
WriteLands ==
  /\ pc = "exec" /\ Mutates(Current.name) /\ ~landed
  /\ landed' = TRUE /\ dirty' = TRUE
  /\ UNCHANGED <<where, turn, nudge, marks, gen, memory, snapshots, stray,
                 saves, outside, counts>>

\* A write whose tool is no longer waited for may or may not get there.
StrayWriteLands ==
  /\ stray
  /\ stray' = FALSE
  /\ dirty' \in BOOLEAN /\ (dirty => dirty')
  /\ UNCHANGED <<where, turn, nudge, marks, gen, memory, snapshots, landed,
                 saves, outside, counts>>

\* Giving up on the tool leaves a write that has not landed to itself.
GiveUpTool == stray' = (stray \/ (Mutates(Current.name) /\ ~landed))

\* It has done what it says it did; one that fails may have written before.
ToolReturns ==
  /\ pc = "exec"
  /\ \/ output' = "ok" /\ (Mutates(Current.name) => landed)
     \/ output' = "fail"
  /\ ShowResult
  /\ UNCHANGED <<turn, nudge, marks, text, calls, ci, memory, files, saves,
                 outside, requests, called>>

\* TOOL_TIMEOUT_S is over.
ToolTimesOut ==
  /\ pc = "exec"
  /\ output' = "fail"
  /\ ShowResult
  /\ GiveUpTool
  /\ UNCHANGED <<turn, nudge, marks, text, calls, ci, memory, snapshots, dirty,
                 landed, saves, outside, requests, called>>

\* A tool of the host returns something json.dumps rejects: building the
\* tool-result frame raises, which ends the turn.
ToolReturnsGarbage ==
  /\ pc = "exec"
  /\ Yield("crash", "error")
  /\ UNCHANGED <<turn, nudge, marks, gen, memory, files, saves, outside, counts>>

\* Mutation: a call that failed leaves no result.
AppendResultIfOk ==
  IF output = "ok" THEN Append(msgs, ToolResult(CallId(ci), output)) ELSE msgs

AppendResult == Append(msgs, ToolResult(CallId(ci), output))

\* The reader has taken the tool-result frame: only now is it recorded.
RecordResult ==
  /\ pc = "result"
  /\ mutated' = (mutated \/ (/\ Current.name \in Tools
                             /\ Mutates(Current.name)
                             /\ output = "ok"))
  /\ msgs' = AppendResult
  /\ output' = "none"
  /\ Persist("answered")
  /\ UNCHANGED <<turn, nudge, snapTaken, text, calls, ci, preMessages, files,
                 saves, outside, counts>>

NextCall ==
  /\ pc = "answered" /\ ~aborted /\ ci < Len(calls)
  /\ ci' = ci + 1
  /\ ShowCall
  /\ UNCHANGED <<turn, nudge, marks, text, calls, output, memory, files, saves,
                 outside, requests, told>>

\* All calls are answered, or an abort leaves those that remain.
NextStep ==
  /\ pc = "answered" /\ (aborted \/ ci = Len(calls))
  /\ step' = step + 1
  /\ Go("step")
  /\ UNCHANGED <<plan, retries, failure, unwinding, nudge, marks, gen, memory,
                 files, saves, outside, counts>>

-----------------------------------------------------------------------------
(***************************************************************************)
(* The end of the turn.                                                    *)
(***************************************************************************)
\* The reader has taken the step-cap note.
NoteTaken ==
  /\ pc = "note"
  /\ msgs' = Append(msgs, Assistant("text", <<>>))
  /\ LeaveLoop(failure)
  /\ UNCHANGED <<turn, nudge, marks, gen, preMessages, files, saves, outside,
                 counts>>

\* The reader has taken the error frame.
ErrorTaken ==
  /\ pc = "error"
  /\ UNCHANGED msgs
  /\ Persist("ending")
  /\ UNCHANGED <<turn, nudge, marks, gen, preMessages, files, saves, outside,
                 counts>>

SendDone ==
  /\ pc = "ending"
  /\ Yield("done", "done")
  /\ UNCHANGED <<turn, nudge, marks, gen, memory, files, saves, outside, counts>>

\* Mutation: the last line of defence sends the error and nothing more.
CrashTakenSilently ==
  /\ pc = "crash"
  /\ UNCHANGED msgs
  /\ Persist("ended")
  /\ UNCHANGED <<turn, nudge, marks, gen, preMessages, files, saves, outside,
                 counts>>

\* The last line of defence sends error, then done.
CrashTaken ==
  /\ pc = "crash"
  /\ Yield("done", "done")
  /\ UNCHANGED <<turn, nudge, marks, gen, memory, files, saves, outside, counts>>

\* The reader has taken done, or left at it: the finally saves once more.
DoneTaken ==
  /\ pc = "done"
  /\ UNCHANGED msgs
  /\ Persist("ended")
  /\ UNCHANGED <<turn, nudge, marks, gen, preMessages, files, saves, outside,
                 counts>>

-----------------------------------------------------------------------------
(***************************************************************************)
(* What happens to the turn from outside.                                  *)
(***************************************************************************)
\* The exception goes straight to the finally, which saves.  A tool that is
\* running is cancelled and not waited for.
Unwind ==
  /\ unwinding' = TRUE
  /\ UNCHANGED msgs
  /\ Persist("ended")
  /\ IF pc = "exec" THEN GiveUpTool ELSE UNCHANGED stray
  /\ UNCHANGED <<plan, step, retries, failure, nudge, marks, gen, preMessages,
                 dirty, landed, saves, aborted, counts>>

\* The reader is gone: GeneratorExit at the yield.
Close ==
  /\ pc \in Yields
  /\ Unwind
  /\ UNCHANGED <<cancels, snapshots>>

\* CancelledError at the await.  A snapshot under way may still get there.
Cancel ==
  /\ pc \in Awaits /\ cancels < MaxCancels
  /\ cancels' = cancels + 1
  /\ IF pc = "snapshot" THEN snapshots' \in {snapshots, snapshots + 1}
                        ELSE UNCHANGED snapshots
  /\ Unwind

\* The host sets the AbortSignal.  The loop reads it at the top of a step and
\* after each call, so setting it earlier comes to the same.
Abort ==
  /\ ~aborted /\ pc \in {"step", "answered"}
  /\ aborted' = TRUE
  /\ UNCHANGED <<where, turn, nudge, marks, gen, memory, files, saves, cancels,
                 counts>>

\* Nothing is left to do.
Quiet ==
  /\ pc = "ended" /\ late = {} /\ ~stray
  /\ UNCHANGED vars

-----------------------------------------------------------------------------
Loop == \/ Open \/ Announced \/ BeginStep \/ StopAborted \/ StepCap
        \/ RejectCall \/ StartCall \/ RecordResult \/ NextCall \/ NextStep
        \/ NoteTaken \/ ErrorTaken \/ SendDone \/ CrashTaken \/ DoneTaken

Asking == TextDelta \/ (\E slot \in CallSlots : CallDelta(slot))
            \/ ForceRejected \/ ContextRetry

Answering == StreamFails \/ StreamEndsWithCalls \/ Stall \/ Reply

Tool == ToolReturns \/ ToolTimesOut \/ ToolReturnsGarbage

Store == SaveReturns \/ SaveFails \/ Snapshot \/ Load \/ LoadFails

Next == \/ Loop \/ Asking \/ Answering \/ Tool \/ Store
        \/ LateSaveLands \/ WriteLands \/ StrayWriteLands
        \/ SaveCancelled \/ Close \/ Cancel \/ Abort
        \/ Quiet

(***************************************************************************)
(* Fairness.  The loop runs on, a generation ends or raises (providers end *)
(* their streams), a tool answers or is timed out, and the store answers   *)
(* or raises; at each location one of the four is what the turn waits for. *)
(* Nothing obliges a reader to leave, a host to abort, or the store to     *)
(* fail, nor a write or a save nobody waits for to get there.              *)
(***************************************************************************)
Progress == Loop \/ Answering \/ Tool \/ Store

Fairness == WF_vars(Progress)

Safe == Init /\ [][Next]_vars
Spec == Safe /\ Fairness
=============================================================================
