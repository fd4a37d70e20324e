--------------------------- MODULE TurnProperties ---------------------------
(***************************************************************************)
(* What a turn (Turn.tla) guarantees about the transcript in the store,    *)
(* the project's files, the model's requests and the stream of events.     *)
(***************************************************************************)
EXTENDS Turn

Locations == Yields \cup Awaits \cup
               {"saving", "step", "answered", "ending", "done", "ended"}

\* A call is being handled; a step is under way.
Handling == {"call", "snapshot", "exec", "result", "answered"}
InStep   == {"stream"} \cup Handling

\* Where the turn is, a save it waits for aside.
Standing == IF pc = "saving" THEN after ELSE pc

EventNames == {"none", "user-message", "text-delta", "tool-call-delta",
               "tool-call", "tool-result", "error", "done"}

\* The type of the turn's control state.  The transcripts are left out:
\* StoredReplayable says what matters of their shape.
TypeOK ==
  /\ pc \in Locations /\ after \in {"step", "answered", "ending", "ended"}
  /\ frame \in EventNames
  /\ plan \in BOOLEAN /\ failure \in BOOLEAN /\ unwinding \in BOOLEAN
  /\ step \in 0..MaxSteps /\ retries \in 0..MaxContextRetries
  /\ nudged \in BOOLEAN /\ nudgeStep \in -1..MaxSteps-1 /\ force \in BOOLEAN
  /\ mutated \in BOOLEAN /\ snapTaken \in BOOLEAN
  /\ text \in 0..MaxText /\ calls \in Seq(CallSlots) /\ ci \in Nat
  /\ (Standing \in Handling => ci \in DOMAIN calls)
  /\ (Standing \in InStep => step < MaxSteps)
  /\ output \in {"none", "ok", "fail"}
  /\ snapshots \in Nat /\ dirty \in BOOLEAN /\ landed \in BOOLEAN
  /\ stray \in BOOLEAN /\ aborted \in BOOLEAN
  /\ cancels \in 0..MaxCancels /\ lost \in 0..MaxLost
  /\ \A job \in late : job.nr \in 0..cancels-1
  /\ requests \in Nat /\ called \in Nat /\ told \in Nat

-----------------------------------------------------------------------------
\* Whatever is cut off where, the transcript in the store is one a provider
\* accepts, once a turn has saved it (sanitize_history on the save path).
StoredReplayable == Replayable(stored) \/ stored \in Histories

\* The user's message and every finished call are in the store before the
\* model is asked again; the one thing that may be missing is the preamble of
\* a step that was nudged (run_turn's saves before the first token and after
\* every tool).
SavedBeforeAsking ==
  pc = "stream" /\ lost = 0 =>
    LET current == SanitizeHistory(msgs)
    IN  /\ IsPrefix(stored, current)
        /\ Len(current) - Len(stored) <= IF nudged /\ step = nudgeStep + 1 THEN 1 ELSE 0

\* A turn leaves in the store exactly what it recorded, repaired, however it
\* ended (the save in run_turn's finally).  A result is recorded once its frame
\* is taken: of a call the reader leaves at, a stub is stored.
FinalSaveComplete ==
  pc = "ended" /\ lost = 0 /\ msgs # <<>> => stored = SanitizeHistory(msgs)

\* As many results are in the transcript as tool-result frames were handed to
\* the reader; only one that is being handed over, or was when the reader left,
\* is not there.  Where each stands is up to StoredReplayable.
ShownIsRecorded ==
  LET recorded == Cardinality(RecordedResults(msgs))
                    - Cardinality(RecordedResults(preMessages))
  IN  /\ recorded <= told /\ told <= recorded + 1
      /\ told = recorded + 1 => pc = "result" \/ unwinding

\* No save that is waited for takes anything out of the stored transcript,
\* apart from putting results in place of stubs.
SavesOnlyAdd ==
  [][late = {} /\ stored' # stored =>
       Keeps(SanitizeHistory(stored), stored')]_vars

-----------------------------------------------------------------------------
\* The files of the project are not touched, now or by a write still under
\* way, unless the pre-turn snapshot was attempted; never in plan mode; and a
\* call reported as a success has had its effect.
SnapshotBeforeWrite ==
  /\ dirty \/ stray => snapTaken
  /\ plan => ~snapTaken
  /\ mutated => dirty
  /\ snapshots <= 1

\* The model is asked at most once per step, once more per rung of the
\* context ladder, and once more if it rejects the forced tool choice.
RequestsBounded == requests <= MaxSteps + MaxContextRetries + 1

WriteRecorded(h) ==
  \E i \in DOMAIN h : \E k \in DOMAIN CallsOf(h[i]) :
    /\ h[i].calls[k].name = "write"
    /\ i + k <= Len(h) /\ h[i+k].role = "tool" /\ h[i+k].body = "ok"

\* Tool use is only ever forced on a turn that offers tools and whose
\* transcript records no write that worked.
ForcedOnlyWhenStalled ==
  force /\ pc = "stream" =>
    nudged /\ ~plan /\ ~WriteRecorded(SubSeq(msgs, Len(preMessages) + 1, Len(msgs)))

-----------------------------------------------------------------------------
(***************************************************************************)
(* The turn implements TurnEvents: a phase is what the frames handed out   *)
(* so far say.                                                             *)
(***************************************************************************)
EventPhase ==
  CASE frame = "done" -> "done"
    [] frame # "done" /\ unwinding -> "gone"
    [] frame = "none" /\ ~unwinding -> "opening"
    [] frame = "tool-call" /\ ~unwinding -> "calling"
    [] frame = "error" /\ ~unwinding -> "failing"
    [] OTHER -> "talking"

Events == INSTANCE TurnEvents WITH phase <- EventPhase, cards <- called - told

\* Every turn hands out its frames in the order of TurnEvents: each tool-call
\* is answered before any other frame but `error', error comes once, done last
\* (the yields of run_turn and of its last line of defence).  An error with a
\* card open, which is never answered then, is what a turn sends whose tool
\* returns something that cannot be encoded.
EventsInOrder == Events!Safe

\* Every turn comes to its end: done is sent or the reader is gone.
TurnEnds == Events!Ends

-----------------------------------------------------------------------------
(***************************************************************************)
(* What the documents say and the code does not do.                        *)
(***************************************************************************)
\* spec/message-format.md: an interruption "never loses more than the
\* in-flight token" of what the reader was shown.
LosesOneTokenAtMost == pc = "ended" => text <= 1

\* loop.py: "the cancellation itself must propagate so the server can tear
\* the response down": a cancelled turn asks the model for nothing more.
CancellationPropagates == [][cancels > 0 => requests' = requests]_vars
=============================================================================
