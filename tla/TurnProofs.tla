----------------------------- MODULE TurnProofs -----------------------------
(***************************************************************************)
(* Proofs about Turn.tla, for every value of its constants.                *)
(***************************************************************************)
EXTENDS TurnProperties, HistoryProofs, FiniteSetTheorems, TLAPS

\* The turn stays well-typed, one case for each action of run_turn.
LEMMA TypeHolds == Safe => []TypeOK
<1> USE StepsAssumption, RetriesAssumption, BoundsAssumption
    DEF TypeOK, Standing, Handling, InStep, Locations, EventNames, Yields, Awaits
<1> USE DEF vars, where, turn, nudge, marks, gen, memory, files, saves, outside, counts
<1>1. Init => TypeOK
  <2> SUFFICES ASSUME Init PROVE TypeOK
    OBVIOUS
  <2>1. calls \in Seq(CallSlots)
    BY DEF Init
  <2>2. nudgeStep \in -1..MaxSteps-1
    BY DEF Init
  <2>3. \A job \in late : job.nr \in 0..cancels-1
    BY DEF Init
  <2>4. Standing = "open"
    BY DEF Init
  <2>5. /\ plan \in BOOLEAN /\ failure \in BOOLEAN /\ unwinding \in BOOLEAN
        /\ nudged \in BOOLEAN /\ force \in BOOLEAN /\ mutated \in BOOLEAN
        /\ snapTaken \in BOOLEAN /\ dirty \in BOOLEAN /\ landed \in BOOLEAN
        /\ stray \in BOOLEAN /\ aborted \in BOOLEAN
    BY DEF Init
  <2> QED
    BY <2>1, <2>2, <2>3, <2>4, <2>5 DEF Init
<1>2. TypeOK /\ [Next]_vars => TypeOK'
  <2> SUFFICES ASSUME TypeOK, [Next]_vars PROVE TypeOK'
    OBVIOUS
  <2>1. CASE SaveReturns
    BY <2>1 DEF SaveReturns, Go
  <2>2. CASE SaveFails
    BY <2>2 DEF SaveFails, Go
  <2>3. CASE SaveCancelled
    BY <2>3 DEF SaveCancelled, Go
  <2>4. CASE LateSaveLands
    BY <2>4 DEF LateSaveLands
  <2>5. CASE Open
    BY <2>5 DEF Open, Go
  <2>6. CASE Load
    BY <2>6 DEF Load, Yield
  <2>7. CASE LoadFails
    BY <2>7 DEF LoadFails, Yield
  <2>8. CASE Announced
    BY <2>8 DEF Announced, Persist, Go
  <2>9. CASE BeginStep
    BY <2>9 DEF BeginStep, Ask, ForceTools
  <2>10. CASE StopAborted
    BY <2>10 DEF StopAborted, LeaveLoop, Yield, Persist, Go
  <2>11. CASE StepCap
    BY <2>11 DEF StepCap, Yield
  <2>12. CASE TextDelta
    BY <2>12 DEF TextDelta, Yield
  <2>13. CASE \E slot \in CallSlots : CallDelta(slot)
    BY <2>13, AppendProperties DEF CallDelta, Yield
  <2>14. CASE ForceRejected
    <3>1. force' \in BOOLEAN
      BY <2>14 DEF ForceRejected
    <3> QED
      BY <2>14, <3>1 DEF ForceRejected, Ask
  <2>15. CASE ContextRetry
    BY <2>15 DEF ContextRetry, MayRetry, Produced, Ask
  <2>16. CASE StreamFails
    BY <2>16 DEF StreamFails, LeaveLoop, RecordAssistant, Yield, Persist, Produced, Go
  <2>17. CASE StreamEndsWithCalls
    BY <2>17 DEF StreamEndsWithCalls, ShowCall, RecordAssistant, Yield, Produced
  <2>18. CASE Stall
    BY <2>18 DEF Stall, Go, LeaveLoop, RecordAssistant, MayNudge, Yield, Persist, Produced
  <2>19. CASE Reply
    BY <2>19 DEF Reply, LeaveLoop, RecordAssistant, Yield, Persist, Produced, Go
  <2>20. CASE RejectCall
    BY <2>20 DEF RejectCall, ShowResult, Yield
  <2>21. CASE StartCall
    <3>1. snapTaken' \in BOOLEAN /\ landed' \in BOOLEAN
      BY <2>21, Zenon DEF StartCall
    <3> QED
      BY <2>21, <3>1 DEF StartCall, Go
  <2>22. CASE Snapshot
    BY <2>22 DEF Snapshot, Go
  <2>23. CASE WriteLands
    BY <2>23 DEF WriteLands
  <2>24. CASE StrayWriteLands
    <3>1. stray' \in BOOLEAN /\ dirty' \in BOOLEAN
      BY <2>24, Zenon DEF StrayWriteLands
    <3> QED
      BY <2>24, <3>1 DEF StrayWriteLands
  <2>25. CASE ToolReturns
    BY <2>25 DEF ToolReturns, ShowResult, Yield
  <2>26. CASE ToolTimesOut
    BY <2>26 DEF ToolTimesOut, ShowResult, GiveUpTool, Yield
  <2>27. CASE ToolReturnsGarbage
    BY <2>27 DEF ToolReturnsGarbage, Yield
  <2>28. CASE RecordResult
    BY <2>28 DEF RecordResult, Persist, AppendResult, Go
  <2>29. CASE NextCall
    BY <2>29 DEF NextCall, ShowCall, Yield
  <2>30. CASE NextStep
    BY <2>30 DEF NextStep, Go
  <2>31. CASE NoteTaken
    BY <2>31 DEF NoteTaken, LeaveLoop, Yield, Persist, Go
  <2>32. CASE ErrorTaken
    BY <2>32 DEF ErrorTaken, Persist, Go
  <2>33. CASE SendDone
    BY <2>33 DEF SendDone, Yield
  <2>34. CASE CrashTaken
    BY <2>34 DEF CrashTaken, Yield
  <2>35. CASE DoneTaken
    BY <2>35 DEF DoneTaken, Persist, Go
  <2>36. CASE Close
    <3>1. stray' \in BOOLEAN /\ unwinding' \in BOOLEAN
      BY <2>36, Zenon DEF Close, Unwind, GiveUpTool
    <3> QED
      BY <2>36, <3>1 DEF Close, Unwind, Persist, Go
  <2>37. CASE Cancel
    <3>1. stray' \in BOOLEAN /\ unwinding' \in BOOLEAN
      BY <2>37, Zenon DEF Cancel, Unwind, GiveUpTool
    <3> QED
      BY <2>37, <3>1 DEF Cancel, Unwind, Persist, Go
  <2>38. CASE Abort
    BY <2>38 DEF Abort
  <2>39. CASE Quiet
    BY <2>39 DEF Quiet
  <2>40. CASE UNCHANGED vars
    BY <2>40
  <2> QED
    BY <2>1, <2>2, <2>3, <2>4, <2>5, <2>6, <2>7, <2>8, <2>9, <2>10, <2>11, <2>12, <2>13,
       <2>14, <2>15, <2>16, <2>17, <2>18, <2>19, <2>20, <2>21, <2>22, <2>23, <2>24,
       <2>25, <2>26, <2>27, <2>28, <2>29, <2>30, <2>31, <2>32, <2>33, <2>34, <2>35,
       <2>36, <2>37, <2>38, <2>39, <2>40
    DEF Next, Loop, Asking, Answering, Tool, Store
<1> QED
  BY <1>1, <1>2, PTL DEF Safe

-----------------------------------------------------------------------------
\* What makes SnapshotBeforeWrite inductive: the running tool is one that is
\* on offer, and it has passed the snapshot if it writes.
SnapshotInv ==
  /\ SnapshotBeforeWrite
  /\ landed => dirty
  /\ pc \in {"snapshot", "exec"} => Current.name \in Tools
  /\ pc \in {"snapshot", "exec"} /\ Mutates(Current.name) => snapTaken
  /\ pc = "snapshot" => snapTaken
  /\ pc = "result" /\ output = "ok" /\ Mutates(Current.name) => dirty
  /\ ~snapTaken \/ pc = "snapshot" => snapshots = 0

\* A mutating tool only ever runs once the snapshot was attempted.
LEMMA SnapshotInvHolds == Safe => []SnapshotInv
<1> USE DEF SnapshotInv, SnapshotBeforeWrite, Current, Tools
<1> USE DEF vars, where, turn, nudge, marks, gen, memory, files, saves, outside, counts
<1>1. Init => SnapshotInv
  BY DEF Init
<1>2. TypeOK /\ SnapshotInv /\ [Next]_vars => SnapshotInv'
  <2> SUFFICES ASSUME TypeOK, SnapshotInv, [Next]_vars PROVE SnapshotInv'
    OBVIOUS
  <2>1. CASE SaveReturns
    BY <2>1 DEF SaveReturns, Go, TypeOK
  <2>2. CASE SaveFails
    BY <2>2 DEF SaveFails, Go, TypeOK
  <2>3. CASE SaveCancelled
    BY <2>3 DEF SaveCancelled, Go, TypeOK
  <2>4. CASE LateSaveLands
    BY <2>4 DEF LateSaveLands
  <2>5. CASE Open
    BY <2>5 DEF Open, Go
  <2>6. CASE Load
    BY <2>6 DEF Load, Yield
  <2>7. CASE LoadFails
    BY <2>7 DEF LoadFails, Yield
  <2>8. CASE Announced
    BY <2>8 DEF Announced, Persist, Go
  <2>9. CASE BeginStep
    BY <2>9 DEF BeginStep, Ask, ForceTools
  <2>10. CASE StopAborted
    BY <2>10 DEF StopAborted, LeaveLoop, Yield, Persist, Go
  <2>11. CASE StepCap
    BY <2>11 DEF StepCap, Yield
  <2>12. CASE TextDelta
    BY <2>12 DEF TextDelta, Yield
  <2>13. CASE \E slot \in CallSlots : CallDelta(slot)
    BY <2>13 DEF CallDelta, Yield
  <2>14. CASE ForceRejected
    BY <2>14 DEF ForceRejected, Produced, Ask
  <2>15. CASE ContextRetry
    BY <2>15 DEF ContextRetry, MayRetry, Produced, Ask
  <2>16. CASE StreamFails
    BY <2>16 DEF StreamFails, LeaveLoop, RecordAssistant, Yield, Persist, Produced, Go
  <2>17. CASE StreamEndsWithCalls
    BY <2>17 DEF StreamEndsWithCalls, ShowCall, RecordAssistant, Yield, Produced
  <2>18. CASE Stall
    BY <2>18 DEF Stall, Go, LeaveLoop, RecordAssistant, MayNudge, Yield, Persist, Produced
  <2>19. CASE Reply
    BY <2>19 DEF Reply, LeaveLoop, RecordAssistant, Yield, Persist, Produced, Go
  <2>20. CASE RejectCall
    BY <2>20 DEF RejectCall, ShowResult, Yield
  <2>21. CASE StartCall
    BY <2>21 DEF StartCall, Go, NeedsSnapshot
  <2>22. CASE Snapshot
    BY <2>22 DEF Snapshot, Go
  <2>23. CASE WriteLands
    BY <2>23 DEF WriteLands
  <2>24. CASE StrayWriteLands
    BY <2>24 DEF StrayWriteLands
  <2>25. CASE ToolReturns
    BY <2>25 DEF ToolReturns, ShowResult, Yield
  <2>26. CASE ToolTimesOut
    BY <2>26 DEF ToolTimesOut, ShowResult, GiveUpTool, Yield
  <2>27. CASE ToolReturnsGarbage
    BY <2>27 DEF ToolReturnsGarbage, Yield
  <2>28. CASE RecordResult
    BY <2>28 DEF RecordResult, Persist, AppendResult, Go
  <2>29. CASE NextCall
    BY <2>29 DEF NextCall, ShowCall, Yield
  <2>30. CASE NextStep
    BY <2>30 DEF NextStep, Go
  <2>31. CASE NoteTaken
    BY <2>31 DEF NoteTaken, LeaveLoop, Yield, Persist, Go
  <2>32. CASE ErrorTaken
    BY <2>32 DEF ErrorTaken, Persist, Go
  <2>33. CASE SendDone
    BY <2>33 DEF SendDone, Yield
  <2>34. CASE CrashTaken
    BY <2>34 DEF CrashTaken, Yield
  <2>35. CASE DoneTaken
    BY <2>35 DEF DoneTaken, Persist, Go
  <2>36. CASE Close
    <3>1. stray' => stray \/ (pc = "exec" /\ Mutates(Current.name))
      BY <2>36, Zenon DEF Close, Unwind, GiveUpTool
    <3> QED
      BY <2>36, <3>1 DEF Close, Unwind, Persist, Go
  <2>37. CASE Cancel
    <3>1. stray' => stray \/ (pc = "exec" /\ Mutates(Current.name))
      BY <2>37, Zenon DEF Cancel, Unwind, GiveUpTool
    <3> QED
      BY <2>37, <3>1 DEF Cancel, Unwind, Persist, Go
  <2>38. CASE Abort
    BY <2>38 DEF Abort
  <2>39. CASE Quiet
    BY <2>39 DEF Quiet
  <2>40. CASE UNCHANGED vars
    BY <2>40
  <2> QED
    BY <2>1, <2>2, <2>3, <2>4, <2>5, <2>6, <2>7, <2>8, <2>9, <2>10, <2>11, <2>12, <2>13,
       <2>14, <2>15, <2>16, <2>17, <2>18, <2>19, <2>20, <2>21, <2>22, <2>23, <2>24,
       <2>25, <2>26, <2>27, <2>28, <2>29, <2>30, <2>31, <2>32, <2>33, <2>34, <2>35,
       <2>36, <2>37, <2>38, <2>39, <2>40
    DEF Next, Loop, Asking, Answering, Tool, Store
<1> QED
  BY <1>1, <1>2, TypeHolds, PTL DEF Safe

-----------------------------------------------------------------------------
\* Whether the one rejection of a forced tool choice may be behind us.
Rejected ==
  IF /\ nudged
     /\ \/ step > nudgeStep + 1
        \/ step = nudgeStep + 1 /\ Standing # "step" /\ ~force
  THEN 1 ELSE 0

\* What makes RequestsBounded inductive: how often the model was asked by the
\* time a step begins, and while it is under way.
RequestsInv ==
  /\ RequestsBounded
  /\ Standing \in {"open", "load", "announce"} => ~nudged /\ requests = 0
  /\ Standing \in InStep /\ force => nudged /\ step = nudgeStep + 1
  /\ Standing = "step" => requests <= step + retries + Rejected
  /\ Standing \in InStep => requests <= step + 1 + retries + Rejected

\* A request uses up a step, a retry or the one rejection.
LEMMA RequestsInvHolds == Safe => []RequestsInv
<1> USE StepsAssumption, RetriesAssumption
    DEF TypeOK, RequestsInv, RequestsBounded, Rejected, Standing, Handling, InStep
<1> USE DEF vars, where, turn, nudge, marks, gen, memory, files, saves, outside, counts
<1>1. Init => RequestsInv
  BY DEF Init
<1>2. TypeOK /\ RequestsInv /\ [Next]_vars => RequestsInv'
  <2> SUFFICES ASSUME TypeOK, RequestsInv, [Next]_vars PROVE RequestsInv'
    OBVIOUS
  <2>1. CASE SaveReturns
    BY <2>1 DEF SaveReturns, Go
  <2>2. CASE SaveFails
    BY <2>2 DEF SaveFails, Go
  <2>3. CASE SaveCancelled
    BY <2>3 DEF SaveCancelled, Go
  <2>4. CASE LateSaveLands
    BY <2>4 DEF LateSaveLands
  <2>5. CASE Open
    BY <2>5 DEF Open, Go
  <2>6. CASE Load
    BY <2>6 DEF Load, Yield
  <2>7. CASE LoadFails
    BY <2>7 DEF LoadFails, Yield
  <2>8. CASE Announced
    BY <2>8 DEF Announced, Persist, Go
  <2>9. CASE BeginStep
    BY <2>9 DEF BeginStep, Ask, ForceTools
  <2>10. CASE StopAborted
    BY <2>10 DEF StopAborted, LeaveLoop, Yield, Persist, Go
  <2>11. CASE StepCap
    BY <2>11 DEF StepCap, Yield
  <2>12. CASE TextDelta
    BY <2>12 DEF TextDelta, Yield
  <2>13. CASE \E slot \in CallSlots : CallDelta(slot)
    BY <2>13 DEF CallDelta, Yield
  <2>14. CASE ForceRejected
    BY <2>14 DEF ForceRejected, Produced, Ask
  <2>15. CASE ContextRetry
    BY <2>15 DEF ContextRetry, MayRetry, Produced, Ask
  <2>16. CASE StreamFails
    BY <2>16 DEF StreamFails, LeaveLoop, RecordAssistant, Yield, Persist, Produced, Go
  <2>17. CASE StreamEndsWithCalls
    BY <2>17 DEF StreamEndsWithCalls, ShowCall, RecordAssistant, Yield, Produced
  <2>18. CASE Stall
    BY <2>18 DEF Stall, Go, LeaveLoop, RecordAssistant, MayNudge, Yield, Persist, Produced
  <2>19. CASE Reply
    BY <2>19 DEF Reply, LeaveLoop, RecordAssistant, Yield, Persist, Produced, Go
  <2>20. CASE RejectCall
    BY <2>20 DEF RejectCall, ShowResult, Yield
  <2>21. CASE StartCall
    BY <2>21 DEF StartCall, Go, NeedsSnapshot
  <2>22. CASE Snapshot
    BY <2>22 DEF Snapshot, Go
  <2>23. CASE WriteLands
    BY <2>23 DEF WriteLands
  <2>24. CASE StrayWriteLands
    BY <2>24 DEF StrayWriteLands
  <2>25. CASE ToolReturns
    BY <2>25 DEF ToolReturns, ShowResult, Yield
  <2>26. CASE ToolTimesOut
    BY <2>26 DEF ToolTimesOut, ShowResult, GiveUpTool, Yield
  <2>27. CASE ToolReturnsGarbage
    BY <2>27 DEF ToolReturnsGarbage, Yield
  <2>28. CASE RecordResult
    BY <2>28 DEF RecordResult, Persist, AppendResult, Go
  <2>29. CASE NextCall
    BY <2>29 DEF NextCall, ShowCall, Yield
  <2>30. CASE NextStep
    BY <2>30 DEF NextStep, Go
  <2>31. CASE NoteTaken
    BY <2>31 DEF NoteTaken, LeaveLoop, Yield, Persist, Go
  <2>32. CASE ErrorTaken
    BY <2>32 DEF ErrorTaken, Persist, Go
  <2>33. CASE SendDone
    BY <2>33 DEF SendDone, Yield
  <2>34. CASE CrashTaken
    BY <2>34 DEF CrashTaken, Yield
  <2>35. CASE DoneTaken
    BY <2>35 DEF DoneTaken, Persist, Go
  <2>36. CASE Close
    BY <2>36 DEF Close, Unwind, Persist, GiveUpTool, Go
  <2>37. CASE Cancel
    BY <2>37 DEF Cancel, Unwind, Persist, GiveUpTool, Go
  <2>38. CASE Abort
    BY <2>38 DEF Abort
  <2>39. CASE Quiet
    BY <2>39 DEF Quiet
  <2>40. CASE UNCHANGED vars
    BY <2>40
  <2> QED
    BY <2>1, <2>2, <2>3, <2>4, <2>5, <2>6, <2>7, <2>8, <2>9, <2>10, <2>11, <2>12, <2>13,
       <2>14, <2>15, <2>16, <2>17, <2>18, <2>19, <2>20, <2>21, <2>22, <2>23, <2>24,
       <2>25, <2>26, <2>27, <2>28, <2>29, <2>30, <2>31, <2>32, <2>33, <2>34, <2>35,
       <2>36, <2>37, <2>38, <2>39, <2>40
    DEF Next, Loop, Asking, Answering, Tool, Store
<1> QED
  BY <1>1, <1>2, TypeHolds, PTL DEF Safe

-----------------------------------------------------------------------------
\* What makes FinalSaveComplete inductive: a save under way on its own is one
\* that was lost.
FinalSaveInv ==
  /\ FinalSaveComplete
  /\ late # {} => lost > 0

\* From the last save on the store holds the whole turn, if none was lost.
LEMMA FinalSaveInvHolds == Safe => []FinalSaveInv
<1> USE DEF FinalSaveInv, FinalSaveComplete
<1> USE DEF vars, where, turn, nudge, marks, gen, memory, files, saves, outside, counts
<1>1. Init => FinalSaveInv
  BY DEF Init
<1>2. TypeOK /\ FinalSaveInv /\ [Next]_vars => FinalSaveInv'
  <2> SUFFICES ASSUME TypeOK, FinalSaveInv, [Next]_vars PROVE FinalSaveInv'
    OBVIOUS
  <2>1. CASE SaveReturns
    BY <2>1 DEF SaveReturns, Go, Payload, TypeOK
  <2>2. CASE SaveFails
    BY <2>2 DEF SaveFails, Go, TypeOK
  <2>3. CASE SaveCancelled
    BY <2>3 DEF SaveCancelled, Go, TypeOK
  <2>4. CASE LateSaveLands
    BY <2>4 DEF LateSaveLands, TypeOK
  <2>5. CASE Open
    BY <2>5 DEF Open, Go
  <2>6. CASE Load
    BY <2>6 DEF Load, Yield
  <2>7. CASE LoadFails
    BY <2>7 DEF LoadFails, Yield
  <2>8. CASE Announced
    BY <2>8 DEF Announced, Persist, Go
  <2>9. CASE BeginStep
    BY <2>9 DEF BeginStep, Ask, ForceTools
  <2>10. CASE StopAborted
    BY <2>10 DEF StopAborted, LeaveLoop, Yield, Persist, Go
  <2>11. CASE StepCap
    BY <2>11 DEF StepCap, Yield
  <2>12. CASE TextDelta
    BY <2>12 DEF TextDelta, Yield
  <2>13. CASE \E slot \in CallSlots : CallDelta(slot)
    BY <2>13 DEF CallDelta, Yield
  <2>14. CASE ForceRejected
    BY <2>14 DEF ForceRejected, Produced, Ask
  <2>15. CASE ContextRetry
    BY <2>15 DEF ContextRetry, MayRetry, Produced, Ask
  <2>16. CASE StreamFails
    BY <2>16 DEF StreamFails, LeaveLoop, RecordAssistant, Yield, Persist, Produced, Go
  <2>17. CASE StreamEndsWithCalls
    BY <2>17 DEF StreamEndsWithCalls, ShowCall, RecordAssistant, Yield, Produced
  <2>18. CASE Stall
    BY <2>18 DEF Stall, Go, LeaveLoop, RecordAssistant, MayNudge, Yield, Persist, Produced
  <2>19. CASE Reply
    BY <2>19 DEF Reply, LeaveLoop, RecordAssistant, Yield, Persist, Produced, Go
  <2>20. CASE RejectCall
    BY <2>20 DEF RejectCall, ShowResult, Yield
  <2>21. CASE StartCall
    BY <2>21 DEF StartCall, Go, NeedsSnapshot
  <2>22. CASE Snapshot
    BY <2>22 DEF Snapshot, Go
  <2>23. CASE WriteLands
    BY <2>23 DEF WriteLands
  <2>24. CASE StrayWriteLands
    BY <2>24 DEF StrayWriteLands
  <2>25. CASE ToolReturns
    BY <2>25 DEF ToolReturns, ShowResult, Yield
  <2>26. CASE ToolTimesOut
    BY <2>26 DEF ToolTimesOut, ShowResult, GiveUpTool, Yield
  <2>27. CASE ToolReturnsGarbage
    BY <2>27 DEF ToolReturnsGarbage, Yield
  <2>28. CASE RecordResult
    BY <2>28 DEF RecordResult, Persist, AppendResult, Go
  <2>29. CASE NextCall
    BY <2>29 DEF NextCall, ShowCall, Yield
  <2>30. CASE NextStep
    BY <2>30 DEF NextStep, Go
  <2>31. CASE NoteTaken
    BY <2>31 DEF NoteTaken, LeaveLoop, Yield, Persist, Go
  <2>32. CASE ErrorTaken
    BY <2>32 DEF ErrorTaken, Persist, Go
  <2>33. CASE SendDone
    BY <2>33 DEF SendDone, Yield
  <2>34. CASE CrashTaken
    BY <2>34 DEF CrashTaken, Yield
  <2>35. CASE DoneTaken
    BY <2>35 DEF DoneTaken, Persist, Go
  <2>36. CASE Close
    BY <2>36 DEF Close, Unwind, Persist, GiveUpTool, Go
  <2>37. CASE Cancel
    BY <2>37 DEF Cancel, Unwind, Persist, GiveUpTool, Go
  <2>38. CASE Abort
    BY <2>38 DEF Abort
  <2>39. CASE Quiet
    BY <2>39 DEF Quiet
  <2>40. CASE UNCHANGED vars
    BY <2>40
  <2> QED
    BY <2>1, <2>2, <2>3, <2>4, <2>5, <2>6, <2>7, <2>8, <2>9, <2>10, <2>11, <2>12, <2>13,
       <2>14, <2>15, <2>16, <2>17, <2>18, <2>19, <2>20, <2>21, <2>22, <2>23, <2>24,
       <2>25, <2>26, <2>27, <2>28, <2>29, <2>30, <2>31, <2>32, <2>33, <2>34, <2>35,
       <2>36, <2>37, <2>38, <2>39, <2>40
    DEF Next, Loop, Asking, Answering, Tool, Store
<1> QED
  BY <1>1, <1>2, TypeHolds, PTL DEF Safe

-----------------------------------------------------------------------------
Talk == {"user-message", "text-delta", "tool-call-delta", "tool-result"}

\* The frames that may have been handed out last, at each location.
LastFrames(location) ==
  CASE location \in {"open", "load"}           -> {"none"}
    [] location = "announce"                     -> {"user-message"}
    [] location \in {"step", "stream"}          -> Talk
    [] location \in {"call", "snapshot", "exec"} -> {"tool-call"}
    [] location \in {"result", "answered"}      -> {"tool-result"}
    [] location = "note"                         -> {"text-delta"}
    [] location \in {"error", "crash"}          -> {"error"}
    [] location = "ending"                       -> Talk \cup {"error"}
    [] OTHER                                     -> {"done"}

EventsInv ==
  /\ unwinding => Standing = "ended"
  /\ ~unwinding => frame \in LastFrames(Standing)

\* At each location of run_turn the last frame is one that leads there.
LEMMA EventsInvHolds == Safe => []EventsInv
<1> USE DEF EventsInv, LastFrames, Talk, Standing
<1> USE DEF vars, where, turn, nudge, marks, gen, memory, files, saves, outside, counts
<1>1. Init => EventsInv
  BY DEF Init
<1>2. TypeOK /\ EventsInv /\ [Next]_vars => EventsInv'
  <2> SUFFICES ASSUME TypeOK, EventsInv, [Next]_vars PROVE EventsInv'
    OBVIOUS
  <2>1. CASE SaveReturns
    BY <2>1 DEF SaveReturns, Go, TypeOK
  <2>2. CASE SaveFails
    BY <2>2 DEF SaveFails, Go, TypeOK
  <2>3. CASE SaveCancelled
    BY <2>3 DEF SaveCancelled, Go, TypeOK
  <2>4. CASE LateSaveLands
    BY <2>4 DEF LateSaveLands
  <2>5. CASE Open
    BY <2>5 DEF Open, Go
  <2>6. CASE Load
    BY <2>6 DEF Load, Yield
  <2>7. CASE LoadFails
    BY <2>7 DEF LoadFails, Yield
  <2>8. CASE Announced
    BY <2>8 DEF Announced, Persist, Go
  <2>9. CASE BeginStep
    BY <2>9 DEF BeginStep, Ask, ForceTools
  <2>10. CASE StopAborted
    BY <2>10 DEF StopAborted, LeaveLoop, Yield, Persist, Go
  <2>11. CASE StepCap
    BY <2>11 DEF StepCap, Yield
  <2>12. CASE TextDelta
    BY <2>12 DEF TextDelta, Yield
  <2>13. CASE \E slot \in CallSlots : CallDelta(slot)
    BY <2>13 DEF CallDelta, Yield
  <2>14. CASE ForceRejected
    BY <2>14 DEF ForceRejected, Produced, Ask
  <2>15. CASE ContextRetry
    BY <2>15 DEF ContextRetry, MayRetry, Produced, Ask
  <2>16. CASE StreamFails
    BY <2>16 DEF StreamFails, LeaveLoop, RecordAssistant, Yield, Persist, Produced, Go
  <2>17. CASE StreamEndsWithCalls
    BY <2>17 DEF StreamEndsWithCalls, ShowCall, RecordAssistant, Yield, Produced
  <2>18. CASE Stall
    BY <2>18 DEF Stall, Go, LeaveLoop, RecordAssistant, MayNudge, Yield, Persist, Produced
  <2>19. CASE Reply
    BY <2>19 DEF Reply, LeaveLoop, RecordAssistant, Yield, Persist, Produced, Go
  <2>20. CASE RejectCall
    BY <2>20 DEF RejectCall, ShowResult, Yield
  <2>21. CASE StartCall
    BY <2>21 DEF StartCall, Go, NeedsSnapshot
  <2>22. CASE Snapshot
    BY <2>22 DEF Snapshot, Go
  <2>23. CASE WriteLands
    BY <2>23 DEF WriteLands
  <2>24. CASE StrayWriteLands
    BY <2>24 DEF StrayWriteLands
  <2>25. CASE ToolReturns
    BY <2>25 DEF ToolReturns, ShowResult, Yield
  <2>26. CASE ToolTimesOut
    BY <2>26 DEF ToolTimesOut, ShowResult, GiveUpTool, Yield
  <2>27. CASE ToolReturnsGarbage
    BY <2>27 DEF ToolReturnsGarbage, Yield
  <2>28. CASE RecordResult
    BY <2>28 DEF RecordResult, Persist, AppendResult, Go
  <2>29. CASE NextCall
    BY <2>29 DEF NextCall, ShowCall, Yield
  <2>30. CASE NextStep
    BY <2>30 DEF NextStep, Go
  <2>31. CASE NoteTaken
    BY <2>31 DEF NoteTaken, LeaveLoop, Yield, Persist, Go
  <2>32. CASE ErrorTaken
    BY <2>32 DEF ErrorTaken, Persist, Go
  <2>33. CASE SendDone
    BY <2>33 DEF SendDone, Yield
  <2>34. CASE CrashTaken
    BY <2>34 DEF CrashTaken, Yield
  <2>35. CASE DoneTaken
    BY <2>35 DEF DoneTaken, Persist, Go
  <2>36. CASE Close
    BY <2>36 DEF Close, Unwind, Persist, GiveUpTool, Go
  <2>37. CASE Cancel
    BY <2>37 DEF Cancel, Unwind, Persist, GiveUpTool, Go
  <2>38. CASE Abort
    BY <2>38 DEF Abort
  <2>39. CASE Quiet
    BY <2>39 DEF Quiet
  <2>40. CASE UNCHANGED vars
    BY <2>40
  <2> QED
    BY <2>1, <2>2, <2>3, <2>4, <2>5, <2>6, <2>7, <2>8, <2>9, <2>10, <2>11, <2>12, <2>13,
       <2>14, <2>15, <2>16, <2>17, <2>18, <2>19, <2>20, <2>21, <2>22, <2>23, <2>24,
       <2>25, <2>26, <2>27, <2>28, <2>29, <2>30, <2>31, <2>32, <2>33, <2>34, <2>35,
       <2>36, <2>37, <2>38, <2>39, <2>40
    DEF Next, Loop, Asking, Answering, Tool, Store
<1> QED
  BY <1>1, <1>2, TypeHolds, PTL DEF Safe

-----------------------------------------------------------------------------
(***************************************************************************)
(* The messages a turn records.                                            *)
(***************************************************************************)
Preamble == Assistant("text", <<>>)

\* What RecordAssistant appends.
Generated == Assistant(IF text > 0 THEN "text" ELSE "empty",
                       [k \in DOMAIN calls |->
                          [id |-> CallId(k), name |-> calls[k].name]])

LEMMA UserMessage ==
  IsMessage(User("text")) /\ ~ IsTool(User("text")) /\ CallsOf(User("text")) = <<>>
  <1>1. User("text").role = "user" /\ User("text").content = "text"
    BY DEF User
  <1> QED
    BY <1>1 DEF IsMessage, IsTool, CallsOf

LEMMA ResultMessage ==
  ASSUME NEW id, NEW body
  PROVE  /\ IsMessage(ToolResult(id, body)) /\ IsTool(ToolResult(id, body))
         /\ ToolResult(id, body).role = "tool" /\ ToolResult(id, body).body = body
         /\ CallsOf(ToolResult(id, body)) = <<>>
  <1>1. /\ ToolResult(id, body).role = "tool" /\ ToolResult(id, body).id = id
        /\ ToolResult(id, body).body = body
    BY DEF ToolResult
  <1> QED
    BY <1>1 DEF IsMessage, IsTool, CallsOf

LEMMA AssistantMessage ==
  ASSUME NEW content, NEW cs, IsSequence(cs), \A k \in DOMAIN cs : IsCall(cs[k])
  PROVE  /\ IsMessage(Assistant(content, cs)) /\ ~ IsTool(Assistant(content, cs))
         /\ CallsOf(Assistant(content, cs)) = cs
  <1> DEFINE msg == Assistant(content, cs)
  <1>1. /\ msg.role = "assistant" /\ msg.content = content /\ msg.calls = cs
    BY DEF Assistant
  <1>2. \A k \in DOMAIN cs : cs[k] = [id |-> cs[k].id, name |-> cs[k].name]
    BY DEF IsCall
  <1> HIDE DEF msg
  <1>3. msg = Assistant(msg.content, msg.calls)
    BY <1>1 DEF msg
  <1>4. IsMessage(msg) /\ ~ IsTool(msg) /\ CallsOf(msg) = cs
    BY <1>1, <1>2, <1>3 DEF IsMessage, IsTool, CallsOf
  <1> QED
    BY <1>4 DEF msg

LEMMA PreambleMessage ==
  IsMessage(Preamble) /\ ~ IsTool(Preamble) /\ CallsOf(Preamble) = <<>>
  <1>1. IsSequence(<<>>) /\ \A k \in DOMAIN <<>> : IsCall(<<>>[k])
    BY DEF IsSequence
  <1> QED
    BY <1>1, AssistantMessage DEF Preamble

\* The assistant message of a generation: its calls, in their order.
LEMMA GeneratedMessage ==
  ASSUME calls \in Seq(CallSlots)
  PROVE  /\ IsMessage(Generated) /\ ~ IsTool(Generated)
         /\ Len(CallsOf(Generated)) = Len(calls)
         /\ \A k \in DOMAIN calls : CallsOf(Generated)[k].name = calls[k].name
         /\ DOMAIN CallsOf(Generated) = DOMAIN calls
         /\ calls = <<>> => CallsOf(Generated) = <<>>
                            /\ Generated = Assistant(IF text > 0 THEN "text" ELSE "empty", <<>>)
  <1> DEFINE call(k) == [id |-> CallId(k), name |-> calls[k].name]
             cs == [k \in DOMAIN calls |-> call(k)]
             S == {call(k) : k \in DOMAIN calls}
             content == IF text > 0 THEN "text" ELSE "empty"
  <1>1. Len(calls) \in Nat /\ DOMAIN calls = 1..Len(calls)
    OBVIOUS
  <1>2. \A k \in DOMAIN calls : cs[k] = call(k) /\ call(k) \in S
    OBVIOUS
  <1>3. \A k \in DOMAIN calls : IsCall(call(k)) /\ call(k).name = calls[k].name
    BY DEF IsCall
  <1>4. Generated = Assistant(content, cs)
    BY DEF Generated
  <1>5. DOMAIN cs = DOMAIN calls
    OBVIOUS
  <1>6. cs = [k \in 1..Len(calls) |-> cs[k]]
    BY <1>1
  <1> HIDE DEF call, cs, content, S
  <1>7. cs \in Seq(S) /\ Len(cs) = Len(calls)
    BY <1>1, <1>2, <1>6
  <1>8. IsSequence(cs)
    BY <1>7 DEF IsSequence
  <1>9. IsMessage(Assistant(content, cs)) /\ ~ IsTool(Assistant(content, cs))
        /\ CallsOf(Assistant(content, cs)) = cs
    BY <1>2, <1>3, <1>5, <1>8, AssistantMessage
  <1>10. calls = <<>> => cs = <<>>
    BY <1>7
  <1> QED
    BY <1>2, <1>3, <1>4, <1>5, <1>7, <1>9, <1>10 DEF content

LEMMA BeginsOf ==
  ASSUME NEW h, IsTranscript(h)
  PROVE  /\ Len(h) \in 0..Len(h) /\ SubSeq(h, 1, Len(h)) = h
         /\ \A n \in 0..Len(h) : IsTranscript(SubSeq(h, 1, n)) /\ Extends(SubSeq(h, 1, n), h)
         /\ \A n \in 0..Len(h) : \A msg : SubSeq(Append(h, msg), 1, n) = SubSeq(h, 1, n)
  <1> DEFINE S == {h[i] : i \in DOMAIN h}
  <1>1. h \in Seq(S) /\ Len(h) \in Nat /\ DOMAIN h = 1..Len(h)
    BY TranscriptElements
  <1>2. \A x \in S : IsMessage(x)
    BY DEF IsTranscript
  <1> HIDE DEF S
  <1>3. Len(h) \in 0..Len(h) /\ SubSeq(h, 1, Len(h)) = h
    BY <1>1
  <1>4. ASSUME NEW n \in 0..Len(h)
        PROVE  IsTranscript(SubSeq(h, 1, n)) /\ Extends(SubSeq(h, 1, n), h)
    <2> DEFINE r == SubSeq(h, 1, n)
    <2>1. r \in Seq(S) /\ Len(r) = n /\ DOMAIN r = 1..n /\ \A i \in DOMAIN r : h[i] = r[i]
      BY <1>1
    <2>2. Extends(r, h)
      BY <1>1, <2>1 DEF Extends
    <2> HIDE DEF r
    <2>3. r \in Seq({r[i] : i \in DOMAIN r}) /\ \A i \in DOMAIN r : r[i] \in S
      BY <2>1
    <2>4. IsTranscript(r)
      BY <1>2, <2>3 DEF IsTranscript, IsSequence
    <2> QED
      BY <2>2, <2>4 DEF r
  <1>5. ASSUME NEW n \in 0..Len(h), NEW msg
        PROVE  SubSeq(Append(h, msg), 1, n) = SubSeq(h, 1, n)
    <2> DEFINE R == S \cup {msg}
               a == SubSeq(Append(h, msg), 1, n)
               b == SubSeq(h, 1, n)
    <2>1. h \in Seq(R) /\ msg \in R
      BY <1>1
    <2> HIDE DEF R
    <2>2. a \in Seq(R) /\ b \in Seq(R) /\ Len(a) = n /\ Len(b) = n
          /\ \A i \in 1..n : a[i] = b[i]
      BY <1>1, <2>1
    <2> HIDE DEF a, b
    <2>3. a = b
      BY <2>2, SameSequence
    <2> QED
      BY <2>3 DEF a, b
  <1> QED
    BY <1>3, <1>4, <1>5

\* s is the repair of a beginning of h.
Sourced(h, s) == \E n \in 0..Len(h) : s = SanitizeHistory(SubSeq(h, 1, n))

LEMMA SourcedAppend ==
  ASSUME NEW h, IsTranscript(h), NEW msg, IsMessage(msg), NEW s, Sourced(h, s)
  PROVE  Sourced(Append(h, msg), s)
  <1>1. PICK n \in 0..Len(h) : s = SanitizeHistory(SubSeq(h, 1, n))
    BY DEF Sourced
  <1>2. Len(Append(h, msg)) = Len(h) + 1 /\ Len(h) \in Nat
    BY TranscriptAppend, TranscriptElements
  <1>3. n \in 0..Len(Append(h, msg))
    BY <1>2
  <1>4. s = SanitizeHistory(SubSeq(Append(h, msg), 1, n))
    BY <1>1, BeginsOf
  <1> QED
    BY <1>3, <1>4 DEF Sourced

LEMMA SourcedWhole ==
  ASSUME NEW h, IsTranscript(h)
  PROVE  Sourced(h, SanitizeHistory(h))
  BY BeginsOf DEF Sourced

LEMMA SourcedIsTranscript ==
  ASSUME NEW h, IsTranscript(h), NEW s, Sourced(h, s)
  PROVE  IsTranscript(s) /\ Replayable(s) /\ SanitizeHistory(s) = s
  <1>1. PICK n \in 0..Len(h) : s = SanitizeHistory(SubSeq(h, 1, n))
    BY DEF Sourced
  <1>2. IsTranscript(SubSeq(h, 1, n))
    BY BeginsOf
  <1> QED
    BY <1>1, <1>2, SanitizedIsReplayable, SanitizeIdempotent

-----------------------------------------------------------------------------
\* What the store holds, and what is on its way there, is the repair of a
\* beginning of what the turn has recorded.
Transcripts ==
  /\ IsTranscript(stored) /\ IsTranscript(msgs)
  /\ StoredReplayable
  /\ \A job \in late : Sourced(msgs, job.payload)
  /\ msgs # <<>> => Sourced(msgs, SanitizeHistory(stored))

TranscriptInv ==
  /\ Transcripts
  /\ pc \in {"open", "load"} => late = {} /\ msgs = <<>>
  /\ msgs = <<>> => pc \in {"open", "load", "crash", "done", "ended"}

LEMMA TranscriptsKept ==
  ASSUME Transcripts, UNCHANGED <<stored, msgs, late>>
  PROVE  Transcripts'
  <1>1. stored' = stored /\ msgs' = msgs /\ late' = late
    OBVIOUS
  <1>2. StoredReplayable'
    BY <1>1 DEF Transcripts, StoredReplayable
  <1>3. \A job \in late' : Sourced(msgs', job.payload)
    BY <1>1 DEF Transcripts
  <1> QED
    BY <1>1, <1>2, <1>3 DEF Transcripts

\* A message is recorded.
LEMMA TranscriptsGrow ==
  ASSUME Transcripts, msgs # <<>>, NEW msg, IsMessage(msg),
         msgs' = Append(msgs, msg), stored' = stored, late' = late
  PROVE  Transcripts' /\ msgs' # <<>>
  <1>1. IsTranscript(msgs') /\ msgs' # <<>>
    <2>1. IsTranscript(Append(msgs, msg)) /\ Len(Append(msgs, msg)) = Len(msgs) + 1
      BY TranscriptAppend DEF Transcripts
    <2>2. Len(msgs) \in Nat
      BY TranscriptElements DEF Transcripts
    <2>3. Len(msgs') # 0
      BY <2>1, <2>2
    <2> QED
      BY <2>1, <2>3
  <1>2. StoredReplayable'
    BY DEF Transcripts, StoredReplayable
  <1>3. \A job \in late' : Sourced(msgs', job.payload)
    BY SourcedAppend DEF Transcripts
  <1>4. Sourced(msgs', SanitizeHistory(stored'))
    BY SourcedAppend DEF Transcripts
  <1> QED
    BY <1>1, <1>2, <1>3, <1>4 DEF Transcripts

\* A save lands.
LEMMA TranscriptsSaved ==
  ASSUME Transcripts, Sourced(msgs, stored'), msgs' = msgs,
         \A job \in late' : job \in late
  PROVE  Transcripts'
  <1>1. IsTranscript(msgs)
    BY DEF Transcripts
  <1>2. IsTranscript(stored') /\ Replayable(stored') /\ SanitizeHistory(stored') = stored'
    BY <1>1, SourcedIsTranscript
  <1>3. \A job \in late' : Sourced(msgs', job.payload)
    BY DEF Transcripts
  <1>4. Sourced(msgs', SanitizeHistory(stored'))
    BY <1>2
  <1> QED
    BY <1>1, <1>2, <1>3, <1>4 DEF Transcripts, StoredReplayable

\* What a generation adds to the transcript, if anything.
LEMMA RecordAssistantAppends ==
  ASSUME RecordAssistant
  PROVE  msgs' = IF Produced THEN Append(msgs, Generated) ELSE msgs
  BY DEF RecordAssistant, Generated

LEMMA TranscriptsGenerate ==
  ASSUME TypeOK, Transcripts, msgs # <<>>, RecordAssistant, stored' = stored, late' = late
  PROVE  Transcripts' /\ msgs' # <<>>
  <1>1. msgs' = IF Produced THEN Append(msgs, Generated) ELSE msgs
    BY RecordAssistantAppends
  <1>2. CASE Produced
    <2>1. IsMessage(Generated)
      BY GeneratedMessage DEF TypeOK
    <2>2. msgs' = Append(msgs, Generated)
      BY <1>1, <1>2
    <2> QED
      BY <2>1, <2>2, TranscriptsGrow
  <1>3. CASE ~ Produced
    BY <1>1, <1>3, TranscriptsKept
  <1> QED
    BY <1>2, <1>3

LEMMA TranscriptInvInit == Init => TranscriptInv
  <1> SUFFICES ASSUME Init PROVE TranscriptInv
    OBVIOUS
  <1>1. stored \in Histories /\ msgs = <<>> /\ late = {} /\ pc = "open"
    BY DEF Init
  <1>2. IsTranscript(stored) /\ IsTranscript(msgs)
    BY <1>1, HistoriesAssumption, CanonicalEmpty DEF Canonical
  <1>3. Transcripts
    BY <1>1, <1>2 DEF Transcripts, StoredReplayable
  <1> QED
    BY <1>1, <1>3 DEF TranscriptInv

LEMMA TranscriptInvNext == TypeOK /\ TranscriptInv /\ [Next]_vars => TranscriptInv'
<1> SUFFICES ASSUME TypeOK, TranscriptInv, [Next]_vars PROVE TranscriptInv'
  OBVIOUS
<1> USE DEF TranscriptInv
<1> USE DEF vars, where, turn, nudge, marks, gen, memory, files, saves, outside, counts
<1>1. CASE SaveReturns
  <2>1. stored' = SanitizeHistory(msgs) /\ msgs' = msgs /\ late' = late
    BY <1>1 DEF SaveReturns, Payload
  <2>2. Sourced(msgs, stored')
    BY <2>1, SourcedWhole DEF Transcripts
  <2>3. Transcripts'
    BY <2>1, <2>2, TranscriptsSaved
  <2>4. msgs # <<>> /\ pc' \notin {"open", "load"}
    BY <1>1 DEF SaveReturns, Go, TypeOK
  <2> QED
    BY <2>1, <2>3, <2>4
<1>2. CASE SaveFails
  <2>1. Transcripts'
    BY <1>2, TranscriptsKept DEF SaveFails
  <2> QED
    BY <1>2, <2>1 DEF SaveFails, Go, TypeOK
<1>3. CASE SaveCancelled
  <2>1. /\ stored' = stored /\ msgs' = msgs
        /\ late' = late \cup {[nr |-> cancels, payload |-> Payload]}
    BY <1>3 DEF SaveCancelled
  <2>2. \A job \in late' : Sourced(msgs, job.payload)
    <3> SUFFICES ASSUME NEW job \in late' PROVE Sourced(msgs, job.payload)
      OBVIOUS
    <3>1. CASE job \in late
      BY <3>1 DEF Transcripts
    <3>2. CASE job = [nr |-> cancels, payload |-> Payload]
      <4>1. job.payload = SanitizeHistory(msgs)
        BY <3>2 DEF Payload
      <4> QED
        BY <4>1, SourcedWhole DEF Transcripts
    <3> QED
      BY <2>1, <3>1, <3>2
  <2>3. Transcripts'
    <3>1. StoredReplayable'
      BY <2>1 DEF Transcripts, StoredReplayable
    <3> QED
      BY <2>1, <2>2, <3>1 DEF Transcripts
  <2>4. msgs # <<>> /\ pc' \notin {"open", "load"}
    BY <1>3 DEF SaveCancelled, Go, TypeOK
  <2> QED
    BY <2>1, <2>3, <2>4
<1>4. CASE LateSaveLands
  <2>1. PICK job \in late : late' = late \ {job} /\ stored' = job.payload /\ msgs' = msgs
                            /\ pc' = pc
    BY <1>4 DEF LateSaveLands
  <2>2. Sourced(msgs, stored') /\ \A other \in late' : other \in late
    BY <2>1 DEF Transcripts
  <2>3. Transcripts'
    BY <2>1, <2>2, TranscriptsSaved
  <2> QED
    BY <2>1, <2>3
<1>5. CASE Load
  <2>1. /\ pc = "load" /\ late = {} /\ msgs = <<>>
        /\ msgs' = InitialMessages /\ stored' = stored /\ late' = late
        /\ pc' = "announce"
    BY <1>5 DEF Load, Yield
  <2> DEFINE h == SanitizeHistory(stored)
  <2>2. IsTranscript(h)
    BY SanitizedIsReplayable DEF Transcripts
  <2>3. IsTranscript(msgs') /\ Sourced(msgs', h)
    <3>1. msgs' = Append(h, User("text"))
      BY <2>1 DEF InitialMessages
    <3>2. Sourced(h, SanitizeHistory(h))
      BY <2>2, SourcedWhole
    <3>3. SanitizeHistory(h) = h
      BY SanitizeIdempotent DEF Transcripts
    <3> HIDE DEF h
    <3> QED
      BY <2>2, <3>1, <3>2, <3>3, UserMessage, TranscriptAppend, SourcedAppend
  <2>4. msgs' # <<>>
    <3>1. msgs' = Append(h, User("text")) /\ Len(h) \in Nat
      BY <2>1, <2>2, TranscriptElements DEF InitialMessages
    <3>2. Len(msgs') = Len(h) + 1
      BY <2>2, <3>1, UserMessage, TranscriptAppend
    <3> HIDE DEF h
    <3>3. Len(msgs') # 0
      BY <3>1, <3>2
    <3> QED
      BY <3>3
  <2>5. StoredReplayable'
    BY <2>1 DEF Transcripts, StoredReplayable
  <2>6. Transcripts'
    BY <2>1, <2>3, <2>5 DEF Transcripts
  <2> QED
    BY <2>1, <2>4, <2>6
<1>6. CASE StreamFails
  <2>1. Transcripts' /\ msgs' # <<>>
    BY <1>6, TranscriptsGenerate DEF StreamFails
  <2> QED
    BY <1>6, <2>1 DEF StreamFails, LeaveLoop, Yield
<1>7. CASE StreamEndsWithCalls
  <2>1. Transcripts' /\ msgs' # <<>>
    BY <1>7, TranscriptsGenerate DEF StreamEndsWithCalls
  <2> QED
    BY <1>7, <2>1 DEF StreamEndsWithCalls, ShowCall, Yield
<1>8. CASE Stall
  <2>1. Transcripts' /\ msgs' # <<>>
    BY <1>8, TranscriptsGenerate DEF Stall
  <2> QED
    BY <1>8, <2>1 DEF Stall, Go, LeaveLoop, Yield, Persist
<1>9. CASE Reply
  <2>1. Transcripts' /\ msgs' # <<>>
    BY <1>9, TranscriptsGenerate DEF Reply
  <2> QED
    BY <1>9, <2>1 DEF Reply, LeaveLoop, Yield, Persist, Go
<1>10. CASE RecordResult
  <2>1. Transcripts' /\ msgs' # <<>>
    BY <1>10, TranscriptsGrow, ResultMessage DEF RecordResult, AppendResult
  <2> QED
    BY <1>10, <2>1 DEF RecordResult, Persist, Go
<1>11. CASE NoteTaken
  <2>1. Transcripts' /\ msgs' # <<>>
    BY <1>11, TranscriptsGrow, PreambleMessage DEF NoteTaken, Preamble
  <2> QED
    BY <1>11, <2>1 DEF NoteTaken, LeaveLoop, Yield, Persist, Go
<1>12. CASE UNCHANGED <<stored, msgs, late>>
  <2>1. Transcripts'
    BY <1>12, TranscriptsKept
  <2> USE <1>12, <2>1
  <2>2. CASE Open
    BY <2>2 DEF Open, Go
  <2>3. CASE LoadFails
    BY <2>3 DEF LoadFails, Yield
  <2>4. CASE Announced
    BY <2>4 DEF Announced, Persist, Go
  <2>5. CASE BeginStep
    BY <2>5 DEF BeginStep, Ask
  <2>6. CASE StopAborted
    BY <2>6 DEF StopAborted, LeaveLoop, Yield, Persist, Go
  <2>7. CASE StepCap
    BY <2>7 DEF StepCap, Yield
  <2>8. CASE TextDelta
    BY <2>8 DEF TextDelta, Yield
  <2>9. CASE \E slot \in CallSlots : CallDelta(slot)
    BY <2>9 DEF CallDelta, Yield
  <2>10. CASE ForceRejected
    BY <2>10 DEF ForceRejected, Ask
  <2>11. CASE ContextRetry
    BY <2>11 DEF ContextRetry, Ask
  <2>12. CASE RejectCall
    BY <2>12 DEF RejectCall, ShowResult, Yield
  <2>13. CASE StartCall
    BY <2>13 DEF StartCall, Go
  <2>14. CASE Snapshot
    BY <2>14 DEF Snapshot, Go
  <2>15. CASE WriteLands
    BY <2>15 DEF WriteLands
  <2>16. CASE StrayWriteLands
    BY <2>16 DEF StrayWriteLands
  <2>17. CASE ToolReturns
    BY <2>17 DEF ToolReturns, ShowResult, Yield
  <2>18. CASE ToolTimesOut
    BY <2>18 DEF ToolTimesOut, ShowResult, Yield
  <2>19. CASE ToolReturnsGarbage
    BY <2>19 DEF ToolReturnsGarbage, Yield
  <2>20. CASE NextCall
    BY <2>20 DEF NextCall, ShowCall, Yield
  <2>21. CASE NextStep
    BY <2>21 DEF NextStep, Go
  <2>22. CASE ErrorTaken
    BY <2>22 DEF ErrorTaken, Persist, Go
  <2>23. CASE SendDone
    BY <2>23 DEF SendDone, Yield
  <2>24. CASE CrashTaken
    BY <2>24 DEF CrashTaken, Yield
  <2>25. CASE DoneTaken
    BY <2>25 DEF DoneTaken, Persist, Go
  <2>26. CASE Close
    BY <2>26 DEF Close, Unwind, Persist, Go
  <2>27. CASE Cancel
    BY <2>27 DEF Cancel, Unwind, Persist, Go
  <2>28. CASE Abort
    BY <2>28 DEF Abort
  <2>29. CASE Quiet
    BY <2>29 DEF Quiet
  <2>30. CASE UNCHANGED vars
    BY <2>30
  <2> QED
    BY <1>1, <1>2, <1>3, <1>4, <1>5, <1>6, <1>7, <1>8, <1>9, <1>10, <1>11, <2>2, <2>3,
       <2>4, <2>5, <2>6, <2>7, <2>8, <2>9, <2>10, <2>11, <2>12, <2>13, <2>14, <2>15,
       <2>16, <2>17, <2>18, <2>19, <2>20, <2>21, <2>22, <2>23, <2>24, <2>25, <2>26,
       <2>27, <2>28, <2>29, <2>30
    DEF Next, Loop, Asking, Answering, Tool, Store
<1> QED
  <2>1. \/ SaveReturns \/ SaveFails \/ SaveCancelled \/ LateSaveLands \/ Load
        \/ StreamFails \/ StreamEndsWithCalls \/ Stall \/ Reply \/ RecordResult \/ NoteTaken
        \/ UNCHANGED <<stored, msgs, late>>
    BY Zenon DEF Next, Loop, Asking, Answering, Tool, Store, Open, Announced, BeginStep,
       StopAborted, StepCap, RejectCall, StartCall, NextCall, NextStep, ErrorTaken,
       SendDone, CrashTaken, DoneTaken, TextDelta, CallDelta, ForceRejected,
       ContextRetry, ToolReturns, ToolTimesOut, ToolReturnsGarbage, Snapshot, LoadFails,
       WriteLands, StrayWriteLands, Close, Cancel, Unwind, Abort, Quiet
  <2> QED
    BY <1>1, <1>2, <1>3, <1>4, <1>5, <1>6, <1>7, <1>8, <1>9, <1>10, <1>11, <1>12, <2>1

LEMMA TranscriptInvHolds == Safe => []TranscriptInv
  BY TranscriptInvInit, TranscriptInvNext, TypeHolds, PTL DEF Safe

-----------------------------------------------------------------------------
(***************************************************************************)
(* SavesOnlyAdd.                                                           *)
(***************************************************************************)
LEMMA SavesOnlyAddStep ==
  ASSUME TranscriptInv, [Next]_vars, late = {}, stored' # stored
  PROVE  Keeps(SanitizeHistory(stored), stored')
<1>1. SaveReturns
  BY DEF Next, Loop, Asking, Answering, Tool, Store, Open, Announced, BeginStep,
     StopAborted, StepCap, RejectCall, StartCall, NextCall, NextStep, ErrorTaken,
     SendDone, CrashTaken, DoneTaken, TextDelta, CallDelta, ForceRejected,
     ContextRetry, ToolReturns, ToolTimesOut, ToolReturnsGarbage, Snapshot, LoadFails,
     WriteLands, StrayWriteLands, Close, Cancel, Unwind, Abort, Quiet,
     SaveFails, SaveCancelled, LateSaveLands, Load, StreamFails, StreamEndsWithCalls,
     Stall, Reply, RecordResult, NoteTaken, vars, saves
<1>2. stored' = SanitizeHistory(msgs) /\ msgs # <<>>
  BY <1>1 DEF SaveReturns, Payload, TranscriptInv
<1>3. IsTranscript(msgs)
  BY DEF TranscriptInv, Transcripts
<1>4. PICK n \in 0..Len(msgs) : SanitizeHistory(stored) = SanitizeHistory(SubSeq(msgs, 1, n))
  BY <1>2 DEF TranscriptInv, Transcripts, Sourced
<1>5. IsTranscript(SubSeq(msgs, 1, n)) /\ Extends(SubSeq(msgs, 1, n), msgs)
  BY <1>3, BeginsOf
<1> QED
  BY <1>2, <1>3, <1>4, <1>5, SanitizeKeeps

-----------------------------------------------------------------------------
(***************************************************************************)
(* SavedBeforeAsking.                                                      *)
(***************************************************************************)
\* s is the repair of all of h but a preamble at its end.
ButPreamble(h, s) ==
  \E n \in 0..Len(h) : /\ h = Append(SubSeq(h, 1, n), Preamble)
                       /\ s = SanitizeHistory(SubSeq(h, 1, n))

\* Between two saves the turn records nothing but the preamble it nudges.
SavedInv ==
  lost = 0 =>
    /\ late = {}
    /\ pc = "answered" => stored = SanitizeHistory(msgs)
    /\ pc \in {"step", "stream"} =>
         \/ stored = SanitizeHistory(msgs)
         \/ nudged /\ step = nudgeStep + 1 /\ ButPreamble(msgs, stored)

LEMMA StallLeavesPreamble ==
  ASSUME TypeOK, TranscriptInv, SavedInv, Stall, lost = 0
  PROVE  ButPreamble(msgs', stored')
  <1>1. IsTranscript(msgs)
    BY DEF TranscriptInv, Transcripts
  <1>2. stored = SanitizeHistory(msgs)
    BY DEF SavedInv, Stall, MayNudge
  <1>3. msgs' = Append(msgs, Generated)
    BY RecordAssistantAppends DEF Stall, Produced
  <1>4. Generated = Preamble
    BY GeneratedMessage DEF Stall, TypeOK, Preamble
  <1>5. stored' = stored
    BY DEF Stall, saves
  <1>6. Len(msgs) \in 0..Len(msgs) /\ SubSeq(Append(msgs, Preamble), 1, Len(msgs)) = msgs
    BY <1>1, BeginsOf
  <1>7. Len(msgs) \in 0..Len(Append(msgs, Preamble))
    <2>1. Len(Append(msgs, Preamble)) = Len(msgs) + 1 /\ Len(msgs) \in Nat
      BY <1>1, PreambleMessage, TranscriptAppend, TranscriptElements
    <2> QED
      BY <2>1
  <1> QED
    BY <1>2, <1>3, <1>4, <1>5, <1>6, <1>7 DEF ButPreamble

LEMMA SavedInvNext ==
  TypeOK /\ TranscriptInv /\ TranscriptInv' /\ SavedInv /\ [Next]_vars => SavedInv'
<1> SUFFICES ASSUME TypeOK, TranscriptInv, TranscriptInv', SavedInv, [Next]_vars, lost' = 0
             PROVE  /\ late' = {}
                    /\ pc' = "answered" => stored' = SanitizeHistory(msgs')
                    /\ pc' \in {"step", "stream"} =>
                         \/ stored' = SanitizeHistory(msgs')
                         \/ nudged' /\ step' = nudgeStep' + 1 /\ ButPreamble(msgs', stored')
  BY DEF SavedInv
<1> USE DEF SavedInv
<1> USE DEF vars, where, turn, nudge, marks, gen, memory, files, saves, outside, counts
<1>0. /\ msgs = <<>> => pc \in {"open", "load", "crash", "done", "ended"}
      /\ msgs' = <<>> => pc' \in {"open", "load", "crash", "done", "ended"}
      /\ lost \in Nat
  BY BoundsAssumption DEF TranscriptInv, TypeOK
<1> HIDE BoundsAssumption
<1>1. CASE SaveReturns
  BY <1>0, <1>1 DEF SaveReturns, Go, Payload
<1>2. CASE SaveFails
  BY <1>0, <1>2 DEF SaveFails
<1>3. CASE SaveCancelled
  BY <1>0, <1>3 DEF SaveCancelled
<1>4. CASE LateSaveLands
  BY <1>4 DEF LateSaveLands
<1>5. CASE Open
  BY <1>5 DEF Open, Go
<1>6. CASE Load
  BY <1>6 DEF Load, Yield
<1>7. CASE LoadFails
  BY <1>7 DEF LoadFails, Yield
<1>8. CASE Announced
  BY <1>0, <1>8 DEF Announced, Persist, Go
<1>9. CASE BeginStep
  BY <1>9 DEF BeginStep, Ask
<1>10. CASE StopAborted
  BY <1>10 DEF StopAborted, LeaveLoop, Yield, Persist, Go
<1>11. CASE StepCap
  BY <1>11 DEF StepCap, Yield
<1>12. CASE TextDelta
  BY <1>12 DEF TextDelta, Yield
<1>13. CASE \E slot \in CallSlots : CallDelta(slot)
  BY <1>13 DEF CallDelta, Yield
<1>14. CASE ForceRejected
  BY <1>14 DEF ForceRejected, Ask
<1>15. CASE ContextRetry
  BY <1>15 DEF ContextRetry, Ask
<1>16. CASE StreamFails
  BY <1>16 DEF StreamFails, LeaveLoop, Yield
<1>17. CASE StreamEndsWithCalls
  BY <1>17 DEF StreamEndsWithCalls, ShowCall, Yield
<1>18. CASE Stall
  <2>1. lost = 0 /\ late' = {} /\ stored' = stored
    BY <1>18 DEF Stall
  <2>2. ButPreamble(msgs', stored')
    BY <1>18, <2>1, StallLeavesPreamble
  <2>3. CASE step + 1 < MaxSteps
    <3>1. nudged' /\ nudgeStep' = step /\ step' = step + 1 /\ pc' = "step"
      BY <1>18, <2>3 DEF Stall, Go
    <3> QED
      BY <2>1, <2>2, <3>1
  <2>4. CASE ~ (step + 1 < MaxSteps)
    <3>1. pc' \in {"error", "saving", "ending"}
      BY <1>18, <2>4 DEF Stall, LeaveLoop, Yield, Persist, Go
    <3> QED
      BY <2>1, <3>1
  <2> QED
    BY <2>3, <2>4
<1>19. CASE Reply
  BY <1>19 DEF Reply, LeaveLoop, Yield, Persist, Go
<1>20. CASE RejectCall
  BY <1>20 DEF RejectCall, ShowResult, Yield
<1>21. CASE StartCall
  BY <1>21 DEF StartCall, Go
<1>22. CASE Snapshot
  BY <1>22 DEF Snapshot, Go
<1>23. CASE WriteLands
  BY <1>23 DEF WriteLands
<1>24. CASE StrayWriteLands
  BY <1>24 DEF StrayWriteLands
<1>25. CASE ToolReturns
  BY <1>25 DEF ToolReturns, ShowResult, Yield
<1>26. CASE ToolTimesOut
  BY <1>26 DEF ToolTimesOut, ShowResult, Yield
<1>27. CASE ToolReturnsGarbage
  BY <1>27 DEF ToolReturnsGarbage, Yield
<1>28. CASE RecordResult
  BY <1>0, <1>28 DEF RecordResult, Persist, Go
<1>29. CASE NextCall
  BY <1>29 DEF NextCall, ShowCall, Yield
<1>30. CASE NextStep
  BY <1>30 DEF NextStep, Go
<1>31. CASE NoteTaken
  BY <1>31 DEF NoteTaken, LeaveLoop, Yield, Persist, Go
<1>32. CASE ErrorTaken
  BY <1>32 DEF ErrorTaken, Persist, Go
<1>33. CASE SendDone
  BY <1>33 DEF SendDone, Yield
<1>34. CASE CrashTaken
  BY <1>34 DEF CrashTaken, Yield
<1>35. CASE DoneTaken
  BY <1>35 DEF DoneTaken, Persist, Go
<1>36. CASE Close
  BY <1>36 DEF Close, Unwind, Persist, Go
<1>37. CASE Cancel
  BY <1>37 DEF Cancel, Unwind, Persist, Go
<1>38. CASE Abort
  BY <1>38 DEF Abort
<1>39. CASE Quiet
  BY <1>39 DEF Quiet
<1>40. CASE UNCHANGED vars
  BY <1>40
<1> QED
  BY <1>1, <1>2, <1>3, <1>4, <1>5, <1>6, <1>7, <1>8, <1>9, <1>10, <1>11, <1>12, <1>13,
     <1>14, <1>15, <1>16, <1>17, <1>18, <1>19, <1>20, <1>21, <1>22, <1>23, <1>24,
     <1>25, <1>26, <1>27, <1>28, <1>29, <1>30, <1>31, <1>32, <1>33, <1>34, <1>35,
     <1>36, <1>37, <1>38, <1>39, <1>40
  DEF Next, Loop, Asking, Answering, Tool, Store

LEMMA SavedInvHolds == Safe => []SavedInv
  <1>1. Init => SavedInv
    BY DEF Init, SavedInv
  <1> QED
    BY <1>1, SavedInvNext, TypeHolds, TranscriptInvHolds, PTL DEF Safe

LEMMA SavedInvSaves ==
  ASSUME TranscriptInv, SavedInv, pc = "stream", lost = 0
  PROVE  SavedBeforeAsking
  <1> DEFINE current == SanitizeHistory(msgs)
  <1>0. IsTranscript(msgs)
    BY DEF TranscriptInv, Transcripts
  <1>1. IsTranscript(current)
    BY <1>0, SanitizedIsReplayable
  <1>2. Len(current) \in Nat
    BY <1>1, TranscriptElements
  <1>3. CASE stored = current
    <2>1. Len(current) - Len(stored) = 0
      BY <1>2, <1>3
    <2>2. IsPrefix(stored, current)
      BY <1>2, <1>3 DEF IsPrefix
    <2> HIDE DEF current
    <2>3. /\ IsPrefix(stored, current)
          /\ Len(current) - Len(stored) <= IF nudged /\ step = nudgeStep + 1 THEN 1 ELSE 0
      BY <2>1, <2>2
    <2> QED
      BY <2>3 DEF SavedBeforeAsking, current
  <1>4. CASE nudged /\ step = nudgeStep + 1 /\ ButPreamble(msgs, stored)
    <2>1. PICK n \in 0..Len(msgs) : /\ msgs = Append(SubSeq(msgs, 1, n), Preamble)
                                    /\ stored = SanitizeHistory(SubSeq(msgs, 1, n))
      BY <1>4 DEF ButPreamble
    <2> DEFINE h == SubSeq(msgs, 1, n)
    <2>2. IsTranscript(h)
      BY <1>0, BeginsOf
    <2>3. current = stored \o Repaired(msgs, Len(h) + 1)
      BY <2>1, <2>2, PreambleMessage, SanitizeAppend
    <2>4. Repaired(msgs, Len(h) + 1) = <<Preamble>>
      <3>1. msgs[Len(h)+1] = Preamble
        BY <2>1, <2>2, PreambleMessage, TranscriptAppend
      <3>2. /\ Preamble.role = "assistant" /\ Preamble.content = "text" /\ Preamble.calls = <<>>
        BY DEF Preamble, Assistant
      <3>3. ~ IsEmptyContent(Preamble)
        BY <3>2 DEF IsEmptyContent
      <3>4. \A k \in DOMAIN Preamble.calls : IsNamed(Preamble.calls[k])
        BY <3>2
      <3>5. NewCalls(msgs, Len(h) + 1) = <<>>
        BY <3>1, <3>2, <3>4, PreambleMessage, NormalUnchanged DEF NewCalls
      <3>6. WithCalls(Preamble, <<>>) = Preamble
        <4>1. IsSequence(<<>>) /\ \A k \in DOMAIN <<>> : IsCall(<<>>[k])
          BY DEF IsSequence
        <4> QED
          BY <3>2, <4>1, PreambleMessage, MessageWithCalls
      <3> HIDE DEF h
      <3> QED
        BY <3>1, <3>2, <3>3, <3>5, <3>6, RepairedCases
    <2>5. IsTranscript(stored)
      BY DEF TranscriptInv, Transcripts
    <2> DEFINE S == {stored[i] : i \in DOMAIN stored} \cup {Preamble}
    <2>6. stored \in Seq(S) /\ Preamble \in S
      <3>1. stored \in Seq({stored[i] : i \in DOMAIN stored})
        BY <2>5, TranscriptElements
      <3> QED
        BY <3>1
    <2>7. current = stored \o <<Preamble>>
      BY <2>3, <2>4
    <2> HIDE DEF S, current
    <2>8. Len(current) = Len(stored) + 1 /\ Len(stored) \in Nat
      BY <2>6, <2>7
    <2>9. SubSeq(stored, 1, Len(stored)) = SubSeq(current, 1, Len(stored))
      <3> DEFINE a == SubSeq(stored, 1, Len(stored))
                 b == SubSeq(current, 1, Len(stored))
      <3>1. /\ a \in Seq(S) /\ b \in Seq(S) /\ Len(a) = Len(stored) /\ Len(b) = Len(stored)
            /\ \A i \in 1..Len(stored) : a[i] = b[i]
        BY <2>6, <2>7, <2>8
      <3> HIDE DEF a, b
      <3>2. a = b
        BY <3>1, SameSequence
      <3> QED
        BY <3>2 DEF a, b
    <2>10. IsPrefix(stored, current)
      BY <2>8, <2>9 DEF IsPrefix
    <2>11. Len(current) - Len(stored) <= IF nudged /\ step = nudgeStep + 1 THEN 1 ELSE 0
      BY <1>4, <2>8
    <2> QED
      BY <2>10, <2>11 DEF SavedBeforeAsking, current
  <1> QED
    BY <1>3, <1>4 DEF SavedInv

-----------------------------------------------------------------------------
(***************************************************************************)
(* ShownIsRecorded.                                                        *)
(***************************************************************************)
Recorded(h) == Cardinality(RecordedResults(h))

IsRecord(msg) == msg.role = "tool" /\ msg.body # Interrupted

LEMMA RecordedIsNat ==
  ASSUME NEW h, IsTranscript(h)
  PROVE  IsFiniteSet(RecordedResults(h)) /\ Recorded(h) \in Nat
  <1>1. Len(h) \in Nat /\ DOMAIN h = 1..Len(h)
    BY TranscriptElements
  <1>2. RecordedResults(h) \subseteq 1..Len(h)
    BY <1>1 DEF RecordedResults
  <1>3. IsFiniteSet(1..Len(h))
    BY <1>1, FS_Interval
  <1>4. IsFiniteSet(RecordedResults(h))
    BY <1>2, <1>3, FS_Subset
  <1> QED
    BY <1>4, FS_CardinalityType DEF Recorded

\* A result more is recorded exactly when the message appended is one.
LEMMA RecordedAppend ==
  ASSUME NEW h, IsTranscript(h), NEW msg, IsMessage(msg)
  PROVE  Recorded(Append(h, msg)) = Recorded(h) + IF IsRecord(msg) THEN 1 ELSE 0
  <1> DEFINE g == Append(h, msg)
  <1>1. IsTranscript(g) /\ Len(g) = Len(h) + 1 /\ g[Len(h)+1] = msg /\ Extends(h, g)
    BY TranscriptAppend
  <1> HIDE DEF g
  <1>2. /\ Len(h) \in Nat /\ DOMAIN h = 1..Len(h) /\ DOMAIN g = 1..Len(g)
        /\ \A i \in DOMAIN h : g[i] = h[i]
    BY <1>1, TranscriptElements DEF Extends
  <1>3. DOMAIN g = DOMAIN h \cup {Len(h) + 1} /\ Len(h) + 1 \notin DOMAIN h
    BY <1>1, <1>2
  <1>4. RecordedResults(g) = {i \in DOMAIN g : IsRecord(g[i])}
        /\ RecordedResults(h) = {i \in DOMAIN h : IsRecord(h[i])}
    BY DEF RecordedResults, IsRecord
  <1>5. RecordedResults(g) = IF IsRecord(msg) THEN RecordedResults(h) \cup {Len(h) + 1}
                             ELSE RecordedResults(h)
    BY <1>1, <1>2, <1>3, <1>4
  <1>6. Len(h) + 1 \notin RecordedResults(h)
    BY <1>3, <1>4
  <1>7. IsFiniteSet(RecordedResults(h)) /\ Recorded(h) \in Nat
    BY RecordedIsNat
  <1>8. Cardinality(RecordedResults(h) \cup {Len(h) + 1}) = Cardinality(RecordedResults(h)) + 1
    BY <1>6, <1>7, FS_AddElement
  <1>9. CASE IsRecord(msg)
    <2>1. Recorded(g) = Recorded(h) + 1
      BY <1>5, <1>8, <1>9 DEF Recorded
    <2> QED
      BY <1>9, <2>1 DEF g
  <1>10. CASE ~ IsRecord(msg)
    <2>1. Recorded(g) = Recorded(h)
      BY <1>5, <1>10 DEF Recorded
    <2> QED
      BY <1>7, <1>10, <2>1 DEF g
  <1> QED
    BY <1>9, <1>10

\* How many results of this turn the transcript records.
TurnResults == Recorded(msgs) - Recorded(preMessages)

\* The one result handed out and not recorded yet is the one that is taken.
ShownInv ==
  /\ IsTranscript(preMessages)
  /\ unwinding => pc \in {"saving", "ended"} /\ (pc = "saving" => after = "ended")
  /\ pc \in {"open", "load"} => told = 0 /\ preMessages = <<>>
  /\ pc = "result" => output \in {"ok", "fail"} /\ told = TurnResults + 1
  /\ pc # "result" /\ ~unwinding => told = TurnResults
  /\ unwinding => TurnResults <= told /\ told <= TurnResults + 1

\* A message that is no tool's leaves the count as it is.
LEMMA ShownSame ==
  ASSUME TranscriptInv, ShownInv, preMessages' = preMessages,
         \/ msgs' = msgs
         \/ \E msg : msgs' = Append(msgs, msg) /\ IsMessage(msg) /\ ~ IsTool(msg)
  PROVE  TurnResults' = TurnResults /\ TurnResults \in Int /\ IsTranscript(preMessages')
  <1>1. IsTranscript(msgs)
    BY DEF TranscriptInv, Transcripts
  <1>2. Recorded(msgs) \in Nat /\ Recorded(preMessages) \in Nat
    BY <1>1, RecordedIsNat DEF ShownInv
  <1>3. Recorded(msgs') = Recorded(msgs)
    <2>1. CASE msgs' = msgs
      BY <2>1
    <2>2. ASSUME NEW msg, msgs' = Append(msgs, msg), IsMessage(msg), ~ IsTool(msg)
          PROVE  Recorded(msgs') = Recorded(msgs)
      <3>1. ~ IsRecord(msg)
        BY <2>2 DEF IsRecord, IsTool
      <3>2. Recorded(msgs') = Recorded(msgs) + IF IsRecord(msg) THEN 1 ELSE 0
        BY <1>1, <2>2, RecordedAppend
      <3> QED
        BY <1>2, <3>1, <3>2
    <2> QED
      BY <2>1, <2>2
  <1> QED
    BY <1>2, <1>3 DEF TurnResults, ShownInv

LEMMA ShownGenerate ==
  ASSUME TypeOK, TranscriptInv, ShownInv, RecordAssistant, preMessages' = preMessages
  PROVE  TurnResults' = TurnResults /\ TurnResults \in Int /\ IsTranscript(preMessages')
  <1>1. IsMessage(Generated) /\ ~ IsTool(Generated)
    BY GeneratedMessage DEF TypeOK
  <1> QED
    BY <1>1, RecordAssistantAppends, ShownSame

LEMMA ShownRecord ==
  ASSUME TypeOK, TranscriptInv, ShownInv, RecordResult
  PROVE  TurnResults' = TurnResults + 1 /\ TurnResults \in Int /\ IsTranscript(preMessages')
  <1> DEFINE msg == ToolResult(CallId(ci), output)
  <1>1. IsTranscript(msgs)
    BY DEF TranscriptInv, Transcripts
  <1>2. Recorded(msgs) \in Nat /\ Recorded(preMessages) \in Nat
    BY <1>1, RecordedIsNat DEF ShownInv
  <1>3. msgs' = Append(msgs, msg) /\ preMessages' = preMessages /\ output \in {"ok", "fail"}
    BY DEF RecordResult, AppendResult, ShownInv
  <1>4. IsMessage(msg) /\ msg.role = "tool" /\ msg.body = output
    BY ResultMessage
  <1>5. IsRecord(msg)
    BY <1>3, <1>4 DEF IsRecord, Interrupted
  <1> HIDE DEF msg
  <1>6. Recorded(msgs') = Recorded(msgs) + 1
    BY <1>1, <1>3, <1>4, <1>5, RecordedAppend
  <1> QED
    BY <1>2, <1>3, <1>6 DEF TurnResults, ShownInv

LEMMA ShownInvInit == Init => ShownInv
  <1> SUFFICES ASSUME Init PROVE ShownInv
    OBVIOUS
  <1>1. IsTranscript(<<>>)
    BY CanonicalEmpty DEF Canonical
  <1>2. Recorded(<<>>) \in Nat
    BY <1>1, RecordedIsNat
  <1>3. TurnResults = 0
    BY <1>2 DEF TurnResults, Init
  <1> QED
    BY <1>1, <1>3 DEF Init, ShownInv

LEMMA ShownInvNext == TypeOK /\ TranscriptInv /\ ShownInv /\ [Next]_vars => ShownInv'
<1> SUFFICES ASSUME TypeOK, TranscriptInv, ShownInv, [Next]_vars PROVE ShownInv'
  OBVIOUS
<1> USE DEF ShownInv
<1> USE DEF vars, where, turn, nudge, marks, gen, memory, files, saves, outside, counts
<1>0. told \in Nat /\ unwinding \in BOOLEAN
  BY DEF TypeOK
<1>1. CASE Load
  <2> DEFINE h == SanitizeHistory(stored)
  <2>1. IsTranscript(h)
    BY SanitizedIsReplayable DEF TranscriptInv, Transcripts
  <2>2. preMessages' = h /\ msgs' = Append(h, User("text"))
    BY <1>1 DEF Load, InitialMessages
  <2>3. ~ IsRecord(User("text"))
    BY UserMessage DEF IsRecord, IsTool
  <2>4. Recorded(msgs') = Recorded(preMessages') /\ Recorded(preMessages') \in Nat
    BY <2>1, <2>2, <2>3, UserMessage, RecordedAppend, RecordedIsNat
  <2>5. TurnResults' = 0 /\ IsTranscript(preMessages')
    <3>1. TurnResults' = Recorded(msgs') - Recorded(preMessages')
      BY DEF TurnResults
    <3> QED
      BY <2>1, <2>2, <2>4, <3>1
  <2>6. told = 0 /\ told' = told /\ pc' = "announce" /\ ~unwinding /\ unwinding' = unwinding
    BY <1>1 DEF Load, Yield
  <2> QED
    BY <2>5, <2>6
<1>2. CASE StreamFails
  <2>1. TurnResults' = TurnResults /\ IsTranscript(preMessages')
    BY <1>2, ShownGenerate DEF StreamFails
  <2> QED
    BY <1>2, <2>1 DEF StreamFails, LeaveLoop, Yield
<1>3. CASE StreamEndsWithCalls
  <2>1. TurnResults' = TurnResults /\ IsTranscript(preMessages')
    BY <1>3, ShownGenerate DEF StreamEndsWithCalls
  <2> QED
    BY <1>3, <2>1 DEF StreamEndsWithCalls, ShowCall, Yield
<1>4. CASE Stall
  <2>1. TurnResults' = TurnResults /\ IsTranscript(preMessages')
    BY <1>4, ShownGenerate DEF Stall
  <2> QED
    BY <1>4, <2>1 DEF Stall, Go, LeaveLoop, Yield, Persist
<1>5. CASE Reply
  <2>1. TurnResults' = TurnResults /\ IsTranscript(preMessages')
    BY <1>5, ShownGenerate DEF Reply
  <2> QED
    BY <1>5, <2>1 DEF Reply, LeaveLoop, Yield, Persist, Go
<1>6. CASE RecordResult
  <2>1. TurnResults' = TurnResults + 1 /\ TurnResults \in Int /\ IsTranscript(preMessages')
    BY <1>6, ShownRecord
  <2>2. pc' \in {"saving", "answered"} /\ told' = told /\ pc = "result"
        /\ unwinding' = unwinding /\ ~unwinding
    BY <1>6 DEF RecordResult, Persist, Go
  <2> QED
    BY <2>1, <2>2
<1>7. CASE NoteTaken
  <2>1. TurnResults' = TurnResults /\ IsTranscript(preMessages')
    BY <1>7, ShownSame, PreambleMessage DEF NoteTaken, Preamble
  <2> QED
    BY <1>7, <2>1 DEF NoteTaken, LeaveLoop, Yield, Persist, Go
<1>8. CASE UNCHANGED memory
  <2>1. TurnResults' = TurnResults /\ TurnResults \in Int /\ IsTranscript(preMessages')
    BY <1>8, ShownSame
  <2>2. preMessages' = preMessages
    BY <1>8
  <2> USE <1>0, <2>1, <2>2
  <2>3. CASE SaveReturns
    BY <2>3 DEF SaveReturns, Go, TypeOK
  <2>4. CASE SaveFails
    BY <2>4 DEF SaveFails, Go, TypeOK
  <2>5. CASE SaveCancelled
    BY <2>5 DEF SaveCancelled, Go, TypeOK
  <2>6. CASE LateSaveLands
    BY <2>6 DEF LateSaveLands
  <2>7. CASE Open
    BY <2>7 DEF Open, Go
  <2>8. CASE LoadFails
    BY <2>8 DEF LoadFails, Yield
  <2>9. CASE Announced
    BY <2>9 DEF Announced, Persist, Go
  <2>10. CASE BeginStep
    BY <2>10 DEF BeginStep, Ask
  <2>11. CASE StopAborted
    BY <2>11 DEF StopAborted, LeaveLoop, Yield, Persist, Go
  <2>12. CASE StepCap
    BY <2>12 DEF StepCap, Yield
  <2>13. CASE TextDelta
    BY <2>13 DEF TextDelta, Yield
  <2>14. CASE \E slot \in CallSlots : CallDelta(slot)
    BY <2>14 DEF CallDelta, Yield
  <2>15. CASE ForceRejected
    BY <2>15 DEF ForceRejected, Ask
  <2>16. CASE ContextRetry
    BY <2>16 DEF ContextRetry, Ask
  <2>17. CASE RejectCall
    BY <2>17 DEF RejectCall, ShowResult, Yield
  <2>18. CASE StartCall
    BY <2>18 DEF StartCall, Go
  <2>19. CASE Snapshot
    BY <2>19 DEF Snapshot, Go
  <2>20. CASE WriteLands
    BY <2>20 DEF WriteLands
  <2>21. CASE StrayWriteLands
    BY <2>21 DEF StrayWriteLands
  <2>22. CASE ToolReturns
    BY <2>22 DEF ToolReturns, ShowResult, Yield
  <2>23. CASE ToolTimesOut
    BY <2>23 DEF ToolTimesOut, ShowResult, Yield
  <2>24. CASE ToolReturnsGarbage
    BY <2>24 DEF ToolReturnsGarbage, Yield
  <2>25. CASE NextCall
    BY <2>25 DEF NextCall, ShowCall, Yield
  <2>26. CASE NextStep
    BY <2>26 DEF NextStep, Go
  <2>27. CASE ErrorTaken
    BY <2>27 DEF ErrorTaken, Persist, Go
  <2>28. CASE SendDone
    BY <2>28 DEF SendDone, Yield
  <2>29. CASE CrashTaken
    BY <2>29 DEF CrashTaken, Yield
  <2>30. CASE DoneTaken
    BY <2>30 DEF DoneTaken, Persist, Go
  <2>31. CASE Close
    BY <2>31 DEF Close, Unwind, Persist, Go
  <2>32. CASE Cancel
    BY <2>32 DEF Cancel, Unwind, Persist, Go
  <2>33. CASE Abort
    BY <2>33 DEF Abort
  <2>34. CASE Quiet
    BY <2>34 DEF Quiet
  <2>35. CASE UNCHANGED vars
    BY <2>35
  <2> QED
    BY <1>1, <1>2, <1>3, <1>4, <1>5, <1>6, <1>7, <2>3, <2>4, <2>5, <2>6, <2>7, <2>8,
       <2>9, <2>10, <2>11, <2>12, <2>13, <2>14, <2>15, <2>16, <2>17, <2>18, <2>19,
       <2>20, <2>21, <2>22, <2>23, <2>24, <2>25, <2>26, <2>27, <2>28, <2>29, <2>30,
       <2>31, <2>32, <2>33, <2>34, <2>35
    DEF Next, Loop, Asking, Answering, Tool, Store
<1> QED
  <2>1. \/ Load \/ StreamFails \/ StreamEndsWithCalls \/ Stall \/ Reply \/ RecordResult
        \/ NoteTaken \/ UNCHANGED memory
    BY DEF Next, Loop, Asking, Answering, Tool, Store, Open, Announced, BeginStep,
       StopAborted, StepCap, RejectCall, StartCall, NextCall, NextStep, ErrorTaken,
       SendDone, CrashTaken, DoneTaken, TextDelta, CallDelta, ForceRejected,
       ContextRetry, ToolReturns, ToolTimesOut, ToolReturnsGarbage, Snapshot, LoadFails,
       WriteLands, StrayWriteLands, Close, Cancel, Unwind, Abort, Quiet,
       SaveReturns, SaveFails, SaveCancelled, LateSaveLands
  <2> QED
    BY <1>1, <1>2, <1>3, <1>4, <1>5, <1>6, <1>7, <1>8, <2>1

LEMMA ShownInvHolds == Safe => []ShownInv
  BY ShownInvInit, ShownInvNext, TypeHolds, TranscriptInvHolds, PTL DEF Safe

-----------------------------------------------------------------------------
(***************************************************************************)
(* ForcedOnlyWhenStalled.                                                  *)
(***************************************************************************)
IsWrite(msg, k) == CallsOf(msg)[k].name = "write"
Worked(msg)     == msg.role = "tool" /\ msg.body = "ok"

\* The messages of h after the first n hold no write that worked.
NoWrite(n, h) ==
  \A i \in n+1..Len(h) : \A k \in DOMAIN CallsOf(h[i]) :
    i + k <= Len(h) => ~ (IsWrite(h[i], k) /\ Worked(h[i+k]))

\* After the first n messages of h there is room for the results of every
\* call, but for those of the message at `open'.
Settled(n, h, open) ==
  \A i \in n+1..Len(h) : i # open => i + Len(CallsOf(h[i])) <= Len(h)

\* The calls of msg are the generation's.
SameNames(msg, cs) ==
  /\ Len(CallsOf(msg)) = Len(cs)
  /\ \A k \in DOMAIN cs : CallsOf(msg)[k].name = cs[k].name

LEMMA DomainOfCalls ==
  ASSUME NEW h, IsTranscript(h), NEW i \in DOMAIN h
  PROVE  Len(CallsOf(h[i])) \in Nat /\ DOMAIN CallsOf(h[i]) = 1..Len(CallsOf(h[i]))
  <1>1. IsMessage(h[i])
    BY TranscriptElements
  <1> QED
    BY <1>1, CallsOfMessage

\* A message that is no successful result completes no write.
LEMMA NoWriteAppend ==
  ASSUME NEW h, IsTranscript(h), NEW msg, IsMessage(msg), NEW n \in Nat, NoWrite(n, h),
         ~ Worked(msg), ~ IsTool(msg) => Len(CallsOf(msg)) \in Nat
  PROVE  NoWrite(n, Append(h, msg))
  <1> DEFINE g == Append(h, msg)
  <1>1. IsTranscript(g) /\ Len(g) = Len(h) + 1 /\ g[Len(h)+1] = msg /\ Extends(h, g)
    BY TranscriptAppend
  <1> HIDE DEF g
  <1>2. /\ Len(h) \in Nat /\ DOMAIN h = 1..Len(h) /\ DOMAIN g = 1..Len(g)
        /\ \A j \in 1..Len(h) : g[j] = h[j]
    BY <1>1, TranscriptElements DEF Extends
  <1>3. ASSUME NEW i \in n+1..Len(g), NEW k \in DOMAIN CallsOf(g[i]), i + k <= Len(g)
        PROVE  ~ (IsWrite(g[i], k) /\ Worked(g[i+k]))
    <2>0. i \in DOMAIN g
      BY <1>2
    <2>1. k \in Nat /\ k >= 1
      <3>1. DOMAIN CallsOf(g[i]) = 1..Len(CallsOf(g[i])) /\ Len(CallsOf(g[i])) \in Nat
        BY <1>1, <2>0, DomainOfCalls
      <3> QED
        BY <3>1
    <2>2. CASE i + k = Len(h) + 1
      BY <1>1, <2>2
    <2>3. CASE i + k # Len(h) + 1
      <3>1. i \in n+1..Len(h) /\ i + k <= Len(h) /\ i \in 1..Len(h) /\ i + k \in 1..Len(h)
        BY <1>1, <1>2, <1>3, <2>1, <2>3
      <3>2. g[i] = h[i] /\ g[i+k] = h[i+k]
        BY <1>2, <3>1
      <3>3. k \in DOMAIN CallsOf(h[i])
        BY <3>2
      <3> QED
        BY <3>1, <3>2, <3>3 DEF NoWrite
    <2> QED
      BY <2>2, <2>3
  <1>4. NoWrite(n, g)
    BY <1>3 DEF NoWrite
  <1> QED
    BY <1>4 DEF g

\* Nor does the result of a call that is no write, if only its message is open.
LEMMA NoWriteResult ==
  ASSUME NEW h, IsTranscript(h), NEW msg, IsMessage(msg), NEW n \in Nat, NoWrite(n, h),
         NEW open \in n+1..Len(h), Settled(n, h, open), NEW c \in Nat,
         open + c = Len(h) + 1, ~ IsWrite(h[open], c)
  PROVE  NoWrite(n, Append(h, msg))
  <1> DEFINE g == Append(h, msg)
  <1>1. IsTranscript(g) /\ Len(g) = Len(h) + 1 /\ g[Len(h)+1] = msg /\ Extends(h, g)
    BY TranscriptAppend
  <1> HIDE DEF g
  <1>2. /\ Len(h) \in Nat /\ DOMAIN h = 1..Len(h) /\ DOMAIN g = 1..Len(g)
        /\ \A j \in 1..Len(h) : g[j] = h[j]
    BY <1>1, TranscriptElements DEF Extends
  <1>3. ASSUME NEW i \in n+1..Len(g), NEW k \in DOMAIN CallsOf(g[i]), i + k <= Len(g)
        PROVE  ~ (IsWrite(g[i], k) /\ Worked(g[i+k]))
    <2>0. i \in DOMAIN g
      BY <1>2
    <2>1. k \in 1..Len(CallsOf(g[i])) /\ Len(CallsOf(g[i])) \in Nat
      BY <1>1, <2>0, DomainOfCalls
    <2>2. i \in n+1..Len(h) /\ i \in 1..Len(h) /\ g[i] = h[i] /\ i \in Nat /\ open \in Nat
      <3>1. i \in n+1..Len(h) /\ i \in 1..Len(h) /\ open \in Nat
        BY <1>1, <1>2, <1>3, <2>1
      <3> QED
        BY <1>2, <3>1
    <2>3. CASE i + k = Len(h) + 1
      <3>1. i = open
        <4> SUFFICES ASSUME i # open PROVE FALSE
          OBVIOUS
        <4>1. i + Len(CallsOf(g[i])) <= Len(h)
          BY <2>2 DEF Settled
        <4> QED
          BY <1>2, <2>1, <2>2, <2>3, <4>1
      <3>2. k = c
        BY <1>2, <2>1, <2>2, <2>3, <3>1
      <3> QED
        BY <2>2, <3>1, <3>2
    <2>4. CASE i + k # Len(h) + 1
      <3>1. i + k <= Len(h) /\ i + k \in 1..Len(h)
        BY <1>1, <1>2, <1>3, <2>1, <2>2, <2>4
      <3>2. g[i+k] = h[i+k] /\ k \in DOMAIN CallsOf(h[i])
        BY <1>2, <2>2, <3>1
      <3> QED
        BY <2>2, <3>1, <3>2 DEF NoWrite
    <2> QED
      BY <2>3, <2>4
  <1>4. NoWrite(n, g)
    BY <1>3 DEF NoWrite
  <1> QED
    BY <1>4 DEF g

\* What is settled stays so; a message without calls is settled at once.
LEMMA SettledAppend ==
  ASSUME NEW h, IsTranscript(h), NEW msg, IsMessage(msg), NEW n \in Nat, NEW open,
         Settled(n, h, open), open = Len(h) + 1 \/ CallsOf(msg) = <<>>
  PROVE  Settled(n, Append(h, msg), open)
  <1> DEFINE g == Append(h, msg)
  <1>1. IsTranscript(g) /\ Len(g) = Len(h) + 1 /\ g[Len(h)+1] = msg /\ Extends(h, g)
    BY TranscriptAppend
  <1> HIDE DEF g
  <1>2. /\ Len(h) \in Nat /\ DOMAIN h = 1..Len(h) /\ DOMAIN g = 1..Len(g)
        /\ \A j \in 1..Len(h) : g[j] = h[j]
    BY <1>1, TranscriptElements DEF Extends
  <1>3. ASSUME NEW i \in n+1..Len(g), i # open
        PROVE  i + Len(CallsOf(g[i])) <= Len(g)
    <2>1. CASE i = Len(h) + 1
      <3>1. CallsOf(g[i]) = <<>>
        BY <1>1, <1>3, <2>1
      <3>2. Len(CallsOf(g[i])) = 0
        BY <3>1
      <3> QED
        BY <1>1, <1>2, <2>1, <3>2
    <2>2. CASE i # Len(h) + 1
      <3>1. i \in n+1..Len(h) /\ i \in 1..Len(h)
        BY <1>1, <1>2, <2>2
      <3>2. i + Len(CallsOf(h[i])) <= Len(h) /\ g[i] = h[i]
        BY <1>2, <1>3, <3>1 DEF Settled
      <3>3. Len(CallsOf(h[i])) \in Nat
        BY <1>2, <3>1, DomainOfCalls
      <3> QED
        BY <1>1, <1>2, <3>1, <3>2, <3>3
    <2> QED
      BY <2>1, <2>2
  <1>4. Settled(n, g, open)
    BY <1>3 DEF Settled
  <1> QED
    BY <1>4 DEF g

\* The message at `at' holds the generation's calls, and only they may still
\* be without their results.
InHand(n, h, at, cs) ==
  at \in n+1..Len(h) /\ SameNames(h[at], cs) /\ Settled(n, h, at)

\* Where the message of the calls being handled is.
At == Len(msgs) - (IF Standing = "answered" THEN ci ELSE ci - 1)

\* What makes ForcedOnlyWhenStalled inductive: calls and results line up, so a
\* write that worked is one the turn has counted, and a nudge is followed by
\* its step at once.
StalledInv ==
  /\ Len(preMessages) <= Len(msgs)
  /\ mutated \/ NoWrite(Len(preMessages), msgs)
  /\ aborted => pc \notin {"open", "load", "announce", "stream", "call", "snapshot",
                           "exec", "result"}
  /\ pc = "result" /\ output = "ok" => Current.name \in Tools
  /\ pc \in {"open", "load", "announce"} => ~mutated /\ ~nudged
  /\ nudged => ~plan
  /\ Standing \in {"stream", "announce"} \/ (Standing = "step" /\ ~aborted) =>
       Settled(Len(preMessages), msgs, 0)
  /\ Standing \in Handling => InHand(Len(preMessages), msgs, At, calls)
  /\ nudged /\ Standing \in InStep \cup {"step"} => step > nudgeStep
  /\ nudged /\ Standing \in {"step", "stream"} /\ step = nudgeStep + 1 => ~mutated

LEMMA StalledTypes ==
  ASSUME TranscriptInv, ShownInv
  PROVE  /\ IsTranscript(msgs) /\ IsTranscript(preMessages)
         /\ Len(msgs) \in Nat /\ Len(preMessages) \in Nat
  BY TranscriptElements DEF TranscriptInv, Transcripts, ShownInv

\* Text, or a generation, is recorded.
LEMMA StalledSay ==
  ASSUME TranscriptInv, ShownInv, StalledInv, NEW msg, IsMessage(msg), ~ IsTool(msg),
         msgs' = Append(msgs, msg), preMessages' = preMessages, mutated' = mutated
  PROVE  Len(preMessages') <= Len(msgs') /\ (mutated' \/ NoWrite(Len(preMessages'), msgs'))
  <1>1. IsTranscript(msgs) /\ Len(msgs) \in Nat /\ Len(preMessages) \in Nat
    BY StalledTypes
  <1>2. Len(msgs') = Len(msgs) + 1
    BY <1>1, TranscriptAppend
  <1>3. ~ Worked(msg) /\ Len(CallsOf(msg)) \in Nat
    BY CallsOfMessage DEF Worked, IsTool
  <1>4. NoWrite(Len(preMessages), msgs) => NoWrite(Len(preMessages'), msgs')
    BY <1>1, <1>3, NoWriteAppend
  <1> QED
    BY <1>1, <1>2, <1>4 DEF StalledInv

LEMMA StalledGenerate ==
  ASSUME TypeOK, TranscriptInv, ShownInv, StalledInv, pc = "stream", RecordAssistant,
         preMessages' = preMessages, mutated' = mutated
  PROVE  /\ Len(preMessages') <= Len(msgs') /\ (mutated' \/ NoWrite(Len(preMessages'), msgs'))
         /\ calls = <<>> => Settled(Len(preMessages'), msgs', 0)
         /\ calls # <<>> => InHand(Len(preMessages'), msgs', Len(msgs'), calls)
  <1> DEFINE n == Len(preMessages)
  <1>1. IsTranscript(msgs) /\ Len(msgs) \in Nat /\ n \in Nat /\ n <= Len(msgs)
    BY StalledTypes DEF StalledInv
  <1>2. calls \in Seq(CallSlots)
    BY DEF TypeOK
  <1>3. IsMessage(Generated) /\ ~ IsTool(Generated) /\ SameNames(Generated, calls)
        /\ (calls = <<>> => CallsOf(Generated) = <<>>)
    BY <1>2, GeneratedMessage DEF SameNames
  <1>4. Settled(n, msgs, 0)
    BY DEF StalledInv, Standing
  <1>5. msgs' = IF Produced THEN Append(msgs, Generated) ELSE msgs
    BY RecordAssistantAppends
  <1>6. CASE Produced
    <2>1. msgs' = Append(msgs, Generated)
      BY <1>5, <1>6
    <2>2. Len(preMessages') <= Len(msgs') /\ (mutated' \/ NoWrite(Len(preMessages'), msgs'))
      BY <1>3, <2>1, StalledSay
    <2>3. calls = <<>> => Settled(n, msgs', 0)
      BY <1>1, <1>3, <1>4, <2>1, SettledAppend
    <2>4. ASSUME calls # <<>> PROVE InHand(n, msgs', Len(msgs'), calls)
      <3>1. Settled(n, msgs, Len(msgs) + 1)
        BY <1>1, <1>4 DEF Settled
      <3>2. Settled(n, msgs', Len(msgs) + 1)
        BY <1>1, <1>3, <2>1, <3>1, SettledAppend
      <3>3. Len(msgs') = Len(msgs) + 1 /\ msgs'[Len(msgs)+1] = Generated
        BY <1>1, <1>3, <2>1, TranscriptAppend
      <3>4. Len(msgs') \in n+1..Len(msgs')
        BY <1>1, <3>3
      <3> QED
        BY <1>3, <3>2, <3>3, <3>4 DEF InHand
    <2> QED
      BY <2>2, <2>3, <2>4
  <1>7. CASE ~ Produced
    <2>1. msgs' = msgs /\ calls = <<>>
      BY <1>5, <1>7 DEF Produced
    <2> QED
      BY <1>1, <1>4, <2>1 DEF StalledInv
  <1> QED
    BY <1>6, <1>7

\* A result is recorded; a write that worked sets `mutated'.
LEMMA StalledRecord ==
  ASSUME TypeOK, TranscriptInv, ShownInv, StalledInv, RecordResult
  PROVE  /\ Len(preMessages') <= Len(msgs') /\ (mutated' \/ NoWrite(Len(preMessages'), msgs'))
         /\ InHand(Len(preMessages'), msgs', Len(msgs') - ci, calls)
  <1> DEFINE n == Len(preMessages)
             msg == ToolResult(CallId(ci), output)
             at == Len(msgs) - (ci - 1)
  <1>1. IsTranscript(msgs) /\ Len(msgs) \in Nat /\ n \in Nat /\ n <= Len(msgs)
    BY StalledTypes DEF StalledInv
  <1>2. /\ pc = "result" /\ msgs' = Append(msgs, msg) /\ preMessages' = preMessages
        /\ mutated' = (mutated \/ (/\ Current.name \in Tools
                                   /\ Mutates(Current.name)
                                   /\ output = "ok"))
    BY DEF RecordResult, AppendResult, memory
  <1>3. IsMessage(msg) /\ CallsOf(msg) = <<>> /\ msg.body = output
    BY ResultMessage
  <1>4. Standing = "result" /\ At = at /\ Standing \in Handling
    BY <1>2 DEF Standing, At, Handling
  <1>5. InHand(n, msgs, at, calls)
    BY <1>4 DEF StalledInv
  <1>6. ci \in DOMAIN calls /\ ci \in Nat
    BY <1>4 DEF TypeOK
  <1>7. Current.name \in Tools \/ output # "ok"
    BY <1>2 DEF StalledInv
  <1>8. ASSUME NoWrite(n, msgs), output # "ok" PROVE NoWrite(n, msgs')
    <2>1. ~ Worked(msg) /\ Len(CallsOf(msg)) \in Nat
      BY <1>3, <1>8 DEF Worked
    <2> HIDE DEF msg
    <2> QED
      BY <1>1, <1>2, <1>3, <1>8, <2>1, NoWriteAppend
  <1>9. ASSUME NoWrite(n, msgs), ~ Mutates(Current.name) PROVE NoWrite(n, msgs')
    <2>1. ~ IsWrite(msgs[at], ci)
      BY <1>5, <1>6, <1>9 DEF InHand, SameNames, IsWrite, Mutates, Current
    <2>2. at \in n+1..Len(msgs) /\ Settled(n, msgs, at)
      BY <1>5 DEF InHand
    <2>3. at + ci = Len(msgs) + 1
      BY <1>1, <1>6
    <2> HIDE DEF msg, at
    <2> QED
      BY <1>1, <1>2, <1>3, <1>6, <1>9, <2>1, <2>2, <2>3, NoWriteResult
  <1>10. mutated \/ NoWrite(n, msgs)
    BY DEF StalledInv
  <1>11. mutated' \/ NoWrite(Len(preMessages'), msgs')
    <2> HIDE DEF n, msg
    <2>1. mutated' \/ NoWrite(n, msgs')
      BY <1>2, <1>7, <1>8, <1>9, <1>10
    <2> QED
      BY <1>2, <2>1 DEF n
  <1>12. Len(msgs') = Len(msgs) + 1 /\ (\A j \in DOMAIN msgs : msgs'[j] = msgs[j])
         /\ DOMAIN msgs = 1..Len(msgs)
    <2> HIDE DEF msg
    <2>1. Extends(msgs, Append(msgs, msg)) /\ Len(Append(msgs, msg)) = Len(msgs) + 1
      BY <1>1, <1>3, TranscriptAppend
    <2> QED
      BY <1>1, <1>2, <2>1, TranscriptElements DEF Extends
  <1>13. Len(msgs') - ci = at
    BY <1>1, <1>6, <1>12
  <1>14. InHand(n, msgs', at, calls)
    <2>1. at \in n+1..Len(msgs) /\ Settled(n, msgs, at) /\ SameNames(msgs[at], calls)
      BY <1>5 DEF InHand
    <2> HIDE DEF msg, at
    <2>2. Settled(n, msgs', at)
      BY <1>1, <1>2, <1>3, <2>1, SettledAppend
    <2>3. at \in n+1..Len(msgs') /\ at \in DOMAIN msgs
      BY <1>1, <1>12, <2>1
    <2>4. msgs'[at] = msgs[at]
      BY <1>12, <2>3
    <2> QED
      BY <2>1, <2>2, <2>3, <2>4 DEF InHand
  <1>15. Len(preMessages') <= Len(msgs')
    BY <1>1, <1>2, <1>12
  <1> QED
    BY <1>2, <1>11, <1>13, <1>14, <1>15

\* Once the last call is answered every call of the turn is.
LEMMA StalledAnswered ==
  ASSUME TypeOK, TranscriptInv, ShownInv, StalledInv, pc = "answered", ci = Len(calls)
  PROVE  Settled(Len(preMessages), msgs, 0)
  <1> DEFINE n == Len(preMessages)
             at == Len(msgs) - ci
  <1>1. IsTranscript(msgs) /\ Len(msgs) \in Nat /\ n \in Nat
    BY StalledTypes
  <1>2. Standing = "answered" /\ At = at /\ Standing \in Handling
    BY DEF Standing, At, Handling
  <1>3. InHand(n, msgs, at, calls)
    BY <1>2 DEF StalledInv
  <1>4. at + Len(CallsOf(msgs[at])) <= Len(msgs)
    <2>1. Len(CallsOf(msgs[at])) = ci /\ ci \in Nat
      BY <1>3 DEF InHand, SameNames, TypeOK
    <2> QED
      BY <1>1, <2>1
  <1>5. Settled(n, msgs, at)
    BY <1>3 DEF InHand
  <1> HIDE DEF at
  <1> QED
    BY <1>4, <1>5 DEF Settled

LEMMA StalledInvInit == Init => StalledInv
  <1> SUFFICES ASSUME Init PROVE StalledInv
    OBVIOUS
  <1>1. Len(msgs) = 0 /\ Len(preMessages) = 0 /\ pc = "open" /\ ~aborted /\ ~mutated /\ ~nudged
    BY DEF Init
  <1>2. NoWrite(Len(preMessages), msgs)
    BY <1>1 DEF NoWrite
  <1>3. Standing = "open"
    BY <1>1 DEF Standing
  <1> QED
    BY <1>1, <1>2, <1>3 DEF StalledInv, InStep, Handling

LEMMA StalledInvNext ==
  TypeOK /\ SnapshotInv /\ TranscriptInv /\ ShownInv /\ StalledInv /\ [Next]_vars => StalledInv'
<1> SUFFICES ASSUME TypeOK, SnapshotInv, TranscriptInv, ShownInv, StalledInv, [Next]_vars
             PROVE  StalledInv'
  OBVIOUS
<1> USE DEF StalledInv, At, Standing, Handling, InStep
<1> USE DEF vars, where, turn, nudge, marks, gen, memory, files, saves, outside, counts
<1>0. /\ Len(msgs) \in Nat /\ Len(preMessages) \in Nat /\ ci \in Nat
      /\ step \in Int /\ nudgeStep \in Int
      /\ mutated \in BOOLEAN /\ nudged \in BOOLEAN /\ aborted \in BOOLEAN
      /\ after \in {"step", "answered", "ending", "ended"}
      /\ msgs = <<>> => pc \in {"open", "load", "crash", "done", "ended"}
  BY StalledTypes, StepsAssumption DEF TypeOK, TranscriptInv
<1>1. CASE Load
  <2> DEFINE h == SanitizeHistory(stored)
  <2>1. IsTranscript(h)
    BY SanitizedIsReplayable DEF TranscriptInv, Transcripts
  <2>2. preMessages' = h /\ msgs' = Append(h, User("text"))
    BY <1>1 DEF Load, InitialMessages
  <2>3. Len(h) \in Nat
    BY <2>1, TranscriptElements
  <2> HIDE DEF h
  <2>4. Len(msgs') = Len(h) + 1
    BY <2>1, <2>2, UserMessage, TranscriptAppend
  <2>5. NoWrite(Len(h), h) /\ Settled(Len(h), h, 0)
    BY <2>3 DEF NoWrite, Settled
  <2>6. ~ Worked(User("text")) /\ Len(CallsOf(User("text"))) = 0
    BY UserMessage DEF Worked, IsTool
  <2>7. NoWrite(Len(h), msgs')
    BY <2>1, <2>2, <2>3, <2>5, <2>6, UserMessage, NoWriteAppend
  <2>8. Settled(Len(h), msgs', 0)
    BY <2>1, <2>2, <2>3, <2>5, UserMessage, SettledAppend
  <2>9. /\ pc' = "announce" /\ ~mutated' /\ ~nudged' /\ ~aborted'
    BY <1>1, <1>0 DEF Load, Yield
  <2> QED
    BY <2>2, <2>3, <2>4, <2>7, <2>8, <2>9
<1>2. CASE StreamFails
  <2>1. Len(preMessages') <= Len(msgs') /\ (mutated' \/ NoWrite(Len(preMessages'), msgs'))
    BY <1>2, StalledGenerate DEF StreamFails
  <2>2. pc' = "error" /\ plan' = plan /\ nudged' = nudged
    BY <1>2 DEF StreamFails, LeaveLoop, Yield
  <2> QED
    BY <2>1, <2>2
<1>3. CASE StreamEndsWithCalls
  <2>1. /\ Len(preMessages') <= Len(msgs') /\ (mutated' \/ NoWrite(Len(preMessages'), msgs'))
        /\ InHand(Len(preMessages'), msgs', Len(msgs'), calls)
    BY <1>3, StalledGenerate DEF StreamEndsWithCalls
  <2>2. pc' = "call" /\ ci' = 1 /\ calls' = calls /\ UNCHANGED <<plan, step, nudged, nudgeStep, aborted>>
    BY <1>3 DEF StreamEndsWithCalls, ShowCall, Yield
  <2>3. Len(msgs') \in Nat
    <3>1. IsTranscript(msgs')
      BY TranscriptInvNext DEF TranscriptInv, Transcripts
    <3> QED
      BY <3>1, TranscriptElements
  <2>4. At' = Len(msgs')
    BY <2>2, <2>3
  <2>5. pc = "stream"
    BY <1>3 DEF StreamEndsWithCalls
  <2> HIDE DEF At
  <2> QED
    BY <1>0, <2>1, <2>2, <2>4, <2>5
<1>4. CASE Stall
  <2>1. /\ Len(preMessages') <= Len(msgs') /\ (mutated' \/ NoWrite(Len(preMessages'), msgs'))
        /\ Settled(Len(preMessages'), msgs', 0)
    BY <1>4, StalledGenerate DEF Stall
  <2>2. ~mutated' /\ nudgeStep' = step /\ ~plan'
    BY <1>4 DEF Stall, MayNudge, Tools
  <2>3. \/ pc' = "step" /\ step' = step + 1
        \/ pc' = "error"
        \/ pc' = "saving" /\ after' = "ending"
        \/ pc' = "ending"
    BY <1>4 DEF Stall, Go, LeaveLoop, Yield, Persist
  <2> QED
    BY <1>0, <2>1, <2>2, <2>3
<1>5. CASE Reply
  <2>1. Len(preMessages') <= Len(msgs') /\ (mutated' \/ NoWrite(Len(preMessages'), msgs'))
    BY <1>5, StalledGenerate DEF Reply
  <2>2. /\ pc' = "error" \/ (pc' = "saving" /\ after' = "ending") \/ pc' = "ending"
        /\ plan' = plan /\ nudged' = nudged
    BY <1>5 DEF Reply, LeaveLoop, Yield, Persist, Go
  <2> QED
    BY <2>1, <2>2
<1>6. CASE RecordResult
  <2>1. /\ Len(preMessages') <= Len(msgs') /\ (mutated' \/ NoWrite(Len(preMessages'), msgs'))
        /\ InHand(Len(preMessages'), msgs', Len(msgs') - ci, calls)
    BY <1>6, StalledRecord
  <2>2. /\ pc = "result" /\ Standing' = "answered" /\ pc' \in {"saving", "answered"}
        /\ UNCHANGED <<calls, ci, plan, step, nudged, nudgeStep, aborted>>
    BY <1>6 DEF RecordResult, Persist, Go
  <2>3. At' = Len(msgs') - ci
    BY <2>2
  <2> HIDE DEF At
  <2> QED
    BY <1>0, <2>1, <2>2, <2>3
<1>7. CASE NoteTaken
  <2>1. Len(preMessages') <= Len(msgs') /\ (mutated' \/ NoWrite(Len(preMessages'), msgs'))
    BY <1>7, StalledSay, PreambleMessage DEF NoteTaken, Preamble
  <2>2. /\ pc' = "error" \/ (pc' = "saving" /\ after' = "ending") \/ pc' = "ending"
        /\ plan' = plan /\ nudged' = nudged
    BY <1>7 DEF NoteTaken, LeaveLoop, Yield, Persist, Go
  <2> QED
    BY <2>1, <2>2
<1>8. CASE UNCHANGED memory
  <2>1. msgs' = msgs /\ preMessages' = preMessages
    BY <1>8
  <2> USE <1>0, <2>1
  <2>2. CASE SaveReturns
    BY <2>2 DEF SaveReturns, Go
  <2>3. CASE SaveFails
    BY <2>3 DEF SaveFails, Go
  <2>4. CASE SaveCancelled
    BY <2>4 DEF SaveCancelled, Go
  <2>5. CASE LateSaveLands
    BY <2>5 DEF LateSaveLands, Current, Tools
  <2>6. CASE Open
    BY <2>6 DEF Open, Go
  <2>7. CASE LoadFails
    BY <2>7 DEF LoadFails, Yield
  <2>8. CASE Announced
    BY <2>8 DEF Announced, Persist, Go
  <2>9. CASE BeginStep
    BY <2>9 DEF BeginStep, Ask
  <2>10. CASE StopAborted
    BY <2>10 DEF StopAborted, LeaveLoop, Yield, Persist, Go
  <2>11. CASE StepCap
    BY <2>11 DEF StepCap, Yield
  <2>12. CASE TextDelta
    BY <2>12 DEF TextDelta, Yield
  <2>13. CASE \E slot \in CallSlots : CallDelta(slot)
    BY <2>13 DEF CallDelta, Yield
  <2>14. CASE ForceRejected
    BY <2>14 DEF ForceRejected, Ask
  <2>15. CASE ContextRetry
    BY <2>15 DEF ContextRetry, Ask
  <2>16. CASE RejectCall
    BY <2>16 DEF RejectCall, ShowResult, Yield
  <2>17. CASE StartCall
    BY <2>17 DEF StartCall, Go
  <2>18. CASE Snapshot
    BY <2>18 DEF Snapshot, Go
  <2>19. CASE WriteLands
    BY <2>19 DEF WriteLands
  <2>20. CASE StrayWriteLands
    BY <2>20 DEF StrayWriteLands, Current, Tools
  <2>21. CASE ToolReturns
    BY <2>21 DEF ToolReturns, ShowResult, Yield, SnapshotInv, Current, Tools
  <2>22. CASE ToolTimesOut
    BY <2>22 DEF ToolTimesOut, ShowResult, Yield
  <2>23. CASE ToolReturnsGarbage
    BY <2>23 DEF ToolReturnsGarbage, Yield
  <2>24. CASE NextCall
    BY <2>24 DEF NextCall, ShowCall, Yield
  <2>25. CASE NextStep
    <3>1. /\ pc = "answered" /\ pc' = "step" /\ step' = step + 1
          /\ (aborted \/ ci = Len(calls))
          /\ UNCHANGED <<plan, nudged, nudgeStep, aborted, mutated>>
      BY <2>25 DEF NextStep, Go
    <3>2. ~aborted => Settled(Len(preMessages), msgs, 0)
      BY <3>1, StalledAnswered
    <3> QED
      BY <3>1, <3>2
  <2>26. CASE ErrorTaken
    BY <2>26 DEF ErrorTaken, Persist, Go
  <2>27. CASE SendDone
    BY <2>27 DEF SendDone, Yield
  <2>28. CASE CrashTaken
    BY <2>28 DEF CrashTaken, Yield
  <2>29. CASE DoneTaken
    BY <2>29 DEF DoneTaken, Persist, Go
  <2>30. CASE Close
    BY <2>30 DEF Close, Unwind, Persist, Go
  <2>31. CASE Cancel
    BY <2>31 DEF Cancel, Unwind, Persist, Go
  <2>32. CASE Abort
    BY <2>32 DEF Abort
  <2>33. CASE Quiet
    BY <2>33 DEF Quiet
  <2>34. CASE UNCHANGED vars
    BY <2>34 DEF Current, Tools
  <2> QED
    BY <1>1, <1>2, <1>3, <1>4, <1>5, <1>6, <1>7, <2>2, <2>3, <2>4, <2>5, <2>6, <2>7,
       <2>8, <2>9, <2>10, <2>11, <2>12, <2>13, <2>14, <2>15, <2>16, <2>17, <2>18, <2>19,
       <2>20, <2>21, <2>22, <2>23, <2>24, <2>25, <2>26, <2>27, <2>28, <2>29, <2>30,
       <2>31, <2>32, <2>33, <2>34
    DEF Next, Loop, Asking, Answering, Tool, Store
<1> QED
  <2>1. \/ Load \/ StreamFails \/ StreamEndsWithCalls \/ Stall \/ Reply \/ RecordResult
        \/ NoteTaken \/ UNCHANGED memory
    BY DEF Next, Loop, Asking, Answering, Tool, Store, Open, Announced, BeginStep,
       StopAborted, StepCap, RejectCall, StartCall, NextCall, NextStep, ErrorTaken,
       SendDone, CrashTaken, DoneTaken, TextDelta, CallDelta, ForceRejected,
       ContextRetry, ToolReturns, ToolTimesOut, ToolReturnsGarbage, Snapshot, LoadFails,
       WriteLands, StrayWriteLands, Close, Cancel, Unwind, Abort, Quiet,
       SaveReturns, SaveFails, SaveCancelled, LateSaveLands
  <2> QED
    BY <1>1, <1>2, <1>3, <1>4, <1>5, <1>6, <1>7, <1>8, <2>1

LEMMA StalledInvHolds == Safe => []StalledInv
  BY StalledInvInit, StalledInvNext, TypeHolds, SnapshotInvHolds, TranscriptInvHolds,
     ShownInvHolds, PTL DEF Safe

\* The messages of the turn, on their own, hold no write that worked either.
LEMMA NoWriteRecorded ==
  ASSUME NEW h, IsTranscript(h), NEW n \in Nat, n <= Len(h), NoWrite(n, h)
  PROVE  ~ WriteRecorded(SubSeq(h, n + 1, Len(h)))
  <1> DEFINE g == SubSeq(h, n + 1, Len(h))
             S == {h[i] : i \in DOMAIN h}
  <1>1. h \in Seq(S) /\ Len(h) \in Nat /\ DOMAIN h = 1..Len(h)
    BY TranscriptElements
  <1> HIDE DEF S
  <1>2. Len(g) = Len(h) - n /\ DOMAIN g = 1..(Len(h) - n)
        /\ \A i \in 1..(Len(h) - n) : g[i] = h[n+i]
    <2>1. /\ n + 1 \in 1..Len(h) + 1 /\ Len(h) \in (n + 1) - 1..Len(h)
          /\ Len(h) - (n + 1) + 1 = Len(h) - n /\ Len(h) - n \in Nat
      BY <1>1
    <2>2. /\ g \in Seq(S) /\ Len(g) = Len(h) - (n + 1) + 1
          /\ \A i \in 1..(Len(h) - (n + 1) + 1) : g[i] = h[(n + 1) + i - 1]
      <3>1. \A i \in n+1..Len(h) : h[i] \in S
        BY <1>1
      <3>2. n + 1 \in Int /\ Len(h) \in Int /\ (~ (n + 1 <= Len(h)) => Len(h) - (n + 1) + 1 = 0)
        <4>1. Len(h) \in Nat
          BY <1>1
        <4> HIDE DEF g
        <4>2. ~ (n + 1 <= Len(h)) => Len(h) = n
          BY <4>1
        <4>3. n - (n + 1) + 1 = 0
          OBVIOUS
        <4> QED
          BY <4>1, <4>2, <4>3
      <3>3. /\ g \in Seq(S)
            /\ Len(g) = IF n + 1 <= Len(h) THEN Len(h) - (n + 1) + 1 ELSE 0
            /\ \A i \in 1..(Len(h) - (n + 1) + 1) : g[i] = h[(n + 1) + i - 1]
        BY <3>1, <3>2, SubSeqProperties
      <3> HIDE DEF g
      <3> QED
        BY <3>2, <3>3
    <2> HIDE DEF g
    <2>3. \A i \in 1..(Len(h) - n) : (n + 1) + i - 1 = n + i
      OBVIOUS
    <2> QED
      BY <2>1, <2>2, <2>3
  <1> HIDE DEF g
  <1> SUFFICES ASSUME WriteRecorded(g) PROVE FALSE
    BY DEF g
  <1>a. PICK i \in DOMAIN g : \E k \in DOMAIN CallsOf(g[i]) :
               /\ g[i].calls[k].name = "write"
               /\ i + k <= Len(g) /\ g[i+k].role = "tool" /\ g[i+k].body = "ok"
    BY DEF WriteRecorded
  <1>3. PICK k \in DOMAIN CallsOf(g[i]) :
               /\ g[i].calls[k].name = "write"
               /\ i + k <= Len(g) /\ g[i+k].role = "tool" /\ g[i+k].body = "ok"
    BY <1>a
  <1>4. n + i \in n+1..Len(h) /\ n + i \in DOMAIN h /\ g[i] = h[n+i] /\ i \in Nat /\ i >= 1
    BY <1>1, <1>2
  <1>5. k \in 1..Len(CallsOf(h[n+i])) /\ Len(CallsOf(h[n+i])) \in Nat
        /\ k \in DOMAIN CallsOf(h[n+i])
    BY <1>4, DomainOfCalls
  <1>6. CallsOf(g[i])[k].name = "write"
    <2>1. g[i].role = "assistant"
      <3> SUFFICES ASSUME g[i].role # "assistant" PROVE FALSE
        OBVIOUS
      <3>1. CallsOf(h[n+i]) = <<>>
        BY <1>4 DEF CallsOf
      <3>2. Len(CallsOf(h[n+i])) = 0
        BY <3>1
      <3> QED
        BY <1>5, <3>2
    <2> QED
      BY <1>3, <2>1 DEF CallsOf
  <1>7. IsWrite(h[n+i], k)
    BY <1>4, <1>6 DEF IsWrite
  <1>8. /\ i + k \in 1..(Len(h) - n) /\ (n + i) + k = n + (i + k) /\ (n + i) + k <= Len(h)
    BY <1>1, <1>2, <1>3, <1>4, <1>5
  <1>9. Worked(h[(n + i) + k])
    BY <1>2, <1>3, <1>8 DEF Worked
  <1> QED
    BY <1>4, <1>5, <1>7, <1>8, <1>9 DEF NoWrite

-----------------------------------------------------------------------------
(***************************************************************************)
(* The theorems.                                                           *)
(***************************************************************************)
\* The control state of a turn is well typed, whatever the model, the reader
\* and the store do.
THEOREM TypeCorrect == Spec => []TypeOK
  BY TypeHolds, PTL DEF Spec

\* No write of a turn reaches the files before the pre-turn snapshot was
\* attempted, none in plan mode, and a turn counts as having written only if
\* it has (run_turn and _ensure_snapshot).
THEOREM SnapshotBeforeWriteHolds == Spec => []SnapshotBeforeWrite
<1>1. SnapshotInv => SnapshotBeforeWrite
  BY DEF SnapshotInv
<1> QED
  BY <1>1, SnapshotInvHolds, PTL DEF Spec

\* The model is asked at most MaxSteps + MaxContextRetries + 1 times in a turn
\* (the step range, the context ladder and the one unforced retry).
THEOREM RequestsBoundedHolds == Spec => []RequestsBounded
<1>1. RequestsInv => RequestsBounded
  BY DEF RequestsInv
<1> QED
  BY <1>1, RequestsInvHolds, PTL DEF Spec

\* However the turn ends, the store holds what the turn recorded, unless a
\* save failed or was cut off (the save in the finally of run_turn).
THEOREM FinalSaveCompleteHolds == Spec => []FinalSaveComplete
<1>1. FinalSaveInv => FinalSaveComplete
  BY DEF FinalSaveInv
<1> QED
  BY <1>1, FinalSaveInvHolds, PTL DEF Spec

\* A turn implements the event stream of TurnEvents.tla: every frame it hands
\* out is one the protocol allows at that point (the yields of run_turn).
THEOREM EventsInOrderHolds == Spec => EventsInOrder
<1> USE DEF EventPhase, Events!Next, Events!Announce, Events!CallTool, Events!Answer,
            Events!Fail, Events!Finish, Events!Leave, Events!Become, Events!Over
<1> USE DEF vars, where, turn, nudge, marks, gen, memory, files, saves, outside, counts
<1>1. Init => Events!Init
  BY DEF Init, Events!Init
<1>2. TypeOK /\ EventsInv /\ EventsInv' /\ [Next]_vars
        => [Events!Next]_<<EventPhase, called - told>>
  <2> SUFFICES ASSUME TypeOK, EventsInv, EventsInv', [Next]_vars
               PROVE  [Events!Next]_<<EventPhase, called - told>>
    OBVIOUS
  <2> USE DEF TypeOK, EventsInv, LastFrames, Talk, Standing
  <2>1. CASE SaveReturns
    BY <2>1 DEF SaveReturns, Go
  <2>2. CASE SaveFails
    BY <2>2 DEF SaveFails, Go
  <2>3. CASE SaveCancelled
    BY <2>3 DEF SaveCancelled, Go
  <2>4. CASE LateSaveLands
    BY <2>4 DEF LateSaveLands
  <2>5. CASE Open
    BY <2>5 DEF Open, Go
  <2>6. CASE Load
    BY <2>6 DEF Load, Yield
  <2>7. CASE LoadFails
    BY <2>7 DEF LoadFails, Yield
  <2>8. CASE Announced
    BY <2>8 DEF Announced, Persist, Go
  <2>9. CASE BeginStep
    BY <2>9 DEF BeginStep, Ask, ForceTools
  <2>10. CASE StopAborted
    BY <2>10 DEF StopAborted, LeaveLoop, Yield, Persist, Go
  <2>11. CASE StepCap
    BY <2>11 DEF StepCap, Yield
  <2>12. CASE TextDelta
    BY <2>12 DEF TextDelta, Yield
  <2>13. CASE \E slot \in CallSlots : CallDelta(slot)
    BY <2>13 DEF CallDelta, Yield
  <2>14. CASE ForceRejected
    BY <2>14 DEF ForceRejected, Produced, Ask
  <2>15. CASE ContextRetry
    BY <2>15 DEF ContextRetry, MayRetry, Produced, Ask
  <2>16. CASE StreamFails
    BY <2>16 DEF StreamFails, LeaveLoop, RecordAssistant, Yield, Persist, Produced, Go
  <2>17. CASE StreamEndsWithCalls
    BY <2>17 DEF StreamEndsWithCalls, ShowCall, RecordAssistant, Yield, Produced
  <2>18. CASE Stall
    BY <2>18 DEF Stall, Go, LeaveLoop, RecordAssistant, MayNudge, Yield, Persist, Produced
  <2>19. CASE Reply
    BY <2>19 DEF Reply, LeaveLoop, RecordAssistant, Yield, Persist, Produced, Go
  <2>20. CASE RejectCall
    BY <2>20 DEF RejectCall, ShowResult, Yield
  <2>21. CASE StartCall
    BY <2>21 DEF StartCall, Go, NeedsSnapshot
  <2>22. CASE Snapshot
    BY <2>22 DEF Snapshot, Go
  <2>23. CASE WriteLands
    BY <2>23 DEF WriteLands
  <2>24. CASE StrayWriteLands
    BY <2>24 DEF StrayWriteLands
  <2>25. CASE ToolReturns
    BY <2>25 DEF ToolReturns, ShowResult, Yield
  <2>26. CASE ToolTimesOut
    BY <2>26 DEF ToolTimesOut, ShowResult, GiveUpTool, Yield
  <2>27. CASE ToolReturnsGarbage
    BY <2>27 DEF ToolReturnsGarbage, Yield
  <2>28. CASE RecordResult
    BY <2>28 DEF RecordResult, Persist, AppendResult, Go
  <2>29. CASE NextCall
    <3>1. EventPhase = "talking" /\ ~unwinding
      BY <2>29 DEF NextCall
    <3>2. EventPhase' = "calling"
      BY <2>29, <3>1 DEF NextCall, ShowCall, Yield
    <3>3. called' - told' = (called - told) + 1
      BY <2>29 DEF NextCall, ShowCall
    <3> QED
      BY <3>1, <3>2, <3>3
  <2>30. CASE NextStep
    BY <2>30 DEF NextStep, Go
  <2>31. CASE NoteTaken
    BY <2>31 DEF NoteTaken, LeaveLoop, Yield, Persist, Go
  <2>32. CASE ErrorTaken
    BY <2>32 DEF ErrorTaken, Persist, Go
  <2>33. CASE SendDone
    BY <2>33 DEF SendDone, Yield
  <2>34. CASE CrashTaken
    BY <2>34 DEF CrashTaken, Yield
  <2>35. CASE DoneTaken
    BY <2>35 DEF DoneTaken, Persist, Go
  <2>36. CASE Close
    BY <2>36 DEF Close, Unwind, Persist, GiveUpTool, Go
  <2>37. CASE Cancel
    BY <2>37 DEF Cancel, Unwind, Persist, GiveUpTool, Go
  <2>38. CASE Abort
    BY <2>38 DEF Abort
  <2>39. CASE Quiet
    BY <2>39 DEF Quiet
  <2>40. CASE UNCHANGED vars
    BY <2>40
  <2> QED
    BY <2>1, <2>2, <2>3, <2>4, <2>5, <2>6, <2>7, <2>8, <2>9, <2>10, <2>11, <2>12, <2>13,
       <2>14, <2>15, <2>16, <2>17, <2>18, <2>19, <2>20, <2>21, <2>22, <2>23, <2>24,
       <2>25, <2>26, <2>27, <2>28, <2>29, <2>30, <2>31, <2>32, <2>33, <2>34, <2>35,
       <2>36, <2>37, <2>38, <2>39, <2>40
    DEF Next, Loop, Asking, Answering, Tool, Store
<1> QED
  BY <1>1, <1>2, TypeHolds, EventsInvHolds, PTL DEF Spec, Safe, EventsInOrder, Events!Safe

\* Wherever a turn is cut off, what the store holds as the project's messages is
\* a transcript a provider accepts (run_turn saves through sanitize_history).
THEOREM StoredReplayableHolds == Spec => []StoredReplayable
  <1>1. TranscriptInv => StoredReplayable
    BY DEF TranscriptInv, Transcripts
  <1> QED
    BY <1>1, TranscriptInvHolds, PTL DEF Spec

\* No save loses anything the store held, while none that a cancellation cut
\* loose is under way: the messages stay, in their places, and only a stub may
\* become the result it stood for (sanitize_history and the saves of run_turn).
THEOREM SavesOnlyAddHolds == Spec => SavesOnlyAdd
  <1>1. TranscriptInv /\ [Next]_vars =>
          [late = {} /\ stored' # stored => Keeps(SanitizeHistory(stored), stored')]_vars
    BY SavesOnlyAddStep
  <1> QED
    BY <1>1, TranscriptInvHolds, PTL DEF Spec, Safe, SavesOnlyAdd

\* Whenever the model is asked again, the user's message and every finished call
\* are in the store; only the preamble of the step that was nudged may be
\* missing (the saves of run_turn's loop).
THEOREM SavedBeforeAskingHolds == Spec => []SavedBeforeAsking
  <1>1. TranscriptInv /\ SavedInv => SavedBeforeAsking
    <2>1. ASSUME TranscriptInv, SavedInv, ~ (pc = "stream" /\ lost = 0)
          PROVE  SavedBeforeAsking
      BY <2>1 DEF SavedBeforeAsking
    <2> QED
      BY <2>1, SavedInvSaves
  <1> QED
    BY <1>1, TranscriptInvHolds, SavedInvHolds, PTL DEF Spec

\* Every tool-result frame handed out is in the transcript, but for the one that
\* is being handed over, and the transcript records none that was not handed
\* out (run_turn yields a result and then appends it).
THEOREM ShownIsRecordedHolds == Spec => []ShownIsRecorded
  <1>1. TypeOK /\ TranscriptInv /\ ShownInv => ShownIsRecorded
    <2> SUFFICES ASSUME TypeOK, TranscriptInv, ShownInv PROVE ShownIsRecorded
      OBVIOUS
    <2>1. Recorded(msgs) \in Nat /\ Recorded(preMessages) \in Nat /\ told \in Nat
          /\ unwinding \in BOOLEAN
      BY RecordedIsNat DEF TranscriptInv, Transcripts, ShownInv, TypeOK
    <2>2. /\ TurnResults <= told /\ told <= TurnResults + 1
          /\ told = TurnResults + 1 => pc = "result" \/ unwinding
      BY <2>1 DEF ShownInv, TurnResults
    <2> QED
      BY <2>2 DEF ShownIsRecorded, TurnResults, Recorded
  <1> QED
    BY <1>1, TypeHolds, TranscriptInvHolds, ShownInvHolds, PTL DEF Spec

\* Tool use is only ever forced on a turn that offers tools, was nudged, and
\* whose transcript records no write that worked (run_turn: force_tools is set
\* for the one step after the nudge, and _mutated_this_turn forbids the nudge).
THEOREM ForcedOnlyWhenStalledHolds == Spec => []ForcedOnlyWhenStalled
  <1>1. RequestsInv /\ TranscriptInv /\ ShownInv /\ StalledInv => ForcedOnlyWhenStalled
    <2> SUFFICES ASSUME RequestsInv, TranscriptInv, ShownInv, StalledInv, force, pc = "stream"
                 PROVE  /\ nudged /\ ~plan
                        /\ ~WriteRecorded(SubSeq(msgs, Len(preMessages) + 1, Len(msgs)))
      BY DEF ForcedOnlyWhenStalled
    <2>1. Standing = "stream" /\ Standing \in InStep
      BY DEF Standing, InStep
    <2>2. nudged /\ step = nudgeStep + 1
      BY <2>1 DEF RequestsInv
    <2>3. ~plan /\ ~mutated /\ NoWrite(Len(preMessages), msgs)
          /\ Len(preMessages) <= Len(msgs)
      BY <2>1, <2>2 DEF StalledInv
    <2>4. ~WriteRecorded(SubSeq(msgs, Len(preMessages) + 1, Len(msgs)))
      BY <2>3, StalledTypes, NoWriteRecorded
    <2> QED
      BY <2>2, <2>3, <2>4
  <1> QED
    BY <1>1, RequestsInvHolds, TranscriptInvHolds, ShownInvHolds, StalledInvHolds, PTL DEF Spec
=============================================================================
