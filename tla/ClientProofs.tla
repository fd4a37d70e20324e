---------------------------- MODULE ClientProofs ----------------------------
(***************************************************************************)
(* Theorems about Client, for any projects and number of turns, rebuilds   *)
(* and moves.                                                              *)
(*                                                                         *)
(* The inductive invariant is TypeOK with three parts.  Held: a turn that  *)
(* is under way keeps the pane busy, by the ref or by what is rendered, so *)
(* no second one is let in even after a change of project has cleared the  *)
(* ref.  Reported: a turn sent to repair the present build has used up the *)
(* report of the present key.  Current: the one read that is waited for is *)
(* of this project.                                                        *)
(***************************************************************************)
EXTENDS ClientProperties, TLAPS

Held ==
  /\ TurnHeld
  /\ Live # {} => busy /\ (busyRef \/ shown)
  /\ abortRef # 0 => abortRef \in Live

Reported ==
  /\ OneRepairPerBuild
  /\ \A n \in Turns : about[n].build # 0 /\ about[n].build = build => firedFor = Key

Current ==
  /\ ShowsThisProject
  /\ \A r \in reads : r.visit = visit => r.of = project
  /\ \A r, s \in reads : r.visit = s.visit => r = s

IInv == TypeOK /\ Held /\ Reported /\ Current

LEMMA InitInv == Init => IInv
  <1> SUFFICES ASSUME Init PROVE IInv
    OBVIOUS
  <1>1. TypeOK
    <2>1. ChatTyped
      <3>1. /\ turn = [n \in Turns |-> "none"] /\ of = [n \in Turns |-> First]
            /\ about = [n \in Turns |-> [build |-> 0, key |-> NoKey]]
            /\ sent = 0 /\ build = 1 /\ stopped = {} /\ abortRef = 0 /\ moves = 0
        BY DEF Init
      <3>2. \A n \in Turns : turn[n] = "none" /\ n > 0
        BY <3>1 DEF Turns
      <3>3. \A n \in Turns : about[n].build \in 0..build
        BY <3>1
      <3>4. /\ project \in Project /\ moves \in 0..MaxMoves /\ sent \in 0..MaxTurns
            /\ busyRef \in BOOLEAN /\ busy \in BOOLEAN /\ shown \in BOOLEAN
            /\ abortRef \in 0..sent
        <4>1. /\ project \in Project /\ moves \in 0..MaxMoves
              /\ sent \in 0..MaxTurns /\ abortRef \in 0..sent
          <5>1. project = First /\ moves = 0 /\ sent = 0 /\ abortRef = 0
            BY DEF Init
          <5> QED
            BY <5>1, ProjectAssumption, BoundsAssumption
        <4>2. busyRef \in BOOLEAN /\ busy \in BOOLEAN /\ shown \in BOOLEAN
          BY Zenon DEF Init
        <4> QED
          BY <4>1, <4>2
      <3> QED
        BY <3>1, <3>2, <3>3, <3>4, ProjectAssumption DEF ChatTyped
    <2>2. LogTyped
      BY ProjectAssumption DEF LogTyped, Init
    <2>3. PreviewTyped
      <3>1. keys \in [Project -> 0..0] /\ builds = {1} /\ build = 1 /\ seq = 0
        BY DEF Init
      <3>2. frame.doc = "empty" /\ frame.build = 0
        BY DEF Init
      <3>3. build \in Nat /\ builds \subseteq 1..build /\ build \in builds
        BY <3>1
      <3>4. building \in BOOLEAN /\ crashed \in BOOLEAN /\ (building <=> build \in builds)
        BY <3>3 DEF Init
      <3>5. seq \in 0..MaxBumps /\ keys \in [Project -> 0..seq] /\ 0 \in 0..build
        BY <3>1, BoundsAssumption
      <3> QED
        BY <3>2, <3>3, <3>4, <3>5 DEF PreviewTyped
    <2> QED
      BY <2>1, <2>2, <2>3 DEF TypeOK
  <1>2. Held
    BY DEF Held, TurnHeld, Init, Live
  <1>3. Reported
    BY DEF Reported, OneRepairPerBuild, Init
  <1>4. Current
    BY DEF Current, ShowsThisProject, Init
  <1> QED
    BY <1>1, <1>2, <1>3, <1>4 DEF IInv

\* Where a turn may be sent none is under way.
LEMMA NoneLive == ASSUME IInv, MaySend PROVE Live = {}
  BY DEF IInv, Held, MaySend

LEMMA RunTurnStarts ==
  ASSUME IInv, MaySend, NEW b \in 0..build, NEW key, RunTurn(b, key),
         UNCHANGED <<project, moves, shown, build>>
  PROVE  /\ ChatTyped' /\ Held' /\ items' = items \cup {project} /\ sent + 1 \in Turns
         /\ about' = [about EXCEPT ![sent + 1] = [build |-> b, key |-> key]]
  <1>1. Live = {} /\ sent \in Nat /\ sent + 1 \in Turns
    BY NoneLive, BoundsAssumption DEF IInv, TypeOK, ChatTyped, RunTurn, Turns
  <1>2. Live' = {sent + 1}
    BY <1>1 DEF IInv, TypeOK, ChatTyped, RunTurn, Live
  <1>3. ChatTyped'
    BY <1>1, <1>2 DEF IInv, TypeOK, ChatTyped, RunTurn, Turns
  <1>4. Held'
    BY <1>1, <1>2 DEF IInv, TypeOK, ChatTyped, Held, TurnHeld, RunTurn
  <1> QED
    BY <1>1, <1>3, <1>4 DEF RunTurn

\* A build that is started is the latest, and under way.
LEMMA StartBuildTyped ==
  ASSUME PreviewTyped, StartBuild
  PROVE  /\ build' \in Nat /\ builds' \subseteq 1..build' /\ build < build'
         /\ building' \in BOOLEAN /\ (building' <=> build' \in builds')
         /\ 0..build \subseteq 0..build'
  <1>1. build \in Nat /\ builds \subseteq 1..build /\ build' = build + 1
    BY DEF PreviewTyped, StartBuild
  <1>2. builds' = builds \cup {build'} /\ building' = TRUE
    BY DEF StartBuild
  <1>3. 1..build \subseteq 1..build' /\ 0..build \subseteq 0..build' /\ build' \in 1..build'
    BY <1>1
  <1>4. builds' \subseteq 1..build'
    BY <1>1, <1>2, <1>3
  <1> QED
    BY <1>1, <1>2, <1>3, <1>4

LEMMA BumpTyped ==
  ASSUME PreviewTyped, NEW p \in Project, Bump(p)
  PROVE  PreviewTyped'
  <1>1. seq \in Nat /\ seq' = seq + 1 /\ seq' \in 0..MaxBumps
    BY BoundsAssumption DEF PreviewTyped, Bump
  <1>2. keys' \in [Project -> 0..seq']
    BY <1>1 DEF PreviewTyped, Bump
  <1>3. CASE StartBuild
    <2>1. frame'.build \in 0..build' /\ frame' = frame /\ crashed' = crashed
      BY <1>3, StartBuildTyped DEF PreviewTyped, Bump
    <2> QED
      BY <1>1, <1>2, <1>3, <2>1, StartBuildTyped DEF PreviewTyped
  <1>4. CASE UNCHANGED <<build, builds, building>>
    BY <1>1, <1>2, <1>4 DEF PreviewTyped, Bump
  <1> QED
    BY <1>3, <1>4 DEF Bump

\* A read that is started is the latest, and under way.
LEMMA ReadTyped ==
  ASSUME LogTyped, NEW p \in Project, ReadHistory(p), UNCHANGED items
  PROVE  LogTyped'
  <1>1. visit \in Nat /\ visit' = visit + 1 /\ history' = "loading"
    BY DEF LogTyped, ReadHistory
  <1>2. reads' = reads \cup {[visit |-> visit', of |-> p]}
    BY DEF ReadHistory
  <1>3. \A r \in reads' : r.visit \in 1..visit' /\ r.of \in Project
    BY <1>1, <1>2 DEF LogTyped
  <1>4. \E r \in reads' : r.visit = visit'
    <2>1. [visit |-> visit', of |-> p] \in reads' /\ [visit |-> visit', of |-> p].visit = visit'
      BY <1>2
    <2> QED
      BY <2>1
  <1> QED
    BY <1>1, <1>3, <1>4 DEF LogTyped

-----------------------------------------------------------------------------
(***************************************************************************)
(* Every step preserves the invariant: one lemma per action.               *)
(***************************************************************************)
LEMMA SubmitStep ==
  ASSUME IInv, Submit
  PROVE  IInv'
  <1>0. /\ MaySend /\ RunTurn(0, NoKey) /\ 0 \in 0..build
        /\ UNCHANGED <<project, moves, shown, build>>
    BY DEF IInv, TypeOK, PreviewTyped, preview, Submit
  <1>1. ChatTyped'
    BY <1>0, RunTurnStarts
  <1>2. LogTyped'
    BY DEF IInv, TypeOK, ChatTyped, LogTyped, Submit, RunTurn
  <1>3. PreviewTyped'
    BY DEF IInv, TypeOK, PreviewTyped, preview, Submit
  <1>4. Held'
    BY <1>0, RunTurnStarts
  <1>5. Reported'
    BY DEF IInv, Reported, OneRepairPerBuild, Key, preview, Submit, RunTurn
  <1>6. Current'
    BY DEF IInv, Current, ShowsThisProject, preview, Submit, RunTurn
  <1> QED
    BY <1>1, <1>2, <1>3, <1>4, <1>5, <1>6 DEF IInv, TypeOK

LEMMA AskStep ==
  ASSUME IInv, NEW n \in Turns, Ask(n)
  PROVE  IInv'
  <1>1. ChatTyped'
    BY DEF IInv, TypeOK, ChatTyped, Live, preview, Ask
  <1>2. LogTyped'
    BY DEF IInv, TypeOK, LogTyped, log, Ask
  <1>3. PreviewTyped'
    BY DEF IInv, TypeOK, PreviewTyped, preview, Ask
  <1>4. Held'
    BY DEF IInv, Held, TurnHeld, Live, Ask
  <1>5. Reported'
    BY DEF IInv, Reported, OneRepairPerBuild, Key, preview, Ask
  <1>6. Current'
    BY DEF IInv, Current, ShowsThisProject, log, preview, Ask
  <1> QED
    BY <1>1, <1>2, <1>3, <1>4, <1>5, <1>6 DEF IInv, TypeOK

LEMMA DeltaStep ==
  ASSUME IInv, NEW n \in Turns, Delta(n)
  PROVE  IInv'
  <1>1. ChatTyped'
    BY DEF IInv, TypeOK, ChatTyped, Live, chat, preview, Delta
  <1>2. LogTyped'
    BY DEF IInv, TypeOK, ChatTyped, LogTyped, Delta
  <1>3. PreviewTyped'
    BY DEF IInv, TypeOK, PreviewTyped, preview, Delta
  <1>4. Held'
    BY DEF IInv, Held, TurnHeld, Live, chat, Delta
  <1>5. Reported'
    BY DEF IInv, Reported, OneRepairPerBuild, Key, chat, preview, Delta
  <1>6. Current'
    BY DEF IInv, Held, TurnHeld, Current, ShowsThisProject, Live, preview,
           Delta, Streams
  <1> QED
    BY <1>1, <1>2, <1>3, <1>4, <1>5, <1>6 DEF IInv, TypeOK

LEMMA EndStep ==
  ASSUME IInv, NEW n \in Turns, End(n)
  PROVE  IInv'
  <1>1. ChatTyped'
    <2>1. Live' = Live \ {n}
      BY DEF IInv, TypeOK, ChatTyped, Live, End
    <2>2. stopped' \subseteq Live'
      BY <2>1 DEF IInv, TypeOK, ChatTyped, End
    <2>3. \A m \in Turns : turn'[m] = "none" <=> m > sent'
      BY DEF IInv, TypeOK, ChatTyped, Live, End
    <2>4. \A m \in Turns : about'[m].build \in 0..build'
      BY DEF IInv, TypeOK, ChatTyped, End, preview
    <2>5. abortRef' \in 0..sent'
      BY DEF IInv, TypeOK, ChatTyped, End
    <2>6. turn' \in [Turns -> {"none", "headers", "streaming", "over"}]
      BY DEF IInv, TypeOK, ChatTyped, End
    <2> QED
      BY <2>2, <2>3, <2>4, <2>5, <2>6 DEF IInv, TypeOK, ChatTyped, End
  <1>2. LogTyped'
    BY DEF IInv, TypeOK, LogTyped, log, End
  <1>3. PreviewTyped'
    BY DEF IInv, TypeOK, PreviewTyped, preview, End
  <1>4. Held'
    BY DEF IInv, TypeOK, ChatTyped, Held, TurnHeld, Live, End
  <1>5. Reported'
    BY DEF IInv, Reported, OneRepairPerBuild, Key, preview, End
  <1>6. Current'
    BY DEF IInv, Current, ShowsThisProject, log, preview, End
  <1> QED
    BY <1>1, <1>2, <1>3, <1>4, <1>5, <1>6 DEF IInv, TypeOK

LEMMA StopStep ==
  ASSUME IInv, Stop
  PROVE  IInv'
  <1>1. ChatTyped'
    BY DEF IInv, TypeOK, ChatTyped, Held, Live, preview, Stop, AbortTurn
  <1>2. LogTyped'
    BY DEF IInv, TypeOK, LogTyped, log, Stop
  <1>3. PreviewTyped'
    BY DEF IInv, TypeOK, PreviewTyped, preview, Stop
  <1>4. Held'
    BY DEF IInv, Held, TurnHeld, Live, Stop, AbortTurn
  <1>5. Reported'
    BY DEF IInv, Reported, OneRepairPerBuild, Key, preview, Stop
  <1>6. Current'
    BY DEF IInv, Current, ShowsThisProject, log, preview, Stop
  <1> QED
    BY <1>1, <1>2, <1>3, <1>4, <1>5, <1>6 DEF IInv, TypeOK

LEMMA RenderStep ==
  ASSUME IInv, Render
  PROVE  IInv'
  <1>1. ChatTyped'
    BY DEF IInv, TypeOK, ChatTyped, Live, chat, preview, Render
  <1>2. LogTyped'
    BY DEF IInv, TypeOK, LogTyped, log, Render
  <1>3. PreviewTyped'
    BY DEF IInv, TypeOK, PreviewTyped, preview, Render
  <1>4. Held'
    BY DEF IInv, Held, TurnHeld, Live, chat, Render
  <1>5. Reported'
    BY DEF IInv, Reported, OneRepairPerBuild, Key, chat, preview, Render
  <1>6. Current'
    BY DEF IInv, Current, ShowsThisProject, log, preview, Render
  <1> QED
    BY <1>1, <1>2, <1>3, <1>4, <1>5, <1>6 DEF IInv, TypeOK

LEMMA HistoryStep ==
  ASSUME IInv, NEW r \in reads, HistoryArrives(r)
  PROVE  IInv'
  <1>1. ChatTyped'
    BY DEF IInv, TypeOK, ChatTyped, Live, chat, preview, HistoryArrives
  <1>2. LogTyped'
    BY DEF IInv, TypeOK, LogTyped, Current, HistoryArrives
  <1>3. PreviewTyped'
    BY DEF IInv, TypeOK, PreviewTyped, preview, HistoryArrives
  <1>4. Held'
    BY DEF IInv, Held, TurnHeld, Live, chat, HistoryArrives
  <1>5. Reported'
    BY DEF IInv, Reported, OneRepairPerBuild, Key, chat, preview,
           HistoryArrives
  <1>6. Current'
    BY DEF IInv, Current, ShowsThisProject, preview, HistoryArrives
  <1> QED
    BY <1>1, <1>2, <1>3, <1>4, <1>5, <1>6 DEF IInv, TypeOK

LEMMA WroteStep ==
  ASSUME IInv, NEW n \in Turns, Wrote(n)
  PROVE  IInv'
  <1>1. ChatTyped'
    BY DEF IInv, TypeOK, ChatTyped, PreviewTyped, Live, chat, Wrote, Bump,
           StartBuild
  <1>2. LogTyped'
    BY DEF IInv, TypeOK, LogTyped, log, Wrote
  <1>3. PreviewTyped'
    <2>1. PreviewTyped /\ of[n] \in Project /\ Bump(of[n])
      BY DEF IInv, TypeOK, ChatTyped, Wrote
    <2> QED
      BY <2>1, BumpTyped
  <1>4. Held'
    BY DEF IInv, Held, TurnHeld, Live, chat, Wrote
  <1>5. Reported'
    BY DEF IInv, TypeOK, ChatTyped, PreviewTyped, Reported, OneRepairPerBuild,
           Key, chat, Wrote, Bump, StartBuild
  <1>6. Current'
    BY DEF IInv, Current, ShowsThisProject, log, Wrote, Bump, StartBuild
  <1> QED
    BY <1>1, <1>2, <1>3, <1>4, <1>5, <1>6 DEF IInv, TypeOK

LEMMA RebuildStep ==
  ASSUME IInv, Rebuild
  PROVE  IInv'
  <1>1. ChatTyped'
    BY DEF IInv, TypeOK, ChatTyped, PreviewTyped, Live, chat, Rebuild, Bump,
           StartBuild
  <1>2. LogTyped'
    BY DEF IInv, TypeOK, LogTyped, log, Rebuild
  <1>3. PreviewTyped'
    <2>1. PreviewTyped /\ project \in Project /\ Bump(project)
      BY DEF IInv, TypeOK, ChatTyped, Rebuild
    <2> QED
      BY <2>1, BumpTyped
  <1>4. Held'
    BY DEF IInv, Held, TurnHeld, Live, chat, Rebuild
  <1>5. Reported'
    BY DEF IInv, TypeOK, ChatTyped, PreviewTyped, Reported, OneRepairPerBuild,
           chat, Rebuild, Bump, StartBuild
  <1>6. Current'
    BY DEF IInv, Current, ShowsThisProject, log, Rebuild, Bump, StartBuild
  <1> QED
    BY <1>1, <1>2, <1>3, <1>4, <1>5, <1>6 DEF IInv, TypeOK

LEMMA RestoredStep ==
  ASSUME IInv, NEW p \in Project, Restored(p)
  PROVE  IInv'
  <1>1. ChatTyped'
    BY DEF IInv, TypeOK, ChatTyped, PreviewTyped, Live, chat, Restored, Bump,
           StartBuild
  <1>2. LogTyped'
    <2>1. CASE ReadHistory(p)
      BY <2>1, ReadTyped DEF IInv, TypeOK, Restored
    <2>2. CASE UNCHANGED <<visit, history, reads>>
      BY <2>2 DEF IInv, TypeOK, LogTyped, Restored
    <2> QED
      BY <2>1, <2>2 DEF Restored
  <1>3. PreviewTyped'
    <2>1. PreviewTyped /\ p \in Project /\ Bump(p)
      BY DEF IInv, TypeOK, Restored
    <2> QED
      BY <2>1, BumpTyped
  <1>4. Held'
    BY DEF IInv, Held, TurnHeld, Live, chat, Restored
  <1>5. Reported'
    BY DEF IInv, TypeOK, ChatTyped, PreviewTyped, Reported, OneRepairPerBuild,
           Key, chat, Restored, Bump, StartBuild
  <1>6. Current'
    BY DEF IInv, TypeOK, ChatTyped, LogTyped, PreviewTyped, Held, TurnHeld,
           Current, ShowsThisProject, Turns, Live, chat, log, preview,
           Restored, Bump, StartBuild, ReadHistory
  <1> QED
    BY <1>1, <1>2, <1>3, <1>4, <1>5, <1>6 DEF IInv, TypeOK

LEMMA BuildReturnsStep ==
  ASSUME IInv, NEW b \in builds, NEW doc \in {"app", "broken", "fault"},
         BuildReturns(b, doc)
  PROVE  IInv'
  <1>0. /\ build \in 0..build /\ UNCHANGED <<project, moves, shown, build>>
    BY DEF IInv, TypeOK, PreviewTyped, BuildReturns
  <1>1. ChatTyped'
    <2>1. CASE MaySend /\ RunTurn(build, Key)
      BY <1>0, <2>1, RunTurnStarts
    <2>2. CASE UNCHANGED <<chat, items>>
      BY <2>2 DEF IInv, TypeOK, ChatTyped, BuildReturns, chat, Live
    <2> QED
      BY <2>1, <2>2 DEF BuildReturns, ReportOnce
  <1>2. LogTyped'
    BY DEF IInv, TypeOK, ChatTyped, LogTyped, BuildReturns, ReportOnce, RunTurn
  <1>3. PreviewTyped'
    <2>1. UNCHANGED <<seq, keys, build, crashed>> /\ builds' = builds \ {b}
      BY DEF BuildReturns
    <2>2. CASE b # build /\ UNCHANGED <<building, frame>>
      BY <2>1, <2>2 DEF IInv, TypeOK, PreviewTyped
    <2>3. CASE b = build /\ building' = FALSE /\ frame' = [doc |-> doc, build |-> b]
      <3>1. frame'.doc = doc /\ frame'.build = build
        BY <2>3
      <3> QED
        BY <1>0, <2>1, <2>3, <3>1 DEF IInv, TypeOK, PreviewTyped
    <2> QED
      BY <2>2, <2>3 DEF BuildReturns
  <1>4. Held'
    <2>1. CASE MaySend /\ RunTurn(build, Key)
      BY <1>0, <2>1, RunTurnStarts
    <2>2. CASE UNCHANGED <<chat, items>>
      BY <2>2 DEF IInv, Held, TurnHeld, BuildReturns, chat, Live
    <2> QED
      BY <2>1, <2>2 DEF BuildReturns, ReportOnce
  <1>5. Reported'
    <2>1. CASE MaySend /\ RunTurn(build, Key) /\ firedFor # Key /\ firedFor' = Key
      <3>1. about' = [about EXCEPT ![sent + 1] = [build |-> build, key |-> Key]]
        BY <2>1 DEF RunTurn
      <3>2. DOMAIN about = Turns /\ build' = build /\ Key' = Key
        BY DEF IInv, TypeOK, ChatTyped, BuildReturns, Key
      <3>3. \A n \in Turns : about[n].build # 0 => about[n].build # build
        BY <2>1 DEF IInv, Reported
      <3> QED
        BY <2>1, <3>1, <3>2, <3>3 DEF IInv, Reported, OneRepairPerBuild
    <2>2. CASE UNCHANGED <<chat, items>> /\ firedFor' \in {firedFor, Key}
      BY <2>2 DEF IInv, Reported, OneRepairPerBuild, BuildReturns, chat, Key
    <2> QED
      BY <2>1, <2>2 DEF BuildReturns, ReportOnce
  <1>6. Current'
    BY DEF IInv, Current, ShowsThisProject, BuildReturns, ReportOnce, RunTurn
  <1> QED
    BY <1>1, <1>2, <1>3, <1>4, <1>5, <1>6 DEF IInv, TypeOK

LEMMA CrashStep ==
  ASSUME IInv, Crash
  PROVE  IInv'
  <1>1. ChatTyped'
    BY DEF IInv, TypeOK, ChatTyped, Live, chat, Crash
  <1>2. LogTyped'
    BY DEF IInv, TypeOK, LogTyped, log, Crash
  <1>3. PreviewTyped'
    BY DEF IInv, TypeOK, PreviewTyped, Crash
  <1>4. Held'
    BY DEF IInv, Held, TurnHeld, Live, chat, Crash
  <1>5. Reported'
    BY DEF IInv, Reported, OneRepairPerBuild, Key, chat, Crash
  <1>6. Current'
    BY DEF IInv, Current, ShowsThisProject, log, Crash
  <1> QED
    BY <1>1, <1>2, <1>3, <1>4, <1>5, <1>6 DEF IInv, TypeOK

LEMMA CrashArrivesStep ==
  ASSUME IInv, CrashArrives
  PROVE  IInv'
  <1>0. /\ build \in 0..build /\ UNCHANGED <<project, moves, shown, build>>
    BY DEF IInv, TypeOK, PreviewTyped, CrashArrives
  <1>1. ChatTyped'
    <2>1. CASE MaySend /\ RunTurn(build, Key)
      BY <1>0, <2>1, RunTurnStarts
    <2>2. CASE UNCHANGED <<chat, items>>
      BY <2>2 DEF IInv, TypeOK, ChatTyped, CrashArrives, chat, Live
    <2> QED
      BY <2>1, <2>2 DEF CrashArrives, ReportOnce
  <1>2. LogTyped'
    BY DEF IInv, TypeOK, ChatTyped, LogTyped, CrashArrives, ReportOnce, RunTurn
  <1>3. PreviewTyped'
    BY DEF IInv, TypeOK, PreviewTyped, CrashArrives
  <1>4. Held'
    <2>1. CASE MaySend /\ RunTurn(build, Key)
      BY <1>0, <2>1, RunTurnStarts
    <2>2. CASE UNCHANGED <<chat, items>>
      BY <2>2 DEF IInv, Held, TurnHeld, CrashArrives, chat, Live
    <2> QED
      BY <2>1, <2>2 DEF CrashArrives, ReportOnce
  <1>5. Reported'
    <2>1. CASE MaySend /\ RunTurn(build, Key) /\ firedFor # Key /\ firedFor' = Key
      <3>1. about' = [about EXCEPT ![sent + 1] = [build |-> build, key |-> Key]]
        BY <2>1 DEF RunTurn
      <3>2. DOMAIN about = Turns /\ build' = build /\ Key' = Key
        BY DEF IInv, TypeOK, ChatTyped, CrashArrives, Key
      <3>3. \A n \in Turns : about[n].build # 0 => about[n].build # build
        BY <2>1 DEF IInv, Reported
      <3> QED
        BY <2>1, <3>1, <3>2, <3>3 DEF IInv, Reported, OneRepairPerBuild
    <2>2. CASE UNCHANGED <<chat, items>> /\ firedFor' \in {firedFor, Key}
      BY <2>2 DEF IInv, Reported, OneRepairPerBuild, CrashArrives, chat, Key
    <2> QED
      BY <2>1, <2>2 DEF CrashArrives, ReportOnce
  <1>6. Current'
    BY DEF IInv, Current, ShowsThisProject, CrashArrives, ReportOnce, RunTurn
  <1> QED
    BY <1>1, <1>2, <1>3, <1>4, <1>5, <1>6 DEF IInv, TypeOK

LEMMA MoveStep ==
  ASSUME IInv, NEW p \in Project, Move(p)
  PROVE  IInv'
  <1>0. /\ LogTyped /\ PreviewTyped /\ ReadHistory(p) /\ StartBuild
        /\ UNCHANGED <<items, seq, keys, frame>> /\ crashed' = FALSE
    BY DEF IInv, TypeOK, Move
  <1>1. ChatTyped'
    <2>1. /\ UNCHANGED <<sent, turn, of, about, busy>> /\ abortRef' = 0 /\ busyRef' = FALSE
          /\ shown' = busy /\ project' = p /\ moves' = moves + 1 /\ moves < MaxMoves
      BY DEF Move
    <2>2. Live' = Live
      BY <2>1 DEF Live
    <2>3. stopped' \subseteq Live'
      BY <2>2 DEF IInv, TypeOK, ChatTyped, Held, Move, AbortTurn
    <2>4. \A n \in Turns : about'[n].build \in 0..build'
      BY <1>0, <2>1, StartBuildTyped DEF IInv, TypeOK, ChatTyped
    <2>5. moves' \in 0..MaxMoves /\ abortRef' \in 0..sent'
      BY <2>1, BoundsAssumption DEF IInv, TypeOK, ChatTyped
    <2> QED
      BY <2>1, <2>3, <2>4, <2>5 DEF IInv, TypeOK, ChatTyped
  <1>2. LogTyped'
    BY <1>0, ReadTyped
  <1>3. PreviewTyped'
    <2>1. frame'.build \in 0..build'
      BY <1>0, StartBuildTyped DEF PreviewTyped
    <2> QED
      BY <1>0, <2>1, StartBuildTyped DEF PreviewTyped
  <1>4. Held'
    BY DEF IInv, Held, TurnHeld, Turns, Live, Move, AbortTurn
  <1>5. Reported'
    BY DEF IInv, TypeOK, ChatTyped, PreviewTyped, Reported, OneRepairPerBuild,
           Move, StartBuild
  <1>6. Current'
    BY DEF IInv, TypeOK, LogTyped, Current, ShowsThisProject, Move,
           ReadHistory, StartBuild
  <1> QED
    BY <1>1, <1>2, <1>3, <1>4, <1>5, <1>6 DEF IInv, TypeOK

LEMMA StutterStep == ASSUME IInv, UNCHANGED vars PROVE IInv'
  <1>1. TypeOK'
    BY DEF IInv, TypeOK, ChatTyped, LogTyped, PreviewTyped, Live, vars, chat,
           log, preview
  <1>2. Held'
    BY DEF IInv, Held, TurnHeld, Live, vars, chat
  <1>3. Reported'
    BY DEF IInv, Reported, OneRepairPerBuild, Key, vars, chat, preview
  <1>4. Current'
    BY DEF IInv, Current, ShowsThisProject, vars, log, preview
  <1> QED
    BY <1>1, <1>2, <1>3, <1>4 DEF IInv

LEMMA NextStep == IInv /\ [Next]_vars => IInv'
  <1> SUFFICES ASSUME IInv, [Next]_vars PROVE IInv'
    OBVIOUS
  <1>1. CASE \E n \in Turns : Turn(n)
    BY <1>1, AskStep, DeltaStep, WroteStep, EndStep DEF Turn
  <1>2. CASE Submit \/ Stop \/ Render \/ Rebuild \/ Crash \/ CrashArrives
    BY <1>2, SubmitStep, StopStep, RenderStep, RebuildStep, CrashStep,
       CrashArrivesStep
  <1>3. CASE \E r \in reads : HistoryArrives(r)
    BY <1>3, HistoryStep
  <1>4. CASE \E b \in builds, doc \in {"app", "broken", "fault"} : BuildReturns(b, doc)
    BY <1>4, BuildReturnsStep
  <1>5. CASE \E p \in Project : Restored(p) \/ Move(p)
    BY <1>5, RestoredStep, MoveStep
  <1>6. CASE Quiet \/ UNCHANGED vars
    BY <1>6, StutterStep DEF Quiet
  <1> QED
    BY <1>1, <1>2, <1>3, <1>4, <1>5, <1>6 DEF Next

LEMMA Invariant == Safe => []IInv
  BY InitInv, NextStep, PTL DEF Safe

-----------------------------------------------------------------------------
(***************************************************************************)
(* The state is well-typed, and the pane says that it loads or builds      *)
(* exactly while the read or build it waits for is under way.              *)
(***************************************************************************)
THEOREM TypeCorrect == Safe => []TypeOK
  <1>1. IInv => TypeOK
    BY DEF IInv
  <1> QED
    BY <1>1, Invariant, PTL

(***************************************************************************)
(* However turns are stopped and projects changed, at most one turn is     *)
(* under way, and Stop reaches it (useHarnessChat.ts, runTurn and its      *)
(* cleanup; ChatPane.tsx, submit).                                         *)
(***************************************************************************)
THEOREM TurnHeldHolds == Safe => []TurnHeld
  <1>1. IInv => TurnHeld
    BY DEF IInv, Held
  <1> QED
    BY <1>1, Invariant, PTL

(***************************************************************************)
(* A build is the reason for one repair at most (useHarnessPreview.ts,     *)
(* reportOnce), whatever its frame and those before it report.             *)
(***************************************************************************)
THEOREM OneRepairPerBuildHolds == Safe => []OneRepairPerBuild
  <1>1. IInv => OneRepairPerBuild
    BY DEF IInv, Reported
  <1> QED
    BY <1>1, Invariant, PTL

(***************************************************************************)
(* What the panes show is of this project and the latest (the cleanups of  *)
(* the effects in useHarnessChat.ts and useHarnessPreview.ts).             *)
(***************************************************************************)
THEOREM ShowsThisProjectHolds == Safe => []ShowsThisProject
  <1>1. IInv => ShowsThisProject
    BY DEF IInv, Current
  <1> QED
    BY <1>1, Invariant, PTL
=============================================================================
