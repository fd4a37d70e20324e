-------------------------- MODULE ClientProperties --------------------------
(***************************************************************************)
(* The properties of the workspace in the browser.                         *)
(***************************************************************************)
EXTENDS Client

ChatTyped ==
  /\ project \in Project /\ moves \in 0..MaxMoves /\ sent \in 0..MaxTurns
  /\ turn \in [Turns -> {"none", "headers", "streaming", "over"}]
  /\ \A n \in Turns : turn[n] = "none" <=> n > sent
  /\ of \in [Turns -> Project] /\ stopped \subseteq Live
  /\ DOMAIN about = Turns /\ \A n \in Turns : about[n].build \in 0..build
  /\ busyRef \in BOOLEAN /\ abortRef \in 0..sent
  /\ busy \in BOOLEAN /\ shown \in BOOLEAN

LogTyped ==
  /\ items \subseteq Project /\ history \in {"loading", "shown", "kept"} /\ visit \in Nat
  /\ \A r \in reads : r.visit \in 1..visit /\ r.of \in Project
  /\ history = "loading" <=> \E r \in reads : r.visit = visit

PreviewTyped ==
  /\ seq \in 0..MaxBumps /\ keys \in [Project -> 0..seq]
  /\ build \in Nat /\ builds \subseteq 1..build
  /\ building \in BOOLEAN /\ (building <=> build \in builds)
  /\ frame.doc \in {"empty", "app", "broken", "fault"} /\ frame.build \in 0..build
  /\ crashed \in BOOLEAN

\* The values of the variables; and the pane says it loads or builds exactly
\* while the read or the build it waits for is under way.
TypeOK == ChatTyped /\ LogTyped /\ PreviewTyped

(***************************************************************************)
(* At most one turn is under way, and one that is not stopped belongs to   *)
(* the project on the screen and is held by the refs: Stop reaches it, a   *)
(* second one is refused, history does not overwrite it, and the next      *)
(* change of project ends it.  The finally block of a turn that was        *)
(* stopped clears the refs of whichever turn holds them, so this rests on  *)
(* the pane refusing to send for as long as the old turn unwinds.          *)
(***************************************************************************)
TurnHeld ==
  /\ \A m, n \in Live : m = n
  /\ \A n \in Live \ stopped :
       of[n] = project /\ busyRef /\ busy /\ abortRef = n

(***************************************************************************)
(* What the panes show of what was read and built is this project's and    *)
(* the latest: no answer to an earlier read or build takes the place of a  *)
(* later one, and no delta of a turn of another project gets into a        *)
(* transcript that was read (`shown').  A transcript that was not (`kept') *)
(* may be the last project's: when a turn begins before the history is     *)
(* there the answer is dropped and what stood there stays                  *)
(* (useHarnessChat.ts:162, 166).                                           *)
(***************************************************************************)
ShowsThisProject ==
  /\ history = "shown" => items = {project}
  /\ ~building => frame.build = build

(***************************************************************************)
(* The repair loop cannot run by itself: one build has at most one turn    *)
(* asked for on its behalf, whatever its app reports and however the       *)
(* reports of its predecessors come in late.                               *)
(***************************************************************************)
OneRepairPerBuild ==
  \A m, n \in Turns : about[m].build # 0 /\ about[m].build = about[n].build
                        => m = n

(***************************************************************************)
(* The chat does not stay busy: every turn clears the flag it has set,     *)
(* also when it was stopped, or its project has left the screen.           *)
(***************************************************************************)
BusyClears == shown ~> ~shown

(***************************************************************************)
(* useHarnessChat.ts:457: the preview reads the busy flag "to hold its     *)
(* auto-fix until the turn is over"; docs/architecture.md:101: when the    *)
(* app fails to build, the client asks for a repair once per rebuild key.  *)
(* A build that failed gets its turn, or another key or project comes.     *)
(***************************************************************************)
RepairFollows ==
  \A p \in Project, k \in 0..MaxBumps :
    (Key = <<p, k>> /\ ~building /\ frame.doc = "broken")
      ~> (Key # <<p, k>> \/ \E n \in Turns : about[n].key = <<p, k>>)
=============================================================================
