------------------------- MODULE VersionsProperties -------------------------
(***************************************************************************)
(* The properties of the versions of a project.                            *)
(***************************************************************************)
EXTENDS Versions

Kind == {"pre-turn", "undo"}

Op == [of : {"files", "messages"}, at : SUBSET Call]

StoreTyped ==
  /\ files \subseteq Call /\ messages \subseteq Call /\ taken \in Nat
  /\ late \subseteq Op
  /\ \A s \in snapshots : /\ s.id \in 1..taken /\ s.kind \in Kind
                          /\ s.files \subseteq Call /\ s.messages \subseteq Call
                          /\ Named(s.id) = {s}

WriterTyped ==
  /\ turns \in 0..MaxTurns /\ writes \in 0..MaxWrites /\ mine \subseteq Call
  /\ turn \in {"none", "thinking", "read", "written", "writing"}

RollingTyped ==
  /\ asked \in 0..MaxRollbacks
  /\ stage \in [Rollbacks -> {"none", "asked", "found", "half", "seen", "kept",
                              "put", "saved", "over"}]

BrowserTyped ==
  /\ undo \in 0..taken /\ pending \in 0..asked /\ events \in 0..MaxWrites
  /\ view \subseteq Call /\ ref \subseteq Call

KeepsFew ==
  \A kind \in Kind : Cardinality({s \in snapshots : s.kind = kind}) <= Keep

\* The values of the variables; and no kind has more versions than are kept,
\* each under an id of its own.
TypeOK == StoreTyped /\ WriterTyped /\ RollingTyped /\ BrowserTyped /\ KeepsFew

(***************************************************************************)
(* Files and conversation are stored by two writes, and yet belong to each *)
(* other, in the project and in every version of it: the files hold what   *)
(* the conversation says was written.  A save that fails in the course of  *)
(* a turn is made good by a later one.  They come apart only when two      *)
(* writers overlap, a rollback is cut off between its two writes, the last *)
(* save of a turn fails or lacks the result its reader left at, or a tool  *)
(* that failed or was given up has written all the same, or a save that    *)
(* was given up lands after its turn.                                      *)
(***************************************************************************)
FilesMatchMessages ==
  ~torn => /\ \A s \in snapshots : s.files = s.messages
           /\ turn = "none" /\ Running = {} => files = messages

(***************************************************************************)
(* While it is offered to take back a restore, the version for it is there *)
(* and holds exactly what the restore replaced, files and conversation;    *)
(* unless writers overlapped, or so many rollbacks failed since that it    *)
(* has been pruned for the versions they had made.                         *)
(***************************************************************************)
UndoHoldsReplaced ==
  ~torn /\ undo # 0 /\ Cardinality({r \in Rollbacks : undoId[r] > undo}) < Keep =>
    \E s \in Named(undo), r \in Rollbacks :
      undoId[r] = undo /\ Version(s.files, s.messages) = was[r]

(***************************************************************************)
(* The explorer's tree catches up: when every result and restore has been  *)
(* told and every read answered it shows the files of the store, whatever  *)
(* reads came back late; unless after its last read began a write was made *)
(* of which nobody told it (of a tool that failed or was given up, of a    *)
(* rollback that failed, or one whose result was not read), or the read    *)
(* failed.  The viewer opens files from the last answer of all: it shows   *)
(* the store too, unless that answered a read that was cancelled.          *)
(***************************************************************************)
ShowsStore ==
  ~missed /\ Running = {} /\ events = 0 /\ ~wanted /\ reads = {} =>
    view = files /\ (~stale => ref = files)
=============================================================================
