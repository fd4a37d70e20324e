------------------------- MODULE FsStoreProperties -------------------------
(***************************************************************************)
(* What the file store's tree (FsStore.tla) guarantees, and the mapping    *)
(* that shows it to be an atomic file map (AtomicFiles.tla).               *)
(***************************************************************************)
EXTENDS FsStore

Places == {"idle", "queued", "recover", "look", "read", "clear staging",
           "clear old", "make", "fill", "set aside", "place", "drop"}

\* The type of the store's state.
TypeOK ==
  /\ queue \in Seq(Clients) /\ abandoned \subseteq Clients /\ overlapped \in BOOLEAN
  /\ pc \in [Clients -> Places]
  /\ job \in [Clients -> Jobs \cup {Nothing}]
  /\ todo \in [Clients -> SUBSET Keys]
  /\ got \in [Clients -> FileMap]
  /\ live \in Dir \cup {None} /\ staging \in Dir \cup {None} /\ old \in Dir \cup {None}
  /\ answer \in [Clients -> [kind : {"none", "ok", "got"}, files : FileMap]]

\* One thread at a time works on the tree, those aside whose call was
\* cancelled (the project's lock).
OneThread ==
  \A c, d \in Clients :
    Running(c) /\ Running(d) /\ {c, d} \cap abandoned = {} => c = d

-----------------------------------------------------------------------------
(***************************************************************************)
(* The tree is an atomic file map: the map is what the live tree holds, or *)
(* what has been set aside while there is no live tree.  A put takes       *)
(* effect when the new tree is renamed into place.                         *)
(***************************************************************************)
Current == IF live = None THEN View(old) ELSE View(live)

Pending == [c \in Clients |-> IF pc[c] = "drop" THEN Applied ELSE job[c]]

Tree == INSTANCE AtomicFiles WITH value <- Current, request <- Pending

\* A kill at any step leaves the old map or the new one, and every get
\* returns one of them whole, up to the moment a call is let in beside a
\* thread that a cancelled call left behind (put_files, get_files, _recover).
AtomicUntilOverlap ==
  Tree!Init /\ [][overlapped' \/ Tree!Next]_<<Current, Pending, answer>>

\* Whatever is cancelled or fails, the lock comes to everyone who waits for
\* it, beside the thread of a cancelled call too, and every thread ends: as far
\* as the moment such a call is let in.  Of threads that run beside each other
\* nothing is said, not even that they end.
Served == \A c \in Clients : pc[c] # "idle" ~> pc[c] = "idle" \/ overlapped

-----------------------------------------------------------------------------
\* stores.py: "A partial application must never be observable by a concurrent
\* reader": every get returns the whole of some map that was put.
NeverHalfApplied ==
  \A c \in Clients : answer[c].kind = "got" =>
    \/ answer[c].files = NoFiles
    \/ \E m \in Maps : Stores(m, answer[c].files)
=============================================================================
