--------------------------- MODULE VersionsProofs ---------------------------
(***************************************************************************)
(* Theorems about Versions, for any number of versions that are kept, of   *)
(* writes, turns, rollbacks and reads.                                     *)
(*                                                                         *)
(* The inductive invariant is made of the types (Typed), the limit on the  *)
(* versions of a kind (KeepsFew) and three parts.  Matched: what a writer  *)
(* has in hand agrees with the store, while no two overlap.  UndoKept: an  *)
(* undo version stays until Keep others have followed, and holds what its  *)
(* rollback replaced.  Fresh: whatever has changed the files is still to   *)
(* be told to the browser, or is what its last read finds.                 *)
(***************************************************************************)
EXTENDS VersionsProperties, FiniteSetTheorems, TLAPS

(***************************************************************************)
(* Pruning.  The versions of a kind are told apart by their ids, so the    *)
(* one with the least id has all the others before it.                     *)
(***************************************************************************)
Of(S, kind) == {s \in S : s.kind = kind}

Ids(S) == \A s \in S : s.id \in Nat /\ \A t \in S : t.id = s.id => t = s

LEMMA LeastId ==
  ASSUME NEW S, S # {}, Ids(S)
  PROVE  \E s \in S : \A t \in S \ {s} : s.id < t.id
  <1> DEFINE N == {s.id : s \in S}
             R == OpToRel(<, Nat)
  <1>1. N \subseteq Nat /\ N # {}
    BY DEF Ids
  <1>2. \A x, y \in Nat : y < x => <<y, x>> \in R
    BY DEF OpToRel
  <1>3. \E x \in N : \A y \in N : ~ (<<y, x>> \in R)
    BY <1>1, WFMin, NatLessThanWellFounded
  <1> HIDE DEF R, N
  <1>4. PICK x \in N : \A y \in N : x <= y
    <2>1. PICK x \in N : \A y \in N : ~ (<<y, x>> \in R)
      BY <1>3
    <2>2. ASSUME NEW y \in N PROVE x <= y
      <3>1. x \in Nat /\ y \in Nat
        BY <1>1
      <3>2. ~ (<<y, x>> \in R)
        BY <2>1
      <3>3. ~ (y < x)
        BY <1>2, <3>1, <3>2
      <3> QED
        BY <3>1, <3>3
    <2> QED
      BY <2>2
  <1> USE DEF N
  <1>5. PICK s \in S : s.id = x
    OBVIOUS
  <1>6. \A t \in S \ {s} : s.id < t.id
    BY <1>1, <1>4, <1>5 DEF Ids
  <1> QED
    BY <1>6

LEMMA FewNewer ==
  ASSUME NEW S, IsFiniteSet(S), Ids(S), NEW n \in Nat, NEW K \in SUBSET S,
         \A s \in K : Cardinality({t \in S : t.id > s.id}) < n
  PROVE  IsFiniteSet(K) /\ Cardinality(K) <= n
  <1>1. IsFiniteSet(K) /\ Cardinality(K) \in Nat
    BY FS_Subset, FS_CardinalityType
  <1>2. CASE K = {}
    BY <1>2, FS_EmptySet
  <1>3. CASE K # {}
    <2>1. PICK s \in K : \A t \in K \ {s} : s.id < t.id
      BY <1>3, LeastId DEF Ids
    <2> DEFINE T == {t \in S : t.id > s.id}
    <2>2. K \ {s} \subseteq T
      BY <2>1
    <2>3. IsFiniteSet(T) /\ Cardinality(T) \in Nat /\ Cardinality(T) < n
      BY FS_Subset, FS_CardinalityType
    <2>4. Cardinality(K \ {s}) <= Cardinality(T)
      BY <2>2, <2>3, FS_Subset
    <2>5. Cardinality(K \ {s}) = Cardinality(K) - 1
      BY <1>1, FS_RemoveElement
    <2> QED
      BY <1>1, <2>3, <2>4, <2>5
  <1> QED
    BY <1>2, <1>3

-----------------------------------------------------------------------------
(***************************************************************************)
(* The invariant.                                                          *)
(***************************************************************************)
Pair == [files : SUBSET Call, messages : SUBSET Call]

Stored == StoreTyped /\ IsFiniteSet(snapshots)

Writing ==
  /\ WriterTyped /\ before \in Pair
  /\ turn = "read" => writes < MaxWrites

\* A rollback has an undo version from the step on that takes one.
Rolling ==
  /\ RollingTyped /\ undoId \in [Rollbacks -> 0..taken]
  /\ target \in [Rollbacks -> Pair] /\ present \in [Rollbacks -> Pair]
  /\ was \in [Rollbacks -> Pair]
  /\ \A r \in Rollbacks :
       /\ r > asked => stage[r] = "none"
       /\ stage[r] \in {"none", "asked", "found", "half", "seen"} => undoId[r] = 0
       /\ stage[r] \in {"kept", "put", "saved"} => undoId[r] # 0

Browsing ==
  /\ BrowserTyped /\ events <= writes
  /\ reads \subseteq [cancelled : BOOLEAN, files : SUBSET Call]

\* As long as nobody writes beside another, what each writer has in hand agrees
\* with the store, up to the half it has written.
Matched ==
  ~torn =>
    /\ \A s \in snapshots : s.files = s.messages
    /\ turn # "none" => Running = {}
    /\ \A q, r \in Running : q = r
    /\ turn = "none" /\ (\A r \in Running : stage[r] # "put") => files = messages
    /\ turn = "thinking" => before.files = before.messages
    /\ turn \in {"thinking", "read", "writing"} => mine = files
    /\ turn = "read" => before.files = files
    /\ turn = "written" => mine = files
    /\ \A r \in Running :
         /\ stage[r] \in {"found", "half", "seen", "kept", "put"} =>
              target[r].files = target[r].messages
         /\ stage[r] = "half" => present[r].files = files
         /\ stage[r] \in {"seen", "kept"} => present[r] = Version(files, messages)
         /\ stage[r] = "put" => target[r].files = files

\* The undo version of a rollback stays until `Keep' others have followed it,
\* and holds what the rollback saw and then replaced.
Later(nr) == {r \in Rollbacks : undoId[r] > nr}

Holds(s, r) ==
  ~torn => /\ stage[r] = "kept" => Version(s.files, s.messages) = present[r]
           /\ stage[r] \in {"put", "saved"} \/ undo = undoId[r] =>
                Version(s.files, s.messages) = was[r]

UndoKept ==
  /\ \A s \in snapshots : s.kind = "undo" => \E r \in Rollbacks : undoId[r] = s.id
  /\ \A q, r \in Rollbacks : undoId[q] = undoId[r] /\ undoId[q] # 0 => q = r
  /\ undo # 0 => \E r \in Rollbacks : undoId[r] = undo /\ stage[r] = "over"
  /\ \A r \in Rollbacks : undoId[r] # 0 /\ Cardinality(Later(undoId[r])) < Keep =>
       \E s \in snapshots : s.id = undoId[r] /\ s.kind = "undo" /\ Holds(s, r)

\* Whatever has changed the files is still to be told to the browser, or is what
\* the last read has found, or will find.
Untold == wanted \/ events > 0 \/ \E r \in Rollbacks : stage[r] \in {"put", "saved"}

Fresh ==
  /\ wanted => \A r \in reads : r.cancelled
  /\ ~missed /\ ~Untold =>
       /\ \A r \in reads : ~r.cancelled => r.files = files
       /\ view = files \/ \E r \in reads : ~r.cancelled
  /\ ~stale => ref = view

Typed == Stored /\ Writing /\ Rolling /\ Browsing
IInv  == Typed /\ KeepsFew /\ Matched /\ UndoKept /\ Fresh

LEMMA IdsAreDistinct == ASSUME Typed PROVE Ids(snapshots)
  BY DEF Typed, Stored, StoreTyped, Ids

\* What a new version adds to those there are, and what it leaves.
LEMMA SnapshotCreated ==
  ASSUME Typed, NEW kind \in Kind, NEW f \in SUBSET Call, NEW m \in SUBSET Call,
         CreateSnapshot(kind, f, m)
  PROVE  /\ taken' = taken + 1 /\ taken' \in Nat /\ IsFiniteSet(snapshots')
         /\ New(kind, f, m) \in snapshots'
         /\ \A s \in snapshots' : s = New(kind, f, m) \/ s \in snapshots
         /\ \A s \in snapshots :
              s.kind # kind \/ Cardinality({t \in snapshots : t.kind = kind /\ t.id > s.id}) < Keep - 1
                => s \in snapshots'
         /\ \A s \in snapshots' :
              /\ s.id \in 1..taken' /\ s.kind \in Kind
              /\ s.files \subseteq Call /\ s.messages \subseteq Call
              /\ {t \in snapshots' : t.id = s.id} = {s}
  <1> DEFINE new == New(kind, f, m)
             Newer(s) == {t \in snapshots : t.kind = kind /\ t.id > s.id}
  <1>1. /\ taken \in Nat /\ taken' = taken + 1
        /\ snapshots' = (snapshots \ Behind(kind, Keep - 1)) \cup {new}
    BY DEF Typed, Stored, StoreTyped, CreateSnapshot
  <1>2. /\ new.id = taken' /\ new.kind = kind /\ new.files = f /\ new.messages = m
    BY <1>1 DEF New
  <1>3. IsFiniteSet(snapshots')
    <2>1. IsFiniteSet(snapshots \ Behind(kind, Keep - 1))
      BY FS_Subset DEF Typed, Stored
    <2> QED
      BY <1>1, <2>1, FS_AddElement
  <1>4. \A s \in snapshots : Cardinality(Newer(s)) \in Nat
    BY FS_Subset, FS_CardinalityType DEF Typed, Stored
  <1>5. ASSUME NEW s \in snapshots, s.kind # kind \/ Cardinality(Newer(s)) < Keep - 1
        PROVE  s \in snapshots'
    <2>1. s \notin Behind(kind, Keep - 1)
      BY <1>4, <1>5, KeepAssumption DEF Behind
    <2> QED
      BY <1>1, <2>1
  <1>6. ASSUME NEW s \in snapshots'
        PROVE  /\ s.id \in 1..taken' /\ s.kind \in Kind
               /\ s.files \subseteq Call /\ s.messages \subseteq Call
    BY <1>1, <1>2 DEF Typed, Stored, StoreTyped
  <1>7. \A s \in snapshots : s.id < taken'
    BY <1>1 DEF Typed, Stored, StoreTyped
  <1>8. ASSUME NEW s \in snapshots', NEW t \in snapshots', t.id = s.id
        PROVE  t = s
    BY <1>1, <1>2, <1>7, <1>8, IdsAreDistinct DEF Ids
  <1> HIDE DEF new
  <1>9. \A s \in snapshots' : {t \in snapshots' : t.id = s.id} = {s}
    BY <1>8
  <1> QED
    BY <1>1, <1>3, <1>5, <1>6, <1>9 DEF new

LEMMA FewKept ==
  ASSUME Typed, KeepsFew, NEW kind \in Kind, NEW f \in SUBSET Call,
         NEW m \in SUBSET Call, CreateSnapshot(kind, f, m)
  PROVE  KeepsFew'
  <1> SUFFICES ASSUME NEW k \in Kind PROVE Cardinality(Of(snapshots', k)) <= Keep
    BY DEF KeepsFew, Of
  <1> DEFINE new == New(kind, f, m)
  <1>1. /\ snapshots' = (snapshots \ Behind(kind, Keep - 1)) \cup {new}
        /\ new.kind = kind
    BY DEF CreateSnapshot, New
  <1>2. CASE k # kind
    <2>1. Of(snapshots', k) = Of(snapshots, k)
      BY <1>1, <1>2 DEF Of, Behind
    <2> QED
      BY <2>1 DEF KeepsFew, Of
  <1>3. CASE k = kind
    <2> DEFINE S == Of(snapshots, kind)
               K == S \ Behind(kind, Keep - 1)
    <2>1. IsFiniteSet(S) /\ Ids(S)
      BY FS_Subset, IdsAreDistinct DEF Typed, Stored, Of, Ids
    <2>2. ASSUME NEW s \in K PROVE Cardinality({t \in S : t.id > s.id}) < Keep - 1
      <3>1. {t \in S : t.id > s.id} = {t \in snapshots : t.kind = kind /\ t.id > s.id}
        BY DEF Of
      <3>2. Cardinality({t \in S : t.id > s.id}) \in Nat
        BY <2>1, FS_Subset, FS_CardinalityType
      <3>3. ~ (Cardinality({t \in snapshots : t.kind = kind /\ t.id > s.id}) >= Keep - 1)
        BY DEF Of, Behind
      <3> QED
        BY <3>1, <3>2, <3>3, KeepAssumption
    <2>3. IsFiniteSet(K) /\ Cardinality(K) <= Keep - 1
      BY <2>1, <2>2, FewNewer, KeepAssumption
    <2>4. Of(snapshots', k) = K \cup {new}
      BY <1>1, <1>3 DEF Of
    <2> HIDE DEF K, new
    <2>5. Cardinality(K) \in Nat
      BY <2>3, FS_CardinalityType
    <2>6. Cardinality(K \cup {new}) = IF new \in K THEN Cardinality(K) ELSE Cardinality(K) + 1
      BY <2>3, FS_AddElement
    <2> QED
      BY <2>3, <2>4, <2>5, <2>6, KeepAssumption
  <1> QED
    BY <1>2, <1>3

-----------------------------------------------------------------------------
(***************************************************************************)
(* Every step preserves the invariant: one lemma per action.               *)
(***************************************************************************)
LEMMA BeginStep == ASSUME IInv, Begin PROVE IInv'
  <1>1. Stored'
    BY DEF IInv, Typed, Stored, StoreTyped, Named, store, Begin
  <1>2. Writing'
    BY BoundsAssumption
       DEF IInv, Typed, Stored, StoreTyped, Writing, WriterTyped, Pair,
           Version, Begin
  <1>3. Rolling'
    BY DEF IInv, Typed, Rolling, RollingTyped, store, rolling, Begin
  <1>4. Browsing'
    BY DEF IInv, Typed, Browsing, BrowserTyped, shown, store, rolling, browser, Begin
  <1>5. KeepsFew'
    BY DEF IInv, KeepsFew, store, Begin
  <1>6. Matched'
    BY DEF IInv, Version, Matched, Running, store, rolling, Begin
  <1>7. UndoKept'
    BY DEF IInv, Typed, UndoKept, Later, Holds, store, rolling, browser, Begin
  <1>8. Fresh'
    BY DEF IInv, Fresh, Untold, shown, store, rolling, browser, Begin
  <1> QED
    BY <1>1, <1>2, <1>3, <1>4, <1>5, <1>6, <1>7, <1>8 DEF IInv, Typed

LEMMA WriteFilesStep == ASSUME IInv, WriteFiles PROVE IInv'
  <1>1. Stored'
    BY BoundsAssumption
       DEF IInv, Typed, Stored, StoreTyped, Named, Writing, WriterTyped, Pair,
           Call, Written, WriteFiles
  <1>2. Writing'
    BY BoundsAssumption DEF IInv, Typed, Writing, WriterTyped, Call, WriteFiles
  <1>3. Rolling'
    BY DEF IInv, Typed, Rolling, RollingTyped, rolling, WriteFiles
  <1>4. Browsing'
    BY BoundsAssumption
       DEF IInv, Typed, Writing, WriterTyped, Browsing, BrowserTyped, shown, rolling,
           WriteFiles
  <1>5. KeepsFew'
    BY DEF IInv, KeepsFew, WriteFiles
  <1>6. Matched'
    BY DEF IInv, Matched, Running, rolling, Written, WriteFiles
  <1>7. UndoKept'
    BY DEF IInv, UndoKept, Later, Holds, rolling, WriteFiles
  <1>8. Fresh'
    BY DEF IInv, Typed, Browsing, BrowserTyped, shown, Fresh, Untold, shown, WriteFiles
  <1> QED
    BY <1>1, <1>2, <1>3, <1>4, <1>5, <1>6, <1>7, <1>8 DEF IInv, Typed

\* What a save leaves in the store, and among the writes that were given up.
LEMMA Persisted ==
  ASSUME Typed, NEW m \in SUBSET Call, NEW ops \in SUBSET Op, Persist(m, ops)
  PROVE  messages' \subseteq Call /\ late' \subseteq Op
  <1>1. Save(m) \in Op
    BY DEF Op, Save
  <1>2. messages \subseteq Call /\ late \subseteq Op
    BY DEF Typed, Stored, StoreTyped
  <1> HIDE DEF Op
  <1> QED
    BY <1>1, <1>2 DEF Persist, GiveUp

LEMMA WrittenTyped == ASSUME Typed, turn = "read" PROVE Written \in SUBSET Call /\ Put(Written) \in Op
  <1>1. writes + 1 \in Call
    BY BoundsAssumption DEF Typed, Writing, WriterTyped, Call
  <1>2. Written \in SUBSET Call
    BY <1>1 DEF Typed, Writing, Pair, Written
  <1> QED
    BY <1>2 DEF Put, Op

LEMMA ToolFailsStep == ASSUME IInv, ToolFails PROVE IInv'
  <1>0. /\ turn = "read" /\ turn' = "written" /\ writes' = writes + 1
        /\ torn' = (torn \/ files' # files) /\ missed' = (missed \/ files' # files)
        /\ files' \in {files, Written}
        /\ late' = late \/ late' = late \cup {Put(Written)}
        /\ UNCHANGED <<messages, snapshots, taken, turns, mine, before, rolling, browser, was>>
    BY DEF ToolFails, GiveUp
  <1>1. Stored'
    <2>1. files' \subseteq Call /\ late' \subseteq Op
      BY <1>0, WrittenTyped DEF IInv, Typed, Stored, StoreTyped
    <2> QED
      BY <1>0, <2>1 DEF IInv, Typed, Stored, StoreTyped, Named
  <1>2. Writing'
    BY <1>0, BoundsAssumption DEF IInv, Typed, Writing, WriterTyped
  <1>3. Rolling'
    BY <1>0 DEF IInv, Typed, Rolling, RollingTyped, rolling
  <1>4. Browsing'
    BY <1>0, BoundsAssumption
       DEF IInv, Typed, Writing, WriterTyped, Browsing, BrowserTyped, shown,
           rolling, browser
  <1>5. KeepsFew'
    BY <1>0 DEF IInv, KeepsFew
  <1>6. Matched'
    BY <1>0 DEF IInv, Matched, Running, rolling
  <1>7. UndoKept'
    BY <1>0 DEF IInv, UndoKept, Later, Holds, rolling, browser
  <1>8. Fresh'
    BY <1>0 DEF IInv, Fresh, Untold, shown, rolling, browser
  <1> QED
    BY <1>1, <1>2, <1>3, <1>4, <1>5, <1>6, <1>7, <1>8 DEF IInv, Typed

LEMMA SaveMessagesStep == ASSUME IInv, SaveMessages PROVE IInv'
  <1>0. /\ turn = "written" /\ turn' = "writing" /\ Persist(mine, {})
        /\ UNCHANGED <<files, snapshots, taken, turns, writes, mine, before,
                       rolling, browser, was, torn, missed>>
    BY DEF SaveMessages
  <1>1. Stored'
    <2>1. messages' \subseteq Call /\ late' \subseteq Op
      BY <1>0, Persisted DEF IInv, Typed, Writing, WriterTyped
    <2> QED
      BY <1>0, <2>1 DEF IInv, Typed, Stored, StoreTyped, Named
  <1>2. Writing'
    BY <1>0 DEF IInv, Typed, Writing, WriterTyped
  <1>3. Rolling'
    BY <1>0 DEF IInv, Typed, Rolling, RollingTyped, rolling
  <1>4. Browsing'
    BY <1>0 DEF IInv, Typed, Browsing, BrowserTyped, shown, rolling, browser
  <1>5. KeepsFew'
    BY <1>0 DEF IInv, KeepsFew
  <1>6. Matched'
    BY <1>0 DEF IInv, Matched, Running, rolling
  <1>7. UndoKept'
    BY <1>0 DEF IInv, UndoKept, Later, Holds, rolling, browser
  <1>8. Fresh'
    BY <1>0 DEF IInv, Fresh, Untold, shown, rolling, browser
  <1> QED
    BY <1>1, <1>2, <1>3, <1>4, <1>5, <1>6, <1>7, <1>8 DEF IInv, Typed

LEMMA EndStep == ASSUME IInv, End PROVE IInv'
  <1>0. /\ turn \in {"thinking", "writing"} /\ turn' = "none" /\ mine' = {} /\ before' = Empty
        /\ Persist(mine, {}) /\ torn' = (torn \/ messages' # mine)
        /\ UNCHANGED <<files, snapshots, taken, turns, writes, rolling, browser, was, missed>>
    BY DEF End, Forget
  <1>1. Stored'
    <2>1. messages' \subseteq Call /\ late' \subseteq Op
      BY <1>0, Persisted DEF IInv, Typed, Writing, WriterTyped
    <2> QED
      BY <1>0, <2>1 DEF IInv, Typed, Stored, StoreTyped, Named
  <1>2. Writing'
    BY <1>0 DEF IInv, Typed, Writing, WriterTyped, Pair, Version, Empty
  <1>3. Rolling'
    BY <1>0 DEF IInv, Typed, Rolling, RollingTyped, rolling
  <1>4. Browsing'
    BY <1>0 DEF IInv, Typed, Browsing, BrowserTyped, shown, rolling, browser
  <1>5. KeepsFew'
    BY <1>0 DEF IInv, KeepsFew
  <1>6. Matched'
    <2>1. ~torn' => ~torn /\ files' = messages' /\ Running' = {}
      BY <1>0 DEF IInv, Matched, Running, rolling
    <2> QED
      BY <1>0, <2>1 DEF IInv, Matched
  <1>7. UndoKept'
    BY <1>0 DEF IInv, UndoKept, Later, Holds, rolling, browser
  <1>8. Fresh'
    BY <1>0 DEF IInv, Fresh, Untold, shown, rolling, browser
  <1> QED
    BY <1>1, <1>2, <1>3, <1>4, <1>5, <1>6, <1>7, <1>8 DEF IInv, Typed

LEMMA StopTurnStep == ASSUME IInv, StopTurn PROVE IInv'
  <1>0. /\ turn # "none" /\ turn' = "none" /\ mine' = {} /\ before' = Empty
        /\ missed' = (missed \/ events > 0) /\ events' = 0
        /\ writes' = IF turn = "read" THEN writes + 1 ELSE writes
        /\ torn' = (torn \/ messages' # mine)
        /\ UNCHANGED <<files, snapshots, taken, turns, rolling, undo, pending,
                       shown, wanted, reads, was>>
    BY DEF StopTurn, Forget
  <1>1. Stored'
    <2>1. PICK ops \in SUBSET (IF turn = "read" THEN {Put(Written)} ELSE {}),
               m \in {mine} \cup (IF turn = "written" THEN {mine \ {writes}} ELSE {}) :
                 Persist(m, ops)
      BY DEF StopTurn
    <2>2. m \in SUBSET Call
      BY DEF IInv, Typed, Writing, WriterTyped
    <2>3. ops \in SUBSET Op
      BY WrittenTyped DEF IInv
    <2>4. messages' \subseteq Call /\ late' \subseteq Op
      BY <2>1, <2>2, <2>3, Persisted DEF IInv
    <2> QED
      BY <1>0, <2>4 DEF IInv, Typed, Stored, StoreTyped, Named
  <1>2. Writing'
    BY <1>0, BoundsAssumption
       DEF IInv, Typed, Writing, WriterTyped, Pair, Version, Empty
  <1>3. Rolling'
    BY <1>0 DEF IInv, Typed, Rolling, RollingTyped, rolling
  <1>4. Browsing'
    BY <1>0, BoundsAssumption
       DEF IInv, Typed, Writing, WriterTyped, Browsing, BrowserTyped, shown,
           rolling
  <1>5. KeepsFew'
    BY <1>0 DEF IInv, KeepsFew
  <1>6. Matched'
    <2>1. ~torn' => ~torn /\ files' = messages' /\ Running' = {}
      BY <1>0 DEF IInv, Typed, Writing, WriterTyped, Matched, Running, rolling
    <2> QED
      BY <1>0, <2>1 DEF IInv, Matched
  <1>7. UndoKept'
    BY <1>0 DEF IInv, UndoKept, Later, Holds, rolling
  <1>8. Fresh'
    BY <1>0 DEF IInv, Fresh, Untold, shown, rolling
  <1> QED
    BY <1>1, <1>2, <1>3, <1>4, <1>5, <1>6, <1>7, <1>8 DEF IInv, Typed

LEMMA LandStep == ASSUME IInv, NEW op \in late, Land(op) PROVE IInv'
  <1>0. /\ late' = late \ {op}
        /\ files' = IF op.of = "files" THEN op.at ELSE files
        /\ messages' = IF op.of = "messages" THEN op.at ELSE messages
        /\ torn' = (torn \/ files' # files \/ (turn = "none" /\ messages' # messages))
        /\ missed' = (missed \/ files' # files)
        /\ UNCHANGED <<snapshots, taken, writer, rolling, browser, was>>
    BY DEF Land
  <1>1. Stored'
    <2>1. op.at \in SUBSET Call
      BY DEF IInv, Typed, Stored, StoreTyped, Op
    <2> QED
      BY <1>0, <2>1 DEF IInv, Typed, Stored, StoreTyped, Named
  <1>2. Writing'
    BY <1>0 DEF IInv, Typed, Writing, WriterTyped, writer
  <1>3. Rolling'
    BY <1>0 DEF IInv, Typed, Rolling, RollingTyped, rolling
  <1>4. Browsing'
    BY <1>0 DEF IInv, Typed, Browsing, BrowserTyped, shown, writer, rolling, browser
  <1>5. KeepsFew'
    BY <1>0 DEF IInv, KeepsFew
  <1>6. Matched'
    <2>1. ~torn' => ~torn /\ files' = files /\ (turn = "none" => messages' = messages)
      BY <1>0
    <2>2. Running' = Running
      BY <1>0 DEF Running, rolling
    <2>3. turn # "none" /\ ~torn => Running = {}
      BY DEF IInv, Matched
    <2> QED
      BY <1>0, <2>1, <2>2, <2>3 DEF IInv, Matched, writer, rolling
  <1>7. UndoKept'
    BY <1>0 DEF IInv, UndoKept, Later, Holds, rolling, browser
  <1>8. Fresh'
    BY <1>0 DEF IInv, Fresh, Untold, shown, rolling, browser
  <1> QED
    BY <1>1, <1>2, <1>3, <1>4, <1>5, <1>6, <1>7, <1>8 DEF IInv, Typed

\* A read for the viewer alone: the tree is not told of its answer.
LEMMA OpenStep == ASSUME IInv, Open PROVE IInv'
  <1>0. /\ reads' = reads \cup {[cancelled |-> TRUE, files |-> files]}
        /\ UNCHANGED <<store, writer, rolling, undo, pending, shown, wanted,
                       events, was, torn, missed>>
    BY DEF Open
  <1>1. Stored'
    BY <1>0 DEF IInv, Typed, Stored, StoreTyped, Named, store
  <1>2. Writing'
    BY <1>0 DEF IInv, Typed, Writing, WriterTyped, writer
  <1>3. Rolling'
    BY <1>0 DEF IInv, Typed, Rolling, RollingTyped, store, rolling
  <1>4. Browsing'
    <2> DEFINE new == [cancelled |-> TRUE, files |-> files]
    <2>1. new \in [cancelled : BOOLEAN, files : SUBSET Call]
      BY DEF IInv, Typed, Stored, StoreTyped
    <2> HIDE DEF new
    <2>2. reads' \subseteq [cancelled : BOOLEAN, files : SUBSET Call]
      BY <1>0, <2>1, Zenon DEF IInv, Typed, Browsing, new
    <2> QED
      BY <1>0, <2>2
         DEF IInv, Typed, Browsing, BrowserTyped, shown, store, writer, rolling
  <1>5. KeepsFew'
    BY <1>0 DEF IInv, KeepsFew, store
  <1>6. Matched'
    BY <1>0 DEF IInv, Matched, Running, store, writer, rolling
  <1>7. UndoKept'
    BY <1>0 DEF IInv, UndoKept, Later, Holds, store, rolling
  <1>8. Fresh'
    <2> DEFINE new == [cancelled |-> TRUE, files |-> files]
    <2>1. reads' = reads \cup {new} /\ new.cancelled
      BY <1>0
    <2>2. /\ UNCHANGED <<shown, wanted, events, missed>>
          /\ files' = files /\ stage' = stage
      BY <1>0 DEF store, rolling
    <2> HIDE DEF new
    <2> QED
      BY <2>1, <2>2 DEF IInv, Fresh, Untold, shown
  <1> QED
    BY <1>1, <1>2, <1>3, <1>4, <1>5, <1>6, <1>7, <1>8 DEF IInv, Typed

LEMMA RestoreStep == ASSUME IInv, Restore PROVE IInv'
  <1>1. Stored'
    BY DEF IInv, Typed, Stored, StoreTyped, Named, store, Restore
  <1>2. Writing'
    BY DEF IInv, Typed, Writing, WriterTyped, writer, Restore
  <1>3. Rolling'
    BY BoundsAssumption
       DEF IInv, Typed, Rolling, RollingTyped, Rollbacks, store, Restore, Ask
  <1>4. Browsing'
    BY DEF IInv, Typed, Rolling, RollingTyped, Browsing, BrowserTyped, shown, store,
           writer, Restore, Ask
  <1>5. KeepsFew'
    BY DEF IInv, KeepsFew, store, Restore
  <1>6. Matched'
    <2>1. /\ UNCHANGED <<store, writer, target, present>>
          /\ asked + 1 \in Rollbacks /\ stage' = [stage EXCEPT ![asked + 1] = "asked"]
      <3>1. asked \in 0..MaxRollbacks /\ asked < MaxRollbacks /\ asked' = asked + 1
        BY DEF IInv, Typed, Rolling, RollingTyped, Restore, Ask
      <3> QED
        BY <3>1, BoundsAssumption DEF Rollbacks, Restore, Ask
    <2>2. ~torn' => ~torn /\ turn = "none" /\ Running = {}
      BY DEF Restore, Ask
    <2>3. ~torn' => Running' = {asked + 1} /\ stage'[asked + 1] = "asked"
      BY <2>1, <2>2 DEF IInv, Typed, Rolling, RollingTyped, Running
    <2> QED
      BY <2>1, <2>2, <2>3 DEF IInv, Matched, store, writer
  <1>7. UndoKept'
    <2>0. ~torn' => ~torn
      BY DEF Restore, Ask
    <2>1. /\ UNCHANGED <<store, undo, present, was, undoId>>
          /\ asked + 1 \in Rollbacks /\ stage' = [stage EXCEPT ![asked + 1] = "asked"]
      <3>1. asked \in 0..MaxRollbacks /\ asked < MaxRollbacks /\ asked' = asked + 1
        BY DEF IInv, Typed, Rolling, RollingTyped, Restore, Ask
      <3> QED
        BY <3>1, BoundsAssumption DEF Rollbacks, Restore, Ask
    <2>2. stage[asked + 1] = "none" /\ undoId[asked + 1] = 0
      BY <2>1 DEF IInv, Typed, Rolling, RollingTyped
    <2>3. \A r \in Rollbacks : undoId[r] # 0 => stage'[r] = stage[r]
      BY <2>1, <2>2 DEF IInv
    <2> QED
      BY <2>0, <2>1, <2>2, <2>3 DEF IInv, UndoKept, Later, Holds, store
  <1>8. Fresh'
    BY DEF IInv, Typed, Rolling, RollingTyped, Fresh, Untold, shown, store, Restore,
           Ask
  <1> QED
    BY <1>1, <1>2, <1>3, <1>4, <1>5, <1>6, <1>7, <1>8 DEF IInv, Typed

LEMMA UndoRestoreStep == ASSUME IInv, UndoRestore PROVE IInv'
  <1>1. Stored'
    BY DEF IInv, Typed, Stored, StoreTyped, Named, store, UndoRestore
  <1>2. Writing'
    BY DEF IInv, Typed, Writing, WriterTyped, writer, UndoRestore
  <1>3. Rolling'
    BY BoundsAssumption
       DEF IInv, Typed, Rolling, RollingTyped, Rollbacks, store, UndoRestore,
           Ask
  <1>4. Browsing'
    BY DEF IInv, Typed, Stored, StoreTyped, Rolling, RollingTyped, Browsing,
           BrowserTyped, shown, store, writer, UndoRestore, Ask
  <1>5. KeepsFew'
    BY DEF IInv, KeepsFew, store, UndoRestore
  <1>6. Matched'
    BY DEF IInv, Typed, Rolling, RollingTyped, Matched, Running, store, writer,
           UndoRestore, Ask
  <1>7. UndoKept'
    BY DEF IInv, Typed, Rolling, RollingTyped, Running, UndoKept, Later, Holds,
           Rollbacks, store, writer, UndoRestore, Ask
  <1>8. Fresh'
    BY DEF IInv, Typed, Rolling, RollingTyped, Fresh, Untold, shown, store,
           UndoRestore, Ask
  <1> QED
    BY <1>1, <1>2, <1>3, <1>4, <1>5, <1>6, <1>7, <1>8 DEF IInv, Typed

LEMMA DismissStep == ASSUME IInv, Dismiss PROVE IInv'
  <1>1. Stored'
    BY DEF IInv, Typed, Stored, StoreTyped, Named, store, Dismiss
  <1>2. Writing'
    BY DEF IInv, Typed, Writing, WriterTyped, writer, Dismiss
  <1>3. Rolling'
    BY DEF IInv, Typed, Rolling, RollingTyped, store, rolling, Dismiss
  <1>4. Browsing'
    BY DEF IInv, Typed, Stored, StoreTyped, Browsing, BrowserTyped, shown, store,
           writer, rolling, Dismiss
  <1>5. KeepsFew'
    BY DEF IInv, KeepsFew, store, Dismiss
  <1>6. Matched'
    BY DEF IInv, Matched, Running, store, writer, rolling, Dismiss
  <1>7. UndoKept'
    BY DEF IInv, UndoKept, Later, Holds, store, rolling, Dismiss
  <1>8. Fresh'
    BY DEF IInv, Fresh, Untold, shown, store, rolling, Dismiss
  <1> QED
    BY <1>1, <1>2, <1>3, <1>4, <1>5, <1>6, <1>7, <1>8 DEF IInv, Typed

LEMMA ToldStep == ASSUME IInv, Told PROVE IInv'
  <1>1. Stored'
    BY DEF IInv, Typed, Stored, StoreTyped, Named, store, Told
  <1>2. Writing'
    BY DEF IInv, Typed, Writing, WriterTyped, writer, Told
  <1>3. Rolling'
    BY DEF IInv, Typed, Rolling, RollingTyped, store, rolling, Told
  <1>4. Browsing'
    <2>1. reads' = {[r EXCEPT !.cancelled = TRUE] : r \in reads}
      BY DEF Told, Bump
    <2>2. reads' \subseteq [cancelled : BOOLEAN, files : SUBSET Call]
      BY <2>1 DEF IInv, Typed, Browsing
    <2>3. BrowserTyped' /\ events' <= writes'
      <3>1. events' = events - 1 /\ events > 0 /\ UNCHANGED <<taken, writes, asked, undo, pending, view, ref>>
        BY DEF Told, store, writer, rolling, shown
      <3> QED
        BY <3>1, BoundsAssumption
           DEF IInv, Typed, Writing, WriterTyped, Browsing, BrowserTyped
    <2> QED
      BY <2>2, <2>3 DEF Browsing
  <1>5. KeepsFew'
    BY DEF IInv, KeepsFew, store, Told
  <1>6. Matched'
    BY DEF IInv, Matched, Running, store, writer, rolling, Told
  <1>7. UndoKept'
    BY DEF IInv, UndoKept, Later, Holds, store, rolling, Told
  <1>8. Fresh'
    BY DEF IInv, Typed, Browsing, Fresh, Untold, shown, Told, Bump
  <1> QED
    BY <1>1, <1>2, <1>3, <1>4, <1>5, <1>6, <1>7, <1>8 DEF IInv, Typed

LEMMA ReadProjectStep == ASSUME IInv, ReadProject PROVE IInv'
  <1>1. Stored'
    BY DEF IInv, Typed, Stored, StoreTyped, Named, store, ReadProject
  <1>2. Writing'
    BY DEF IInv, Typed, Writing, WriterTyped, writer, ReadProject
  <1>3. Rolling'
    BY DEF IInv, Typed, Rolling, RollingTyped, store, rolling, ReadProject
  <1>4. Browsing'
    <2>1. reads' = reads \cup {[cancelled |-> FALSE, files |-> files]} /\ files \subseteq Call
      BY DEF IInv, Typed, Stored, StoreTyped, ReadProject
    <2>2. [cancelled |-> FALSE, files |-> files] \in [cancelled : BOOLEAN, files : SUBSET Call]
      BY <2>1
    <2>3. reads' \subseteq [cancelled : BOOLEAN, files : SUBSET Call]
      BY <2>1, <2>2, Zenon DEF IInv, Typed, Browsing
    <2> QED
      BY <2>3
         DEF IInv, Typed, Browsing, BrowserTyped, shown, store, writer, rolling,
             ReadProject
  <1>5. KeepsFew'
    BY DEF IInv, KeepsFew, store, ReadProject
  <1>6. Matched'
    BY DEF IInv, Matched, Running, store, writer, rolling, ReadProject
  <1>7. UndoKept'
    BY DEF IInv, UndoKept, Later, Holds, store, rolling, ReadProject
  <1>8. Fresh'
    <2> DEFINE new == [cancelled |-> FALSE, files |-> files]
    <2>1. reads' = reads \cup {new} /\ (\A r \in reads : r.cancelled) /\ wanted' = FALSE
      BY DEF IInv, Fresh, ReadProject
    <2>2. ~new.cancelled /\ new.files = files
      OBVIOUS
    <2>3. files' = files /\ UNCHANGED <<view, ref, stale>> /\ (~stale => ref = view)
      BY DEF IInv, Fresh, ReadProject, store, shown
    <2> HIDE DEF new
    <2> QED
      BY <2>1, <2>2, <2>3 DEF Fresh
  <1> QED
    BY <1>1, <1>2, <1>3, <1>4, <1>5, <1>6, <1>7, <1>8 DEF IInv, Typed

LEMMA FindStep == ASSUME IInv, NEW r \in Rollbacks, Find(r) PROVE IInv'
  <1>1. Stored'
    BY DEF IInv, Typed, Stored, StoreTyped, Named, store, Find, Named
  <1>2. Writing'
    BY DEF IInv, Typed, Writing, WriterTyped, writer, Find
  <1>3. Rolling'
    BY DEF IInv, Typed, Stored, StoreTyped, Rolling, RollingTyped, Pair,
           Version, store, Find, Becomes, Named
  <1>4. Browsing'
    BY DEF IInv, Typed, Browsing, BrowserTyped, shown, store, writer, browser, Find
  <1>5. KeepsFew'
    BY DEF IInv, KeepsFew, store, Find
  <1>6. Matched'
    BY DEF IInv, Typed, Rolling, Version, Matched, Running, store, writer,
           Find, Becomes, Named
  <1>7. UndoKept'
    BY DEF IInv, UndoKept, Later, Holds, store, browser, Find, Becomes
  <1>8. Fresh'
    BY DEF IInv, Fresh, Untold, shown, store, browser, Find, Becomes
  <1> QED
    BY <1>1, <1>2, <1>3, <1>4, <1>5, <1>6, <1>7, <1>8 DEF IInv, Typed

LEMMA SeeFilesStep == ASSUME IInv, NEW r \in Rollbacks, SeeFiles(r) PROVE IInv'
  <1>1. Stored'
    BY DEF IInv, Typed, Stored, StoreTyped, Named, store, SeeFiles
  <1>2. Writing'
    BY DEF IInv, Typed, Writing, WriterTyped, writer, SeeFiles
  <1>3. Rolling'
    <2>1. present' \in [Rollbacks -> Pair]
      BY DEF IInv, Typed, Stored, StoreTyped, Rolling, Pair, SeeFiles
    <2>2. stage' = [stage EXCEPT ![r] = "half"] /\ stage[r] = "found"
      BY DEF SeeFiles, Becomes
    <2> QED
      BY <2>1, <2>2 DEF IInv, Typed, Rolling, RollingTyped, store, SeeFiles
  <1>4. Browsing'
    BY DEF IInv, Typed, Browsing, BrowserTyped, shown, store, writer, browser,
           SeeFiles
  <1>5. KeepsFew'
    BY DEF IInv, KeepsFew, store, SeeFiles
  <1>6. Matched'
    BY DEF IInv, Typed, Rolling, Matched, Running, store, writer, SeeFiles,
           Becomes
  <1>7. UndoKept'
    BY DEF IInv, UndoKept, Later, Holds, store, browser, SeeFiles, Becomes
  <1>8. Fresh'
    BY DEF IInv, Fresh, Untold, shown, store, browser, SeeFiles, Becomes
  <1> QED
    BY <1>1, <1>2, <1>3, <1>4, <1>5, <1>6, <1>7, <1>8 DEF IInv, Typed

LEMMA SeeMessagesStep == ASSUME IInv, NEW r \in Rollbacks, SeeMessages(r) PROVE IInv'
  <1>1. Stored'
    BY DEF IInv, Typed, Stored, StoreTyped, Named, store, SeeMessages
  <1>2. Writing'
    BY DEF IInv, Typed, Writing, WriterTyped, writer, SeeMessages
  <1>3. Rolling'
    BY DEF IInv, Typed, Stored, StoreTyped, Rolling, RollingTyped, Pair, store,
           writer, browser, SeeMessages, Becomes
  <1>4. Browsing'
    BY DEF IInv, Typed, Browsing, BrowserTyped, shown, store, writer, browser,
           SeeMessages
  <1>5. KeepsFew'
    BY DEF IInv, KeepsFew, store, SeeMessages
  <1>6. Matched'
    BY DEF IInv, Typed, Rolling, Pair, Version, Matched, Running, store,
           writer, SeeMessages, Becomes
  <1>7. UndoKept'
    BY DEF IInv, UndoKept, Later, Holds, store, browser, SeeMessages, Becomes
  <1>8. Fresh'
    BY DEF IInv, Fresh, Untold, shown, store, browser, SeeMessages, Becomes
  <1> QED
    BY <1>1, <1>2, <1>3, <1>4, <1>5, <1>6, <1>7, <1>8 DEF IInv, Typed

LEMMA PutFilesStep == ASSUME IInv, NEW r \in Rollbacks, PutFiles(r) PROVE IInv'
  <1>1. Stored'
    BY DEF IInv, Typed, Stored, StoreTyped, Named, Rolling, Pair, PutFiles
  <1>2. Writing'
    BY DEF IInv, Typed, Writing, WriterTyped, writer, PutFiles
  <1>3. Rolling'
    BY DEF IInv, Typed, Stored, StoreTyped, Rolling, RollingTyped, Pair,
           Version, PutFiles, Becomes
  <1>4. Browsing'
    BY DEF IInv, Typed, Browsing, BrowserTyped, shown, writer, browser, PutFiles
  <1>5. KeepsFew'
    BY DEF IInv, KeepsFew, PutFiles
  <1>6. Matched'
    BY DEF IInv, Typed, Rolling, RollingTyped, Matched, Running, writer,
           PutFiles, Becomes
  <1>7. UndoKept'
    <2>1. /\ UNCHANGED <<snapshots, undo, present, undoId, torn>>
          /\ stage' = [stage EXCEPT ![r] = "put"] /\ stage[r] = "kept"
          /\ was' = [was EXCEPT ![r] = Version(files, messages)]
      BY DEF PutFiles, Becomes, browser
    <2>2. ~torn => present[r] = Version(files, messages)
      BY <2>1 DEF IInv, Matched, Running
    <2>3. undoId[r] # 0 /\ (undo # 0 => undo # undoId[r])
      BY <2>1 DEF IInv, Typed, Rolling, UndoKept
    <2>4. \A s \in snapshots, q \in Rollbacks : Holds(s, q) => Holds(s, q)'
      BY <2>1, <2>2, <2>3 DEF IInv, Typed, Rolling, Holds
    <2>5. \A q \in Rollbacks : stage[q] = "over" => stage'[q] = "over"
      BY <2>1 DEF IInv
    <2> QED
      BY <2>1, <2>4, <2>5 DEF IInv, UndoKept, Later
  <1>8. Fresh'
    BY DEF IInv, Typed, Rolling, RollingTyped, Fresh, Untold, shown, browser,
           PutFiles, Becomes
  <1> QED
    BY <1>1, <1>2, <1>3, <1>4, <1>5, <1>6, <1>7, <1>8 DEF IInv, Typed

LEMMA PutMessagesStep == ASSUME IInv, NEW r \in Rollbacks, PutMessages(r) PROVE IInv'
  <1>1. Stored'
    BY DEF IInv, Typed, Stored, StoreTyped, Named, Rolling, Pair, PutMessages
  <1>2. Writing'
    BY DEF IInv, Typed, Writing, WriterTyped, writer, PutMessages
  <1>3. Rolling'
    BY DEF IInv, Typed, Rolling, RollingTyped, PutMessages, Becomes
  <1>4. Browsing'
    BY DEF IInv, Typed, Browsing, BrowserTyped, shown, writer, browser, PutMessages
  <1>5. KeepsFew'
    BY DEF IInv, KeepsFew, PutMessages
  <1>6. Matched'
    BY DEF IInv, Matched, Running, writer, PutMessages, Becomes
  <1>7. UndoKept'
    BY DEF IInv, UndoKept, Later, Holds, browser, PutMessages, Becomes
  <1>8. Fresh'
    BY DEF IInv, Fresh, Untold, shown, browser, PutMessages, Becomes
  <1> QED
    BY <1>1, <1>2, <1>3, <1>4, <1>5, <1>6, <1>7, <1>8 DEF IInv, Typed

LEMMA AnswerStep == ASSUME IInv, NEW r \in Rollbacks, Answer(r) PROVE IInv'
  <1>1. Stored'
    BY DEF IInv, Typed, Stored, StoreTyped, Named, store, Answer
  <1>2. Writing'
    BY DEF IInv, Typed, Writing, WriterTyped, writer, Answer
  <1>3. Rolling'
    BY DEF IInv, Typed, Rolling, RollingTyped, Pair, Version, Empty, store,
           Answer, Leave, Becomes
  <1>4. Browsing'
    <2>1. reads' = {[d EXCEPT !.cancelled = TRUE] : d \in reads}
      BY DEF Answer, Bump
    <2>2. reads' \subseteq [cancelled : BOOLEAN, files : SUBSET Call]
      BY <2>1 DEF IInv, Typed, Browsing
    <2>3. BrowserTyped' /\ events' <= writes'
      BY DEF IInv, Typed, Rolling, RollingTyped, Browsing, BrowserTyped, shown, store,
             writer, Answer, Leave
    <2> QED
      BY <2>2, <2>3 DEF Browsing
  <1>5. KeepsFew'
    BY DEF IInv, KeepsFew, store, Answer
  <1>6. Matched'
    BY DEF IInv, Matched, Running, store, writer, Answer, Leave, Becomes
  <1>7. UndoKept'
    BY DEF IInv, Typed, Rolling, RollingTyped, UndoKept, Later, Holds, store,
           Answer, Leave, Becomes
  <1>8. Fresh'
    BY DEF IInv, Typed, Browsing, Fresh, Untold, shown, Answer, Bump
  <1> QED
    BY <1>1, <1>2, <1>3, <1>4, <1>5, <1>6, <1>7, <1>8 DEF IInv, Typed

LEMMA FailStep == ASSUME IInv, NEW r \in Rollbacks, Fail(r) PROVE IInv'
  <1>1. Stored'
    BY DEF IInv, Typed, Stored, StoreTyped, Named, store, Fail
  <1>2. Writing'
    BY DEF IInv, Typed, Writing, WriterTyped, writer, Fail
  <1>3. Rolling'
    <2>1. Empty \in Pair
      BY DEF Empty, Version, Pair
    <2>2. /\ UNCHANGED <<asked, undoId, was, taken>> /\ stage' = [stage EXCEPT ![r] = "over"]
          /\ target' = [target EXCEPT ![r] = Empty] /\ present' = [present EXCEPT ![r] = Empty]
          /\ stage[r] # "none"
      BY DEF Fail, Leave, Becomes, Running, store
    <2> HIDE DEF Empty
    <2> QED
      BY <2>1, <2>2 DEF IInv, Typed, Rolling, RollingTyped
  <1>4. Browsing'
    BY DEF IInv, Typed, Rolling, RollingTyped, Browsing, BrowserTyped, shown, store,
           writer, Fail, Leave
  <1>5. KeepsFew'
    BY DEF IInv, KeepsFew, store, Fail
  <1>6. Matched'
    BY DEF IInv, Typed, Rolling, RollingTyped, Matched, Running, Rollbacks,
           store, writer, Fail, Leave, Becomes
  <1>7. UndoKept'
    <2>1. /\ UNCHANGED <<snapshots, undo, undoId, was>> /\ (~torn' => ~torn)
          /\ stage' = [stage EXCEPT ![r] = "over"] /\ stage[r] # "over"
          /\ present' = [present EXCEPT ![r] = Empty]
      BY DEF Fail, Leave, Becomes, Running, store
    <2>2. undo # 0 => undo # undoId[r]
      BY <2>1 DEF IInv, UndoKept
    <2>3. \A s \in snapshots, q \in Rollbacks : undoId[q] # 0 /\ Holds(s, q) => Holds(s, q)'
      BY <2>1, <2>2 DEF IInv, Typed, Rolling, RollingTyped, Holds
    <2>4. \A q \in Rollbacks : stage[q] = "over" => stage'[q] = "over"
      BY <2>1 DEF IInv
    <2> QED
      BY <2>1, <2>3, <2>4 DEF IInv, UndoKept, Later
  <1>8. Fresh'
    BY DEF IInv, Typed, Rolling, RollingTyped, Fresh, Untold, shown, store, Fail,
           Leave, Becomes
  <1> QED
    BY <1>1, <1>2, <1>3, <1>4, <1>5, <1>6, <1>7, <1>8 DEF IInv, Typed

LEMMA ArriveStep == ASSUME IInv, NEW a \in reads, Arrive(a) PROVE IInv'
  <1>1. Stored'
    BY DEF IInv, Typed, Stored, StoreTyped, Named, store, Arrive
  <1>2. Writing'
    BY DEF IInv, Typed, Writing, WriterTyped, writer, Arrive
  <1>3. Rolling'
    BY DEF IInv, Typed, Rolling, RollingTyped, store, rolling, Arrive
  <1>4. Browsing'
    BY DEF IInv, Typed, Browsing, BrowserTyped, shown, store, writer, rolling, Arrive,
           Shown
  <1>5. KeepsFew'
    BY DEF IInv, KeepsFew, store, Arrive
  <1>6. Matched'
    BY DEF IInv, Matched, Running, store, writer, rolling, Arrive
  <1>7. UndoKept'
    BY DEF IInv, UndoKept, Later, Holds, store, rolling, Arrive
  <1>8. Fresh'
    BY DEF IInv, Fresh, Untold, shown, store, rolling, Arrive, Shown
  <1> QED
    BY <1>1, <1>2, <1>3, <1>4, <1>5, <1>6, <1>7, <1>8 DEF IInv, Typed

LEMMA ReadFailsStep == ASSUME IInv, NEW a \in reads, ReadFails(a) PROVE IInv'
  <1>1. Stored'
    BY DEF IInv, Typed, Stored, StoreTyped, Named, store, ReadFails
  <1>2. Writing'
    BY DEF IInv, Typed, Writing, WriterTyped, writer, ReadFails
  <1>3. Rolling'
    BY DEF IInv, Typed, Rolling, RollingTyped, store, rolling, ReadFails
  <1>4. Browsing'
    BY DEF IInv, Typed, Browsing, BrowserTyped, shown, store, writer, rolling,
           ReadFails
  <1>5. KeepsFew'
    BY DEF IInv, KeepsFew, store, ReadFails
  <1>6. Matched'
    BY DEF IInv, Matched, Running, store, writer, rolling, ReadFails
  <1>7. UndoKept'
    BY DEF IInv, UndoKept, Later, Holds, store, rolling, ReadFails
  <1>8. Fresh'
    BY DEF IInv, Fresh, Untold, shown, store, rolling, ReadFails
  <1> QED
    BY <1>1, <1>2, <1>3, <1>4, <1>5, <1>6, <1>7, <1>8 DEF IInv, Typed

\* The step in which a turn begins to write: it may take a version first.
LEMMA ReadFilesStep == ASSUME IInv, ReadFiles PROVE IInv'
  <1>0. /\ turn' = "read" /\ writes < MaxWrites /\ before' = [before EXCEPT !.files = files]
        /\ turn \in {"thinking", "writing"}
        /\ UNCHANGED <<files, messages, late, turns, writes, mine, rolling, browser, was, torn, missed>>
    BY DEF ReadFiles
  <1>1. Writing'
    BY <1>0 DEF IInv, Typed, Stored, StoreTyped, Writing, WriterTyped, Pair
  <1>2. CASE UNCHANGED <<snapshots, taken>>
    <2>1. Stored' /\ KeepsFew'
      BY <1>0, <1>2 DEF IInv, Typed, Stored, StoreTyped, Named, KeepsFew
    <2>2. Rolling'
      BY <1>0, <1>2 DEF IInv, Typed, Rolling, RollingTyped, rolling
    <2>3. Browsing'
      BY <1>0, <1>2 DEF IInv, Typed, Browsing, BrowserTyped, shown, browser, rolling
    <2>4. Matched'
      BY <1>0, <1>2 DEF IInv, Matched, Running, rolling
    <2>5. UndoKept'
      BY <1>0, <1>2 DEF IInv, UndoKept, Later, Holds, rolling, browser
    <2>6. Fresh'
      BY <1>0 DEF IInv, Fresh, Untold, shown, rolling, browser
    <2> QED
      BY <1>1, <2>1, <2>2, <2>3, <2>4, <2>5, <2>6 DEF IInv, Typed
  <1>3. CASE turn = "thinking" /\ PreTurn(files)
    <2> DEFINE f == before.files
               m == before.messages
               new == New("pre-turn", f, m)
    <2>1. /\ Typed /\ KeepsFew /\ "pre-turn" \in Kind /\ f \in SUBSET Call
          /\ m \in SUBSET Call /\ CreateSnapshot("pre-turn", f, m)
      BY <1>3 DEF IInv, Typed, Writing, Pair, Kind, PreTurn
    <2>2. /\ taken' = taken + 1 /\ taken' \in Nat /\ IsFiniteSet(snapshots')
          /\ \A s \in snapshots' : s = new \/ s \in snapshots
          /\ \A s \in snapshots : s.kind # "pre-turn" => s \in snapshots'
          /\ \A s \in snapshots' :
               /\ s.id \in 1..taken' /\ s.kind \in Kind
               /\ s.files \subseteq Call /\ s.messages \subseteq Call
               /\ {t \in snapshots' : t.id = s.id} = {s}
      BY <2>1, SnapshotCreated
    <2>3. new.kind = "pre-turn" /\ new.files = f /\ new.messages = m
      BY DEF New
    <2> HIDE DEF new
    <2>4. Stored' /\ KeepsFew'
      BY <1>0, <2>1, <2>2, FewKept DEF Typed, Stored, StoreTyped, Named
    <2>5. Rolling'
      <3>1. 0..taken \subseteq 0..taken'
        BY <2>1, <2>2 DEF Typed, Stored, StoreTyped
      <3> QED
        BY <1>0, <2>1, <3>1 DEF Typed, Rolling, RollingTyped, rolling
    <2>6. Browsing'
      BY <1>0, <2>1, <2>2
         DEF Typed, Stored, StoreTyped, Browsing, BrowserTyped, shown, browser,
             rolling
    <2>7. Matched'
      BY <1>0, <1>3, <2>2, <2>3 DEF IInv, Matched, Running, rolling
    <2>8. UndoKept'
      <3>1. \A s \in snapshots : s.kind = "undo" => s \in snapshots'
        BY <2>2
      <3>2. \A s \in snapshots' : s.kind = "undo" => s \in snapshots
        BY <2>2, <2>3
      <3> QED
        BY <1>0, <3>1, <3>2 DEF IInv, UndoKept, Later, Holds, rolling, browser
    <2>9. Fresh'
      BY <1>0 DEF IInv, Fresh, Untold, shown, rolling, browser
    <2> QED
      BY <1>1, <2>4, <2>5, <2>6, <2>7, <2>8, <2>9 DEF IInv, Typed
  <1> QED
    BY <1>2, <1>3 DEF ReadFiles

LEMMA LaterIsFinite == \A nr : IsFiniteSet(Later(nr))
  <1>1. IsFiniteSet(Rollbacks)
    BY BoundsAssumption, FS_Interval DEF Rollbacks
  <1>2. \A nr : Later(nr) \subseteq Rollbacks
    BY DEF Later
  <1> QED
    BY <1>1, <1>2, FS_Subset

\* As many undo versions are newer than one as rollbacks have taken theirs after.
LEMMA NewerUndos ==
  ASSUME Typed, UndoKept, NEW s \in snapshots
  PROVE  Cardinality({t \in snapshots : t.kind = "undo" /\ t.id > s.id})
           <= Cardinality(Later(s.id))
  <1> DEFINE T == {t \in snapshots : t.kind = "undo" /\ t.id > s.id}
             g == [t \in T |-> CHOOSE r \in Rollbacks : undoId[r] = t.id]
  <1>1. \A t \in T : g[t] \in Rollbacks /\ undoId[g[t]] = t.id
    BY DEF UndoKept
  <1>2. g \in [T -> Later(s.id)]
    BY <1>1 DEF Later
  <1>3. \A t, u \in T : g[t] = g[u] => t = u
    BY <1>1, IdsAreDistinct DEF Ids
  <1>4. g \in Injection(T, Later(s.id))
    BY <1>2, <1>3 DEF Injection, IsInjective
  <1>5. IsFiniteSet(Later(s.id))
    BY LaterIsFinite
  <1> QED
    BY <1>4, <1>5, FS_Injection

LEMMA TakeUndoStep == ASSUME IInv, NEW r \in Rollbacks, TakeUndo(r) PROVE IInv'
  <1> DEFINE f == present[r].files
             m == present[r].messages
             new == New("undo", f, m)
  <1>0. /\ stage[r] = "seen" /\ stage' = [stage EXCEPT ![r] = "kept"]
        /\ undoId' = [undoId EXCEPT ![r] = taken']
        /\ UNCHANGED <<files, messages, late, writer, asked, target, present, browser, was, torn, missed>>
    BY DEF TakeUndo, Becomes
  <1>1. /\ Typed /\ KeepsFew /\ "undo" \in Kind /\ f \in SUBSET Call
        /\ m \in SUBSET Call /\ CreateSnapshot("undo", f, m) /\ undoId[r] = 0
    BY DEF IInv, Typed, Rolling, Pair, Kind, TakeUndo, KeepPresent
  <1>2. /\ taken' = taken + 1 /\ taken' \in Nat /\ IsFiniteSet(snapshots')
        /\ new \in snapshots'
        /\ \A s \in snapshots' : s = new \/ s \in snapshots
        /\ \A s \in snapshots :
             Cardinality({t \in snapshots : t.kind = "undo" /\ t.id > s.id}) < Keep - 1
               => s \in snapshots'
        /\ \A s \in snapshots' :
             /\ s.id \in 1..taken' /\ s.kind \in Kind
             /\ s.files \subseteq Call /\ s.messages \subseteq Call
             /\ {t \in snapshots' : t.id = s.id} = {s}
    BY <1>1, SnapshotCreated
  <1>3. new.id = taken' /\ new.kind = "undo" /\ new.files = f /\ new.messages = m
    BY <1>2 DEF New
  <1> HIDE DEF new
  <1>4. taken \in Nat /\ taken' \in Nat /\ taken < taken'
    BY <1>1, <1>2 DEF Typed, Stored, StoreTyped
  <1>5. Stored' /\ KeepsFew'
    BY <1>0, <1>1, <1>2, FewKept DEF Typed, Stored, StoreTyped, Named
  <1>6. Writing'
    BY <1>0, <1>1 DEF Typed, Writing, WriterTyped, writer
  <1>7. Rolling'
    <2>1. 0..taken \subseteq 0..taken' /\ taken' \in 0..taken' /\ taken' # 0
      BY <1>4
    <2>2. undoId' \in [Rollbacks -> 0..taken']
      BY <1>0, <1>1, <2>1 DEF Typed, Rolling
    <2> QED
      BY <1>0, <1>1, <2>1, <2>2 DEF Typed, Rolling, RollingTyped
  <1>8. Browsing'
    BY <1>0, <1>1, <1>4 DEF Typed, Browsing, BrowserTyped, shown, browser, writer
  <1>9. Matched'
    <2>1. ~torn => f = m /\ present[r] = Version(files, messages)
      BY <1>0 DEF IInv, Matched, Running, Version
    <2>2. Running' = Running
      BY <1>0, <1>1 DEF Running
    <2> QED
      BY <1>0, <1>1, <1>2, <1>3, <2>1, <2>2 DEF IInv, Matched, writer
  <1>10. UndoKept'
    <2>1. \A q \in Rollbacks : undoId[q] \in Nat /\ undoId[q] < taken'
      BY <1>1, <1>4 DEF Typed, Rolling
    <2>2. \A q \in Rollbacks : q # r => undoId'[q] = undoId[q] /\ stage'[q] = stage[q]
      BY <1>0, <1>1
    <2>3. undoId'[r] = taken' /\ stage'[r] = "kept"
      BY <1>0, <1>1 DEF Typed, Rolling, RollingTyped
    <2>4. \A s \in snapshots' : s.kind = "undo" => \E q \in Rollbacks : undoId'[q] = s.id
      BY <1>1, <1>2, <1>3, <2>2, <2>3 DEF IInv, UndoKept
    <2>5. \A p, q \in Rollbacks : undoId'[p] = undoId'[q] /\ undoId'[p] # 0 => p = q
      BY <2>1, <2>2, <2>3 DEF IInv, UndoKept
    <2>6. undo' # 0 => \E q \in Rollbacks : undoId'[q] = undo' /\ stage'[q] = "over"
      BY <1>0, <2>2 DEF IInv, UndoKept, browser
    <2>7. ASSUME NEW q \in Rollbacks, undoId'[q] # 0, Cardinality(Later(undoId[q])') < Keep
          PROVE  \E s \in snapshots' : s.id = undoId'[q] /\ s.kind = "undo" /\ Holds(s, q)'
      <3>1. CASE q = r
        <4>1. undo' # undoId'[r]
          BY <1>0, <1>1, <1>4, <2>3 DEF Typed, Browsing, BrowserTyped, shown, browser
        <4>2. PICK s \in snapshots' : /\ s.id = taken' /\ s.kind = "undo"
                                     /\ s.files = f /\ s.messages = m
          BY <1>2, <1>3
        <4>3. ~torn' => Version(s.files, s.messages) = present'[r]
          <5>1. ~torn => f = m /\ present[r] = Version(files, messages)
            BY <1>0 DEF IInv, Matched, Running, Version
          <5> QED
            BY <1>0, <4>2, <5>1 DEF Version
        <4>4. Holds(s, r)'
          BY <2>3, <4>1, <4>3 DEF Holds
        <4> QED
          BY <3>1, <2>3, <4>2, <4>4
      <3>2. CASE q # r
        <4>1. undoId'[q] = undoId[q] /\ stage'[q] = stage[q] /\ undoId[q] # 0
          BY <2>2, <2>7, <3>2
        <4> DEFINE L == Later(undoId[q])
        <4>2. Later(undoId[q])' = L \cup {r} /\ r \notin L
          BY <1>1, <2>1, <2>2, <2>3, <3>2, <4>1 DEF Later
        <4>3. IsFiniteSet(L) /\ Cardinality(L) \in Nat
          BY LaterIsFinite, FS_CardinalityType
        <4>4. Cardinality(L) + 1 < Keep
          BY <2>7, <4>2, <4>3, FS_AddElement
        <4>5. Cardinality(L) < Keep
          BY <4>3, <4>4, KeepAssumption
        <4>6. PICK s \in snapshots : s.id = undoId[q] /\ s.kind = "undo" /\ Holds(s, q)
          BY <4>1, <4>5 DEF IInv, UndoKept
        <4> DEFINE T == {t \in snapshots : t.kind = "undo" /\ t.id > s.id}
        <4>7. Cardinality(T) <= Cardinality(L)
          BY <1>1, <4>6, NewerUndos DEF IInv
        <4>8. IsFiniteSet(T) /\ Cardinality(T) \in Nat
          BY <1>1, FS_Subset, FS_CardinalityType DEF Typed, Stored
        <4>9. Cardinality(T) < Keep - 1
          BY <4>3, <4>4, <4>7, <4>8, KeepAssumption
        <4>10. s \in snapshots'
          BY <1>2, <4>9
        <4>11. Holds(s, q)'
          BY <1>0, <4>1, <4>6 DEF Holds, browser
        <4> QED
          BY <4>1, <4>6, <4>10, <4>11
      <3> QED
        BY <3>1, <3>2
    <2> QED
      BY <2>4, <2>5, <2>6, <2>7 DEF UndoKept
  <1>11. Fresh'
    <2>1. \A q \in Rollbacks : stage'[q] \in {"put", "saved"} <=> stage[q] \in {"put", "saved"}
      BY <1>0, <1>1
    <2> QED
      BY <1>0, <2>1 DEF IInv, Fresh, Untold, shown, browser
  <1> QED
    BY <1>5, <1>6, <1>7, <1>8, <1>9, <1>10, <1>11 DEF IInv, Typed

LEMMA StutterStep == ASSUME IInv, UNCHANGED vars PROVE IInv'
  <1> USE DEF vars, store, writer, rolling, browser, shown
  <1>1. Typed'
    BY DEF IInv, Typed, Stored, StoreTyped, Named, Writing, WriterTyped,
           Rolling, RollingTyped, Browsing, BrowserTyped
  <1>2. KeepsFew' /\ Matched'
    BY DEF IInv, KeepsFew, Matched, Running
  <1>3. UndoKept'
    BY DEF IInv, UndoKept, Later, Holds
  <1>4. Fresh'
    BY DEF IInv, Fresh, Untold, shown
  <1> QED
    BY <1>1, <1>2, <1>3, <1>4 DEF IInv

LEMMA InitInv == Init => IInv
  <1> SUFFICES ASSUME Init PROVE IInv
    OBVIOUS
  <1>1. Stored
    BY FS_EmptySet DEF Init, Stored, StoreTyped
  <1>2. Writing
    BY BoundsAssumption DEF Init, Writing, WriterTyped, Pair, Empty, Version
  <1>3. Rolling
    BY BoundsAssumption DEF Init, Rolling, RollingTyped, Pair, Empty, Version
  <1>4. Browsing
    BY BoundsAssumption DEF Init, Browsing, BrowserTyped
  <1>5. KeepsFew
    <2>1. \A kind : {s \in snapshots : s.kind = kind} = {}
      BY DEF Init
    <2> QED
      BY <2>1, FS_EmptySet, KeepAssumption DEF KeepsFew
  <1>6. Matched
    BY DEF Init, Matched, Running
  <1>7. UndoKept
    BY DEF Init, UndoKept
  <1>8. Fresh
    BY DEF Init, Fresh
  <1> QED
    BY <1>1, <1>2, <1>3, <1>4, <1>5, <1>6, <1>7, <1>8 DEF IInv, Typed

LEMMA NextStep == ASSUME IInv, [Next]_vars PROVE IInv'
  <1>1. CASE Begin \/ ReadFiles \/ WriteFiles \/ ToolFails \/ SaveMessages \/ End \/ StopTurn
    BY <1>1, BeginStep, ReadFilesStep, WriteFilesStep, ToolFailsStep,
       SaveMessagesStep, EndStep, StopTurnStep
  <1>2. CASE Restore \/ UndoRestore \/ Dismiss \/ Told \/ ReadProject \/ Open
    BY <1>2, RestoreStep, UndoRestoreStep, DismissStep, ToldStep,
       ReadProjectStep, OpenStep
  <1>3. ASSUME NEW r \in Rollbacks,
               \/ Find(r) \/ SeeFiles(r) \/ SeeMessages(r) \/ TakeUndo(r)
               \/ PutFiles(r) \/ PutMessages(r) \/ Answer(r) \/ Fail(r)
        PROVE  IInv'
    BY <1>3, FindStep, SeeFilesStep, SeeMessagesStep, TakeUndoStep,
       PutFilesStep, PutMessagesStep, AnswerStep, FailStep
  <1>4. ASSUME NEW a \in reads, Arrive(a) \/ ReadFails(a) PROVE IInv'
    BY <1>4, ArriveStep, ReadFailsStep
  <1>5. ASSUME NEW op \in late, Land(op) PROVE IInv'
    BY <1>5, LandStep
  <1>6. CASE UNCHANGED vars
    BY <1>6, StutterStep
  <1> QED
    BY <1>1, <1>2, <1>3, <1>4, <1>5, <1>6 DEF Next

LEMMA Invariant == Spec => []IInv
  BY InitInv, NextStep, PTL DEF Spec

-----------------------------------------------------------------------------
(***************************************************************************)
(* The values of the variables, however many versions are kept and however *)
(* many turns and rollbacks there are: no kind has more versions than are  *)
(* kept, and each has an id of its own.                                    *)
(***************************************************************************)
THEOREM TypeCorrect == Spec => []TypeOK
  <1>1. IInv => TypeOK
    BY DEF IInv, Typed, Stored, Writing, Rolling, Browsing, TypeOK
  <1> QED
    BY <1>1, Invariant, PTL

(***************************************************************************)
(* Files and conversation stay together, in the project and in each of its *)
(* versions, whichever saves fail in the course of a turn; unless writers  *)
(* overlap, a rollback is cut off between its writes, the last save of a   *)
(* turn is lost, a tool that failed has written, or a write that was given *)
(* up lands later.                                                         *)
(***************************************************************************)
THEOREM FilesMatchMessagesHolds == Spec => []FilesMatchMessages
  <1>1. IInv => FilesMatchMessages
    BY DEF IInv, Matched, FilesMatchMessages
  <1> QED
    BY <1>1, Invariant, PTL

(***************************************************************************)
(* A restore that is offered to be taken back can be: the version is there *)
(* and holds what was replaced, until `Keep' others have been taken.       *)
(***************************************************************************)
THEOREM UndoHoldsReplacedHolds == Spec => []UndoHoldsReplaced
  <1>1. ASSUME IInv PROVE UndoHoldsReplaced
    <2> SUFFICES ASSUME ~torn, undo # 0, Cardinality(Later(undo)) < Keep
                 PROVE  \E s \in Named(undo), r \in Rollbacks :
                          /\ undoId[r] = undo
                          /\ Version(s.files, s.messages) = was[r]
      BY DEF UndoHoldsReplaced, Later
    <2>1. PICK r \in Rollbacks : undoId[r] = undo
      BY <1>1 DEF IInv, UndoKept
    <2>2. PICK s \in snapshots : s.id = undoId[r] /\ Holds(s, r)
      BY <1>1, <2>1 DEF IInv, UndoKept
    <2> QED
      BY <2>1, <2>2 DEF Named, Holds
  <1> QED
    BY <1>1, Invariant, PTL

(***************************************************************************)
(* The explorer's tree catches up with the store, whichever answers came   *)
(* late, unless a write that nobody told it of was made after its last     *)
(* read began, or that read failed; its viewer does too, unless the last   *)
(* answer was to a read that was cancelled.                                *)
(***************************************************************************)
THEOREM ShowsStoreHolds == Spec => []ShowsStore
  <1>1. ASSUME IInv PROVE ShowsStore
    BY <1>1 DEF IInv, Fresh, Untold, shown, ShowsStore, Running
  <1> QED
    BY <1>1, Invariant, PTL
=============================================================================
