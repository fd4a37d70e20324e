---------------------------- MODULE FsStoreProofs ----------------------------
(***************************************************************************)
(* Theorems about the file store's tree (FsStore.tla), for any clients,    *)
(* keys, contents and maps.                                                *)
(***************************************************************************)
EXTENDS FsStoreProperties, SequenceTheorems, TLAPS

\* A call is where its job takes it, and its thread holds what it should.
JobOk(c) ==
  /\ pc[c] = "idle" => job[c] = Nothing
  /\ pc[c] # "idle" => job[c] \in Jobs
  /\ pc[c] \in {"look", "read"} => job[c] = Get
  /\ Running(c) /\ pc[c] \notin {"recover", "look", "read"} => job[c].kind = "put"
  /\ pc[c] = "fill" => todo[c] \subseteq Kept(job[c].files)
  /\ pc[c] # "read" => got[c] = NoFiles

\* A thread whose call has not been cancelled is the lock's.
LockOk(c) ==
  /\ Running(c) /\ c \notin abandoned => queue # <<>> /\ Head(queue) = c
  /\ c \in abandoned => Running(c)

\* The files of dir are those of m's keys that are in ks.
Holds(dir, m, ks) ==
  /\ DOMAIN dir.files = Files(ks)
  /\ \A p \in DOMAIN dir.files : \E k \in ks : Path[k] = p /\ dir.files[p] = m[k]

\* What the one thread that runs has made of the trees.
TreeOk(c) ==
  LET m == job[c].files
  IN  /\ pc[c] \in {"look", "read", "clear staging", "clear old", "make",
                    "fill", "set aside"} => live # None \/ old = None
      /\ pc[c] = "fill" => /\ staging # None /\ staging.index = NoIndex
                           /\ Holds(staging, m, Kept(m) \ todo[c])
      /\ pc[c] \in {"set aside", "place"} => /\ staging # None
                                             /\ staging.index = Kept(m)
                                             /\ Holds(staging, m, Kept(m))
      /\ pc[c] = "place" => live = None
      /\ pc[c] \in {"read", "drop"} => live # None

\* What the one reader has read, it has read of the live tree.
ReadOk(c) ==
  pc[c] = "read" =>
    /\ todo[c] \subseteq Listed(live)
    /\ DOMAIN got[c] \subseteq DOMAIN View(live)
    /\ DOMAIN View(live) \subseteq DOMAIN got[c] \cup todo[c]
    /\ \A k \in DOMAIN got[c] : got[c][k] = View(live)[k]

\* Until a thread is let in beside another, no two run.
Alone ==
  ~overlapped => \A c, d \in Clients : Running(c) /\ Running(d) => c = d

JobInv  == \A c \in Clients : JobOk(c)
LockInv == \A c \in Clients : LockOk(c)
TreeInv == ~overlapped => \A c \in Clients : TreeOk(c) /\ ReadOk(c)

IInv == TypeOK /\ JobInv /\ LockInv /\ Alone /\ TreeInv

-----------------------------------------------------------------------------
\* A function is a file map if its keys and its contents are ones of a map.
LEMMA FileMapIntro ==
  ASSUME NEW D \in SUBSET Keys, NEW f, f = [k \in D |-> f[k]],
         \A k \in D : f[k] \in Contents
  PROVE  f \in FileMap
BY DEF FileMap

\* What a file map is.
LEMMA FileMapElim ==
  ASSUME NEW f \in FileMap
  PROVE  /\ f = [k \in DOMAIN f |-> f[k]] /\ DOMAIN f \subseteq Keys
         /\ \A k \in DOMAIN f : f[k] \in Contents
BY DEF FileMap

\* The empty map is a file map.
LEMMA NoFilesType == NoFiles \in FileMap /\ DOMAIN NoFiles = {}
<1>1. DOMAIN NoFiles = {} /\ NoFiles = [k \in {} |-> NoFiles[k]]
  BY DEF NoFiles
<1> QED
  BY <1>1, FileMapIntro

\* The empty directory is a directory, and no directory is None.
LEMMA EmptyDirType == EmptyDir \in Dir /\ EmptyDir # None
BY NoFilesType, NoneAssumption DEF EmptyDir, Dir

\* What a job may be; a put is a put of one of the maps.
LEMMA JobType ==
  ASSUME NEW j \in Jobs
  PROVE  /\ j # Nothing /\ j # Applied
         /\ j.kind \in {"get", "put"} /\ j.files \in FileMap
         /\ j.kind = "get" => j = Get
         /\ j.kind = "put" => \E m \in Maps : j = Put(m) /\ j.files = m
<1>1. CASE j = Get
  BY <1>1, NoFilesType DEF Get, Nothing, Applied
<1>2. ASSUME NEW m \in Maps, j = Put(m) PROVE j.files = m /\ j.kind = "put" /\ m \in FileMap
  BY <1>2, MapsAssumption DEF Put
<1>3. CASE j \in {Put(m) : m \in Maps}
  <2>1. PICK m \in Maps : j = Put(m)
    BY <1>3
  <2> QED
    BY <2>1, <1>2 DEF Nothing, Applied, Put
<1> QED
  BY <1>1, <1>3 DEF Jobs

\* Taking an entry out of a directory leaves a directory.
LEMMA SmallerType ==
  ASSUME NEW dir \in Dir, NEW less \in Smaller(dir)
  PROVE  less \in Dir
<1>1. dir.files \in FileMap /\ dir.index \in {NoIndex} \cup SUBSET Keys
  BY DEF Dir
<1>2. CASE less = [dir EXCEPT !.index = NoIndex]
  BY <1>2 DEF Dir
<1>3. ASSUME NEW p \in DOMAIN dir.files,
             less = [dir EXCEPT !.files = Restrict(dir.files, DOMAIN dir.files \ {p})]
      PROVE  less \in Dir
  <2> DEFINE f == Restrict(dir.files, DOMAIN dir.files \ {p})
  <2>1. /\ DOMAIN f = DOMAIN dir.files \ {p}
        /\ f = [k \in DOMAIN dir.files \ {p} |-> f[k]]
        /\ \A k \in DOMAIN dir.files \ {p} : f[k] = dir.files[k]
    BY DEF Restrict
  <2>2. f \in FileMap
    BY <2>1, <1>1, FileMapElim, FileMapIntro
  <2> QED
    BY <1>3, <2>2 DEF Dir
<1> QED
  BY <1>2, <1>3 DEF Smaller

\* The map a directory stands for is a file map.
LEMMA ViewType ==
  ASSUME NEW dir \in Dir \cup {None}
  PROVE  View(dir) \in FileMap
<1>1. CASE dir = None
  BY <1>1, NoFilesType DEF View
<1>2. CASE dir \in Dir
  <2>1. dir.files \in FileMap /\ dir.index \in {NoIndex} \cup SUBSET Keys /\ dir # None
    BY <1>2, NoneAssumption DEF Dir
  <2>2. DOMAIN dir.files \subseteq Keys /\ \A k \in DOMAIN dir.files : dir.files[k] \in Contents
    BY <2>1, FileMapElim
  <2> DEFINE D == {k \in Listed(dir) : Path[k] \in DOMAIN dir.files}
  <2>3. D \subseteq Keys
    BY <2>1, <2>2 DEF Listed
  <2>4. View(dir) = [k \in D |-> dir.files[Path[k]]]
    BY <2>1 DEF View
  <2> HIDE DEF D
  <2>5. View(dir) = [k \in D |-> View(dir)[k]] /\ \A k \in D : View(dir)[k] = dir.files[Path[k]]
    BY <2>4
  <2>6. \A k \in D : View(dir)[k] \in Contents
    BY <2>5, <2>2 DEF D
  <2> QED
    BY <2>3, <2>5, <2>6, FileMapIntro
<1> QED
  BY <1>1, <1>2

\* Whoever leaves the queue leaves its head in place, unless it is the head.
LEMMA LeavesQueue ==
  ASSUME NEW q \in Seq(Clients), NEW i \in DOMAIN q
  PROVE  /\ RemoveAt(q, i) \in Seq(Clients)
         /\ i # 1 => RemoveAt(q, i) # <<>> /\ Head(RemoveAt(q, i)) = Head(q)
<1> DEFINE front == SubSeq(q, 1, i-1)
           rest  == SubSeq(q, i+1, Len(q))
<1>1. i \in 1..Len(q) /\ Len(q) \in Nat
  BY LenProperties
<1>2. front \in Seq(Clients) /\ rest \in Seq(Clients) /\ Len(front) = i-1
  <2>1. \A k \in 1..Len(q) : q[k] \in Clients
    BY ElementOfSeq
  <2>2. front \in Seq(Clients) /\ Len(front) = i-1
    BY <1>1, <2>1, SubSeqProperties
  <2>3. rest \in Seq(Clients)
    BY <1>1, <2>1, SubSeqProperties
  <2> QED
    BY <2>2, <2>3
<1>3. RemoveAt(q, i) = front \o rest
  BY DEF RemoveAt
<1>4. ASSUME i # 1 PROVE front \o rest # <<>> /\ Head(front \o rest) = Head(q)
  <2>1. i - 1 \in Nat /\ i - 1 >= 1
    BY <1>1, <1>4
  <2>2. Len(front \o rest) >= 1 /\ (front \o rest)[1] = front[1]
    BY <1>2, <2>1, ConcatProperties
  <2>3. front[1] = q[1]
    BY <1>1, <2>1, SubSeqProperties
  <2>4. front \o rest \in Seq(Clients) /\ front \o rest # <<>>
    BY <1>2, <2>2, ConcatProperties
  <2>5. Head(front \o rest) = (front \o rest)[1]
    BY <2>4
  <2>6. Head(q) = q[1]
    BY <1>1
  <2> QED
    BY <2>2, <2>3, <2>4, <2>5, <2>6
<1> QED
  BY <1>2, <1>3, <1>4

-----------------------------------------------------------------------------
\* A directory made of a map that a put has stored.
LEMMA DirOfType ==
  ASSUME NEW v \in FileMap, NEW m \in Maps, Stores(m, v)
  PROVE  DirOf(v) \in Dir
<1> DEFINE f == [p \in Files(DOMAIN v) |-> v[CHOOSE k \in DOMAIN v : Path[k] = p]]
<1>1. DOMAIN v \subseteq Keys /\ \A k \in DOMAIN v : v[k] \in Contents /\ Path[k] \in Keys
  BY FileMapElim DEF Stores, Kept
<1>2. DOMAIN f = Files(DOMAIN v) /\ Files(DOMAIN v) \subseteq Keys
  BY <1>1 DEF Files
<1>3. ASSUME NEW p \in Files(DOMAIN v) PROVE f[p] \in Contents
  <2>1. \E k \in DOMAIN v : Path[k] = p
    BY DEF Files
  <2>2. (CHOOSE k \in DOMAIN v : Path[k] = p) \in DOMAIN v
    BY <2>1
  <2> QED
    BY <2>2, <1>1
<1>4. f \in FileMap
  <2>1. f = [p \in Files(DOMAIN v) |-> f[p]]
    OBVIOUS
  <2> QED
    BY <2>1, <1>2, <1>3, FileMapIntro
<1> QED
  BY <1>1, <1>4 DEF DirOf, Dir

\* The keys of a job's map that are kept, and the files they are kept in.
LEMMA KeptType ==
  ASSUME NEW m \in FileMap
  PROVE  /\ Kept(m) \subseteq Keys /\ Files(Kept(m)) \subseteq Keys
         /\ \A k \in Kept(m) : Path[k] \in Keys /\ m[k] \in Contents
BY FileMapElim DEF Kept, Files

\* Nothing runs, and nobody has the lock, when the store is opened.
LEMMA InitInv == Init => IInv
<1> SUFFICES ASSUME Init PROVE IInv
  OBVIOUS
<1>1. pc = [c \in Clients |-> "idle"] /\ \A c \in Clients : ~Running(c)
  BY DEF Init, Running
<1>2. TypeOK
  <2>1. live \in Dir \cup {None} /\ staging \in Dir \cup {None} /\ old \in Dir \cup {None}
    BY DirOfType DEF Init
  <2>2. queue \in Seq(Clients) /\ abandoned \subseteq Clients
    BY DEF Init
  <2>3. overlapped \in BOOLEAN
    BY DEF Init
  <2>4. /\ job \in [Clients -> Jobs \cup {Nothing}] /\ todo \in [Clients -> SUBSET Keys]
        /\ got \in [Clients -> FileMap]
    BY NoFilesType DEF Init
  <2>5. answer \in [Clients -> [kind : {"none", "ok", "got"}, files : FileMap]]
    BY NoFilesType DEF Init, Nothing
  <2> QED
    BY <1>1, <2>1, <2>2, <2>3, <2>4, <2>5 DEF TypeOK, Places
<1>3. JobInv
  BY <1>1 DEF Init, JobInv, JobOk
<1>4. LockInv /\ Alone
  BY <1>1 DEF Init, LockInv, LockOk, Alone
<1>5. TreeInv
  BY <1>1 DEF TreeInv, TreeOk, ReadOk
<1> QED
  BY <1>2, <1>3, <1>4, <1>5 DEF IInv

-----------------------------------------------------------------------------
(***************************************************************************)
(* Steps of a thread, by what they may touch.                              *)
(***************************************************************************)
DiskType == live \in Dir \cup {None} /\ staging \in Dir \cup {None} /\ old \in Dir \cup {None}

\* The thread of c does something and runs on.
Continues(c) ==
  /\ Running(c) /\ UNCHANGED <<queue, abandoned, overlapped, job, answer>>
  /\ \E place \in Places \ {"idle", "queued"} : pc' = [pc EXCEPT ![c] = place]
  /\ \E ks \in SUBSET Keys : todo' = [todo EXCEPT ![c] = ks]
  /\ \E f \in FileMap : got' = [got EXCEPT ![c] = f]
  /\ DiskType'

\* The thread of c keeps the invariant if it keeps its own part of it.
LEMMA ContinuesKeeps ==
  ASSUME IInv, NEW c \in Clients, Continues(c), JobOk(c)',
         ~overlapped => TreeOk(c)' /\ ReadOk(c)'
  PROVE  IInv'
<1> USE DEF IInv
<1>1. TypeOK'
  BY DEF TypeOK, Continues, DiskType
<1>2. ASSUME NEW d \in Clients, d # c
      PROVE  pc'[d] = pc[d] /\ todo'[d] = todo[d] /\ got'[d] = got[d]
  BY <1>2 DEF Continues, TypeOK
<1>3. Running(c)' /\ \A d \in Clients : Running(d)' <=> Running(d)
  BY <1>2 DEF Continues, TypeOK, Running
<1>4. JobInv'
  <2> SUFFICES ASSUME NEW d \in Clients, d # c PROVE JobOk(d)'
    BY DEF JobInv
  <2> QED
    BY <1>2, <1>3 DEF JobInv, JobOk, Continues, Running
<1>5. LockInv' /\ Alone'
  BY <1>3 DEF LockInv, LockOk, Alone, Continues
<1>6. TreeInv'
  <2> SUFFICES ASSUME ~overlapped, NEW d \in Clients, d # c PROVE TreeOk(d)' /\ ReadOk(d)'
    BY DEF TreeInv, Continues
  <2>1. ~Running(d)'
    BY <1>3 DEF Alone, Continues
  <2> QED
    BY <2>1 DEF TreeOk, ReadOk, Running
<1> QED
  BY <1>1, <1>4, <1>5, <1>6

\* The end of a thread keeps the invariant, whatever has become of the disk.
LEMMA FinishKeeps ==
  ASSUME IInv, NEW c \in Clients, Running(c), NEW result, Finish(c, result), DiskType',
         result \in [kind : {"none", "ok", "got"}, files : FileMap]
  PROVE  IInv'
<1> USE DEF IInv
<1>1. /\ pc' = [pc EXCEPT ![c] = "idle"] /\ job' = [job EXCEPT ![c] = Nothing]
      /\ todo' = [todo EXCEPT ![c] = {}] /\ got' = [got EXCEPT ![c] = NoFiles]
      /\ overlapped' = overlapped
  BY DEF Finish, Goto
<1>2. \/ c \in abandoned /\ abandoned' = abandoned \ {c} /\ queue' = queue /\ answer' = answer
      \/ /\ c \notin abandoned /\ abandoned' = abandoned
         /\ queue # <<>> /\ Head(queue) = c /\ queue' = Tail(queue)
         /\ answer' \in {answer, [answer EXCEPT ![c] = result]}
  BY DEF Finish, LockInv, LockOk
<1>3. TypeOK'
  <2>1. queue' \in Seq(Clients) /\ abandoned' \subseteq Clients
    <3>1. queue \in Seq(Clients) /\ abandoned \subseteq Clients
      BY DEF TypeOK
    <3>2. queue # <<>> => Tail(queue) \in Seq(Clients)
      BY <3>1, HeadTailProperties
    <3> QED
      BY <1>2, <3>1, <3>2
  <2>2. answer' \in [Clients -> [kind : {"none", "ok", "got"}, files : FileMap]]
    BY <1>2 DEF TypeOK
  <2>3. overlapped' \in BOOLEAN
    BY <1>1 DEF TypeOK
  <2> QED
    BY <1>1, <2>1, <2>2, <2>3, NoFilesType DEF TypeOK, DiskType, Places
<1>4. ~Running(c)' /\ \A d \in Clients \ {c} : Running(d)' <=> Running(d)
  BY <1>1 DEF TypeOK, Running
<1>5. ASSUME NEW d \in Clients, d # c
      PROVE  /\ pc'[d] = pc[d] /\ job'[d] = job[d]
             /\ todo'[d] = todo[d] /\ got'[d] = got[d]
  BY <1>1, <1>5 DEF TypeOK
<1>6. JobInv'
  <2> SUFFICES ASSUME NEW d \in Clients PROVE JobOk(d)'
    BY DEF JobInv
  <2>1. CASE d = c
    BY <2>1, <1>1 DEF TypeOK, JobOk, Running
  <2>2. CASE d # c
    BY <2>2, <1>5, <1>4 DEF JobInv, JobOk, Running
  <2> QED
    BY <2>1, <2>2
<1>7. LockInv'
  <2> SUFFICES ASSUME NEW d \in Clients PROVE LockOk(d)'
    BY DEF LockInv
  <2>1. CASE d = c
    BY <2>1, <1>2, <1>4 DEF LockInv, LockOk
  <2>2. CASE d # c
    BY <2>2, <1>2, <1>4 DEF LockInv, LockOk
  <2> QED
    BY <2>1, <2>2
<1>8. Alone'
  BY <1>1, <1>4 DEF Alone
<1>9. TreeInv'
  <2> SUFFICES ASSUME ~overlapped, NEW d \in Clients PROVE TreeOk(d)' /\ ReadOk(d)'
    BY <1>1 DEF TreeInv
  <2>1. ~Running(d)'
    BY <1>4 DEF Alone
  <2> QED
    BY <2>1 DEF TreeOk, ReadOk, Running
<1> QED
  BY <1>3, <1>6, <1>7, <1>8, <1>9

-----------------------------------------------------------------------------
\* Each step of a thread keeps the invariant: calls and the lock.
LEMMA CallsKeep ==
  ASSUME IInv, NEW c \in Clients,
         (\E what \in Jobs : Call(c, what)) \/ Start(c) \/ CancelWaiting(c)
           \/ Abandon(c) \/ Raise(c)
  PROVE  IInv'
<1> USE DEF IInv
<1>0. queue \in Seq(Clients)
  BY DEF TypeOK
<1>1. ASSUME NEW what \in Jobs, Call(c, what) PROVE IInv'
  <2> USE <1>1 DEF Call
  <2>1. /\ pc' = [pc EXCEPT ![c] = "queued"] /\ job' = [job EXCEPT ![c] = what]
        /\ ~Running(c)
    BY DEF Goto, Running
  <2>2. \A d \in Clients : Running(d)' <=> Running(d)
    BY <2>1 DEF TypeOK, Running
  <2>3. TypeOK'
    <3>1. queue' \in Seq(Clients)
      BY <1>0, AppendProperties
    <3>2. Nothing \in [kind : {"none", "ok", "got"}, files : FileMap]
      BY NoFilesType DEF Nothing
    <3>3. answer' \in [Clients -> [kind : {"none", "ok", "got"}, files : FileMap]]
      BY <3>2 DEF TypeOK
    <3> QED
      BY <2>1, <3>1, <3>3 DEF TypeOK, Places, disk
  <2>4. JobInv'
    <3> SUFFICES ASSUME NEW d \in Clients PROVE JobOk(d)'
      BY DEF JobInv
    <3> QED
      BY <2>1 DEF JobInv, JobOk, TypeOK, Running
  <2>5. LockInv'
    <3>1. queue # <<>> => queue' # <<>> /\ Head(queue') = Head(queue)
      BY <1>0, AppendProperties
    <3> QED
      BY <2>2, <3>1 DEF LockInv, LockOk
  <2>6. Alone' /\ TreeInv'
    <3>1. Alone'
      BY <2>2 DEF Alone
    <3>2. ASSUME NEW d \in Clients, Running(d)
          PROVE  pc'[d] = pc[d] /\ job'[d] = job[d]
      BY <3>2, <2>1 DEF TypeOK, Running
    <3>3. TreeInv'
      <4> SUFFICES ASSUME ~overlapped, NEW d \in Clients PROVE TreeOk(d)' /\ ReadOk(d)'
        BY DEF TreeInv
      <4>1. CASE Running(d)
        BY <3>2, <4>1 DEF TreeInv, TreeOk, ReadOk, disk
      <4>2. CASE ~Running(d)
        BY <2>2, <4>2 DEF TreeOk, ReadOk, Running
      <4> QED
        BY <4>1, <4>2
    <3> QED
      BY <3>1, <3>3
  <2> QED
    BY <2>3, <2>4, <2>5, <2>6
<1>2. ASSUME Start(c) PROVE IInv'
  <2> USE <1>2 DEF Start
  <2>1. /\ pc' = [pc EXCEPT ![c] = "recover"] /\ queue # <<>> /\ Head(queue) = c
        /\ ~Running(c) /\ pc[c] = "queued"
    BY DEF Goto, Running
  <2>2. Running(c)' /\ \A d \in Clients \ {c} : pc'[d] = pc[d] /\ (Running(d)' <=> Running(d))
    BY <2>1 DEF TypeOK, Running
  <2>3. overlapped' \in BOOLEAN
    BY DEF TypeOK
  <2>4. ~overlapped' => ~overlapped /\ abandoned = {}
    BY DEF TypeOK
  <2>5. TypeOK'
    BY <2>1, <2>3 DEF TypeOK, Places, disk
  <2>6. JobInv'
    <3> SUFFICES ASSUME NEW d \in Clients PROVE JobOk(d)'
      BY DEF JobInv
    <3> QED
      BY <2>1 DEF JobInv, JobOk, TypeOK, Running
  <2>7. LockInv'
    <3> SUFFICES ASSUME NEW d \in Clients PROVE LockOk(d)'
      BY DEF LockInv
    <3> QED
      BY <2>1, <2>2 DEF LockInv, LockOk
  <2>8. ASSUME ~overlapped', NEW d \in Clients, d # c PROVE ~Running(d)'
    BY <2>1, <2>2, <2>4, <2>8 DEF LockInv, LockOk
  <2>9. Alone'
    BY <2>8 DEF Alone
  <2>10. TreeInv'
    <3> SUFFICES ASSUME ~overlapped', NEW d \in Clients PROVE TreeOk(d)' /\ ReadOk(d)'
      BY DEF TreeInv
    <3>1. CASE d = c
      BY <2>1, <3>1 DEF TypeOK, TreeOk, ReadOk
    <3>2. CASE d # c
      BY <2>8, <3>2 DEF TreeOk, ReadOk, Running
    <3> QED
      BY <3>1, <3>2
  <2> QED
    BY <2>5, <2>6, <2>7, <2>9, <2>10
<1>3. ASSUME CancelWaiting(c) PROVE IInv'
  <2> USE <1>3 DEF CancelWaiting
  <2>1. /\ pc' = [pc EXCEPT ![c] = "idle"] /\ job' = [job EXCEPT ![c] = Nothing]
        /\ ~Running(c) /\ pc[c] = "queued" /\ UNCHANGED overlapped
    BY DEF Goto, Running
  <2>2. PICK i \in DOMAIN queue : queue[i] = c /\ queue' = RemoveAt(queue, i)
    OBVIOUS
  <2>3. /\ queue' \in Seq(Clients)
        /\ i # 1 => queue' # <<>> /\ Head(queue') = Head(queue)
    BY <1>0, <2>2, LeavesQueue
  <2>4. i = 1 => Head(queue) = c
    BY <1>0, <2>2
  <2>5. \A d \in Clients : Running(d)' <=> Running(d)
    BY <2>1 DEF TypeOK, Running
  <2>6. TypeOK'
    BY <2>1, <2>3 DEF TypeOK, Places, disk
  <2>7. JobInv'
    <3> SUFFICES ASSUME NEW d \in Clients PROVE JobOk(d)'
      BY DEF JobInv
    <3> QED
      BY <2>1 DEF JobInv, JobOk, TypeOK, Running
  <2>8. LockInv'
    BY <2>1, <2>3, <2>4, <2>5 DEF LockInv, LockOk
  <2>9. Alone'
    BY <2>1, <2>5 DEF Alone
  <2>10. TreeInv'
    <3> SUFFICES ASSUME ~overlapped, NEW d \in Clients PROVE TreeOk(d)' /\ ReadOk(d)'
      BY <2>1 DEF TreeInv
    <3>1. CASE d = c
      BY <2>1, <3>1 DEF TypeOK, TreeOk, ReadOk
    <3>2. CASE d # c
      BY <2>1, <3>2 DEF TreeInv, TreeOk, ReadOk, TypeOK, disk
    <3> QED
      BY <3>1, <3>2
  <2> QED
    BY <2>6, <2>7, <2>8, <2>9, <2>10
<1>4. ASSUME Abandon(c) PROVE IInv'
  <2> USE <1>4 DEF Abandon
  <2>1. /\ Running(c) /\ c \notin abandoned /\ abandoned' = abandoned \cup {c}
        /\ queue' = Tail(queue) /\ UNCHANGED <<overlapped, pc, job, todo, got, live, staging, old, answer>>
    BY DEF thread, disk
  <2>2. queue # <<>> /\ Head(queue) = c
    BY <2>1 DEF LockInv, LockOk
  <2>3. queue' \in Seq(Clients)
    BY <1>0, <2>1, <2>2, HeadTailProperties
  <2>4. TypeOK'
    BY <2>1, <2>3 DEF TypeOK
  <2>5. LockInv'
    BY <2>1, <2>2 DEF LockInv, LockOk, Running
  <2>6. JobInv' /\ Alone'
    BY <2>1 DEF JobInv, JobOk, Alone, Running
  <2>7. ASSUME NEW d \in Clients PROVE (TreeOk(d)' <=> TreeOk(d)) /\ (ReadOk(d)' <=> ReadOk(d))
    BY <2>1 DEF TreeOk, ReadOk
  <2>8. TreeInv'
    BY <2>1, <2>7 DEF TreeInv
  <2> QED
    BY <2>4, <2>5, <2>6, <2>8
<1>5. ASSUME Raise(c) PROVE IInv'
  <2>1. Nothing \in [kind : {"none", "ok", "got"}, files : FileMap]
    BY NoFilesType DEF Nothing
  <2> QED
    BY <1>5, <2>1, FinishKeeps DEF Raise, DiskType, TypeOK, disk
<1> QED
  BY <1>1, <1>2, <1>3, <1>4, <1>5

\* Each step of a thread keeps the invariant: recovery and reading.
LEMMA ReadingKeeps ==
  ASSUME IInv, NEW c \in Clients, Recover(c) \/ Reading(c)
  PROVE  IInv'
<1> USE DEF IInv
<1>0. /\ live \in Dir \cup {None} /\ staging \in Dir \cup {None} /\ old \in Dir \cup {None}
      /\ pc \in [Clients -> Places] /\ todo \in [Clients -> SUBSET Keys]
      /\ got \in [Clients -> FileMap] /\ JobOk(c)
      /\ ~overlapped => TreeOk(c) /\ ReadOk(c)
  BY DEF TypeOK, JobInv, TreeInv
<1>1. ASSUME Recover(c) PROVE IInv'
  <2> USE <1>1 DEF Recover
  <2>1. Running(c) /\ pc[c] = "recover" /\ job[c] \in Jobs /\ got[c] = NoFiles
    BY <1>0 DEF Running, JobOk
  <2>2. PICK place \in {"look", "clear staging"} :
          /\ pc' = [pc EXCEPT ![c] = place]
          /\ place = "look" <=> job[c].kind = "get"
    BY DEF Goto
  <2>3. live' # None \/ old' = None
    BY DEF disk
  <2>4. DiskType'
    BY <1>0 DEF DiskType, disk
  <2>5. Continues(c)
    <3>1. pc' = [pc EXCEPT ![c] = place] /\ place \in Places \ {"idle", "queued"}
      BY <2>2 DEF Places
    <3>2. todo' = [todo EXCEPT ![c] = todo[c]] /\ todo[c] \in SUBSET Keys
      BY <1>0
    <3>3. got' = [got EXCEPT ![c] = got[c]] /\ got[c] \in FileMap
      BY <1>0
    <3> QED
      BY <2>1, <2>4, <3>1, <3>2, <3>3 DEF Continues, lock
  <2>6. JobOk(c)'
    BY <1>0, <2>1, <2>2, JobType DEF JobOk, Running
  <2>7. TreeOk(c)' /\ ReadOk(c)'
    BY <1>0, <2>2, <2>3 DEF TreeOk, ReadOk
  <2> QED
    BY <2>5, <2>6, <2>7, ContinuesKeeps
<1>2. ASSUME Look(c) PROVE IInv'
  <2> USE <1>2 DEF Look
  <2>1. Running(c) /\ DiskType' /\ UNCHANGED <<live, staging, old>>
    BY <1>0 DEF Running, DiskType, disk
  <2>2. CASE live = None
    <3>1. Got(NoFiles) \in [kind : {"none", "ok", "got"}, files : FileMap]
      BY NoFilesType DEF Got
    <3> QED
      BY <2>1, <2>2, <3>1, FinishKeeps
  <2>3. CASE live # None
    <3>1. /\ pc' = [pc EXCEPT ![c] = "read"] /\ todo' = [todo EXCEPT ![c] = Listed(live)]
          /\ got' = got /\ got[c] = NoFiles /\ UNCHANGED <<queue, abandoned, overlapped, job, answer>>
      BY <1>0, <2>3 DEF Goto, lock, JobOk
    <3>2. Listed(live) \in SUBSET Keys
      BY <1>0, <2>3, FileMapElim DEF Listed, Dir
    <3>3. Continues(c)
      <4>1. got' = [got EXCEPT ![c] = got[c]] /\ got[c] \in FileMap
        BY <1>0, <3>1
      <4>2. "read" \in Places \ {"idle", "queued"}
        BY DEF Places
      <4> QED
        BY <2>1, <3>1, <3>2, <4>1, <4>2 DEF Continues
    <3>4. pc'[c] = "read" /\ todo'[c] = Listed(live) /\ got'[c] = NoFiles
      BY <1>0, <3>1
    <3>5. JobOk(c)'
      BY <1>0, <3>1, <3>4 DEF JobOk, Running
    <3>6. ~overlapped => TreeOk(c)'
      BY <1>0, <2>1, <2>3, <3>4 DEF TreeOk
    <3>7. ReadOk(c)'
      <4>1. DOMAIN View(live) \subseteq Listed(live)
        BY <2>3 DEF View
      <4> QED
        BY <2>1, <3>4, <4>1, NoFilesType DEF ReadOk
    <3> QED
      BY <3>3, <3>5, <3>6, <3>7, ContinuesKeeps
  <2> QED
    BY <2>2, <2>3
<1>3. ASSUME NEW k \in Keys, ReadFile(c, k) PROVE IInv'
  <2> USE <1>3 DEF ReadFile
  <2> DEFINE found == live # None /\ Path[k] \in DOMAIN live.files
             more  == [j \in DOMAIN got[c] \cup {k} |->
                         IF j = k THEN live.files[Path[k]] ELSE got[c][j]]
             now   == IF found THEN more ELSE got[c]
  <2>1. /\ Running(c) /\ DiskType' /\ UNCHANGED <<live, staging, old>> /\ k \in todo[c]
        /\ pc' = pc /\ pc[c] = "read" /\ todo' = [todo EXCEPT ![c] = todo[c] \ {k}]
        /\ UNCHANGED <<queue, abandoned, overlapped, job, answer>>
    BY <1>0 DEF Running, DiskType, disk, lock
  <2>2. got' = [got EXCEPT ![c] = now]
    BY <1>0
  <2>3. now \in FileMap
    <3>1. CASE found
      <4>1. live.files[Path[k]] \in Contents
        BY <1>0, <3>1, FileMapElim DEF Dir
      <4>2. DOMAIN got[c] \subseteq Keys /\ \A j \in DOMAIN got[c] : got[c][j] \in Contents
        BY <1>0, FileMapElim
      <4>3. more \in FileMap
        <5>1. more = [j \in DOMAIN got[c] \cup {k} |-> more[j]]
          OBVIOUS
        <5>2. \A j \in DOMAIN got[c] \cup {k} : more[j] \in Contents
          BY <4>1, <4>2
        <5>3. DOMAIN got[c] \cup {k} \in SUBSET Keys
          BY <4>2
        <5> HIDE DEF more
        <5> QED
          BY <5>1, <5>2, <5>3, FileMapIntro
      <4> QED
        BY <3>1, <4>3
    <3>2. CASE ~found
      BY <1>0, <3>2
    <3> QED
      BY <3>1, <3>2
  <2>4. now = IF found THEN more ELSE got[c]
    OBVIOUS
  <2> HIDE DEF now
  <2>5. Continues(c)
    <3>1. pc' = [pc EXCEPT ![c] = pc[c]] /\ pc[c] \in Places \ {"idle", "queued"}
      BY <1>0, <2>1
    <3>2. todo[c] \ {k} \in SUBSET Keys
      BY <1>0
    <3> QED
      BY <2>1, <2>2, <2>3, <3>1, <3>2 DEF Continues
  <2>6. pc'[c] = "read" /\ todo'[c] = todo[c] \ {k} /\ got'[c] = now
    BY <1>0, <2>1, <2>2
  <2>7. JobOk(c)'
    BY <1>0, <2>1, <2>6 DEF JobOk, Running
  <2>8. ~overlapped => TreeOk(c)'
    BY <1>0, <2>1, <2>6 DEF TreeOk
  <2>9. ASSUME ~overlapped PROVE ReadOk(c)'
    <3>1. /\ live # None /\ todo[c] \subseteq Listed(live)
          /\ DOMAIN got[c] \subseteq DOMAIN View(live)
          /\ DOMAIN View(live) \subseteq DOMAIN got[c] \cup todo[c]
          /\ \A j \in DOMAIN got[c] : got[c][j] = View(live)[j]
      BY <1>0, <2>1, <2>9 DEF TreeOk, ReadOk
    <3>2. /\ k \in DOMAIN View(live) <=> Path[k] \in DOMAIN live.files
          /\ k \in DOMAIN View(live) => View(live)[k] = live.files[Path[k]]
      BY <2>1, <3>1 DEF View
    <3>3. CASE found
      <4>1. DOMAIN now = DOMAIN got[c] \cup {k}
        BY <2>4, <3>3
      <4>2. \A j \in DOMAIN now : now[j] = IF j = k THEN live.files[Path[k]] ELSE got[c][j]
        BY <2>4, <3>3
      <4> HIDE DEF more
      <4> QED
        BY <2>1, <2>6, <3>1, <3>2, <3>3, <4>1, <4>2 DEF ReadOk
    <3>4. CASE ~found
      BY <2>1, <2>4, <2>6, <3>1, <3>2, <3>4 DEF ReadOk
    <3> QED
      BY <3>3, <3>4
  <2> QED
    BY <2>5, <2>7, <2>8, <2>9, ContinuesKeeps
<1>4. ASSUME ReturnFiles(c) PROVE IInv'
  <2>1. Running(c) /\ DiskType'
    BY <1>0, <1>4 DEF ReturnFiles, Running, DiskType, disk
  <2>2. Got(got[c]) \in [kind : {"none", "ok", "got"}, files : FileMap]
    BY <1>0 DEF Got
  <2> QED
    BY <1>4, <2>1, <2>2, FinishKeeps DEF ReturnFiles
<1> QED
  BY <1>1, <1>2, <1>3, <1>4 DEF Reading

\* A directory with one more file holds one more key.
LEMMA OneMore ==
  ASSUME NEW dir, NEW more, NEW m, NEW ks, NEW k, Holds(dir, m, ks),
         DOMAIN more.files = DOMAIN dir.files \cup {Path[k]}, more.files[Path[k]] = m[k],
         \A p \in DOMAIN dir.files : p # Path[k] => more.files[p] = dir.files[p]
  PROVE  Holds(more, m, ks \cup {k})
<1>1. DOMAIN dir.files = Files(ks)
  BY DEF Holds
<1>2. Files(ks \cup {k}) = Files(ks) \cup {Path[k]}
  BY DEF Files
<1>3. ASSUME NEW p \in DOMAIN more.files
      PROVE  \E j \in ks \cup {k} : Path[j] = p /\ more.files[p] = m[j]
  <2>1. CASE p = Path[k]
    BY <2>1
  <2>2. CASE p # Path[k]
    <3>1. PICK j \in ks : Path[j] = p /\ dir.files[p] = m[j]
      BY <2>2 DEF Holds
    <3> QED
      BY <2>2, <3>1
  <2> QED
    BY <2>1, <2>2
<1> QED
  BY <1>1, <1>2, <1>3 DEF Holds

\* Directories with the same files hold the same.
LEMMA SameFiles ==
  ASSUME NEW dir, NEW more, NEW m, NEW ks, Holds(dir, m, ks), more.files = dir.files
  PROVE  Holds(more, m, ks)
BY DEF Holds

\* A thread that goes to `place' and touches nothing but the disk.
LEMMA PlainStep ==
  ASSUME IInv, NEW c \in Clients, Running(c), NEW place \in Places \ {"idle", "queued"},
         pc' = [pc EXCEPT ![c] = place], UNCHANGED <<lock, job, todo, got, answer>>, DiskType'
  PROVE  /\ Continues(c)
         /\ pc'[c] = place /\ todo'[c] = todo[c] /\ got'[c] = got[c] /\ job'[c] = job[c]
<1>1. /\ pc \in [Clients -> Places] /\ todo \in [Clients -> SUBSET Keys]
      /\ got \in [Clients -> FileMap]
  BY DEF IInv, TypeOK
<1>2. todo' = [todo EXCEPT ![c] = todo[c]] /\ got' = [got EXCEPT ![c] = got[c]]
  BY <1>1
<1> QED
  BY <1>1, <1>2 DEF Continues, lock

\* Each step of a thread keeps the invariant: writing, up to the index.
LEMMA FillingKeeps ==
  ASSUME IInv, NEW c \in Clients,
         ClearStaging(c) \/ ClearOld(c) \/ ClearPart(c) \/ MakeStaging(c)
           \/ WriteIndex(c) \/ (\E k \in Keys : WriteFile(c, k))
  PROVE  IInv'
<1> USE DEF IInv
<1>0. /\ live \in Dir \cup {None} /\ staging \in Dir \cup {None} /\ old \in Dir \cup {None}
      /\ pc \in [Clients -> Places] /\ todo \in [Clients -> SUBSET Keys]
      /\ got \in [Clients -> FileMap] /\ JobOk(c)
      /\ ~overlapped => TreeOk(c) /\ ReadOk(c)
  BY DEF TypeOK, JobInv, TreeInv
<1>1. ASSUME NEW dir \in Dir \cup {None}, ~Free(dir), NEW less \in Smaller(dir) PROVE less \in Dir
  BY <1>1, SmallerType DEF Free
<1>2. ASSUME NEW from \in {"clear staging", "clear old"}, pc[c] = from,
             NEW place \in {"clear staging", "clear old", "make"},
             pc' = [pc EXCEPT ![c] = place], UNCHANGED <<lock, job, todo, got, answer>>,
             UNCHANGED live, DiskType', old' \in {old, None} \/ old # None
      PROVE  IInv'
  <2>1. Running(c) /\ place \in Places \ {"idle", "queued"}
    BY <1>2 DEF Running, Places
  <2>2. /\ Continues(c)
        /\ pc'[c] = place /\ todo'[c] = todo[c] /\ got'[c] = got[c] /\ job'[c] = job[c]
    BY <1>2, <2>1, PlainStep
  <2>3. JobOk(c)'
    BY <1>0, <1>2, <2>2 DEF JobOk, Running
  <2>4. ~overlapped => TreeOk(c)' /\ ReadOk(c)'
    BY <1>0, <1>2, <2>2 DEF TreeOk, ReadOk
  <2> QED
    BY <2>2, <2>3, <2>4, ContinuesKeeps
<1>3. ASSUME ClearStaging(c) PROVE IInv'
  <2> USE <1>3 DEF ClearStaging, RemoveTree, Goto
  <2>1. DiskType'
    BY <1>0, <1>1 DEF DiskType
  <2>2. CASE Free(staging)
    BY <2>1, <2>2, <1>2
  <2>3. CASE ~Free(staging)
    <3>1. pc' = [pc EXCEPT ![c] = "clear staging"]
      BY <1>0, <2>3
    <3> QED
      BY <2>1, <3>1, <1>2
  <2> QED
    BY <2>2, <2>3
<1>4. ASSUME ClearOld(c) PROVE IInv'
  <2> USE <1>4 DEF ClearOld, RemoveTree, Goto
  <2>1. DiskType'
    BY <1>0, <1>1 DEF DiskType
  <2>2. CASE Free(old)
    BY <2>1, <2>2, <1>2
  <2>3. CASE ~Free(old)
    <3>1. pc' = [pc EXCEPT ![c] = "clear old"] /\ old # None
      BY <1>0, <2>3 DEF Free
    <3> QED
      BY <2>1, <3>1, <1>2
  <2> QED
    BY <2>2, <2>3
<1>5. ASSUME ClearPart(c) PROVE IInv'
  <2> USE <1>5 DEF ClearPart, Goto, disk
  <2>1. DiskType'
    BY <1>0 DEF DiskType
  <2> QED
    BY <2>1, <1>2
<1>6. ASSUME MakeStaging(c) PROVE IInv'
  <2> USE <1>6 DEF MakeStaging, Goto
  <2>1. Running(c) /\ job[c] \in Jobs /\ job[c].kind = "put" /\ got[c] = NoFiles
    BY <1>0 DEF Running, JobOk
  <2>2. DiskType'
    BY <1>0, EmptyDirType DEF DiskType
  <2>3. CASE staging # None
    <3>1. Nothing \in [kind : {"none", "ok", "got"}, files : FileMap]
      BY NoFilesType DEF Nothing
    <3> QED
      BY <2>1, <2>2, <2>3, <3>1, FinishKeeps
  <2>4. CASE staging = None
    <3> DEFINE m == job[c].files
    <3>1. Kept(m) \in SUBSET Keys
      BY <2>1, JobType, KeptType
    <3>2. /\ pc' = [pc EXCEPT ![c] = "fill"] /\ todo' = [todo EXCEPT ![c] = Kept(m)]
          /\ staging' = EmptyDir /\ UNCHANGED <<queue, abandoned, overlapped, job, got, answer, live, old>>
      BY <2>4 DEF lock
    <3>3. pc'[c] = "fill" /\ todo'[c] = Kept(m) /\ job'[c].files = m
      BY <1>0, <3>2
    <3>4. Continues(c)
      <4>1. got' = [got EXCEPT ![c] = got[c]] /\ got[c] \in FileMap
        BY <1>0, <3>2
      <4>2. "fill" \in Places \ {"idle", "queued"}
        BY DEF Places
      <4> QED
        BY <2>1, <2>2, <3>1, <3>2, <4>1, <4>2 DEF Continues
    <3>5. JobOk(c)'
      BY <2>1, <3>2, <3>3 DEF JobOk, Running
    <3>6. Holds(EmptyDir, m, {})
      BY NoFilesType DEF Holds, EmptyDir, Files
    <3>7. ~overlapped => TreeOk(c)' /\ ReadOk(c)'
      <4>1. Kept(m) \ Kept(m) = {} /\ EmptyDir # None /\ EmptyDir.index = NoIndex
        BY EmptyDirType DEF EmptyDir
      <4> QED
        BY <1>0, <3>2, <3>3, <3>6, <4>1 DEF TreeOk, ReadOk
    <3> QED
      BY <3>4, <3>5, <3>7, ContinuesKeeps
  <2> QED
    BY <2>3, <2>4
<1>7. ASSUME NEW k \in Keys, WriteFile(c, k) PROVE IInv'
  <2> USE <1>7 DEF WriteFile
  <2> DEFINE m   == job[c].files
             dir == Made(staging)
             f   == [p \in DOMAIN dir.files \cup {Path[k]} |->
                       IF p = Path[k] THEN m[k] ELSE dir.files[p]]
  <2>1. /\ Running(c) /\ job[c] \in Jobs /\ job[c].kind = "put" /\ got[c] = NoFiles
        /\ todo[c] \subseteq Kept(m) /\ k \in todo[c] /\ pc[c] = "fill" /\ pc' = pc
        /\ todo' = [todo EXCEPT ![c] = todo[c] \ {k}]
        /\ UNCHANGED <<queue, abandoned, overlapped, job, got, answer, live, old>>
    BY <1>0 DEF Running, JobOk, lock
  <2>2. dir \in Dir /\ (staging # None => dir = staging)
    BY <1>0, EmptyDirType DEF Made
  <2>3. staging' = [dir EXCEPT !.files = f]
    OBVIOUS
  <2>4. Path[k] \in Keys /\ m[k] \in Contents
    BY <2>1, JobType, KeptType
  <2>5. /\ DOMAIN f = DOMAIN dir.files \cup {Path[k]} /\ f[Path[k]] = m[k]
        /\ \A p \in DOMAIN dir.files : p # Path[k] => f[p] = dir.files[p]
        /\ f = [p \in DOMAIN dir.files \cup {Path[k]} |-> f[p]]
    OBVIOUS
  <2> HIDE DEF f
  <2>6. f \in FileMap
    <3>1. DOMAIN dir.files \subseteq Keys /\ \A p \in DOMAIN dir.files : dir.files[p] \in Contents
      BY <2>2, FileMapElim DEF Dir
    <3>2. \A p \in DOMAIN dir.files \cup {Path[k]} : f[p] \in Contents
      BY <2>4, <2>5, <3>1
    <3> QED
      BY <2>4, <2>5, <3>1, <3>2, FileMapIntro
  <2> HIDE DEF dir
  <2>7. /\ staging' \in Dir /\ staging'.files = f /\ staging'.index = dir.index
        /\ staging' # None
    BY <2>2, <2>3, <2>6, NoneAssumption DEF Dir
  <2>8. Continues(c)
    <3>1. pc' = [pc EXCEPT ![c] = pc[c]] /\ pc[c] \in Places \ {"idle", "queued"}
      BY <1>0, <2>1
    <3>2. got' = [got EXCEPT ![c] = got[c]] /\ got[c] \in FileMap /\ todo[c] \ {k} \in SUBSET Keys
      BY <1>0, <2>1
    <3>3. DiskType'
      BY <1>0, <2>1, <2>7 DEF DiskType
    <3> QED
      BY <2>1, <3>1, <3>2, <3>3 DEF Continues
  <2>9. pc'[c] = "fill" /\ todo'[c] = todo[c] \ {k} /\ job'[c] = job[c]
    BY <1>0, <2>1
  <2>10. JobOk(c)'
    BY <1>0, <2>1, <2>9 DEF JobOk, Running
  <2>11. ASSUME ~overlapped PROVE TreeOk(c)' /\ ReadOk(c)'
    <3>1. /\ staging # None /\ dir = staging /\ staging.index = NoIndex
          /\ Holds(staging, m, Kept(m) \ todo[c]) /\ (live # None \/ old = None)
      BY <1>0, <2>1, <2>2, <2>11 DEF TreeOk
    <3>2. Kept(m) \ (todo[c] \ {k}) = (Kept(m) \ todo[c]) \cup {k}
      BY <2>1
    <3>3. Holds(staging', m, (Kept(m) \ todo[c]) \cup {k})
      <4> DEFINE ks == Kept(m) \ todo[c]
      <4>1. Holds(staging, m, ks)
        BY <3>1
      <4>2. /\ DOMAIN staging'.files = DOMAIN staging.files \cup {Path[k]}
            /\ staging'.files[Path[k]] = m[k]
            /\ \A p \in DOMAIN staging.files : p # Path[k] => staging'.files[p] = staging.files[p]
        BY <2>5, <2>7, <3>1
      <4> HIDE DEF ks, m
      <4>3. Holds(staging', m, ks \cup {k})
        BY ONLY <4>1, <4>2, OneMore
      <4> QED
        BY <4>3 DEF ks
    <3> QED
      BY <2>1, <2>7, <2>9, <3>1, <3>2, <3>3 DEF TreeOk, ReadOk
  <2> QED
    BY <2>8, <2>10, <2>11, ContinuesKeeps
<1>8. ASSUME WriteIndex(c) PROVE IInv'
  <2> USE <1>8 DEF WriteIndex, Goto
  <2> DEFINE m == job[c].files
             dir == Made(staging)
  <2>1. Running(c) /\ job[c] \in Jobs /\ job[c].kind = "put" /\ got[c] = NoFiles /\ todo[c] = {}
    BY <1>0 DEF Running, JobOk
  <2>2. dir \in Dir /\ (staging # None => dir = staging) /\ Kept(m) \in SUBSET Keys
    BY <1>0, <2>1, JobType, KeptType, EmptyDirType DEF Made
  <2> HIDE DEF dir
  <2>3. staging' = [dir EXCEPT !.index = Kept(m)]
    BY DEF dir
  <2>4. /\ staging' \in Dir /\ staging'.files = dir.files /\ staging'.index = Kept(m)
        /\ staging' # None
    BY <2>2, <2>3, NoneAssumption DEF Dir
  <2>5. DiskType'
    BY <1>0, <2>4 DEF DiskType
  <2>6. "set aside" \in Places \ {"idle", "queued"}
    BY DEF Places
  <2>7. /\ Continues(c) /\ pc'[c] = "set aside" /\ todo'[c] = {} /\ got'[c] = NoFiles
        /\ job'[c] = job[c]
    BY <2>1, <2>5, <2>6, PlainStep
  <2>8. JobOk(c)'
    BY <2>1, <2>7 DEF JobOk, Running
  <2>9. ASSUME ~overlapped PROVE TreeOk(c)' /\ ReadOk(c)'
    <3>1. /\ dir = staging /\ Holds(staging, m, Kept(m) \ {}) /\ (live # None \/ old = None)
      BY <1>0, <2>1, <2>2, <2>9 DEF TreeOk
    <3>2. Holds(staging', m, Kept(m))
      <4>1. Kept(m) \ {} = Kept(m)
        OBVIOUS
      <4>2. Holds(staging, m, Kept(m))
        BY <3>1, <4>1
      <4>3. staging'.files = staging.files
        BY <2>4, <3>1
      <4> HIDE DEF m
      <4> QED
        BY ONLY <4>2, <4>3, SameFiles
    <3> QED
      BY <2>4, <2>7, <3>1, <3>2 DEF TreeOk, ReadOk
  <2> QED
    BY <2>7, <2>8, <2>9, ContinuesKeeps
<1> QED
  BY <1>3, <1>4, <1>5, <1>6, <1>7, <1>8

\* Each step of a thread keeps the invariant: the swap and what follows it.
LEMMA SwapKeeps ==
  ASSUME IInv, NEW c \in Clients, SetAside(c) \/ Place(c) \/ Drop(c) \/ ReturnPut(c)
  PROVE  IInv'
<1> USE DEF IInv
<1>0. /\ live \in Dir \cup {None} /\ staging \in Dir \cup {None} /\ old \in Dir \cup {None}
      /\ pc \in [Clients -> Places] /\ JobOk(c)
      /\ ~overlapped => TreeOk(c) /\ ReadOk(c)
  BY DEF TypeOK, JobInv, TreeInv
<1>1. /\ Nothing \in [kind : {"none", "ok", "got"}, files : FileMap]
      /\ Done \in [kind : {"none", "ok", "got"}, files : FileMap]
  BY NoFilesType DEF Nothing, Done
<1>2. Running(c)
  BY DEF SetAside, Place, Drop, ReturnPut, Running
<1>3. "place" \in Places \ {"idle", "queued"} /\ "drop" \in Places \ {"idle", "queued"}
  BY DEF Places
<1>4. ASSUME SetAside(c) PROVE IInv'
  <2> USE <1>4 DEF SetAside, Goto
  <2>1. DiskType'
    BY <1>0 DEF DiskType
  <2>2. CASE live = None \/ Free(old)
    <3>1. /\ Continues(c) /\ pc'[c] = "place" /\ todo'[c] = todo[c] /\ got'[c] = got[c]
          /\ job'[c] = job[c]
      BY <1>2, <1>3, <2>1, <2>2, PlainStep
    <3>2. JobOk(c)'
      BY <1>0, <3>1 DEF JobOk, Running
    <3>3. live' = None
      BY <2>2
    <3>4. ~overlapped => TreeOk(c)' /\ ReadOk(c)'
      BY <1>0, <3>1, <3>3 DEF TreeOk, ReadOk
    <3> QED
      BY <3>1, <3>2, <3>4, ContinuesKeeps
  <2>3. CASE ~(live = None \/ Free(old))
    BY <1>1, <1>2, <2>1, <2>3, FinishKeeps
  <2> QED
    BY <2>2, <2>3
<1>5. ASSUME Place(c) PROVE IInv'
  <2> USE <1>5 DEF Place, Goto
  <2>1. DiskType'
    BY <1>0 DEF DiskType
  <2>2. CASE staging # None /\ Free(live)
    <3>1. /\ Continues(c) /\ pc'[c] = "drop" /\ todo'[c] = todo[c] /\ got'[c] = got[c]
          /\ job'[c] = job[c]
      BY <1>2, <1>3, <2>1, <2>2, PlainStep
    <3>2. JobOk(c)'
      BY <1>0, <3>1 DEF JobOk, Running
    <3>3. live' # None
      BY <2>2
    <3>4. TreeOk(c)' /\ ReadOk(c)'
      BY <3>1, <3>3 DEF TreeOk, ReadOk
    <3> QED
      BY <3>1, <3>2, <3>4, ContinuesKeeps
  <2>3. CASE ~(staging # None /\ Free(live))
    BY <1>1, <1>2, <2>1, <2>3, FinishKeeps
  <2> QED
    BY <2>2, <2>3
<1>6. ASSUME Drop(c) PROVE IInv'
  <2> USE <1>6 DEF Drop
  <2>1. DiskType'
    BY <1>0, SmallerType DEF DiskType
  <2>2. pc' = [pc EXCEPT ![c] = "drop"]
    BY <1>0 DEF thread
  <2>3. /\ Continues(c) /\ pc'[c] = "drop" /\ todo'[c] = todo[c] /\ got'[c] = got[c]
        /\ job'[c] = job[c]
    BY <1>2, <1>3, <2>1, <2>2, PlainStep DEF thread
  <2>4. JobOk(c)'
    BY <1>0, <2>3 DEF JobOk, Running
  <2>5. ~overlapped => TreeOk(c)' /\ ReadOk(c)'
    BY <1>0, <2>3 DEF TreeOk, ReadOk
  <2> QED
    BY <2>3, <2>4, <2>5, ContinuesKeeps
<1>7. ASSUME ReturnPut(c) PROVE IInv'
  BY <1>0, <1>1, <1>2, <1>7, FinishKeeps DEF ReturnPut, DiskType, disk
<1> QED
  BY <1>4, <1>5, <1>6, <1>7

\* Every step keeps the invariant.
LEMMA StepInv == IInv /\ [Next]_vars => IInv'
<1> SUFFICES ASSUME IInv, [Next]_vars PROVE IInv'
  OBVIOUS
<1>1. CASE UNCHANGED vars
  <2>1. UNCHANGED <<queue, abandoned, overlapped, pc, job, todo, got, live, staging, old, answer>>
    BY <1>1 DEF vars, lock, thread, disk
  <2>2. TypeOK' /\ JobInv' /\ LockInv' /\ Alone'
    BY <2>1 DEF IInv, TypeOK, JobInv, JobOk, LockInv, LockOk, Alone, Running
  <2>3. ASSUME NEW c \in Clients PROVE (TreeOk(c)' <=> TreeOk(c)) /\ (ReadOk(c)' <=> ReadOk(c))
    BY <2>1 DEF TreeOk, ReadOk
  <2>4. TreeInv'
    BY <2>1, <2>3 DEF IInv, TreeInv
  <2> QED
    BY <2>2, <2>4 DEF IInv
<1>2. CASE Crash
  <2>1. /\ queue' = <<>> /\ abandoned' = {} /\ \A c \in Clients : pc'[c] = "idle"
        /\ \A c \in Clients : job'[c] = Nothing /\ got'[c] = NoFiles
    BY <1>2 DEF Crash
  <2>2. \A c \in Clients : ~Running(c)'
    BY <2>1 DEF Running
  <2>3. TypeOK'
    <3>1. /\ pc' \in [Clients -> Places] /\ job' \in [Clients -> Jobs \cup {Nothing}]
          /\ todo' \in [Clients -> SUBSET Keys] /\ got' \in [Clients -> FileMap]
      BY <1>2, NoFilesType DEF Crash, Places
    <3>2. UNCHANGED <<overlapped, live, staging, old, answer>>
      BY <1>2 DEF Crash, disk
    <3>3. queue' \in Seq(Clients) /\ abandoned' \subseteq Clients
      BY <2>1
    <3> QED
      BY <3>1, <3>2, <3>3 DEF IInv, TypeOK
  <2>4. JobInv'
    BY <2>1, <2>2 DEF JobInv, JobOk
  <2>5. LockInv' /\ Alone'
    BY <2>1, <2>2 DEF LockInv, LockOk, Alone
  <2>6. TreeInv'
    BY <2>1 DEF TreeInv, TreeOk, ReadOk
  <2> QED
    BY <2>3, <2>4, <2>5, <2>6 DEF IInv
<1>3. ASSUME NEW c \in Clients, Step(c) PROVE IInv'
  BY <1>3, CallsKeep, ReadingKeeps, FillingKeeps, SwapKeeps DEF Step, Work, Writing
<1> QED
  BY <1>1, <1>2, <1>3 DEF Next

\* The invariant, as the theorems below cite it.
LEMMA SpecInv == Spec => []IInv
BY InitInv, StepInv, PTL DEF Spec, Safe

\* The store's state is well-typed: no thread ever writes a file outside the
\* tree, or gives a client anything but a file map (FsProjectStore).
THEOREM TypeCorrect == Spec => []TypeOK
<1>1. IInv => TypeOK
  BY DEF IInv
<1> QED
  BY <1>1, SpecInv, PTL

\* One thread at a time has the tree, cancelled calls aside (_lock_for).
THEOREM OneThreadHolds == Spec => []OneThread
<1>1. IInv => OneThread
  BY DEF IInv, LockInv, LockOk, OneThread
<1> QED
  BY <1>1, SpecInv, PTL

-----------------------------------------------------------------------------
(***************************************************************************)
(* The refinement of AtomicFiles.                                          *)
(***************************************************************************)
\* The abstract specification speaks of the same file maps.
LEMMA SameMaps ==
  /\ Tree!FileMap = FileMap /\ Tree!Jobs = Jobs
  /\ Tree!Nothing = Nothing /\ Tree!Applied = Applied /\ Tree!Done = Done /\ Tree!Get = Get
  /\ \A v : Tree!Got(v) = Got(v)
  /\ \A m, v : Tree!Stores(m, v) = Stores(m, v)
<1>1. Tree!NoFiles = NoFiles /\ \A m : Tree!Kept(m) = Kept(m) /\ Tree!Put(m) = Put(m)
  BY DEF Tree!NoFiles, NoFiles, Tree!Kept, Kept, Tree!Put, Put
<1>2. Tree!FileMap = FileMap
  BY DEF Tree!FileMap, FileMap
<1>3. /\ Tree!Nothing = Nothing /\ Tree!Applied = Applied /\ Tree!Done = Done /\ Tree!Get = Get
      /\ \A v : Tree!Got(v) = Got(v)
  BY <1>1 DEF Tree!Nothing, Nothing, Tree!Applied, Applied, Tree!Done, Done, Tree!Get, Get,
              Tree!Got, Got
<1>4. Tree!Jobs = Jobs
  BY <1>1, <1>3 DEF Tree!Jobs, Jobs
<1>5. \A m, v : Tree!Stores(m, v) = Stores(m, v)
  BY <1>1 DEF Tree!Stores, Stores
<1> QED
  BY <1>2, <1>3, <1>4, <1>5

\* A finished staging tree stands for what is kept of the map that was put.
LEMMA ViewStores ==
  ASSUME NEW dir, dir # None, NEW m \in FileMap, dir.index = Kept(m), Holds(dir, m, Kept(m))
  PROVE  Stores(m, View(dir))
<1>1. Kept(m) # NoIndex
  BY KeptType, PathAssumption DEF NoIndex
<1>2. Listed(dir) = Kept(m)
  BY <1>1 DEF Listed
<1>3. DOMAIN dir.files = Files(Kept(m))
  BY DEF Holds
<1>4. {k \in Listed(dir) : Path[k] \in DOMAIN dir.files} = Kept(m)
  BY <1>2, <1>3 DEF Files
<1>5. View(dir) = [k \in Kept(m) |-> dir.files[Path[k]]]
  BY <1>4 DEF View
<1>6. DOMAIN View(dir) = Kept(m) /\ \A k \in Kept(m) : View(dir)[k] = dir.files[Path[k]]
  BY <1>5
<1>7. ASSUME NEW k \in Kept(m)
      PROVE  \E j \in Kept(m) : Path[j] = Path[k] /\ View(dir)[k] = m[j]
  <2>1. Path[k] \in DOMAIN dir.files
    BY <1>3 DEF Files
  <2>2. PICK j \in Kept(m) : Path[j] = Path[k] /\ dir.files[Path[k]] = m[j]
    BY <2>1 DEF Holds
  <2> QED
    BY <1>6, <2>2
<1> QED
  BY <1>6, <1>7 DEF Stores

\* What one call does to what is asked for is seen at its client alone.
LEMMA PendingChange ==
  ASSUME TypeOK, NEW c \in Clients,
         pc' = [pc EXCEPT ![c] = pc'[c]], job' = [job EXCEPT ![c] = job'[c]]
  PROVE  Pending' = [Pending EXCEPT ![c] = IF pc'[c] = "drop" THEN Applied ELSE job'[c]]
BY DEF TypeOK, Pending

\* A thread that ends without an answer has failed.
LEMMA FinishFails ==
  ASSUME IInv, NEW c \in Clients, NEW result, Finish(c, result), UNCHANGED Current,
         result = Nothing \/ c \in abandoned
  PROVE  Tree!Fail(c)
<1>1. /\ pc' = [pc EXCEPT ![c] = "idle"] /\ job' = [job EXCEPT ![c] = Nothing]
      /\ answer' = answer
  BY DEF Finish, Goto
<1>2. pc' = [pc EXCEPT ![c] = pc'[c]] /\ job' = [job EXCEPT ![c] = job'[c]]
      /\ pc'[c] = "idle" /\ job'[c] = Nothing
  BY <1>1 DEF IInv, TypeOK
<1>3. Pending' = [Pending EXCEPT ![c] = Nothing]
  BY <1>2, PendingChange DEF IInv
<1> QED
  BY <1>1, <1>3, SameMaps DEF Tree!Fail

\* A thread that ends with an answer has given it, if its call still waits.
LEMMA FinishAnswers ==
  ASSUME IInv, NEW c \in Clients, NEW result, Finish(c, result), UNCHANGED Current,
         result # Nothing, c \notin abandoned
  PROVE  /\ Pending' = [Pending EXCEPT ![c] = Nothing]
         /\ answer' = [answer EXCEPT ![c] = result]
<1>1. /\ pc' = [pc EXCEPT ![c] = "idle"] /\ job' = [job EXCEPT ![c] = Nothing]
      /\ answer' = [answer EXCEPT ![c] = result]
  BY DEF Finish, Goto
<1>2. pc' = [pc EXCEPT ![c] = pc'[c]] /\ job' = [job EXCEPT ![c] = job'[c]]
      /\ pc'[c] = "idle" /\ job'[c] = Nothing
  BY <1>1 DEF IInv, TypeOK
<1>3. Pending' = [Pending EXCEPT ![c] = Nothing]
  BY <1>2, PendingChange DEF IInv
<1> QED
  BY <1>1, <1>3

\* While one thread runs alone, every step is one of the atomic map.
LEMMA Refines ==
  ASSUME IInv, NEW c \in Clients, Step(c), ~overlapped'
  PROVE  Tree!Step(c) \/ UNCHANGED <<Current, Pending, answer>>
<1> DEFINE m == job[c].files
           Stutter == UNCHANGED <<Current, Pending, answer>>
<1>0. /\ pc \in [Clients -> Places] /\ job \in [Clients -> Jobs \cup {Nothing}]
      /\ live \in Dir \cup {None} /\ JobOk(c) /\ TypeOK
  BY DEF IInv, TypeOK, JobInv
<1>1. Pending[c] = IF pc[c] = "drop" THEN Applied ELSE job[c]
  BY DEF Pending
<1>2. ASSUME NEW what \in Jobs, Call(c, what) PROVE Tree!Ask(c, what)
  <2> USE <1>2 DEF Call
  <2>1. pc[c] = "idle" /\ job[c] = Nothing
    BY <1>0 DEF JobOk
  <2>2. pc' = [pc EXCEPT ![c] = pc'[c]] /\ job' = [job EXCEPT ![c] = job'[c]]
        /\ pc'[c] = "queued" /\ job'[c] = what
    BY <1>0 DEF Goto
  <2>3. Pending' = [Pending EXCEPT ![c] = what]
    BY <1>0, <2>2, PendingChange
  <2>4. UNCHANGED Current
    BY DEF Current, disk
  <2> QED
    BY <1>1, <2>1, <2>3, <2>4, SameMaps DEF Tree!Ask
<1>3. ASSUME CancelWaiting(c) PROVE Tree!Fail(c)
  <2> USE <1>3 DEF CancelWaiting
  <2>1. pc' = [pc EXCEPT ![c] = pc'[c]] /\ job' = [job EXCEPT ![c] = job'[c]]
        /\ pc'[c] = "idle" /\ job'[c] = Nothing
    BY <1>0 DEF Goto
  <2>2. Pending' = [Pending EXCEPT ![c] = Nothing]
    BY <1>0, <2>1, PendingChange
  <2>3. UNCHANGED Current
    BY DEF Current, disk
  <2> QED
    BY <2>2, <2>3, SameMaps DEF Tree!Fail
<1>4. ASSUME Abandon(c) PROVE Stutter
  BY <1>4 DEF Abandon, thread, disk, Current, Pending
<1>5. ASSUME Raise(c) PROVE Tree!Fail(c)
  <2>1. UNCHANGED Current
    BY <1>5 DEF Raise, disk, Current
  <2> QED
    BY <1>5, <2>1, FinishFails DEF Raise
<1>6. ASSUME NEW place \in Places \ {"drop"}, pc[c] # "drop", pc' = [pc EXCEPT ![c] = place],
             UNCHANGED <<job, answer>>
      PROVE  Pending' = Pending /\ answer' = answer
  <2>1. pc'[c] = place /\ pc' = [pc EXCEPT ![c] = pc'[c]]
        /\ job' = [job EXCEPT ![c] = job'[c]]
    BY <1>0, <1>6
  <2>2. Pending' = [Pending EXCEPT ![c] = job[c]]
    BY <1>0, <1>6, <2>1, PendingChange
  <2> QED
    BY <1>1, <1>6, <2>2 DEF Pending
<1>7. ASSUME Start(c) PROVE Stutter
  <2>1. "recover" \in Places \ {"drop"}
    BY DEF Places
  <2> QED
    BY <1>6, <1>7, <2>1 DEF Start, Goto, disk, Current
<1>8. ASSUME UNCHANGED overlapped PROVE TreeOk(c) /\ ReadOk(c)
  BY <1>8 DEF IInv, TreeInv
<1>9. ASSUME Recover(c) PROVE Stutter
  <2> USE <1>9 DEF Recover
  <2>1. PICK place \in {"look", "clear staging"} : pc' = [pc EXCEPT ![c] = place]
    BY DEF Goto
  <2>2. place \in Places \ {"drop"} /\ pc[c] # "drop"
    BY DEF Places
  <2>3. UNCHANGED Current
    BY DEF Current, View, disk
  <2> QED
    BY <1>6, <2>1, <2>2, <2>3
<1>10. ASSUME Look(c) PROVE Tree!Step(c) \/ Stutter
  <2> USE <1>10 DEF Look
  <2>1. UNCHANGED Current
    BY DEF Current, disk
  <2>2. CASE live # None
    <3>1. "read" \in Places \ {"drop"} /\ pc[c] # "drop"
      BY DEF Places
    <3> QED
      BY <1>6, <2>1, <2>2, <3>1 DEF Goto
  <2>3. CASE live = None /\ c \in abandoned
    BY <2>1, <2>3, FinishFails DEF Tree!Step
  <2>4. CASE live = None /\ c \notin abandoned
    <3>1. old = None /\ Pending[c] = Get
      BY <1>0, <1>1, <1>8, <2>4 DEF Finish, TreeOk, JobOk
    <3>2. Current = NoFiles
      BY <2>4, <3>1 DEF Current, View
    <3>3. Got(NoFiles) # Nothing
      BY DEF Got, Nothing
    <3>4. Pending' = [Pending EXCEPT ![c] = Nothing] /\ answer' = [answer EXCEPT ![c] = Got(NoFiles)]
      BY <2>1, <2>4, <3>3, FinishAnswers
    <3> QED
      BY <2>1, <3>1, <3>2, <3>4, SameMaps DEF Tree!Step, Tree!Return
  <2> QED
    BY <2>2, <2>3, <2>4
<1>11. ASSUME NEW k \in Keys, ReadFile(c, k) PROVE Stutter
  BY <1>11 DEF ReadFile, Current, Pending, disk
<1>12. ASSUME ReturnFiles(c) PROVE Tree!Step(c)
  <2> USE <1>12 DEF ReturnFiles
  <2>1. UNCHANGED Current
    BY DEF Current, disk
  <2>2. CASE c \in abandoned
    BY <2>1, <2>2, FinishFails DEF Tree!Step
  <2>3. CASE c \notin abandoned
    <3>1. TreeOk(c) /\ ReadOk(c) /\ Pending[c] = Get
      BY <1>0, <1>1, <1>8, <2>3 DEF Finish, JobOk
    <3>2. /\ live # None /\ DOMAIN got[c] = DOMAIN View(live)
          /\ \A k \in DOMAIN got[c] : got[c][k] = View(live)[k]
      BY <3>1 DEF TreeOk, ReadOk
    <3>3. got[c] = Current
      <4>1. got[c] \in FileMap /\ View(live) \in FileMap
        BY <1>0, ViewType DEF TypeOK
      <4>2. got[c] = [k \in DOMAIN got[c] |-> got[c][k]]
            /\ View(live) = [k \in DOMAIN View(live) |-> View(live)[k]]
        BY <4>1, FileMapElim
      <4>3. got[c] = View(live)
        BY <3>2, <4>2
      <4> QED
        BY <3>2, <4>3 DEF Current
    <3>4. Got(got[c]) # Nothing
      BY DEF Got, Nothing
    <3>5. Pending' = [Pending EXCEPT ![c] = Nothing] /\ answer' = [answer EXCEPT ![c] = Got(got[c])]
      BY <2>1, <2>3, <3>4, FinishAnswers
    <3> QED
      BY <2>1, <3>1, <3>3, <3>5, SameMaps DEF Tree!Step, Tree!Return
  <2> QED
    BY <2>2, <2>3
<1>13. ASSUME ClearStaging(c) \/ ClearPart(c) PROVE Stutter
  <2>1. UNCHANGED Current
    BY <1>13 DEF ClearStaging, ClearPart, Current, disk
  <2>2. PICK place \in {"clear staging", "clear old", "make"} : pc' = [pc EXCEPT ![c] = place]
    BY <1>0, <1>13 DEF ClearStaging, ClearPart, RemoveTree, Goto
  <2>3. place \in Places \ {"drop"} /\ pc[c] # "drop" /\ UNCHANGED <<job, answer>>
    BY <1>13 DEF ClearStaging, ClearPart, Places
  <2> QED
    BY <1>6, <2>1, <2>2, <2>3
<1>14. ASSUME ClearOld(c) PROVE Stutter
  <2>1. live # None \/ old = None
    BY <1>8, <1>14 DEF ClearOld, TreeOk, lock
  <2>2. UNCHANGED Current
    BY <1>14, <2>1 DEF ClearOld, RemoveTree, Free, Current, View
  <2>3. PICK place \in {"clear old", "make"} : pc' = [pc EXCEPT ![c] = place]
    BY <1>0, <1>14 DEF ClearOld, RemoveTree, Goto
  <2>4. place \in Places \ {"drop"} /\ pc[c] # "drop" /\ UNCHANGED <<job, answer>>
    BY <1>14 DEF ClearOld, Places
  <2> QED
    BY <1>6, <2>2, <2>3, <2>4
<1>15. ASSUME MakeStaging(c) PROVE Tree!Step(c) \/ Stutter
  <2> USE <1>15 DEF MakeStaging
  <2>1. UNCHANGED Current
    BY DEF Current
  <2>2. CASE staging = None
    <3>1. "fill" \in Places \ {"drop"} /\ pc[c] # "drop"
      BY DEF Places
    <3> QED
      BY <1>6, <2>1, <2>2, <3>1 DEF Goto
  <2>3. CASE staging # None
    BY <2>1, <2>3, FinishFails DEF Tree!Step
  <2> QED
    BY <2>2, <2>3
<1>16. ASSUME NEW k \in Keys, WriteFile(c, k) PROVE Stutter
  BY <1>16 DEF WriteFile, Current, Pending
<1>17. ASSUME WriteIndex(c) PROVE Stutter
  <2>1. UNCHANGED Current /\ pc[c] # "drop" /\ "set aside" \in Places \ {"drop"}
    BY <1>17 DEF WriteIndex, Current, Places
  <2> QED
    BY <1>6, <1>17, <2>1 DEF WriteIndex, Goto
<1>18. ASSUME SetAside(c) PROVE Tree!Step(c) \/ Stutter
  <2> USE <1>18 DEF SetAside
  <2>1. CASE live = None \/ Free(old)
    <3>1. "place" \in Places \ {"drop"} /\ pc[c] # "drop"
      BY DEF Places
    <3>2. live # None \/ old = None
      BY <1>8, <2>1 DEF TreeOk, lock
    <3>3. UNCHANGED Current
      BY <2>1, <3>2 DEF Current
    <3> QED
      BY <1>6, <2>1, <3>1, <3>3 DEF Goto
  <2>2. CASE ~(live = None \/ Free(old))
    <3>1. UNCHANGED Current
      BY <2>2 DEF Current
    <3> QED
      BY <2>2, <3>1, FinishFails DEF Tree!Step
  <2> QED
    BY <2>1, <2>2
<1>19. ASSUME Place(c) PROVE Tree!Step(c)
  <2> USE <1>19 DEF Place
  <2>1. TreeOk(c) /\ job[c] \in Jobs /\ job[c].kind = "put" /\ Pending[c] = job[c]
    BY <1>0, <1>1, <1>8 DEF JobOk, Running, Finish, lock
  <2>2. /\ staging # None /\ live = None /\ staging.index = Kept(m)
        /\ Holds(staging, m, Kept(m)) /\ m \in FileMap
    BY <2>1, JobType DEF TreeOk
  <2>3. live' = staging /\ Goto(c, "drop") /\ UNCHANGED <<job, answer>>
    BY <2>2 DEF Free
  <2>4. Current' = View(staging)
    BY <2>2, <2>3 DEF Current
  <2>5. Stores(m, Current')
    BY <2>2, <2>4, ViewStores
  <2>6. pc'[c] = "drop" /\ pc' = [pc EXCEPT ![c] = pc'[c]] /\ job' = [job EXCEPT ![c] = job'[c]]
    BY <1>0, <2>3 DEF Goto
  <2>7. Pending' = [Pending EXCEPT ![c] = Applied]
    BY <1>0, <2>6, PendingChange
  <2> QED
    BY <2>1, <2>3, <2>5, <2>7, SameMaps DEF Tree!Step, Tree!Apply
<1>20. ASSUME Drop(c) PROVE Stutter
  <2>1. live # None
    BY <1>8, <1>20 DEF Drop, TreeOk, lock
  <2> QED
    BY <1>20, <2>1 DEF Drop, thread, Current, Pending
<1>21. ASSUME ReturnPut(c) PROVE Tree!Step(c)
  <2> USE <1>21 DEF ReturnPut
  <2>1. UNCHANGED Current
    BY DEF Current, disk
  <2>2. CASE c \in abandoned
    BY <2>1, <2>2, FinishFails DEF Tree!Step
  <2>3. CASE c \notin abandoned
    <3>1. Done # Nothing /\ Pending[c] = Applied
      BY <1>1 DEF Done, Nothing
    <3>2. Pending' = [Pending EXCEPT ![c] = Nothing] /\ answer' = [answer EXCEPT ![c] = Done]
      BY <2>1, <2>3, <3>1, FinishAnswers
    <3> QED
      BY <2>1, <3>1, <3>2, SameMaps DEF Tree!Step, Tree!Confirm
  <2> QED
    BY <2>2, <2>3
<1>22. CASE (\E what \in Jobs : Call(c, what)) \/ CancelWaiting(c) \/ Abandon(c) \/ Raise(c)
  BY <1>2, <1>3, <1>4, <1>5, <1>22, SameMaps DEF Tree!Step
<1>23. CASE Start(c) \/ Recover(c) \/ Reading(c)
  BY <1>7, <1>9, <1>10, <1>11, <1>12, <1>23 DEF Reading
<1>24. CASE Writing(c)
  BY <1>13, <1>14, <1>15, <1>16, <1>17, <1>18, <1>19, <1>20, <1>21, <1>24 DEF Writing
<1> QED
  BY <1>22, <1>23, <1>24 DEF Step, Work

\* put_files and get_files are those of an atomic file map, whatever is killed,
\* cancelled or fails where, until a thread is let in beside one that a
\* cancelled call left behind.
THEOREM AtomicUntilOverlapHolds == Spec => AtomicUntilOverlap
<1>1. Init => Tree!Init
  <2> SUFFICES ASSUME Init PROVE Tree!Init
    OBVIOUS
  <2>1. Current \in FileMap
    BY InitInv, ViewType DEF IInv, TypeOK, Current
  <2>2. Pending = [c \in Clients |-> Nothing]
    BY DEF Init, Pending
  <2> QED
    BY <2>1, <2>2, SameMaps DEF Init, Tree!Init
<1>2. IInv /\ [Next]_vars => [overlapped' \/ Tree!Next]_<<Current, Pending, answer>>
  <2> SUFFICES ASSUME IInv, [Next]_vars, ~overlapped'
               PROVE  Tree!Next \/ UNCHANGED <<Current, Pending, answer>>
    OBVIOUS
  <2>1. CASE UNCHANGED vars
    BY <2>1 DEF vars, thread, disk, Current, Pending
  <2>2. CASE Crash
    <3>1. UNCHANGED <<Current, answer>>
      BY <2>2 DEF Crash, disk, Current
    <3>2. Pending' = [c \in Clients |-> Nothing]
      BY <2>2 DEF Crash, Pending
    <3> QED
      BY <3>1, <3>2, SameMaps DEF Tree!Next, Tree!Crash
  <2>3. ASSUME NEW c \in Clients, Step(c)
        PROVE  Tree!Next \/ UNCHANGED <<Current, Pending, answer>>
    BY <2>3, Refines DEF Tree!Next
  <2> QED
    BY <2>1, <2>2, <2>3 DEF Next
<1> QED
  BY <1>1, <1>2, SpecInv, PTL DEF Spec, Safe, AtomicUntilOverlap
=============================================================================
