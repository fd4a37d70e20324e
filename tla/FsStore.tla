------------------------------ MODULE FsStore ------------------------------
(***************************************************************************)
(* FsProjectStore's file tree of one project, stores.py: put_files builds  *)
(* a replacement tree beside the live one and renames it into place,       *)
(* get_files reads the live one; both first finish a swap that a kill      *)
(* interrupted.  Each call takes the project's asyncio.Lock and runs in a  *)
(* thread (asyncio.to_thread).  When the caller is cancelled the lock is   *)
(* released and the thread runs on.                                        *)
(*                                                                         *)
(* A step is one operation on the file system; _recover is taken for one.  *)
(* The file system is external; a read finds what is there (an OSError in  *)
(* read_text would leave the file out of the map that is returned).  Files *)
(* are written whole: nobody reads the staging tree before it is complete  *)
(* unless threads overlap.  project.json and its time stamp are left out.  *)
(***************************************************************************)
EXTENDS FileMaps, SequencesExt

CONSTANT None         \* no directory

\* A directory: its .index.json, if it has one, and its other files by their
\* plain keys.
NoIndex == {NoPath}
Dir     == [index : {NoIndex} \cup SUBSET Keys, files : FileMap]

ASSUME NoneAssumption == None \notin Dir

VARIABLES
  queue,              \* the lock: its holder, and who waits for it
  abandoned,          \* clients whose thread has outlived its call
  overlapped,         \* a thread has been started beside an abandoned one
  pc,                 \* where each client's call, or thread, is
  job,                \* what each call is to do
  todo,               \* the keys its thread has still to write or read
  got,                \* the files its thread has read
  live, staging, old, \* the trees: files, .files.new, .files.old
  answer              \* what the last call of each client returned

lock   == <<queue, abandoned, overlapped>>
thread == <<pc, job, todo, got>>
disk   == <<live, staging, old>>
vars   == <<lock, thread, disk, answer>>

EmptyDir == [index |-> NoIndex, files |-> NoFiles]

\* rmtree takes a directory apart one entry at a time.
Smaller(dir) ==
  {[dir EXCEPT !.index = NoIndex] : i \in {dir.index} \ {NoIndex}}
    \cup {[dir EXCEPT !.files = Restrict(dir.files, DOMAIN dir.files \ {p})] :
            p \in DOMAIN dir.files}

\* The keys a reader finds: the index, or else what a walk comes across.
Listed(dir) == IF dir.index # NoIndex THEN dir.index ELSE DOMAIN dir.files

\* The file map a directory stands for.
View(dir) ==
  IF dir = None THEN NoFiles
  ELSE [k \in {k \in Listed(dir) : Path[k] \in DOMAIN dir.files}
          |-> dir.files[Path[k]]]

\* The directory that holds v.
DirOf(v) == [index |-> DOMAIN v,
             files |-> [p \in Files(DOMAIN v) |->
                          v[CHOOSE k \in DOMAIN v : Path[k] = p]]]

\* A rename needs its target to be absent or an empty directory.
Free(dir) == dir \in {None, EmptyDir}

Init ==
  /\ queue = <<>> /\ abandoned = {} /\ overlapped = FALSE
  /\ pc = [c \in Clients |-> "idle"]
  /\ job = [c \in Clients |-> Nothing]
  /\ todo = [c \in Clients |-> {}]
  /\ got = [c \in Clients |-> NoFiles]
  \* a project without files, or with what an earlier process has put there
  /\ live \in {None} \cup {DirOf(v) : v \in {v \in FileMap : \E m \in Maps : Stores(m, v)}}
  /\ staging = None /\ old = None
  /\ answer = [c \in Clients |-> Nothing]

Running(c) == pc[c] \notin {"idle", "queued"}

Goto(c, place) == pc' = [pc EXCEPT ![c] = place]

\* Mutation: a call that fails keeps the lock.
FinishHolding(c, result) ==
  /\ Goto(c, "idle")
  /\ job' = [job EXCEPT ![c] = Nothing]
  /\ todo' = [todo EXCEPT ![c] = {}] /\ got' = [got EXCEPT ![c] = NoFiles]
  /\ IF c \in abandoned
     THEN abandoned' = abandoned \ {c} /\ UNCHANGED <<queue, answer>>
     ELSE /\ queue' = IF result = Nothing THEN queue ELSE Tail(queue)
          /\ answer' = IF result = Nothing THEN answer ELSE [answer EXCEPT ![c] = result]
          /\ UNCHANGED abandoned
  /\ UNCHANGED overlapped

\* The thread is over: its call returns `result' and hands the lock on, unless
\* the call is gone.
Finish(c, result) ==
  /\ Goto(c, "idle")
  /\ job' = [job EXCEPT ![c] = Nothing]
  /\ todo' = [todo EXCEPT ![c] = {}] /\ got' = [got EXCEPT ![c] = NoFiles]
  /\ IF c \in abandoned
     THEN abandoned' = abandoned \ {c} /\ UNCHANGED <<queue, answer>>
     ELSE /\ queue' = Tail(queue)
          /\ answer' = IF result = Nothing THEN answer ELSE [answer EXCEPT ![c] = result]
          /\ UNCHANGED abandoned
  /\ UNCHANGED overlapped

-----------------------------------------------------------------------------
(***************************************************************************)
(* Calls and the lock.                                                     *)
(***************************************************************************)
Call(c, what) ==
  /\ pc[c] = "idle"
  /\ Goto(c, "queued") /\ job' = [job EXCEPT ![c] = what]
  /\ queue' = Append(queue, c)
  /\ answer' = [answer EXCEPT ![c] = Nothing]
  /\ UNCHANGED <<abandoned, overlapped, todo, got, disk>>

\* Mutation: the thread starts with the call.
StartUnlocked(c) ==
  /\ pc[c] = "queued"
  /\ Goto(c, "recover")
  /\ overlapped' = (overlapped \/ abandoned # {})
  /\ UNCHANGED <<queue, abandoned, job, todo, got, disk, answer>>

\* The call has the lock; its thread starts.
Start(c) ==
  /\ pc[c] = "queued" /\ queue # <<>> /\ Head(queue) = c
  /\ Goto(c, "recover")
  /\ overlapped' = (overlapped \/ abandoned # {})
  /\ UNCHANGED <<queue, abandoned, job, todo, got, disk, answer>>

\* Cancelled before its thread started: nothing has happened.
CancelWaiting(c) ==
  /\ pc[c] = "queued"
  /\ \E i \in DOMAIN queue : queue[i] = c /\ queue' = RemoveAt(queue, i)
  /\ Goto(c, "idle") /\ job' = [job EXCEPT ![c] = Nothing]
  /\ UNCHANGED <<abandoned, overlapped, todo, got, disk, answer>>

\* Cancelled with its thread at work: the lock goes on to the next call.
Abandon(c) ==
  /\ Running(c) /\ c \notin abandoned
  /\ abandoned' = abandoned \cup {c} /\ queue' = Tail(queue)
  /\ UNCHANGED <<overlapped, thread, disk, answer>>

\* Any operation may raise: the disk is full, a directory is not writable.
Raise(c) ==
  /\ Running(c)
  /\ Finish(c, Nothing)
  /\ UNCHANGED disk

-----------------------------------------------------------------------------
Recover(c) ==
  /\ pc[c] = "recover"
  /\ IF live = None /\ old # None
     THEN live' = old /\ old' = None /\ UNCHANGED staging
     ELSE UNCHANGED disk
  /\ Goto(c, IF job[c].kind = "get" THEN "look" ELSE "clear staging")
  /\ UNCHANGED <<lock, job, todo, got, answer>>

(***************************************************************************)
(* get_files.                                                              *)
(***************************************************************************)
Look(c) ==
  /\ pc[c] = "look"
  /\ IF live = None
     THEN Finish(c, Got(NoFiles))
     ELSE /\ todo' = [todo EXCEPT ![c] = Listed(live)]
          /\ Goto(c, "read")
          /\ UNCHANGED <<lock, job, got, answer>>
  /\ UNCHANGED disk

ReadFile(c, k) ==
  /\ pc[c] = "read" /\ k \in todo[c]
  /\ todo' = [todo EXCEPT ![c] = @ \ {k}]
  /\ got' = IF live # None /\ Path[k] \in DOMAIN live.files
            THEN [got EXCEPT ![c] = [j \in DOMAIN @ \cup {k} |->
                                       IF j = k THEN live.files[Path[k]] ELSE @[j]]]
            ELSE got
  /\ UNCHANGED <<lock, pc, job, disk, answer>>

ReturnFiles(c) ==
  /\ pc[c] = "read" /\ todo[c] = {}
  /\ Finish(c, Got(got[c]))
  /\ UNCHANGED disk

(***************************************************************************)
(* put_files.                                                              *)
(***************************************************************************)
\* rmtree(dir, ignore_errors=True), on to `next' when dir is gone.
RemoveTree(c, dir, next) ==
  IF Free(dir)
  THEN dir' = None /\ Goto(c, next)
  ELSE dir' \in Smaller(dir) /\ UNCHANGED pc

ClearStaging(c) ==
  /\ pc[c] = "clear staging"
  /\ RemoveTree(c, staging, "clear old")
  /\ UNCHANGED <<lock, job, todo, got, live, old, answer>>

ClearOld(c) ==
  /\ pc[c] = "clear old"
  /\ RemoveTree(c, old, "make")
  /\ UNCHANGED <<lock, job, todo, got, live, staging, answer>>

\* rmtree leaves what it cannot remove, and says nothing.
ClearPart(c) ==
  /\ \/ pc[c] = "clear staging" /\ Goto(c, "clear old")
     \/ pc[c] = "clear old" /\ Goto(c, "make")
  /\ UNCHANGED <<lock, job, todo, got, disk, answer>>

MakeStaging(c) ==
  /\ pc[c] = "make"
  /\ IF staging = None
     THEN /\ staging' = EmptyDir
          /\ Goto(c, "fill") /\ todo' = [todo EXCEPT ![c] = Kept(job[c].files)]
          /\ UNCHANGED <<lock, job, got, answer>>
     ELSE Finish(c, Nothing) /\ UNCHANGED staging
  /\ UNCHANGED <<live, old>>

\* The directory a file or the index goes into is made when it is not there.
Made(dir) == IF dir = None THEN EmptyDir ELSE dir

WriteFile(c, k) ==
  /\ pc[c] = "fill" /\ k \in todo[c]
  /\ todo' = [todo EXCEPT ![c] = @ \ {k}]
  /\ staging' = LET dir == Made(staging)
                IN  [dir EXCEPT !.files =
                       [p \in DOMAIN dir.files \cup {Path[k]} |->
                          IF p = Path[k] THEN job[c].files[k] ELSE dir.files[p]]]
  /\ UNCHANGED <<lock, pc, job, got, live, old, answer>>

WriteIndex(c) ==
  /\ pc[c] = "fill" /\ todo[c] = {}
  /\ staging' = [Made(staging) EXCEPT !.index = Kept(job[c].files)]
  /\ Goto(c, "set aside")
  /\ UNCHANGED <<lock, job, todo, got, live, old, answer>>

\* Mutation: the live tree is removed rather than moved aside.
SetAsideGone(c) ==
  /\ pc[c] = "set aside"
  /\ live' = None /\ Goto(c, "place")
  /\ UNCHANGED <<lock, job, todo, got, answer, staging, old>>

SetAside(c) ==
  /\ pc[c] = "set aside"
  /\ IF live = None \/ Free(old)
     THEN /\ IF live = None THEN UNCHANGED <<live, old>> ELSE live' = None /\ old' = live
          /\ Goto(c, "place") /\ UNCHANGED <<lock, job, todo, got, answer>>
     ELSE Finish(c, Nothing) /\ UNCHANGED <<live, old>>
  /\ UNCHANGED staging

Place(c) ==
  /\ pc[c] = "place"
  /\ IF staging # None /\ Free(live)
     THEN /\ live' = staging /\ staging' = None
          /\ Goto(c, "drop") /\ UNCHANGED <<lock, job, todo, got, answer>>
     ELSE Finish(c, Nothing) /\ UNCHANGED <<live, staging>>
  /\ UNCHANGED old

\* The tree set aside is dropped, or what can be of it, and the put returns.
Drop(c) ==
  /\ pc[c] = "drop" /\ old # None
  /\ IF Free(old) THEN old' = None ELSE old' \in Smaller(old)
  /\ UNCHANGED <<lock, thread, live, staging, answer>>

ReturnPut(c) ==
  /\ pc[c] = "drop"
  /\ Finish(c, Done)
  /\ UNCHANGED disk

-----------------------------------------------------------------------------
\* The process is killed and started again; the disk is as it was.
Crash ==
  /\ queue' = <<>> /\ abandoned' = {}
  /\ pc' = [c \in Clients |-> "idle"]
  /\ job' = [c \in Clients |-> Nothing]
  /\ todo' = [c \in Clients |-> {}]
  /\ got' = [c \in Clients |-> NoFiles]
  /\ UNCHANGED <<overlapped, disk, answer>>

Reading(c) == Look(c) \/ ReturnFiles(c) \/ \E k \in Keys : ReadFile(c, k)

Writing(c) == \/ ClearStaging(c) \/ ClearOld(c) \/ ClearPart(c) \/ MakeStaging(c)
              \/ WriteIndex(c) \/ SetAside(c) \/ Place(c) \/ Drop(c) \/ ReturnPut(c)
              \/ \E k \in Keys : WriteFile(c, k)

Work(c) == Start(c) \/ Recover(c) \/ Reading(c) \/ Writing(c)

Step(c) == \/ \E what \in Jobs : Call(c, what)
           \/ Work(c) \/ CancelWaiting(c) \/ Abandon(c) \/ Raise(c)

Next == Crash \/ \E c \in Clients : Step(c)

(***************************************************************************)
(* Threads run on and the event loop gives the lock to whoever is first in *)
(* line.  Nothing obliges anyone to call, to cancel or to fail.            *)
(***************************************************************************)
Fairness == \A c \in Clients : WF_vars(Work(c))

Safe == Init /\ [][Next]_vars
Spec == Safe /\ Fairness
=============================================================================
