------------------------------- MODULE Bundler -------------------------------
(***************************************************************************)
(* The build service, packages/bundler/src/index.ts: requests to build a   *)
(* project and requests to install a package, served concurrently by one   *)
(* process.  Installs run one at a time behind a chain of promises, builds *)
(* run in child processes behind a counting semaphore, and each build has  *)
(* a directory of its own under the builds directory.                      *)
(*                                                                         *)
(* A request is served once.  What a build outputs is left out; what is    *)
(* kept is who may run when, what resolves in node_modules, and what stays *)
(* on disk.  `bun add', the build child and the file system are external.  *)
(***************************************************************************)
EXTENDS Integers, Sequences, FiniteSets

CONSTANTS
  Bundles,            \* POST /bundle requests
  Adds,               \* POST /packages/install requests
  Packages,
  Baked,              \* the packages of the image (BASE_DEPENDENCIES)
  Invalid,            \* packages whose coordinates fail the regexes
  Declares,           \* what each request declares, or asks to have installed
  Permits,            \* maxConcurrentBuilds
  MaxAutoInstalls,    \* MAX_AUTO_INSTALLS
  AutoInstall,        \* autoInstall
  MaxFaults           \* bound: times the process is killed or a removal fails

Requests == Bundles \cup Adds

ASSUME RequestsAssumption == IsFiniteSet(Requests) /\ Bundles \cap Adds = {}
ASSUME DeclaresAssumption == /\ Declares \in [Requests -> SUBSET Packages]
                             /\ \A r \in Adds : \E p \in Packages : Declares[r] = {p}
ASSUME BakedAssumption    == Baked \subseteq Packages
ASSUME PermitsAssumption  == Permits \in Int
ASSUME SwitchAssumption   == AutoInstall \in BOOLEAN /\ MaxAutoInstalls \in Nat
ASSUME FaultsAssumption   == MaxFaults \in Nat

VARIABLES
  up,                 \* the process runs
  stage,              \* how far each request is
  missing,            \* the dependencies each request has still to install
  jobs,               \* the install chain: every task handed to serialize()
  available, waiters, \* the semaphore
  dirs,               \* build directories on disk
  removing,           \*   the ones whose rm is under way
  left,               \*   the ones whose rm failed
  resolved,           \* packages that resolve in node_modules
  spoiled,            \* packages an install of which has failed
  faults

requests  == <<stage, missing>>
semaphore == <<available, waiters>>
disk      == <<dirs, removing, left>>
modules   == <<resolved, spoiled>>
process   == <<up, faults>>
vars      == <<requests, jobs, semaphore, disk, modules, process>>

\* makeSemaphore grants one permit at least.
Capacity == IF Permits > 1 THEN Permits ELSE 1

Init ==
  /\ up = TRUE /\ faults = 0
  /\ stage = [r \in Requests |-> "new"]
  /\ missing = [r \in Requests |-> {}]
  /\ jobs = <<>>
  /\ available = Capacity /\ waiters = <<>>
  /\ dirs = {} /\ removing = {} /\ left = {}
  /\ resolved = Baked /\ spoiled = {}

At(r, s)     == up /\ stage[r] = s
Become(r, s) == stage' = [stage EXCEPT ![r] = s]

-----------------------------------------------------------------------------
(***************************************************************************)
(* Admission and dependencies.  From the end of reading a body to the      *)
(* first install, and from the end of one install to the next, the event   *)
(* loop runs nothing else.                                                 *)
(***************************************************************************)
\* A body, an entry, a source or a package the service refuses.
Refuse(r) ==
  /\ At(r, "new")
  /\ Become(r, "answered")
  /\ UNCHANGED <<missing, jobs, semaphore, disk, modules, process>>

\* Mutation: one dependency is installed and the rest taken for granted.
ContinueAfterOne(r, todo, chain) ==
  /\ missing' = [missing EXCEPT ![r] = todo]
  /\ IF todo = Declares[r] /\ todo # {}
     THEN \E p \in todo :
            /\ jobs' = Append(chain, [pkg |-> p, by |-> r, state |-> "queued"])
            /\ Become(r, "queued")
     ELSE jobs' = chain /\ Become(r, "write")

\* The loop of ensureDeps, and the install itself for a request to install:
\* the next of the packages `todo' goes to the end of the chain (serialize).
Continue(r, todo, chain) ==
  /\ missing' = [missing EXCEPT ![r] = todo]
  /\ \/ /\ todo = {}
        /\ jobs' = chain
        /\ Become(r, IF r \in Adds THEN "answered" ELSE "write")
     \/ \E p \in todo \cap Invalid :
          jobs' = chain /\ Become(r, "answered")
     \/ \E p \in todo \ Invalid :
          /\ jobs' = Append(chain, [pkg |-> p, by |-> r, state |-> "queued"])
          /\ Become(r, "queued")

\* A request to install asks for its package whether it resolves or not.
AskToInstall(r) ==
  /\ r \in Adds /\ At(r, "new")
  /\ Continue(r, Declares[r], jobs)
  /\ UNCHANGED <<semaphore, disk, modules, process>>

\* The dependencies that do not resolve now.
Missing(r) == Declares[r] \ resolved

AskToBuild(r) ==
  /\ r \in Bundles /\ At(r, "new")
  /\ Missing(r) # {} => AutoInstall /\ Cardinality(Missing(r)) <= MaxAutoInstalls
  /\ Continue(r, Missing(r), jobs)
  /\ UNCHANGED <<semaphore, disk, modules, process>>

-----------------------------------------------------------------------------
(***************************************************************************)
(* The install chain.                                                      *)
(***************************************************************************)
\* Mutation: tasks do not wait for each other.
MayStartAtOnce(k) == jobs[k].state = "queued"

\* A task starts when the one before it has settled, either way.
MayStart(k) == /\ jobs[k].state = "queued"
               /\ k > 1 => jobs[k-1].state = "settled"

StartInstall(k) ==
  /\ up /\ MayStart(k)
  /\ jobs' = [jobs EXCEPT ![k].state = "running"]
  /\ UNCHANGED <<requests, semaphore, disk, modules, process>>

Settled(k) == [jobs EXCEPT ![k].state = "settled"]

InstallWorks(k) ==
  LET r == jobs[k].by
      p == jobs[k].pkg
  IN  /\ up /\ jobs[k].state = "running"
      /\ resolved' = resolved \cup {p}
      /\ Continue(r, missing[r] \ {p}, Settled(k))
      /\ UNCHANGED <<semaphore, disk, spoiled, process>>

\* It fails, or the timer kills it and leaves the package in either state.
InstallFails(k) ==
  LET p == jobs[k].pkg
  IN  /\ up /\ jobs[k].state = "running"
      /\ jobs' = Settled(k)
      /\ resolved' \in {resolved \cup {p}, resolved \ {p}}
      /\ spoiled' = spoiled \cup {p}
      /\ Become(jobs[k].by, "answered")
      /\ UNCHANGED <<missing, semaphore, disk, process>>

-----------------------------------------------------------------------------
(***************************************************************************)
(* The build.                                                              *)
(***************************************************************************)
\* Mutation: the directory is left behind.
CleanupNothing(r) == UNCHANGED disk

\* The answer is out; buildProject's finally starts the rm and waits for none.
Cleanup(r) == removing' = removing \cup {r} /\ UNCHANGED <<dirs, left>>

\* A path that leaves the directory, or a disk that does: the directory may or
\* may not be there.
WriteFails(r) ==
  /\ At(r, "write")
  /\ dirs' \in {dirs, dirs \cup {r}}
  /\ removing' = removing \cup {r}
  /\ Become(r, "answered")
  /\ UNCHANGED <<missing, jobs, semaphore, left, modules, process>>

\* The files are written, and the build comes to the gate.
Acquire(r) ==
  /\ At(r, "write")
  /\ dirs' = dirs \cup {r}
  /\ IF available > 0
     THEN available' = available - 1 /\ UNCHANGED waiters /\ Become(r, "granted")
     ELSE waiters' = Append(waiters, r) /\ UNCHANGED available
          /\ Become(r, "waiting")
  /\ UNCHANGED <<missing, jobs, removing, left, modules, process>>

\* Mutations: the permit goes to the pool and nobody is woken; it goes to the
\* first waiter and to the pool as well.
ReleaseToPool(r) ==
  available' = available + 1 /\ UNCHANGED waiters /\ Become(r, "answered")

ReleaseTwice(r) ==
  /\ available' = available + 1
  /\ IF waiters # <<>>
     THEN /\ waiters' = Tail(waiters)
          /\ stage' = [stage EXCEPT ![r] = "answered", ![Head(waiters)] = "granted"]
     ELSE UNCHANGED waiters /\ Become(r, "answered")

\* release(): the permit goes straight to the first waiter, or to the pool,
\* and r, who held it, is done.
Release(r) ==
  IF waiters # <<>>
  THEN /\ waiters' = Tail(waiters) /\ UNCHANGED available
       /\ stage' = [stage EXCEPT ![r] = "answered", ![Head(waiters)] = "granted"]
  ELSE available' = available + 1 /\ UNCHANGED waiters /\ Become(r, "answered")

Spawn(r) ==
  /\ At(r, "granted")
  /\ Become(r, "child")
  /\ UNCHANGED <<missing, jobs, semaphore, disk, modules, process>>

SpawnFails(r) ==
  /\ At(r, "granted")
  /\ Release(r) /\ Cleanup(r)
  /\ UNCHANGED <<missing, jobs, modules, process>>

\* The child exits, or the timer kills it.
ChildExits(r) ==
  /\ At(r, "child")
  /\ Release(r) /\ Cleanup(r)
  /\ UNCHANGED <<missing, jobs, modules, process>>

Removed(r) ==
  /\ up /\ r \in removing
  /\ removing' = removing \ {r}
  /\ dirs' = dirs \ {r}
  /\ UNCHANGED <<requests, jobs, semaphore, left, modules, process>>

\* Said on the console and left at that.
RemoveFails(r) ==
  /\ up /\ r \in removing /\ faults < MaxFaults
  /\ faults' = faults + 1
  /\ removing' = removing \ {r}
  /\ left' = left \cup {r}
  /\ UNCHANGED <<requests, jobs, semaphore, dirs, modules, up>>

-----------------------------------------------------------------------------
\* The packages a kill leaves in either state.
Torn == {jobs[k].pkg : k \in {j \in DOMAIN jobs : jobs[j].state = "running"}}

\* The process is killed: its requests, its installs and its children go, the
\* disk stays, with a directory or none for each build that was writing.
Crash ==
  /\ up /\ faults < MaxFaults
  /\ up' = FALSE /\ faults' = faults + 1
  /\ stage' = [r \in Requests |-> IF stage[r] \in {"new", "answered"}
                                  THEN stage[r] ELSE "lost"]
  /\ spoiled' = spoiled \cup Torn
  /\ resolved' \in {resolved \cup Torn, resolved \ Torn}
  /\ \E made \in SUBSET {r \in Requests : stage[r] = "write"} : dirs' = dirs \cup made
  /\ jobs' = <<>> /\ removing' = {}
  /\ UNCHANGED <<missing, semaphore, left>>

\* serve() empties the builds directory, or fails to and goes on all the same.
Boot ==
  /\ ~up /\ up' = TRUE
  /\ dirs' \in {{}, dirs} /\ left' = dirs'
  /\ available' = Capacity /\ waiters' = <<>>
  /\ UNCHANGED <<requests, jobs, removing, modules, faults>>

-----------------------------------------------------------------------------
Arrive(r) == AskToBuild(r) \/ AskToInstall(r) \/ Refuse(r)

Serve(r) == \/ WriteFails(r) \/ Acquire(r)
            \/ Spawn(r) \/ SpawnFails(r) \/ ChildExits(r)

Install(k) == StartInstall(k) \/ InstallWorks(k) \/ InstallFails(k)

Sweep(r) == Removed(r) \/ RemoveFails(r)

Work == \/ \E r \in Requests : Serve(r)
        \/ \E k \in DOMAIN jobs : Install(k)

Idle == /\ \A r \in Requests : stage[r] \in {"answered", "lost"}
        /\ removing = {} /\ up
        /\ UNCHANGED vars

Next == \/ Work
        \/ \E r \in Requests : Arrive(r) \/ Sweep(r)
        \/ Crash \/ Boot \/ Idle

(***************************************************************************)
(* The event loop runs on, and every install and every build ends: the     *)
(* timers kill what does not.  Nothing obliges requests to come, the       *)
(* process to be killed or restarted, or a removal to finish.              *)
(***************************************************************************)
Fairness == WF_vars(Work)

Safe == Init /\ [][Next]_vars
Spec == Safe /\ Fairness
=============================================================================
