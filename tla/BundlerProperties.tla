-------------------------- MODULE BundlerProperties --------------------------
(***************************************************************************)
(* What the build service (Bundler.tla) guarantees about its children, the *)
(* resolution root its builds share, its disk and its answers.             *)
(***************************************************************************)
EXTENDS Bundler

Stages   == {"new", "queued", "write", "waiting", "granted", "child",
             "answered", "lost"}
Building == {"write", "waiting", "granted", "child"}

Children == {r \in Requests : stage[r] = "child"}
Holders  == {r \in Requests : stage[r] \in {"granted", "child"}}
Job      == [pkg : Packages, by : Requests, state : {"queued", "running", "settled"}]

\* The type of the service's state.
TypeOK ==
  /\ up \in BOOLEAN /\ faults \in Nat
  /\ stage \in [Requests -> Stages]
  /\ missing \in [Requests -> SUBSET Packages]
  /\ jobs \in Seq(Job)
  /\ available \in 0..Capacity /\ waiters \in Seq(Requests)
  /\ dirs \subseteq Requests /\ removing \subseteq Requests /\ left \subseteq Requests
  /\ resolved \subseteq Packages /\ spoiled \subseteq Packages

\* Never more build children than permits, whatever a burst of requests,
\* failing spawns and timeouts do to the semaphore (makeSemaphore).
BuildsBounded == Cardinality(Children) <= Capacity

\* A request waits at the gate only while every permit is in use: release()
\* loses no wake-up, and nobody who comes later finds a permit in the pool.
WaitOnlyWhenFull ==
  up /\ waiters # <<>> => available = 0 /\ Cardinality(Holders) = Capacity

\* At most one `bun add' runs in the resolution root, and installs settle in
\* the order they were queued (serialize).
InstallsSerial ==
  \A i, k \in DOMAIN jobs :
    i < k /\ jobs[k].state # "queued" => jobs[i].state = "settled"

\* A build goes on only with every dependency it declared in node_modules,
\* however long ago it looked, save a package whose install failed since
\* (ensureDeps looks once and then waits for its installs).
DepsResolve ==
  \A r \in Bundles :
    stage[r] \in Building => Declares[r] \subseteq resolved \cup spoiled

\* Build directories are ephemeral: each one on disk belongs to a build that
\* is under way, is being removed, or is one whose removal was reported as
\* failed; and no child runs without its own.
DirsOwned ==
  up => /\ dirs \subseteq {r \in Requests : stage[r] \in Building} \cup removing \cup left
        /\ Children \subseteq dirs

\* Every request the service has taken is answered unless the process dies
\* first, so the service comes to rest again and again: neither the install
\* chain nor the gate strands a request.
Answered ==
  []<>(\A r \in Requests : stage[r] \in {"new", "answered", "lost"})
=============================================================================
