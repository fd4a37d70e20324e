---------------------------- MODULE BundlerProofs ----------------------------
(***************************************************************************)
(* Proofs about Bundler.tla, for any requests, packages and permits.       *)
(***************************************************************************)
EXTENDS BundlerProperties, FiniteSetTheorems, SequenceTheorems, TLAPS

\* TypeOK but for the bound on the pool, which is the semaphore's to keep.
BasicTypes ==
  /\ up \in BOOLEAN /\ faults \in Nat
  /\ stage \in [Requests -> Stages]
  /\ missing \in [Requests -> SUBSET Packages]
  /\ jobs \in Seq(Job)
  /\ available \in Nat /\ waiters \in Seq(Requests)
  /\ dirs \subseteq Requests /\ removing \subseteq Requests /\ left \subseteq Requests
  /\ resolved \subseteq Packages /\ spoiled \subseteq Packages

\* One install of a request is on the chain at a time, and the request waits
\* for it.
JobsInv ==
  /\ \A k \in DOMAIN jobs :
       jobs[k].state # "settled" => stage[jobs[k].by] = "queued"
  /\ \A i, k \in DOMAIN jobs :
       /\ jobs[i].state # "settled" /\ jobs[k].state # "settled"
       /\ jobs[i].by = jobs[k].by
       => i = k

\* Permits in the pool and permits held add up; the queue at the gate holds
\* requests that wait, each once; nobody waits while the pool has a permit.
GateInv ==
  /\ available <= Capacity
  /\ ~up => \A r \in Requests : stage[r] \in {"new", "answered", "lost"}
  /\ up => /\ available + Cardinality(Holders) = Capacity
           /\ \A i \in DOMAIN waiters : stage[waiters[i]] = "waiting"
           /\ \A i, j \in DOMAIN waiters : waiters[i] = waiters[j] => i = j
           /\ waiters # <<>> => available = 0

\* What a build still lacks is on its list.
DepsInv ==
  \A r \in Bundles :
    /\ stage[r] = "queued" => Declares[r] \subseteq resolved \cup spoiled \cup missing[r]
    /\ stage[r] \in Building => Declares[r] \subseteq resolved \cup spoiled

IInv == BasicTypes /\ JobsInv /\ InstallsSerial /\ GateInv /\ DepsInv

-----------------------------------------------------------------------------
\* There is at least one permit.
LEMMA CapacityType == Capacity \in Nat \ {0}
  BY PermitsAssumption DEF Capacity

\* The requests that hold a permit can be counted.
LEMMA HoldersFinite == IsFiniteSet(Holders) /\ Cardinality(Holders) \in Nat
<1>1. Holders \in SUBSET Requests
  BY DEF Holders
<1> QED
  BY <1>1, RequestsAssumption, FS_Subset, FS_CardinalityType

\* What Continue does to the chain and to its request: the request moves on,
\* with at most one task added, the request's own.
Moved(r, todo, chain) ==
  \/ /\ jobs' = chain
     /\ \/ stage' = [stage EXCEPT ![r] = "answered"]
        \/ todo = {} /\ stage' = [stage EXCEPT ![r] = "write"]
  \/ /\ stage' = [stage EXCEPT ![r] = "queued"]
     /\ \E p \in todo :
          jobs' = Append(chain, [pkg |-> p, by |-> r, state |-> "queued"])

\* Continue moves its request on and leaves the rest well-typed.
LEMMA ContinueEffect ==
  ASSUME BasicTypes, NEW r \in Requests, NEW todo \in SUBSET Packages,
         NEW chain \in Seq(Job), Continue(r, todo, chain)
  PROVE  /\ missing' = [missing EXCEPT ![r] = todo]
         /\ Moved(r, todo, chain)
         /\ jobs' \in Seq(Job)
         /\ missing' \in [Requests -> SUBSET Packages]
         /\ stage' \in [Requests -> Stages]
<1>1. CASE todo = {}
  BY <1>1 DEF Continue, Moved, Become, BasicTypes, Stages
<1>2. CASE \E p \in todo \cap Invalid : jobs' = chain /\ Become(r, "answered")
  BY <1>2 DEF Continue, Moved, Become, BasicTypes, Stages
<1>3. ASSUME NEW p \in todo \ Invalid,
             jobs' = Append(chain, [pkg |-> p, by |-> r, state |-> "queued"]),
             Become(r, "queued")
      PROVE  /\ jobs' \in Seq(Job)
             /\ stage' = [stage EXCEPT ![r] = "queued"]
             /\ stage' \in [Requests -> Stages]
  <2>1. [pkg |-> p, by |-> r, state |-> "queued"] \in Job
    BY DEF Job
  <2> QED
    BY <1>3, <2>1, AppendProperties DEF Become, BasicTypes, Stages
<1> QED
  BY <1>1, <1>2, <1>3 DEF Continue, Moved, BasicTypes

-----------------------------------------------------------------------------
\* Release answers its holder and grants the first waiter, if any.
LEMMA ReleaseTypes ==
  ASSUME BasicTypes, NEW r \in Requests, Release(r)
  PROVE  /\ stage' \in [Requests -> Stages]
         /\ available' \in Nat /\ waiters' \in Seq(Requests)
<1>1. CASE waiters # <<>>
  <2>1. Head(waiters) \in Requests /\ Tail(waiters) \in Seq(Requests)
    BY <1>1, HeadTailProperties DEF BasicTypes
  <2> QED
    BY <1>1, <2>1 DEF Release, BasicTypes, Stages
<1>2. CASE waiters = <<>>
  BY <1>2 DEF Release, Become, BasicTypes, Stages
<1> QED
  BY <1>1, <1>2

\* Settling a task changes its state and nothing else on the chain.
LEMMA SettledType ==
  ASSUME BasicTypes, NEW k \in DOMAIN jobs
  PROVE  /\ Settled(k) \in Seq(Job) /\ Len(Settled(k)) = Len(jobs)
         /\ \A i \in DOMAIN jobs :
              /\ Settled(k)[i].by = jobs[i].by /\ Settled(k)[i].pkg = jobs[i].pkg
              /\ Settled(k)[i].state = IF i = k THEN "settled" ELSE jobs[i].state
         /\ jobs[k] \in Job
<1>1. jobs \in Seq(Job) /\ jobs[k] \in Job
  BY DEF BasicTypes
<1>2. [jobs[k] EXCEPT !.state = "settled"] \in Job
  BY <1>1 DEF Job
<1>3. Settled(k) \in Seq(Job) /\ Len(Settled(k)) = Len(jobs)
  BY <1>1, <1>2, ExceptSeq DEF Settled
<1>4. ASSUME NEW i \in DOMAIN jobs
      PROVE  /\ Settled(k)[i].by = jobs[i].by /\ Settled(k)[i].pkg = jobs[i].pkg
             /\ Settled(k)[i].state = IF i = k THEN "settled" ELSE jobs[i].state
  BY <1>1, <1>4 DEF Settled, Job
<1> QED
  BY <1>1, <1>3, <1>4

\* Every step of the service keeps its state well-typed.
LEMMA TypePreserved == BasicTypes /\ [Next]_vars => BasicTypes'
<1> SUFFICES ASSUME BasicTypes, [Next]_vars PROVE BasicTypes'
  OBVIOUS
<1> USE DEF requests, semaphore, disk, modules, process, vars
<1>1. ASSUME NEW r \in Requests, Refuse(r) PROVE BasicTypes'
  BY <1>1 DEF Refuse, Become, BasicTypes, Stages
<1>2. ASSUME NEW r \in Requests, AskToInstall(r) PROVE BasicTypes'
  <2>1. Declares[r] \in SUBSET Packages
    BY DeclaresAssumption
  <2> QED
    BY <1>2, <2>1, ContinueEffect DEF AskToInstall, BasicTypes
<1>3. ASSUME NEW r \in Requests, AskToBuild(r) PROVE BasicTypes'
  <2>1. Missing(r) \in SUBSET Packages
    BY DeclaresAssumption DEF Missing
  <2> QED
    BY <1>3, <2>1, ContinueEffect DEF AskToBuild, BasicTypes
<1>4. ASSUME NEW k \in DOMAIN jobs, StartInstall(k) PROVE BasicTypes'
  <2>1. jobs[k] \in Job
    BY SettledType
  <2>2. [jobs[k] EXCEPT !.state = "running"] \in Job
    BY <2>1 DEF Job
  <2>3. jobs' \in Seq(Job)
    BY <1>4, <2>2, ExceptSeq DEF StartInstall, BasicTypes
  <2> QED
    BY <1>4, <2>3 DEF StartInstall, BasicTypes
<1>5. ASSUME NEW k \in DOMAIN jobs, InstallWorks(k) PROVE BasicTypes'
  <2>1. jobs[k] \in Job /\ Settled(k) \in Seq(Job)
    BY SettledType
  <2>2. jobs[k].by \in Requests /\ jobs[k].pkg \in Packages
    BY <2>1 DEF Job
  <2>3. missing[jobs[k].by] \ {jobs[k].pkg} \in SUBSET Packages
    BY <2>2 DEF BasicTypes
  <2>4. Continue(jobs[k].by, missing[jobs[k].by] \ {jobs[k].pkg}, Settled(k))
    BY <1>5 DEF InstallWorks
  <2>5. /\ jobs' \in Seq(Job) /\ stage' \in [Requests -> Stages]
        /\ missing' \in [Requests -> SUBSET Packages]
    BY <2>1, <2>2, <2>3, <2>4, ContinueEffect
  <2> QED
    BY <1>5, <2>2, <2>5 DEF InstallWorks, BasicTypes
<1>6. ASSUME NEW k \in DOMAIN jobs, InstallFails(k) PROVE BasicTypes'
  <2>1. jobs[k] \in Job /\ Settled(k) \in Seq(Job)
    BY SettledType
  <2>2. jobs[k].by \in Requests /\ jobs[k].pkg \in Packages
    BY <2>1 DEF Job
  <2> QED
    BY <1>6, <2>1, <2>2 DEF InstallFails, Become, BasicTypes, Stages
<1>7. ASSUME NEW r \in Requests, WriteFails(r) PROVE BasicTypes'
  BY <1>7 DEF WriteFails, Become, BasicTypes, Stages
<1>8. ASSUME NEW r \in Requests, Acquire(r) PROVE BasicTypes'
  <2>1. Append(waiters, r) \in Seq(Requests)
    BY AppendProperties DEF BasicTypes
  <2>2. waiters' \in Seq(Requests)
    BY <1>8, <2>1 DEF Acquire, BasicTypes
  <2>3. available' \in Nat
    BY <1>8 DEF Acquire, BasicTypes
  <2>4. stage' \in [Requests -> Stages]
    BY <1>8 DEF Acquire, Become, BasicTypes, Stages
  <2> QED
    BY <1>8, <2>2, <2>3, <2>4 DEF Acquire, BasicTypes
<1>9. ASSUME NEW r \in Requests, Spawn(r) PROVE BasicTypes'
  BY <1>9 DEF Spawn, Become, BasicTypes, Stages
<1>10. ASSUME NEW r \in Requests, SpawnFails(r) \/ ChildExits(r) PROVE BasicTypes'
  BY <1>10, ReleaseTypes DEF SpawnFails, ChildExits, Cleanup, BasicTypes
<1>11. ASSUME NEW r \in Requests, Sweep(r) PROVE BasicTypes'
  BY <1>11 DEF Sweep, Removed, RemoveFails, BasicTypes
<1>12. CASE Crash
  <2>1. \A k \in DOMAIN jobs : jobs[k].pkg \in Packages
    BY SettledType DEF Job
  <2>2. Torn \subseteq Packages
    BY <2>1 DEF Torn
  <2>3. dirs' \subseteq Requests
    BY <1>12 DEF Crash, BasicTypes
  <2>4. stage' \in [Requests -> Stages]
    BY <1>12 DEF Crash, BasicTypes, Stages
  <2>5. up' \in BOOLEAN
    BY <1>12, Zenon DEF Crash
  <2>7. faults' \in Nat
    BY <1>12 DEF Crash, BasicTypes
  <2>6. jobs' \in Seq(Job)
    BY <1>12 DEF Crash
  <2> QED
    BY <1>12, <2>2, <2>3, <2>4, <2>5, <2>6, <2>7 DEF Crash, BasicTypes
<1>13. CASE Boot
  BY <1>13, CapacityType DEF Boot, BasicTypes
<1>14. CASE Idle \/ UNCHANGED vars
  BY <1>14 DEF Idle, BasicTypes
<1> QED
  BY <1>1, <1>2, <1>3, <1>4, <1>5, <1>6, <1>7, <1>8, <1>9, <1>10, <1>11,
     <1>12, <1>13, <1>14
  DEF Next, Work, Arrive, Serve, Install

-----------------------------------------------------------------------------
(***************************************************************************)
(* The install chain.                                                      *)
(***************************************************************************)
LEMMA JobsKept ==
  ASSUME BasicTypes, JobsInv, InstallsSerial, UNCHANGED jobs,
         \A q \in Requests : stage[q] = "queued" => stage'[q] = "queued"
  PROVE  JobsInv' /\ InstallsSerial'
<1>1. \A k \in DOMAIN jobs : jobs[k].by \in Requests
  BY SettledType DEF Job
<1> QED
  BY <1>1 DEF JobsInv, InstallsSerial

\* A chain on which r has nothing left to wait for stays in order when
\* Continue moves r on, and so does its bookkeeping.
LEMMA ContinueKeepsJobs ==
  ASSUME BasicTypes, NEW r \in Requests, NEW todo \in SUBSET Packages,
         NEW chain \in Seq(Job), Continue(r, todo, chain),
         \A k \in DOMAIN chain : chain[k].state # "settled" =>
            chain[k].by # r /\ stage[chain[k].by] = "queued",
         \A i, k \in DOMAIN chain :
            /\ chain[i].state # "settled" /\ chain[k].state # "settled"
            /\ chain[i].by = chain[k].by
            => i = k,
         \A i, k \in DOMAIN chain :
            i < k /\ chain[k].state # "queued" => chain[i].state = "settled"
  PROVE  JobsInv' /\ InstallsSerial'
<1>0. Moved(r, todo, chain)
  BY ContinueEffect
<1>1. \A k \in DOMAIN chain : chain[k].by \in Requests
  <2> SUFFICES ASSUME NEW k \in DOMAIN chain PROVE chain[k].by \in Requests
    OBVIOUS
  <2>1. chain[k] \in Job
    BY ONLY chain \in Seq(Job), k \in DOMAIN chain
  <2> QED
    BY ONLY <2>1 DEF Job
<1>2. \A q \in Requests \ {r} : stage'[q] = stage[q]
  BY ONLY <1>0, BasicTypes, r \in Requests DEF BasicTypes, Moved
<1>3. CASE jobs' = chain
  BY <1>1, <1>2, <1>3 DEF JobsInv, InstallsSerial
<1>4. ASSUME NEW p \in todo,
             jobs' = Append(chain, [pkg |-> p, by |-> r, state |-> "queued"]),
             stage' = [stage EXCEPT ![r] = "queued"]
      PROVE  JobsInv' /\ InstallsSerial'
  <2> DEFINE job == [pkg |-> p, by |-> r, state |-> "queued"]
  <2>1. job \in Job
    BY DEF Job
  <2>2. /\ Len(jobs') = Len(chain) + 1
        /\ \A i \in 1..Len(chain) : jobs'[i] = chain[i]
        /\ jobs'[Len(chain) + 1] = job
        /\ jobs' \in Seq(Job)
    BY <1>4, <2>1, AppendProperties
  <2>3. DOMAIN chain = 1..Len(chain) /\ Len(chain) \in Nat
    OBVIOUS
  <2>4. DOMAIN jobs' = DOMAIN chain \cup {Len(chain) + 1}
    BY <2>2, <2>3
  <2>5. stage'[r] = "queued" /\ job.state = "queued" /\ job.by = r
    BY <1>4 DEF BasicTypes
  <2> HIDE DEF job
  <2>6. JobsInv'
    BY <1>1, <1>2, <2>2, <2>3, <2>4, <2>5 DEF JobsInv
  <2>7. InstallsSerial'
    BY <2>2, <2>3, <2>4, <2>5 DEF InstallsSerial
  <2> QED
    BY <2>6, <2>7
<1> QED
  BY <1>0, <1>3, <1>4 DEF Moved

-----------------------------------------------------------------------------
(***************************************************************************)
(* The gate.                                                               *)
(***************************************************************************)
LEMMA GateKept ==
  ASSUME BasicTypes, GateInv, up, UNCHANGED <<up, semaphore>>, Holders' = Holders,
         \A q \in Requests : stage[q] = "waiting" => stage'[q] = "waiting"
  PROVE  GateInv'
<1>1. \A i \in DOMAIN waiters : waiters[i] \in Requests
  BY DEF BasicTypes
<1>2. UNCHANGED <<up, available, waiters>>
  BY DEF semaphore
<1> QED
  BY <1>1, <1>2 DEF GateInv

\* Either the pool has one permit fewer and r has it, or r is last in line.
LEMMA AcquireKeepsGate ==
  ASSUME BasicTypes, GateInv, NEW r \in Requests, Acquire(r)
  PROVE  GateInv'
<1>1. up /\ up' /\ stage[r] = "write"
  BY DEF Acquire, At, process
<1>2. available \in Nat /\ waiters \in Seq(Requests) /\ stage \in [Requests -> Stages]
  BY DEF BasicTypes
<1>3. CASE available > 0
  <2>1. /\ available' = available - 1 /\ waiters' = waiters
        /\ stage' = [stage EXCEPT ![r] = "granted"]
    BY <1>3 DEF Acquire, Become
  <2>2. waiters = <<>>
    BY <1>1, <1>2, <1>3 DEF GateInv
  <2>3. Holders' = Holders \cup {r} /\ r \notin Holders
    BY <1>1, <1>2, <2>1 DEF Holders
  <2>4. Cardinality(Holders') = Cardinality(Holders) + 1
    BY <2>3, HoldersFinite, FS_AddElement
  <2> QED
    BY <1>1, <1>2, <1>3, <2>1, <2>2, <2>4, HoldersFinite, CapacityType DEF GateInv
<1>4. CASE ~(available > 0)
  <2>1. /\ waiters' = Append(waiters, r) /\ available' = available
        /\ stage' = [stage EXCEPT ![r] = "waiting"]
    BY <1>4 DEF Acquire, Become
  <2>2. Holders' = Holders
    BY <1>1, <1>2, <2>1 DEF Holders
  <2>3. /\ Len(waiters') = Len(waiters) + 1
        /\ \A i \in 1..Len(waiters) : waiters'[i] = waiters[i]
        /\ waiters'[Len(waiters) + 1] = r
        /\ waiters' \in Seq(Requests)
    BY <1>2, <2>1, AppendProperties
  <2>4. DOMAIN waiters' = DOMAIN waiters \cup {Len(waiters) + 1}
    BY <1>2, <2>3
  <2>5. \A i \in DOMAIN waiters : waiters[i] # r /\ stage[waiters[i]] = "waiting"
    BY <1>1 DEF GateInv
  <2>6. \A i \in DOMAIN waiters' : stage'[waiters'[i]] = "waiting"
    BY <1>2, <2>1, <2>3, <2>4, <2>5
  <2>7. \A i, j \in DOMAIN waiters' : waiters'[i] = waiters'[j] => i = j
    BY <1>1, <1>2, <2>3, <2>4, <2>5 DEF GateInv
  <2> QED
    BY <1>1, <1>2, <1>4, <2>1, <2>2, <2>6, <2>7 DEF GateInv
<1> QED
  BY <1>3, <1>4

\* A permit released goes to the first in line, who was waiting, or, when
\* nobody is, back to the pool.
LEMMA ReleaseKeepsGate ==
  ASSUME BasicTypes, GateInv, up, up' = up, NEW r \in Holders, Release(r)
  PROVE  /\ GateInv'
         /\ \A q \in Requests :
              \/ stage'[q] = stage[q]
              \/ q = r /\ stage'[q] = "answered"
              \/ stage[q] = "waiting" /\ stage'[q] = "granted"
<1>1. r \in Requests /\ stage[r] \in {"granted", "child"}
  BY DEF Holders
<1>2. available \in Nat /\ waiters \in Seq(Requests) /\ stage \in [Requests -> Stages]
  BY DEF BasicTypes
<1>3. CASE waiters # <<>>
  <2> DEFINE h == Head(waiters)
  <2>1. /\ waiters' = Tail(waiters) /\ available' = available
        /\ stage' = [stage EXCEPT ![r] = "answered", ![h] = "granted"]
    BY <1>3 DEF Release
  <2>2. /\ h \in Requests /\ h = waiters[1] /\ 1 \in DOMAIN waiters
        /\ Len(waiters') = Len(waiters) - 1 /\ waiters' \in Seq(Requests)
        /\ \A i \in 1..Len(waiters') : waiters'[i] = waiters[i+1]
    BY <1>2, <1>3, <2>1, HeadTailProperties
  <2> HIDE DEF h
  <2>3. stage[h] = "waiting" /\ h # r
    BY <1>1, <2>2 DEF GateInv
  <2>4. \A q \in Requests :
          stage'[q] = IF q = r THEN "answered" ELSE IF q = h THEN "granted" ELSE stage[q]
    BY <1>1, <1>2, <2>1, <2>2, <2>3
  <2>5. Holders' = (Holders \ {r}) \cup {h} /\ h \notin Holders
    BY <1>1, <2>2, <2>3, <2>4 DEF Holders
  <2>6. Cardinality(Holders') = Cardinality(Holders)
    <3>1. /\ IsFiniteSet(Holders \ {r})
          /\ Cardinality(Holders \ {r}) = Cardinality(Holders) - 1
      BY HoldersFinite, FS_RemoveElement
    <3>2. Cardinality(Holders') = Cardinality(Holders \ {r}) + 1
      BY <2>5, <3>1, FS_AddElement
    <3> QED
      BY <3>1, <3>2, HoldersFinite
  <2>7. \A i \in DOMAIN waiters' : i + 1 \in DOMAIN waiters /\ waiters'[i] = waiters[i+1]
    BY <1>2, <2>2
  <2>8. \A i \in DOMAIN waiters' : i \in Nat /\ i > 0 /\ waiters'[i] \in Requests
    BY <2>2
  <2>9. \A i \in DOMAIN waiters' : waiters'[i] # h /\ stage[waiters'[i]] = "waiting"
    BY <2>2, <2>7, <2>8 DEF GateInv
  <2>10. \A i \in DOMAIN waiters' : stage'[waiters'[i]] = "waiting"
    BY <1>1, <2>4, <2>8, <2>9
  <2>11. \A i, j \in DOMAIN waiters' : waiters'[i] = waiters'[j] => i = j
    BY <2>7, <2>8 DEF GateInv
  <2>12. GateInv'
    BY <1>3, <2>1, <2>6, <2>10, <2>11 DEF GateInv
  <2> QED
    BY <2>3, <2>4, <2>12
<1>4. CASE waiters = <<>>
  <2>1. /\ waiters' = <<>> /\ available' = available + 1
        /\ stage' = [stage EXCEPT ![r] = "answered"]
    BY <1>4 DEF Release, Become
  <2>2. Holders' = Holders \ {r}
    BY <1>1, <1>2, <2>1 DEF Holders
  <2>3. Cardinality(Holders') = Cardinality(Holders) - 1 /\ Cardinality(Holders') \in Nat
    <3>1. /\ IsFiniteSet(Holders \ {r})
          /\ Cardinality(Holders \ {r}) = Cardinality(Holders) - 1
      BY HoldersFinite, FS_RemoveElement
    <3> QED
      BY <2>2, <3>1, FS_CardinalityType
  <2>4. GateInv'
    BY <1>2, <2>1, <2>3, HoldersFinite, CapacityType DEF GateInv
  <2> QED
    BY <1>1, <1>2, <2>1, <2>4
<1> QED
  BY <1>3, <1>4

\* Continue takes a request that neither waits at the gate nor holds a permit.
LEMMA ContinueKeepsGate ==
  ASSUME BasicTypes, GateInv, up, UNCHANGED <<up, semaphore>>,
         NEW r \in Requests, NEW todo \in SUBSET Packages, NEW chain \in Seq(Job),
         Continue(r, todo, chain), stage[r] \in {"new", "queued"}
  PROVE  GateInv'
<1>1. Moved(r, todo, chain)
  BY ContinueEffect
<1>2. \A q \in Requests : \/ stage'[q] = stage[q]
                          \/ q = r /\ stage'[q] \in {"answered", "write", "queued"}
  BY <1>1 DEF Moved, BasicTypes
<1>3. Holders' = Holders
  BY <1>2 DEF Holders
<1> QED
  BY <1>2, <1>3, GateKept

-----------------------------------------------------------------------------
(***************************************************************************)
(* What resolves.                                                          *)
(***************************************************************************)
LEMMA DepsKept ==
  ASSUME BasicTypes, DepsInv, UNCHANGED missing,
         resolved \cup spoiled \subseteq resolved' \cup spoiled',
         \A q \in Requests : /\ stage'[q] = "queued" => stage[q] = "queued"
                             /\ stage'[q] \in Building => stage[q] \in Building
  PROVE  DepsInv'
<1>1. Bundles \subseteq Requests
  BY DEF Requests
<1> QED
  BY <1>1 DEF DepsInv

\* What a build lacks stays on its list when it continues.
LEMMA ContinueKeepsDeps ==
  ASSUME BasicTypes, DepsInv, NEW r \in Requests, NEW todo \in SUBSET Packages,
         NEW chain \in Seq(Job), Continue(r, todo, chain),
         resolved \subseteq resolved', spoiled' = spoiled,
         r \in Bundles => Declares[r] \subseteq resolved' \cup spoiled' \cup todo
  PROVE  DepsInv'
<1>1. Moved(r, todo, chain) /\ missing' = [missing EXCEPT ![r] = todo]
  BY ContinueEffect
<1>2. Bundles \subseteq Requests
  BY DEF Requests
<1>3. \/ stage'[r] = "answered"
      \/ stage'[r] = "queued"
      \/ stage'[r] = "write" /\ todo = {}
  BY <1>1 DEF Moved, BasicTypes
<1>4. \A q \in Requests \ {r} : stage'[q] = stage[q] /\ missing'[q] = missing[q]
  BY <1>1 DEF Moved, BasicTypes
<1>5. missing'[r] = todo
  BY <1>1 DEF BasicTypes
<1>6. ASSUME NEW q \in Bundles, q # r
      PROVE  /\ stage'[q] = "queued" =>
                   Declares[q] \subseteq resolved' \cup spoiled' \cup missing'[q]
             /\ stage'[q] \in Building => Declares[q] \subseteq resolved' \cup spoiled'
  BY <1>2, <1>4, <1>6 DEF DepsInv
<1>7. ASSUME r \in Bundles
      PROVE  /\ stage'[r] = "queued" =>
                   Declares[r] \subseteq resolved' \cup spoiled' \cup missing'[r]
             /\ stage'[r] \in Building => Declares[r] \subseteq resolved' \cup spoiled'
  BY <1>3, <1>5, <1>7 DEF Building
<1> QED
  BY <1>6, <1>7 DEF DepsInv

-----------------------------------------------------------------------------
\* A service that starts has nothing queued and every permit.
LEMMA InitInv == Init => IInv
<1> SUFFICES ASSUME Init PROVE IInv
  OBVIOUS
<1>1. jobs \in Seq(Job) /\ waiters \in Seq(Requests) /\ DOMAIN jobs = {} /\ waiters = <<>>
      /\ DOMAIN waiters = {}
  BY DEF Init
<1>2. up = TRUE
  BY DEF Init
<1>3. stage \in [Requests -> Stages] /\ missing \in [Requests -> SUBSET Packages]
  BY DEF Init, Stages
<1>4. BasicTypes
  <2>1. up \in BOOLEAN
    BY <1>2, Zenon
  <2> QED
    BY <1>1, <1>3, <2>1, CapacityType, BakedAssumption DEF Init, BasicTypes
<1>5. JobsInv /\ InstallsSerial
  BY <1>1 DEF JobsInv, InstallsSerial
<1>6. Holders = {}
  BY DEF Init, Holders
<1>7. Cardinality(Holders) = 0
  BY <1>6, FS_EmptySet
<1>8. GateInv
  BY <1>1, <1>2, <1>7, CapacityType DEF Init, GateInv
<1>9. DepsInv
  BY RequestsAssumption DEF Init, DepsInv, Building, Requests
<1> QED
  BY <1>4, <1>5, <1>8, <1>9 DEF IInv

\* Every step keeps the invariant, one case for each action.
LEMMA StepInv == IInv /\ [Next]_vars => IInv'
<1> SUFFICES ASSUME IInv, [Next]_vars PROVE IInv'
  OBVIOUS
<1> USE DEF requests, semaphore, disk, modules, process, vars
<1>0. /\ BasicTypes /\ JobsInv /\ InstallsSerial /\ GateInv /\ DepsInv
      /\ stage \in [Requests -> Stages]
  BY DEF IInv, BasicTypes
<1> DEFINE Kept == JobsInv' /\ InstallsSerial' /\ GateInv' /\ DepsInv'
<1>1. ASSUME NEW r \in Requests, Refuse(r) PROVE Kept
  <2>1. /\ up /\ stage[r] = "new" /\ stage' = [stage EXCEPT ![r] = "answered"]
        /\ UNCHANGED <<up, missing, jobs, available, waiters, resolved, spoiled>>
    BY <1>1 DEF Refuse, At, Become
  <2>2. \A q \in Requests : stage'[q] = IF q = r THEN "answered" ELSE stage[q]
    BY <1>0, <2>1
  <2>3. Holders' = Holders
    BY <2>1, <2>2 DEF Holders
  <2>4. JobsInv' /\ InstallsSerial'
    BY <1>0, <2>1, <2>2, JobsKept
  <2>5. GateInv'
    BY <1>0, <2>1, <2>2, <2>3, GateKept
  <2>6. DepsInv'
    BY <1>0, <2>1, <2>2, DepsKept DEF Building
  <2> QED
    BY <2>4, <2>5, <2>6
<1>2. ASSUME NEW r \in Requests, NEW todo \in SUBSET Packages, At(r, "new"),
             Continue(r, todo, jobs),
             r \in Bundles => Declares[r] \subseteq resolved \cup todo,
             UNCHANGED <<semaphore, disk, modules, process>>
      PROVE  Kept
  <2>1. up /\ stage[r] = "new" /\ jobs \in Seq(Job)
    BY <1>0, <1>2 DEF At, BasicTypes
  <2>2. \A k \in DOMAIN jobs : jobs[k].state # "settled" =>
           jobs[k].by # r /\ stage[jobs[k].by] = "queued"
    BY <1>0, <2>1 DEF JobsInv
  <2>3. \A i, k \in DOMAIN jobs :
            /\ jobs[i].state # "settled" /\ jobs[k].state # "settled"
            /\ jobs[i].by = jobs[k].by
            => i = k
    BY <1>0 DEF JobsInv
  <2>4. \A i, k \in DOMAIN jobs :
            i < k /\ jobs[k].state # "queued" => jobs[i].state = "settled"
    BY <1>0 DEF InstallsSerial
  <2>5. JobsInv' /\ InstallsSerial'
    BY <1>0, <1>2, <2>1, <2>2, <2>3, <2>4, ContinueKeepsJobs
  <2>6. GateInv'
    BY <1>0, <1>2, <2>1, ContinueKeepsGate
  <2>7. DepsInv'
    BY <1>0, <1>2, <2>1, ContinueKeepsDeps
  <2> QED
    BY <2>5, <2>6, <2>7
<1>3. ASSUME NEW r \in Requests, AskToInstall(r) \/ AskToBuild(r) PROVE Kept
  <2>1. CASE AskToInstall(r)
    <3>1. Declares[r] \in SUBSET Packages
      BY DeclaresAssumption
    <3>2. r \in Bundles => Declares[r] \subseteq resolved \cup Declares[r]
      OBVIOUS
    <3> QED
      BY <1>2, <2>1, <3>1, <3>2 DEF AskToInstall
  <2>2. CASE AskToBuild(r)
    <3>1. Missing(r) \in SUBSET Packages
      BY DeclaresAssumption DEF Missing
    <3>2. r \in Bundles => Declares[r] \subseteq resolved \cup Missing(r)
      BY DEF Missing
    <3> QED
      BY <1>2, <2>2, <3>1, <3>2 DEF AskToBuild
  <2> QED
    BY <1>3, <2>1, <2>2
<1>4. ASSUME NEW k \in DOMAIN jobs, StartInstall(k) PROVE Kept
  <2>1. /\ up /\ MayStart(k) /\ jobs' = [jobs EXCEPT ![k].state = "running"]
        /\ UNCHANGED <<up, stage, missing, available, waiters, resolved, spoiled>>
    BY <1>4 DEF StartInstall
  <2>2. jobs \in Seq(Job) /\ jobs[k] \in Job
    BY <1>0, SettledType DEF BasicTypes
  <2>3. /\ DOMAIN jobs' = DOMAIN jobs
        /\ \A i \in DOMAIN jobs :
             /\ jobs'[i].by = jobs[i].by
             /\ jobs'[i].state = IF i = k THEN "running" ELSE jobs[i].state
    BY <2>1, <2>2 DEF Job
  <2>4. jobs[k].state = "queued" /\ (k > 1 => jobs[k-1].state = "settled")
    BY <2>1 DEF MayStart
  <2>5. JobsInv'
    BY <1>0, <2>1, <2>3, <2>4 DEF JobsInv
  <2>6. DOMAIN jobs \subseteq Nat
    BY <2>2
  <2>7. \A i \in DOMAIN jobs : i < k => jobs[i].state = "settled"
    <3> SUFFICES ASSUME NEW i \in DOMAIN jobs, i < k PROVE jobs[i].state = "settled"
      OBVIOUS
    <3>1. k - 1 \in DOMAIN jobs /\ jobs[k-1].state = "settled"
      BY <2>2, <2>4
    <3> QED
      BY <1>0, <2>6, <3>1 DEF InstallsSerial
  <2>8. InstallsSerial'
    BY <1>0, <2>3, <2>4, <2>6, <2>7 DEF InstallsSerial
  <2>9. Holders' = Holders
    BY <2>1 DEF Holders
  <2>10. GateInv'
    BY <1>0, <2>1, <2>9, GateKept
  <2>11. DepsInv'
    BY <1>0, <2>1, DepsKept
  <2> QED
    BY <2>5, <2>8, <2>10, <2>11
<1>5. ASSUME NEW k \in DOMAIN jobs, InstallWorks(k) \/ InstallFails(k)
      PROVE  /\ jobs[k].by \in Requests /\ jobs[k].pkg \in Packages
             /\ up /\ jobs[k].state = "running"
             /\ stage[jobs[k].by] = "queued"
             /\ Settled(k) \in Seq(Job) /\ DOMAIN Settled(k) = DOMAIN jobs
             /\ \A i \in DOMAIN jobs : Settled(k)[i].state # "settled" =>
                  Settled(k)[i].by # jobs[k].by /\ stage[Settled(k)[i].by] = "queued"
             /\ \A i, j \in DOMAIN jobs :
                  /\ Settled(k)[i].state # "settled" /\ Settled(k)[j].state # "settled"
                  /\ Settled(k)[i].by = Settled(k)[j].by
                  => i = j
             /\ \A i, j \in DOMAIN jobs :
                  i < j /\ Settled(k)[j].state # "queued" => Settled(k)[i].state = "settled"
  <2>1. up /\ jobs[k].state = "running"
    BY <1>5 DEF InstallWorks, InstallFails
  <2>2. /\ Settled(k) \in Seq(Job) /\ Len(Settled(k)) = Len(jobs) /\ jobs \in Seq(Job)
        /\ \A i \in DOMAIN jobs :
              /\ Settled(k)[i].by = jobs[i].by
              /\ Settled(k)[i].state = IF i = k THEN "settled" ELSE jobs[i].state
        /\ jobs[k] \in Job
    BY <1>0, SettledType DEF BasicTypes
  <2>3. jobs[k].by \in Requests /\ jobs[k].pkg \in Packages
    BY <2>2 DEF Job
  <2>4. DOMAIN Settled(k) = DOMAIN jobs
    BY <2>2
  <2>5. stage[jobs[k].by] = "queued"
    BY <1>0, <2>1 DEF JobsInv
  <2>6. \A i \in DOMAIN jobs : Settled(k)[i].state # "settled" =>
           Settled(k)[i].by # jobs[k].by /\ stage[Settled(k)[i].by] = "queued"
    BY <1>0, <2>1, <2>2 DEF JobsInv
  <2>7. \A i, j \in DOMAIN jobs :
           /\ Settled(k)[i].state # "settled" /\ Settled(k)[j].state # "settled"
           /\ Settled(k)[i].by = Settled(k)[j].by
           => i = j
    BY <1>0, <2>2 DEF JobsInv
  <2>8. \A i, j \in DOMAIN jobs :
           i < j /\ Settled(k)[j].state # "queued" => Settled(k)[i].state = "settled"
    BY <1>0, <2>1, <2>2 DEF InstallsSerial
  <2> QED
    BY <2>1, <2>2, <2>3, <2>4, <2>5, <2>6, <2>7, <2>8
<1>6. ASSUME NEW k \in DOMAIN jobs, InstallWorks(k) PROVE Kept
  <2> DEFINE r == jobs[k].by
  <2> DEFINE todo == missing[r] \ {jobs[k].pkg}
  <2>1. /\ Continue(r, todo, Settled(k)) /\ resolved' = resolved \cup {jobs[k].pkg}
        /\ UNCHANGED <<up, available, waiters, spoiled>>
    BY <1>6 DEF InstallWorks
  <2>2. r \in Requests /\ stage[r] = "queued" /\ up
    BY <1>5, <1>6
  <2>3. todo \in SUBSET Packages
    BY <1>0, <2>2 DEF BasicTypes
  <2>4. JobsInv' /\ InstallsSerial'
    BY <1>0, <1>5, <1>6, <2>1, <2>2, <2>3, ContinueKeepsJobs
  <2>5. Settled(k) \in Seq(Job)
    BY <1>5, <1>6
  <2>6. GateInv'
    BY <1>0, <2>1, <2>2, <2>3, <2>5, ContinueKeepsGate
  <2>7. r \in Bundles => Declares[r] \subseteq resolved' \cup spoiled' \cup todo
    BY <1>0, <2>1, <2>2 DEF DepsInv
  <2>8. DepsInv'
    BY <1>0, <2>1, <2>2, <2>3, <2>5, <2>7, ContinueKeepsDeps
  <2> QED
    BY <2>4, <2>6, <2>8
<1>7. ASSUME NEW k \in DOMAIN jobs, InstallFails(k) PROVE Kept
  <2> DEFINE r == jobs[k].by
  <2>1. /\ jobs' = Settled(k) /\ stage' = [stage EXCEPT ![r] = "answered"]
        /\ UNCHANGED <<up, missing, available, waiters>>
    BY <1>7 DEF InstallFails, Become
  <2>2. r \in Requests /\ stage[r] = "queued" /\ up
    BY <1>5, <1>7
  <2>3. \A q \in Requests : stage'[q] = IF q = r THEN "answered" ELSE stage[q]
    BY <1>0, <2>1, <2>2
  <2>4. \A i \in DOMAIN jobs : Settled(k)[i].by \in Requests
    BY <1>0, SettledType DEF Job
  <2>5. JobsInv' /\ InstallsSerial'
    BY <1>5, <1>7, <2>1, <2>3, <2>4 DEF JobsInv, InstallsSerial
  <2>6. Holders' = Holders
    BY <2>2, <2>3 DEF Holders
  <2>7. GateInv'
    BY <1>0, <2>1, <2>2, <2>3, <2>6, GateKept
  <2>8. resolved \cup spoiled \subseteq resolved' \cup spoiled'
    BY <1>7 DEF InstallFails
  <2>9. DepsInv'
    BY <1>0, <2>1, <2>3, <2>8, DepsKept DEF Building
  <2> QED
    BY <2>5, <2>7, <2>9
<1>8. ASSUME NEW r \in Requests, WriteFails(r) PROVE Kept
  <2>1. /\ up /\ stage[r] = "write" /\ stage' = [stage EXCEPT ![r] = "answered"]
        /\ UNCHANGED <<up, missing, jobs, available, waiters, resolved, spoiled>>
    BY <1>8 DEF WriteFails, At, Become
  <2>2. \A q \in Requests : stage'[q] = IF q = r THEN "answered" ELSE stage[q]
    BY <1>0, <2>1
  <2>3. Holders' = Holders
    BY <2>1, <2>2 DEF Holders
  <2>4. JobsInv' /\ InstallsSerial'
    BY <1>0, <2>1, <2>2, JobsKept
  <2>5. GateInv'
    BY <1>0, <2>1, <2>2, <2>3, GateKept
  <2>6. DepsInv'
    BY <1>0, <2>1, <2>2, DepsKept DEF Building
  <2> QED
    BY <2>4, <2>5, <2>6
<1>9. ASSUME NEW r \in Requests, Acquire(r) PROVE Kept
  <2>1. /\ stage[r] = "write" /\ stage' \in {[stage EXCEPT ![r] = "granted"],
                                            [stage EXCEPT ![r] = "waiting"]}
        /\ UNCHANGED <<missing, jobs, resolved, spoiled>>
    BY <1>9 DEF Acquire, At, Become
  <2>2. /\ \A q \in Requests \ {r} : stage'[q] = stage[q]
        /\ stage'[r] \in {"granted", "waiting"}
    BY <1>0, <2>1
  <2>3. JobsInv' /\ InstallsSerial'
    BY <1>0, <2>1, <2>2, JobsKept
  <2>4. GateInv'
    BY <1>0, <1>9, AcquireKeepsGate
  <2>5. DepsInv'
    BY <1>0, <2>1, <2>2, DepsKept DEF Building
  <2> QED
    BY <2>3, <2>4, <2>5
<1>10. ASSUME NEW r \in Requests, Spawn(r) PROVE Kept
  <2>1. /\ up /\ stage[r] = "granted" /\ stage' = [stage EXCEPT ![r] = "child"]
        /\ UNCHANGED <<up, missing, jobs, available, waiters, resolved, spoiled>>
    BY <1>10 DEF Spawn, At, Become
  <2>2. \A q \in Requests : stage'[q] = IF q = r THEN "child" ELSE stage[q]
    BY <1>0, <2>1
  <2>3. Holders' = Holders
    BY <2>1, <2>2 DEF Holders
  <2>4. JobsInv' /\ InstallsSerial'
    BY <1>0, <2>1, <2>2, JobsKept
  <2>5. GateInv'
    BY <1>0, <2>1, <2>2, <2>3, GateKept
  <2>6. DepsInv'
    BY <1>0, <2>1, <2>2, DepsKept DEF Building
  <2> QED
    BY <2>4, <2>5, <2>6
<1>11. ASSUME NEW r \in Requests, SpawnFails(r) \/ ChildExits(r) PROVE Kept
  <2>1. /\ up /\ r \in Holders /\ Release(r)
        /\ UNCHANGED <<up, missing, jobs, resolved, spoiled>>
    BY <1>11 DEF SpawnFails, ChildExits, At, Holders
  <2>2. /\ GateInv'
        /\ \A q \in Requests :
             \/ stage'[q] = stage[q]
             \/ q = r /\ stage'[q] = "answered"
             \/ stage[q] = "waiting" /\ stage'[q] = "granted"
    BY <1>0, <2>1, ReleaseKeepsGate
  <2>3. stage[r] \in {"granted", "child"}
    BY <2>1 DEF Holders
  <2>4. JobsInv' /\ InstallsSerial'
    BY <1>0, <2>1, <2>2, <2>3, JobsKept
  <2>5. DepsInv'
    BY <1>0, <2>1, <2>2, DepsKept DEF Building
  <2> QED
    BY <2>2, <2>4, <2>5
<1>12. ASSUME UNCHANGED <<up, stage, missing, jobs, available, waiters, resolved, spoiled>>
       PROVE  Kept
  BY <1>0, <1>12 DEF JobsInv, InstallsSerial, GateInv, DepsInv, Holders
<1>13. ASSUME Crash PROVE Kept
  <2>1. /\ ~up' /\ jobs' = <<>> /\ DOMAIN jobs' = {} /\ available' = available
        /\ stage' = [r \in Requests |-> IF stage[r] \in {"new", "answered"}
                                        THEN stage[r] ELSE "lost"]
    BY <1>13 DEF Crash
  <2>2. \A r \in Requests : stage'[r] \in {"new", "answered", "lost"}
    BY <2>1
  <2>3. JobsInv' /\ InstallsSerial'
    BY <2>1 DEF JobsInv, InstallsSerial
  <2>4. GateInv'
    BY <1>0, <2>1, <2>2 DEF GateInv
  <2>5. DepsInv'
    BY <2>2 DEF DepsInv, Building, Requests
  <2> QED
    BY <2>3, <2>4, <2>5
<1>14. ASSUME Boot PROVE Kept
  <2>1. /\ ~up /\ up' /\ available' = Capacity /\ waiters' = <<>>
        /\ UNCHANGED <<stage, missing, jobs, resolved, spoiled>>
    BY <1>14 DEF Boot
  <2>2. \A r \in Requests : stage[r] \in {"new", "answered", "lost"}
    BY <1>0, <2>1 DEF GateInv
  <2>3. Holders' = {}
    BY <2>1, <2>2 DEF Holders
  <2>4. Cardinality(Holders') = 0
    BY <2>3, FS_EmptySet
  <2>5. GateInv'
    BY <2>1, <2>4, CapacityType DEF GateInv
  <2>6. JobsInv' /\ InstallsSerial' /\ DepsInv'
    BY <1>0, <2>1 DEF JobsInv, InstallsSerial, DepsInv
  <2> QED
    BY <2>5, <2>6
<1>15. ASSUME NEW r \in Requests, Sweep(r) PROVE Kept
  BY <1>12, <1>15 DEF Sweep, Removed, RemoveFails
<1>16. ASSUME Idle \/ UNCHANGED vars PROVE Kept
  BY <1>12, <1>16 DEF Idle
<1>17. Kept
  BY <1>1, <1>3, <1>4, <1>6, <1>7, <1>8, <1>9, <1>10, <1>11, <1>13, <1>14,
     <1>15, <1>16
  DEF Next, Work, Arrive, Serve, Install
<1>18. BasicTypes'
  BY <1>0, TypePreserved
<1> QED
  BY <1>17, <1>18 DEF IInv

\* The invariant holds whatever is fair.
LEMMA InvHolds == Safe => []IInv
<1> QED
  BY InitInv, StepInv, PTL DEF Safe

-----------------------------------------------------------------------------
(***************************************************************************)
(* The build directories.                                                  *)
(***************************************************************************)
InPlace == {"waiting", "granted", "child"}

\* A directory belongs to a build under way or to a removal, done badly or to
\* be done; a build past its writing has one; only that of an answered request
\* is being removed, and nothing is by a process that is not there.
DirsInv ==
  /\ up => /\ dirs \subseteq {r \in Requests : stage[r] \in Building} \cup removing \cup left
           /\ {r \in Requests : stage[r] \in InPlace} \subseteq dirs
           /\ \A r \in removing : stage[r] = "answered"
  /\ ~up => removing = {}

\* Requests may move on among the stages before the directory, or among those
\* that have it.
LEMMA DirsKept ==
  ASSUME BasicTypes, DirsInv, up, up', UNCHANGED <<dirs, removing, left>>,
         \A q \in Requests :
           \/ stage'[q] = stage[q]
           \/ stage[q] \in {"new", "queued"} /\ stage'[q] \in {"answered", "write", "queued"}
           \/ stage[q] \in {"waiting", "granted"} /\ stage'[q] \in InPlace
  PROVE  DirsInv'
<1>1. /\ dirs \subseteq {r \in Requests : stage[r] \in Building} \cup removing \cup left
      /\ {r \in Requests : stage[r] \in InPlace} \subseteq dirs
      /\ \A r \in removing : stage[r] = "answered"
      /\ dirs \subseteq Requests /\ removing \subseteq Requests
  BY DEF DirsInv, BasicTypes
<1>2. ASSUME NEW r \in dirs, r \notin removing, r \notin left
      PROVE  stage'[r] \in Building
  BY <1>1, <1>2 DEF Building, InPlace
<1>3. ASSUME NEW r \in Requests, stage'[r] \in InPlace PROVE r \in dirs
  BY <1>1, <1>3 DEF InPlace
<1>4. ASSUME NEW r \in removing PROVE stage'[r] = "answered"
  BY <1>1, <1>4
<1> QED
  BY <1>1, <1>2, <1>3, <1>4 DEF DirsInv

\* Every step keeps them so.
LEMMA DirsStep == IInv /\ DirsInv /\ [Next]_vars => DirsInv'
<1> SUFFICES ASSUME IInv, DirsInv, [Next]_vars PROVE DirsInv'
  OBVIOUS
<1> USE DEF requests, semaphore, disk, modules, process, vars
<1>0. BasicTypes /\ JobsInv /\ GateInv /\ stage \in [Requests -> Stages]
  BY DEF IInv, BasicTypes
<1>1. up => /\ dirs \subseteq {r \in Requests : stage[r] \in Building} \cup removing \cup left
            /\ {r \in Requests : stage[r] \in InPlace} \subseteq dirs
            /\ \A r \in removing : stage[r] = "answered"
  BY DEF DirsInv
<1>2. ASSUME NEW r \in Requests, NEW todo \in SUBSET Packages, NEW chain \in Seq(Job),
             up, up', stage[r] \in {"new", "queued"}, Continue(r, todo, chain),
             UNCHANGED <<dirs, removing, left>>
      PROVE  DirsInv'
  <2>1. Moved(r, todo, chain)
    BY <1>0, <1>2, ContinueEffect
  <2>2. \A q \in Requests : \/ stage'[q] = stage[q]
                            \/ q = r /\ stage'[q] \in {"answered", "write", "queued"}
    BY <1>0, <2>1 DEF Moved
  <2> QED
    BY <1>0, <1>2, <2>2, DirsKept
<1>3. ASSUME NEW r \in Requests, Arrive(r) PROVE DirsInv'
  <2>1. CASE Refuse(r)
    <3>1. \A q \in Requests : stage'[q] = IF q = r THEN "answered" ELSE stage[q]
      BY <1>0, <2>1 DEF Refuse, Become
    <3> QED
      BY <1>0, <2>1, <3>1, DirsKept DEF Refuse, At
  <2>2. CASE AskToInstall(r)
    <3>1. Declares[r] \in SUBSET Packages /\ jobs \in Seq(Job)
      BY <1>0, DeclaresAssumption DEF BasicTypes
    <3> QED
      BY <1>2, <2>2, <3>1 DEF AskToInstall, At
  <2>3. CASE AskToBuild(r)
    <3>1. Missing(r) \in SUBSET Packages /\ jobs \in Seq(Job)
      BY <1>0, DeclaresAssumption DEF BasicTypes, Missing
    <3> QED
      BY <1>2, <2>3, <3>1 DEF AskToBuild, At
  <2> QED
    BY <1>3, <2>1, <2>2, <2>3 DEF Arrive
<1>4. ASSUME NEW k \in DOMAIN jobs, Install(k) PROVE DirsInv'
  <2>1. CASE StartInstall(k)
    BY <1>0, <2>1, DirsKept DEF StartInstall
  <2>2. ASSUME InstallWorks(k) \/ InstallFails(k)
        PROVE  /\ jobs[k].by \in Requests /\ jobs[k].pkg \in Packages
               /\ stage[jobs[k].by] = "queued" /\ Settled(k) \in Seq(Job)
               /\ up
    <3>1. up /\ jobs[k].state = "running"
      BY <2>2 DEF InstallWorks, InstallFails
    <3>2. jobs[k] \in Job /\ Settled(k) \in Seq(Job)
      BY <1>0, SettledType
    <3> QED
      BY <1>0, <3>1, <3>2 DEF Job, JobsInv
  <2>3. CASE InstallWorks(k)
    <3> DEFINE r == jobs[k].by
    <3>1. missing[r] \ {jobs[k].pkg} \in SUBSET Packages
      BY <1>0, <2>2, <2>3 DEF BasicTypes
    <3>2. /\ Continue(r, missing[r] \ {jobs[k].pkg}, Settled(k))
          /\ UNCHANGED <<up, dirs, removing, left>>
      BY <2>3 DEF InstallWorks
    <3> QED
      BY <1>2, <2>2, <2>3, <3>1, <3>2
  <2>4. CASE InstallFails(k)
    <3>1. \A q \in Requests : stage'[q] = IF q = jobs[k].by THEN "answered" ELSE stage[q]
      BY <1>0, <2>2, <2>4 DEF InstallFails, Become
    <3>2. up /\ up' /\ UNCHANGED <<dirs, removing, left>>
      BY <2>4 DEF InstallFails
    <3> QED
      BY <1>0, <2>2, <2>4, <3>1, <3>2, DirsKept
  <2> QED
    BY <1>4, <2>1, <2>3, <2>4 DEF Install
<1>5. ASSUME NEW r \in Requests, WriteFails(r) PROVE DirsInv'
  <2>1. /\ up /\ up' /\ stage[r] = "write" /\ dirs' \in {dirs, dirs \cup {r}}
        /\ removing' = removing \cup {r} /\ left' = left
    BY <1>5 DEF WriteFails, At
  <2>2. \A q \in Requests : stage'[q] = IF q = r THEN "answered" ELSE stage[q]
    BY <1>0, <1>5 DEF WriteFails, Become
  <2>3. dirs \subseteq Requests /\ removing \subseteq Requests
    BY <1>0 DEF BasicTypes
  <2> QED
    BY <1>1, <2>1, <2>2, <2>3 DEF DirsInv, Building, InPlace
<1>6. ASSUME NEW r \in Requests, Acquire(r) PROVE DirsInv'
  <2>1. /\ up /\ up' /\ stage[r] = "write" /\ dirs' = dirs \cup {r}
        /\ removing' = removing /\ left' = left
    BY <1>6 DEF Acquire, At
  <2>2. /\ \A q \in Requests \ {r} : stage'[q] = stage[q]
        /\ stage'[r] \in {"granted", "waiting"}
    BY <1>0, <1>6 DEF Acquire, Become
  <2>3. dirs \subseteq Requests /\ removing \subseteq Requests
    BY <1>0 DEF BasicTypes
  <2> QED
    BY <1>1, <2>1, <2>2, <2>3 DEF DirsInv, Building, InPlace
<1>7. ASSUME NEW r \in Requests, Spawn(r) PROVE DirsInv'
  <2>1. \A q \in Requests : stage'[q] = IF q = r THEN "child" ELSE stage[q]
    BY <1>0, <1>7 DEF Spawn, Become
  <2>2. stage[r] = "granted" /\ up /\ up' /\ UNCHANGED <<dirs, removing, left>>
    BY <1>7 DEF Spawn, At
  <2> QED
    BY <1>0, <2>1, <2>2, DirsKept DEF InPlace
<1>8. ASSUME NEW r \in Requests, SpawnFails(r) \/ ChildExits(r) PROVE DirsInv'
  <2>1. /\ up /\ up' /\ r \in Holders /\ Release(r) /\ up' = up
        /\ removing' = removing \cup {r} /\ dirs' = dirs /\ left' = left
    BY <1>8 DEF SpawnFails, ChildExits, At, Holders, Cleanup
  <2>2. \A q \in Requests :
           \/ stage'[q] = stage[q]
           \/ q = r /\ stage'[q] = "answered"
           \/ stage[q] = "waiting" /\ stage'[q] = "granted"
    BY <1>0, <2>1, ReleaseKeepsGate
  <2>3. stage'[r] = "answered"
    <3>1. stage[r] \in {"granted", "child"} /\ r \in Requests
      BY <2>1 DEF Holders
    <3>2. waiters # <<>> => Head(waiters) # r
      <4> SUFFICES ASSUME waiters # <<>> PROVE Head(waiters) # r
        OBVIOUS
      <4>1. Head(waiters) = waiters[1] /\ 1 \in DOMAIN waiters
        BY <1>0 DEF BasicTypes
      <4>2. stage[waiters[1]] = "waiting"
        BY <1>0, <2>1, <4>1 DEF GateInv
      <4> QED
        BY <3>1, <4>1, <4>2
    <3> QED
      BY <1>0, <2>1, <3>1, <3>2 DEF Release, Become
  <2>4. dirs \subseteq Requests /\ removing \subseteq Requests
    BY <1>0 DEF BasicTypes
  <2> QED
    BY <1>1, <2>1, <2>2, <2>3, <2>4 DEF DirsInv, Building, InPlace
<1>9. ASSUME NEW r \in Requests, Sweep(r) PROVE DirsInv'
  <2>1. /\ up /\ up' /\ r \in removing /\ removing' = removing \ {r} /\ stage' = stage
        /\ \/ dirs' = dirs \ {r} /\ left' = left
           \/ dirs' = dirs /\ left' = left \cup {r}
    BY <1>9 DEF Sweep, Removed, RemoveFails
  <2> QED
    BY <1>1, <2>1 DEF DirsInv, InPlace
<1>10. ASSUME Crash PROVE DirsInv'
  BY <1>10 DEF Crash, DirsInv
<1>11. ASSUME Boot PROVE DirsInv'
  <2>1. /\ ~up /\ up' /\ left' = dirs' /\ stage' = stage /\ removing' = removing
    BY <1>11 DEF Boot
  <2>2. \A r \in Requests : stage[r] \in {"new", "answered", "lost"}
    BY <1>0, <2>1 DEF GateInv
  <2>3. removing = {}
    BY <2>1 DEF DirsInv
  <2> QED
    BY <2>1, <2>2, <2>3 DEF DirsInv, InPlace
<1>12. ASSUME Idle \/ UNCHANGED vars PROVE DirsInv'
  BY <1>12 DEF Idle, DirsInv
<1> QED
  BY <1>3, <1>4, <1>5, <1>6, <1>7, <1>8, <1>9, <1>10, <1>11, <1>12
  DEF Next, Work, Serve

LEMMA DirsInvHolds == Safe => []DirsInv
<1>1. Init => DirsInv
  BY DEF Init, DirsInv, InPlace
<1> QED
  BY <1>1, InvHolds, DirsStep, PTL DEF Safe

-----------------------------------------------------------------------------
\* The invariant, as the theorems below cite it.
LEMMA SpecInv == Spec => []IInv
  BY InvHolds, PTL DEF Spec

\* The type of the service's state, with the pool never above its capacity:
\* the semaphore hands each permit back once.
THEOREM TypeCorrect == Spec => []TypeOK
<1>1. IInv => TypeOK
  <2> SUFFICES ASSUME IInv PROVE TypeOK
    OBVIOUS
  <2>1. available \in 0..Capacity
    BY CapacityType DEF IInv, BasicTypes, GateInv
  <2> QED
    BY <2>1 DEF IInv, BasicTypes, TypeOK
<1> QED
  BY <1>1, SpecInv, PTL

\* However many requests come, however spawns fail and timers fire, there are
\* never more build children than permits.
THEOREM BuildsBoundedHolds == Spec => []BuildsBounded
<1>1. IInv => BuildsBounded
  <2> SUFFICES ASSUME IInv PROVE Cardinality(Children) <= Capacity
    BY DEF BuildsBounded
  <2>1. Children \subseteq Holders
    BY DEF Children, Holders
  <2>2. Cardinality(Children) \in Nat /\ Cardinality(Children) <= Cardinality(Holders)
    BY <2>1, HoldersFinite, FS_Subset, FS_CardinalityType
  <2>3. CASE up
    BY <2>2, <2>3, HoldersFinite, CapacityType DEF IInv, BasicTypes, GateInv
  <2>4. CASE ~up
    <3>1. Children = {}
      BY <2>4 DEF IInv, GateInv, Children
    <3> QED
      BY <3>1, FS_EmptySet, CapacityType
  <2> QED
    BY <2>3, <2>4
<1> QED
  BY <1>1, SpecInv, PTL

\* Nobody waits at the gate while a permit is free, whatever the number of
\* permits and the order of releases and arrivals.
THEOREM WaitOnlyWhenFullHolds == Spec => []WaitOnlyWhenFull
<1>1. IInv => WaitOnlyWhenFull
  BY HoldersFinite, CapacityType DEF IInv, BasicTypes, GateInv, WaitOnlyWhenFull
<1> QED
  BY <1>1, SpecInv, PTL

\* The installs run one at a time and in order, however many requests queue
\* them.
THEOREM InstallsSerialHolds == Spec => []InstallsSerial
<1>1. IInv => InstallsSerial
  BY DEF IInv
<1> QED
  BY <1>1, SpecInv, PTL

\* No build goes on with a dependency that has neither been installed nor been
\* spoiled by a failed install, however requests interleave.
THEOREM DepsResolveHolds == Spec => []DepsResolve
<1>1. IInv => DepsResolve
  BY DEF IInv, DepsInv, DepsResolve
<1> QED
  BY <1>1, SpecInv, PTL

\* Whatever builds fail, are killed with the process or cannot be removed, each
\* directory on disk is accounted for, and no child runs without its own.
THEOREM DirsOwnedHolds == Spec => []DirsOwned
<1>1. DirsInv => DirsOwned
  BY DEF DirsInv, DirsOwned, Children, InPlace
<1> QED
  BY <1>1, DirsInvHolds, PTL DEF Spec
=============================================================================
