-------------------------- MODULE BridgeProperties --------------------------
(***************************************************************************)
(* The properties of the data bridge.                                      *)
(***************************************************************************)
EXTENDS Bridge

\* The values of the variables; and the document's map holds the open calls,
\* each under the id it was sent with, and nothing else.
TypeOK ==
  /\ loads \in 0..MaxLoads /\ bridges \in 0..MaxBridges
  /\ bridge \in {0, bridges}
  /\ frame \in [Call -> {"new", "open", "answered", "failed", "gone"}]
  /\ outcome \in [Call -> Call \cup {NoCall}]
  /\ id \in [Call -> Id \cup {NoId}] /\ drawn \subseteq Id
  /\ DOMAIN pending \subseteq Id
  /\ \A i \in DOMAIN pending : /\ pending[i] \in Call
                               /\ frame[pending[i]] = "open"
                               /\ id[pending[i]] = i
  /\ \A c \in Call : frame[c] = "open" => /\ id[c] \in DOMAIN pending
                                          /\ pending[id[c]] = c
  /\ frameTimer \subseteq Call /\ requests \subseteq Call
  /\ replies \subseteq [id : Id \cup {NoId}, of : Call, value : BOOLEAN]
  /\ host \in [Call -> {"none", "running", "expired", "done"}]
  /\ server \in [Call -> 0..bridges]
  /\ hostTimer \subseteq Call
  /\ posted \in [Call -> Nat] /\ given \subseteq Call

(***************************************************************************)
(* The host answers a call at most once, and never on behalf of a bridge   *)
(* that has been destroyed: a timer and a handler race for every answer,   *)
(* and both may come back after the frame or the bridge has changed.       *)
(***************************************************************************)
AnswersOnce ==
  [][\A c \in Call : posted'[c] # posted[c] =>
       posted[c] = 0 /\ posted'[c] = 1 /\ bridge # 0 /\ server[c] = bridge]_vars

(***************************************************************************)
(* Every timer of the host guards a request that is being handled by the   *)
(* bridge that is up, and such a request is never without one: a request   *)
(* cannot be left without an answer, nor a timer outlive its bridge.       *)
(***************************************************************************)
TimersGuardRunning ==
  hostTimer = {c \in Call : host[c] = "running" /\ server[c] = bridge}

-----------------------------------------------------------------------------
(***************************************************************************)
(* The bridge keeps the promise of Calls: under the mapping, a call that   *)
(* resolved with the answer to another one is in a state Calls does not    *)
(* have.                                                                   *)
(***************************************************************************)
CallState(c) == IF frame[c] = "answered" /\ outcome[c] # c THEN "mixed up"
                                                           ELSE frame[c]

Promise == INSTANCE Calls WITH state <- [c \in Call |-> CallState(c)]

\* Every step of the bridge is a step of Calls or none.
EveryCallItsAnswer == Promise!Safe

\* No call hangs while its document is loaded, whatever becomes of the host,
\* its bridge and the messages.
EveryCallSettles == Promise!Settles
=============================================================================
