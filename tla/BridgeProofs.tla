---------------------------- MODULE BridgeProofs ----------------------------
(***************************************************************************)
(* Theorems about Bridge, for any calls, ids and number of loads and       *)
(* bridges.                                                                *)
(*                                                                         *)
(* The inductive invariant is TypeOK with three parts: no two calls were   *)
(* sent under one id (Distinct), a reply on its way carries the id of its  *)
(* own call or an id nobody waits for (Addressed), and what the host       *)
(* thinks of a call agrees with what it has posted (Dispatched).           *)
(***************************************************************************)
EXTENDS BridgeProperties, TLAPS

Distinct ==
  /\ \A c \in Call : /\ id[c] # NoId => id[c] \in drawn
                     /\ frame[c] = "new" => id[c] = NoId
                     /\ c \in requests => host[c] = "none"
                     /\ c \in requests \/ host[c] # "none" => id[c] # NoId
  /\ \A c, d \in Call : id[c] = id[d] /\ id[c] # NoId => c = d

Addressed ==
  \A r \in replies : /\ r.id \in {id[r.of], NoId}
                     /\ r.value => r.of \in given

Dispatched ==
  /\ TimersGuardRunning
  /\ \A c \in Call : /\ host[c] \in {"none", "running"} => posted[c] = 0
                     /\ posted[c] = 0 => c \notin given
                     /\ host[c] # "none" => server[c] # 0

IInv == TypeOK /\ Distinct /\ Addressed /\ Dispatched

USE DEF Init, NoCall

LEMMA InitInv == Init => IInv
  <1> SUFFICES ASSUME Init PROVE IInv
    OBVIOUS
  <1>1. TypeOK
    BY BoundsAssumption DEF TypeOK
  <1>2. Distinct /\ Addressed /\ Dispatched
    BY DEF Distinct, Addressed, Dispatched, TimersGuardRunning
  <1> QED
    BY <1>1, <1>2 DEF IInv

-----------------------------------------------------------------------------
(***************************************************************************)
(* Every step preserves the invariant: one lemma per action.               *)
(***************************************************************************)
LEMMA SendStep == ASSUME IInv, NEW c \in Call, Send(c) PROVE IInv'
  <1>1. TypeOK'
    BY IdAssumption
       DEF IInv, TypeOK, Distinct, Send, IdUnused, bridged, dispatch
  <1>2. Distinct'
    BY IdAssumption DEF IInv, TypeOK, Distinct, Send, IdUnused, dispatch
  <1>3. Addressed'
    BY DEF IInv, Distinct, Addressed, Send, dispatch
  <1>4. Dispatched'
    BY DEF IInv, Dispatched, TimersGuardRunning, Send, bridged, dispatch
  <1> QED
    BY <1>1, <1>2, <1>3, <1>4 DEF IInv

LEMMA SendFailsStep == ASSUME IInv, NEW c \in Call, SendFails(c) PROVE IInv'
  <1>1. TypeOK'
    BY DEF IInv, TypeOK, SendFails, Resolve, wires, bridged, dispatch
  <1>2. Distinct'
    BY DEF IInv, Distinct, SendFails, Resolve, wires, dispatch
  <1>3. Addressed'
    BY DEF IInv, Addressed, SendFails, wires, dispatch
  <1>4. Dispatched'
    BY DEF IInv, Dispatched, TimersGuardRunning, SendFails, bridged, dispatch
  <1> QED
    BY <1>1, <1>2, <1>3, <1>4 DEF IInv

LEMMA FrameTimeoutStep == ASSUME IInv, NEW c \in Call, FrameTimeout(c) PROVE IInv'
  <1>1. TypeOK'
    BY DEF IInv, TypeOK, FrameTimeout, Resolve, Forget, wires, bridged,
           dispatch
  <1>2. Distinct'
    BY DEF IInv, TypeOK, Distinct, FrameTimeout, Resolve, wires, dispatch
  <1>3. Addressed'
    BY DEF IInv, Addressed, FrameTimeout, wires, dispatch
  <1>4. Dispatched'
    BY DEF IInv, Dispatched, TimersGuardRunning, FrameTimeout, bridged,
           dispatch
  <1> QED
    BY <1>1, <1>2, <1>3, <1>4 DEF IInv

LEMMA ReceiveStep == ASSUME IInv, NEW r \in replies, Receive(r) PROVE IInv'
  <1>1. TypeOK'
    BY DEF IInv, TypeOK, Receive, Resolve, Forget, bridged, dispatch
  <1>2. Distinct'
    BY DEF IInv, TypeOK, Distinct, Receive, Resolve, dispatch
  <1>3. Addressed'
    BY DEF IInv, Addressed, Receive, dispatch
  <1>4. Dispatched'
    BY DEF IInv, Dispatched, TimersGuardRunning, Receive, bridged, dispatch
  <1> QED
    BY <1>1, <1>2, <1>3, <1>4 DEF IInv

LEMMA ReloadStep == ASSUME IInv, Reload PROVE IInv'
  <1>1. TypeOK'
    BY BoundsAssumption DEF IInv, TypeOK, Reload, wires, bridged, dispatch
  <1>2. Distinct'
    BY DEF IInv, Distinct, Reload, wires, dispatch
  <1>3. Addressed'
    BY DEF IInv, Addressed, Reload, wires, dispatch
  <1>4. Dispatched'
    BY DEF IInv, Dispatched, TimersGuardRunning, Reload, bridged, dispatch
  <1> QED
    BY <1>1, <1>2, <1>3, <1>4 DEF IInv

LEMMA AttachStep == ASSUME IInv, Attach PROVE IInv'
  <1>1. TypeOK'
    BY BoundsAssumption DEF IInv, TypeOK, Attach, document, wires, dispatch
  <1>2. Distinct'
    BY DEF IInv, Distinct, Attach, document, wires, dispatch
  <1>3. Addressed'
    BY DEF IInv, Addressed, Attach, document, wires, dispatch
  <1>4. Dispatched'
    BY DEF IInv, TypeOK, Dispatched, TimersGuardRunning, Attach, dispatch
  <1> QED
    BY <1>1, <1>2, <1>3, <1>4 DEF IInv

LEMMA DestroyStep == ASSUME IInv, Destroy PROVE IInv'
  <1>1. TypeOK'
    BY DEF IInv, TypeOK, Destroy, document, wires
  <1>2. Distinct'
    BY DEF IInv, Distinct, Destroy, document, wires
  <1>3. Addressed'
    BY DEF IInv, Addressed, Destroy, document, wires
  <1>4. Dispatched'
    BY DEF IInv, Dispatched, TimersGuardRunning, Destroy
  <1> QED
    BY <1>1, <1>2, <1>3, <1>4 DEF IInv

LEMMA DispatchStep == ASSUME IInv, NEW c \in Call, Dispatch(c) PROVE IInv'
  <1>1. TypeOK'
    BY DEF IInv, TypeOK, Dispatch, document, bridged
  <1>2. Distinct'
    BY DEF IInv, TypeOK, Distinct, Dispatch, document
  <1>3. Addressed'
    BY DEF IInv, Addressed, Dispatch, document
  <1>4. Dispatched'
    BY DEF IInv, TypeOK, Distinct, Dispatched, TimersGuardRunning, Dispatch,
           bridged
  <1> QED
    BY <1>1, <1>2, <1>3, <1>4 DEF IInv

LEMMA ReturnStep == ASSUME IInv, NEW c \in Call, NEW value \in BOOLEAN, Return(c, value) PROVE IInv'
  <1>1. TypeOK'
    BY DEF IInv, TypeOK, Return, Reply, document, bridged
  <1>2. Distinct'
    BY DEF IInv, Distinct, Return, document
  <1>3. Addressed'
    BY DEF IInv, Addressed, Return, Reply, document
  <1>4. Dispatched'
    BY DEF IInv, TypeOK, Dispatched, TimersGuardRunning, Return, MayReply,
           Reply, bridged
  <1> QED
    BY <1>1, <1>2, <1>3, <1>4 DEF IInv

LEMMA HostTimeoutStep == ASSUME IInv, NEW c \in Call, HostTimeout(c) PROVE IInv'
  <1>1. TypeOK'
    <2>1. /\ replies' = replies \cup {[id |-> id[c], of |-> c, value |-> FALSE]}
          /\ posted' = [posted EXCEPT ![c] = @ + 1] /\ given' = given
      BY DEF HostTimeout, Reply
    <2>2. replies' \subseteq [id : Id \cup {NoId}, of : Call, value : BOOLEAN]
      <3>1. id[c] \in Id \cup {NoId}
        BY DEF IInv, TypeOK
      <3>2. [id |-> id[c], of |-> c, value |-> FALSE]
              \in [id : Id \cup {NoId}, of : Call, value : BOOLEAN]
        BY <3>1
      <3> QED
        BY <2>1, <3>2 DEF IInv, TypeOK
    <2> QED
      BY <2>1, <2>2 DEF IInv, TypeOK, HostTimeout, document, bridged
  <1>2. Distinct'
    BY DEF IInv, Distinct, Dispatched, TimersGuardRunning, HostTimeout,
           document
  <1>3. Addressed'
    BY DEF IInv, Addressed, HostTimeout, Reply, document
  <1>4. Dispatched'
    BY DEF IInv, TypeOK, Dispatched, TimersGuardRunning, HostTimeout, Reply,
           bridged
  <1> QED
    BY <1>1, <1>2, <1>3, <1>4 DEF IInv

LEMMA NextStep == ASSUME IInv, [Next]_vars PROVE IInv'
  <1>1. CASE UNCHANGED vars \/ Quiet
    BY <1>1
       DEF IInv, TypeOK, Distinct, Addressed, Dispatched, TimersGuardRunning,
           Quiet, vars, document, wires, bridged, dispatch
  <1>2. CASE \E c \in Call : Frame(c) \/ Host(c)
    BY <1>2, SendStep, SendFailsStep, FrameTimeoutStep, DispatchStep,
       HostTimeoutStep, ReturnStep
       DEF Frame, Host
  <1>3. CASE \E r \in replies : Receive(r)
    BY <1>3, ReceiveStep
  <1>4. CASE Reload \/ Attach \/ Destroy
    BY <1>4, ReloadStep, AttachStep, DestroyStep
  <1> QED
    BY <1>1, <1>2, <1>3, <1>4 DEF Next

LEMMA Invariance == Safe => []IInv
  <1>1. IInv /\ [Next]_vars => IInv'
    BY NextStep
  <1> QED
    BY InitInv, <1>1, PTL DEF Safe

-----------------------------------------------------------------------------
\* The state is well-typed, and the document's map holds exactly its open
\* calls, each under its own id.
THEOREM TypeCorrect == Safe => []TypeOK
  BY Invariance, PTL DEF IInv

\* Every timer of the host guards a running request of the bridge that is up.
THEOREM TimersGuardRunningHolds == Safe => []TimersGuardRunning
  BY Invariance, PTL DEF IInv, Dispatched

\* The host answers each call at most once, and only through the bridge that
\* dispatched it while that is up.
THEOREM AnswersOnceHolds == Safe => AnswersOnce
  <1> DEFINE Answers == \A c \in Call : posted'[c] # posted[c] =>
                posted[c] = 0 /\ posted'[c] = 1 /\ bridge # 0 /\ server[c] = bridge
  <1>1. ASSUME IInv, [Next]_vars PROVE [Answers]_vars
    <2>1. ASSUME NEW d \in Call, Return(d, TRUE) \/ Return(d, FALSE) PROVE Answers
      BY <1>1, <2>1 DEF IInv, TypeOK, Dispatched, Return, MayReply, Reply
    <2>2. ASSUME NEW d \in Call, HostTimeout(d) PROVE Answers
      BY <1>1, <2>2
         DEF IInv, Dispatched, TimersGuardRunning, HostTimeout, Reply
    <2>3. CASE UNCHANGED posted
      BY <2>3
    <2> QED
      BY <1>1, <2>1, <2>2, <2>3
         DEF Next, Frame, Host, Send, SendFails, FrameTimeout, Dispatch,
             Receive, Reload, Attach, Destroy, Quiet, dispatch
  <1> QED
    BY Invariance, <1>1, PTL DEF Safe, AnswersOnce

-----------------------------------------------------------------------------
(***************************************************************************)
(* The refinement.  A call is settled by a reply only under the id it was  *)
(* sent with, and that id belongs to no other call: so the reply is its    *)
(* own, and a value among them has been given.                             *)
(***************************************************************************)
LEMMA ReplyIsOwn ==
  ASSUME IInv, NEW r \in replies, r.id \in DOMAIN pending
  PROVE  /\ r.of \in Call /\ pending[r.id] = r.of /\ frame[r.of] = "open"
         /\ r.value => r.of \in given
  BY IdAssumption DEF IInv, TypeOK, Distinct, Addressed

\* Every answer the app gets is the answer to the call it made, once.
THEOREM EveryCallItsAnswerHolds == Safe => EveryCallItsAnswer
  <1> DEFINE Own == \A c \in Call : frame[c] = "answered" => outcome[c] = c
  <1>1. Init => Own /\ Promise!Init
    BY DEF Promise!Init, CallState
  <1>2. ASSUME IInv, Own, [Next]_vars PROVE Own'
    <2>1. ASSUME NEW r \in replies, Receive(r) PROVE Own'
      BY <1>2, <2>1, ReplyIsOwn DEF Receive, Resolve, IInv, TypeOK
    <2>2. ASSUME NEW c \in Call, Frame(c) PROVE Own'
      BY <1>2, <2>2
         DEF Frame, Send, SendFails, FrameTimeout, Resolve, IInv, TypeOK
    <2>3. CASE Reload
      BY <1>2, <2>3 DEF Reload, IInv
    <2>4. ASSUME UNCHANGED <<frame, outcome>> PROVE Own'
      BY <1>2, <2>4
    <2>5. ASSUME NEW c \in Call, Host(c) PROVE UNCHANGED <<frame, outcome>>
      BY <2>5 DEF Host, Dispatch, HostTimeout, Return, document
    <2>6. ASSUME Attach \/ Destroy \/ Quiet \/ UNCHANGED vars
          PROVE  UNCHANGED <<frame, outcome>>
      BY <2>6 DEF Attach, Destroy, Quiet, vars, document
    <2> QED
      BY <1>2, <2>1, <2>2, <2>3, <2>4, <2>5, <2>6 DEF Next
  <1>3. ASSUME IInv, Own, [Next]_vars
        PROVE  [Promise!Next]_<<[c \in Call |-> CallState(c)], given>>
    <2>1. [c \in Call |-> CallState(c)] = frame
      BY <1>3 DEF CallState, IInv, TypeOK
    <2>2. [c \in Call |-> CallState(c)]' = frame'
      <3>1. Own'
        BY <1>2, <1>3
      <3>2. TypeOK'
        BY NextStep, <1>3 DEF IInv
      <3> QED
        BY <3>1, <3>2 DEF CallState, TypeOK
    <2>a. frame \in [Call -> {"new", "open", "answered", "failed", "gone"}]
      BY <1>3 DEF IInv, TypeOK
    <2>3. ASSUME NEW c \in Call, Send(c) PROVE Promise!Make(c)
      BY <2>1, <2>2, <2>3 DEF Send, dispatch, Promise!Make, Promise!Move
    <2>4. ASSUME NEW c \in Call, SendFails(c) PROVE Promise!Refuse(c)
      BY <2>1, <2>2, <2>4
         DEF SendFails, Resolve, dispatch, Promise!Refuse, Promise!Move
    <2>5. ASSUME NEW c \in Call, FrameTimeout(c)
          PROVE  Promise!Fail(c) \/ UNCHANGED <<frame, given>>
      BY <2>1, <2>2, <2>5
         DEF FrameTimeout, Resolve, dispatch, Promise!Fail, Promise!Move
    <2>6. ASSUME NEW c \in Call, NEW value \in BOOLEAN, Return(c, value)
          PROVE  Promise!Give(c) \/ UNCHANGED <<frame, given>>
      BY <2>1, <2>2, <2>6 DEF Return, Reply, document, Promise!Give
    <2>7. ASSUME NEW r \in replies, Receive(r)
          PROVE  \/ Promise!Accept(r.of) /\ r.of \in Call
                 \/ Promise!Fail(r.of) /\ r.of \in Call
                 \/ UNCHANGED <<frame, given>>
      BY <1>3, <2>1, <2>2, <2>7, ReplyIsOwn
         DEF Receive, Resolve, dispatch, Promise!Accept, Promise!Fail,
             Promise!Move
    <2>8. ASSUME Reload PROVE Promise!Unload
      BY <2>1, <2>2, <2>8, <2>a DEF Reload, dispatch, Promise!Unload
    <2>9. CASE UNCHANGED <<frame, given>>
      BY <2>1, <2>2, <2>9
    <2>10. ASSUME NEW c \in Call, Dispatch(c) \/ HostTimeout(c)
           PROVE  UNCHANGED <<frame, given>>
      BY <2>10 DEF Dispatch, HostTimeout, Reply, document
    <2>11. ASSUME Attach \/ Destroy \/ Quiet \/ UNCHANGED vars
           PROVE  UNCHANGED <<frame, given>>
      BY <2>11 DEF Attach, Destroy, Quiet, vars, document, dispatch
    <2> QED
      BY <1>3, <2>3, <2>4, <2>5, <2>6, <2>7, <2>8, <2>9, <2>10, <2>11
         DEF Next, Frame, Host, Promise!Next
  <1> QED
    BY Invariance, <1>1, <1>2, <1>3, PTL
       DEF Safe, EveryCallItsAnswer, Promise!Safe
=============================================================================
