------------------------------- MODULE Bridge -------------------------------
(***************************************************************************)
(* The data bridge between the app in the sandboxed frame and the host:    *)
(* packages/spec_harness/src/preview.ts, bridgePreamble (the frame's half, *)
(* repeated in connectors-mcp.ts) and createBridge (the host's half), with *)
(* the effect of useHarnessPreview.ts that puts a bridge up and takes it   *)
(* down.                                                                   *)
(*                                                                         *)
(* The frame is loaded again and again into the same window, so a message  *)
(* may reach a document or a bridge other than the one it was meant for.   *)
(* Messages are not lost, but nothing orders them against the timers.      *)
(***************************************************************************)
EXTENDS Integers, FiniteSets

CONSTANTS
  Call,               \* the calls the app makes
  Foreign,            \* those the host does not take for requests: another
                      \*   namespace, the kind `result', a bad payload
  Id,                 \* correlation ids
  NoId,               \* an id that is not a correlation id
  MaxLoads,           \* bound: how often the frame is loaded again
  MaxBridges          \* bound: how many bridges are put up

ASSUME CallAssumption == Foreign \subseteq Call
ASSUME IdAssumption   == NoId \notin Id
ASSUME BoundsAssumption == MaxLoads \in Nat /\ MaxBridges \in Nat

VARIABLES
  loads,              \* how often the frame has been loaded again
  frame,              \* what has become of each call's promise
  outcome,            \* the call whose answer it resolved with
  id,                 \* the id a call was sent under
  drawn,              \* ids drawn so far
  pending,            \* the loaded document's map from ids to calls
  frameTimer,         \* calls whose timer in the document is running
  requests,           \* calls whose request is on the way to the host
  replies,            \* replies on the way to the frame
  bridge, bridges,    \* the bridge that is up, 0 if none; how many there were
  host,               \* what the host makes of each call
  server,             \* the bridge that dispatched it
  hostTimer,          \* calls whose timer in the host is running
  posted,             \* replies sent to each call, by any bridge,
  given               \*   and the calls answered with a value

document == <<loads, frame, outcome, id, drawn, pending, frameTimer>>
wires    == <<requests, replies>>
bridged  == <<bridge, bridges>>
dispatch == <<host, server, hostTimer, posted, given>>
vars     == <<document, wires, bridged, dispatch>>

NoCall == "nothing"

Init ==
  /\ loads = 0
  /\ frame = [c \in Call |-> "new"] /\ outcome = [c \in Call |-> NoCall]
  /\ id = [c \in Call |-> NoId] /\ drawn = {}
  /\ pending = [i \in {} |-> NoCall]
  /\ frameTimer = {} /\ requests = {} /\ replies = {}
  /\ bridge = 0 /\ bridges = 0
  /\ host = [c \in Call |-> "none"] /\ server = [c \in Call |-> 0]
  /\ hostTimer = {} /\ posted = [c \in Call |-> 0] /\ given = {}

-----------------------------------------------------------------------------
(***************************************************************************)
(* The frame.                                                              *)
(***************************************************************************)
\* Mutation: ids count up from the start of the document.
IdUnusedHere(i) == i \notin DOMAIN pending

\* The time and a random number: an id is never drawn twice.
IdUnused(i) == i \notin drawn

Resolve(c, how, from) ==
  /\ frame' = [frame EXCEPT ![c] = how]
  /\ outcome' = [outcome EXCEPT ![c] = from]

\* Mutation: a call that resolves stays in the map.
ForgetNothing(i) == UNCHANGED pending

Forget(i) == pending' = [j \in DOMAIN pending \ {i} |-> pending[j]]

\* The promise of a call is made, its request posted, its timer started.
Send(c) ==
  /\ frame[c] = "new"
  /\ \E i \in Id :
       /\ IdUnused(i)
       /\ id' = [id EXCEPT ![c] = i]
       /\ drawn' = drawn \cup {i}
       /\ pending' = [j \in DOMAIN pending \cup {i} |->
                        IF j = i THEN c ELSE pending[j]]
  /\ frame' = [frame EXCEPT ![c] = "open"]
  /\ frameTimer' = frameTimer \cup {c}
  /\ requests' = requests \cup {c}
  /\ UNCHANGED <<loads, outcome, replies, bridged, dispatch>>

\* postMessage throws, or the name is not mounted and a stub answers: either
\* way the promise resolves with an error, and nothing was sent.
SendFails(c) ==
  /\ frame[c] = "new"
  /\ Resolve(c, "failed", NoCall)
  /\ UNCHANGED <<loads, id, drawn, pending, frameTimer, wires, bridged,
                 dispatch>>

\* The listener: a reply that finds its id settles the call it belongs to.
\* A call that is settled leaves its timer running, which then does nothing.
Receive(r) ==
  /\ replies' = replies \ {r}
  /\ IF r.id \in DOMAIN pending
     THEN /\ Resolve(pending[r.id], IF r.value THEN "answered" ELSE "failed",
                     r.of)
          /\ Forget(r.id)
     ELSE UNCHANGED <<frame, outcome, pending>>
  /\ UNCHANGED <<loads, id, drawn, frameTimer, requests, bridged, dispatch>>

\* Mutation: the timer leaves a call alone that the host has taken up.
FrameTimeoutUnlessTaken(c) ==
  /\ c \in frameTimer
  /\ frameTimer' = frameTimer \ {c}
  /\ IF frame[c] = "open" /\ host[c] = "none"
     THEN Resolve(c, "failed", NoCall) /\ Forget(id[c])
     ELSE UNCHANGED <<frame, outcome, pending>>
  /\ UNCHANGED <<loads, id, drawn, wires, bridged, dispatch>>

\* Sixty seconds are over.
FrameTimeout(c) ==
  /\ c \in frameTimer
  /\ frameTimer' = frameTimer \ {c}
  /\ IF frame[c] = "open"
     THEN Resolve(c, "failed", NoCall) /\ Forget(id[c])
     ELSE UNCHANGED <<frame, outcome, pending>>
  /\ UNCHANGED <<loads, id, drawn, wires, bridged, dispatch>>

\* A new srcdoc: the document goes, with its promises, timers and map.  What
\* is on the way to the frame will be delivered to the next document.
Reload ==
  /\ loads < MaxLoads
  /\ loads' = loads + 1
  /\ frame' = [c \in Call |-> IF frame[c] = "open" THEN "gone" ELSE frame[c]]
  /\ pending' = [i \in {} |-> NoCall]
  /\ frameTimer' = {}
  /\ UNCHANGED <<outcome, id, drawn, wires, bridged, dispatch>>

-----------------------------------------------------------------------------
(***************************************************************************)
(* The host.                                                               *)
(***************************************************************************)
\* The effect puts up a bridge.
Attach ==
  /\ bridge = 0 /\ bridges < MaxBridges
  /\ bridge' = bridges + 1 /\ bridges' = bridges + 1
  /\ UNCHANGED <<document, wires, dispatch>>

\* Mutation: the timers of the dispatches are left running.
DestroyKeepingTimers ==
  /\ bridge # 0
  /\ bridge' = 0
  /\ UNCHANGED <<bridges, document, wires, dispatch>>

\* Its cleanup destroys it: the listener goes and the timers are cleared.  A
\* handler that is running goes on.
Destroy ==
  /\ bridge # 0
  /\ bridge' = 0
  /\ hostTimer' = {}
  /\ UNCHANGED <<bridges, document, wires, host, server, posted, given>>

\* onMessage: a request goes to the handler; anything else, and anything that
\* arrives while no bridge is up, is dropped.
Dispatch(c) ==
  /\ c \in requests
  /\ requests' = requests \ {c}
  /\ IF bridge # 0 /\ c \notin Foreign
     THEN /\ host' = [host EXCEPT ![c] = "running"]
          /\ server' = [server EXCEPT ![c] = bridge]
          /\ hostTimer' = hostTimer \cup {c}
     ELSE UNCHANGED <<host, server, hostTimer>>
  /\ UNCHANGED <<document, replies, bridged, posted, given>>

\* A value that carries a key `id' or `type' of its own overwrites the
\* envelope's, and the frame does not know the reply.
Reply(c, value) ==
  /\ \E i \in IF value THEN {id[c], NoId} ELSE {id[c]} :
       replies' = replies \cup {[id |-> i, of |-> c, value |-> value]}
  /\ posted' = [posted EXCEPT ![c] = @ + 1]
  /\ given' = IF value THEN given \cup {c} ELSE given

\* Mutation: a handler that comes back late is not told apart.
MayReplyLate(c) == server[c] = bridge

\* Neither settled nor disposed.
MayReply(c) == host[c] = "running" /\ server[c] = bridge

\* handleBridgeRequest returns a value or an error, or the handler throws.
Return(c, value) ==
  /\ host[c] \in {"running", "expired"}
  /\ host' = [host EXCEPT ![c] = "done"]
  /\ IF MayReply(c) THEN Reply(c, value) /\ hostTimer' = hostTimer \ {c}
                    ELSE UNCHANGED <<replies, posted, given, hostTimer>>
  /\ UNCHANGED <<document, requests, bridged, server>>

\* The host's own timer: the frame is told, and the handler's result will
\* be dropped.
HostTimeout(c) ==
  /\ c \in hostTimer
  /\ hostTimer' = hostTimer \ {c}
  /\ host' = [host EXCEPT ![c] = "expired"]
  /\ Reply(c, FALSE)
  /\ UNCHANGED <<document, requests, bridged, server>>

-----------------------------------------------------------------------------
Frame(c) == Send(c) \/ SendFails(c) \/ FrameTimeout(c)

Host(c) == Dispatch(c) \/ HostTimeout(c) \/ \E value \in BOOLEAN : Return(c, value)

\* Every call is over and nothing is on its way.
Quiet ==
  /\ loads = MaxLoads /\ bridges = MaxBridges /\ bridge = 0
  /\ \A c \in Call : frame[c] # "new" /\ frame[c] # "open"
  /\ UNCHANGED vars

Next == \/ \E c \in Call : Frame(c) \/ Host(c)
        \/ \E r \in replies : Receive(r)
        \/ Reload \/ Attach \/ Destroy
        \/ Quiet

\* A document's timers fire.  Nothing is assumed of the host, which need not
\* have a bridge up, of the handlers, which need not return, or of messages.
Fairness == \A c \in Call : WF_vars(FrameTimeout(c))

Safe == Init /\ [][Next]_vars
Spec == Safe /\ Fairness
=============================================================================
