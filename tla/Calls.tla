------------------------------- MODULE Calls --------------------------------
(***************************************************************************)
(* What a data call of a generated app promises (the comment on            *)
(* bridgePreamble, spec/preview-bridge.md): it resolves once, with the     *)
(* answer the host gave to this very call or with a shaped error, and it   *)
(* always resolves while the document that made it is loaded.              *)
(***************************************************************************)
CONSTANT Call

VARIABLES
  state,              \* what has become of each call
  given               \* the calls the host has answered with a value

Init == state = [c \in Call |-> "new"] /\ given = {}

Move(c, from, to) == state[c] = from /\ state' = [state EXCEPT ![c] = to]

Make(c)  == Move(c, "new", "open") /\ UNCHANGED given
\* A call that cannot be sent, or whose connector is not there.
Refuse(c) == Move(c, "new", "failed") /\ UNCHANGED given
\* The host answers, whether or not anyone is waiting any more.
Give(c)  == c \notin given /\ given' = given \cup {c} /\ UNCHANGED state
Accept(c) == c \in given /\ Move(c, "open", "answered") /\ UNCHANGED given
Fail(c)  == Move(c, "open", "failed") /\ UNCHANGED given
\* The document is replaced: every call it has open goes with it.
Unload   == /\ state' = [c \in Call |-> IF state[c] = "open" THEN "gone"
                                                             ELSE state[c]]
            /\ UNCHANGED given

Next == Unload \/ \E c \in Call : Make(c) \/ Refuse(c) \/ Give(c)
                                    \/ Accept(c) \/ Fail(c)

Settles == \A c \in Call : (state[c] = "open") ~> (state[c] # "open")

Safe == Init /\ [][Next]_<<state, given>>
Spec == Safe /\ Settles
=============================================================================
