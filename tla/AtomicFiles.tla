---------------------------- MODULE AtomicFiles ----------------------------
(***************************************************************************)
(* What put_files and get_files of a ProjectStore promise (the docstring   *)
(* of _BaseProjectStore.put_files, stores.py): a put replaces the whole    *)
(* file map at one instant between its call and its return, or not at all, *)
(* and a get returns the whole map of one instant.  A call that fails or   *)
(* is cut off returns nothing; it has taken effect or it has not.          *)
(***************************************************************************)
EXTENDS FileMaps

VARIABLES
  value,              \* the project's file map
  request,            \* what each client has asked for and not been given
  answer              \* what the last call of each client returned

Init ==
  /\ value \in FileMap
  /\ request = [c \in Clients |-> Nothing]
  /\ answer = [c \in Clients |-> Nothing]

Ask(c, job) ==
  /\ request[c] = Nothing
  /\ request' = [request EXCEPT ![c] = job]
  /\ answer' = [answer EXCEPT ![c] = Nothing]
  /\ UNCHANGED value

Apply(c) ==
  /\ request[c].kind = "put"
  /\ Stores(request[c].files, value')
  /\ request' = [request EXCEPT ![c] = Applied]
  /\ UNCHANGED answer

\* A put returns.
Confirm(c) ==
  /\ request[c] = Applied
  /\ request' = [request EXCEPT ![c] = Nothing]
  /\ answer' = [answer EXCEPT ![c] = Done]
  /\ UNCHANGED value

\* A get returns.
Return(c) ==
  /\ request[c] = Get
  /\ request' = [request EXCEPT ![c] = Nothing]
  /\ answer' = [answer EXCEPT ![c] = Got(value)]
  /\ UNCHANGED value

Fail(c) ==
  /\ request' = [request EXCEPT ![c] = Nothing]
  /\ UNCHANGED <<value, answer>>

Crash ==
  /\ request' = [c \in Clients |-> Nothing]
  /\ UNCHANGED <<value, answer>>

Step(c) == (\E job \in Jobs : Ask(c, job))
             \/ Apply(c) \/ Confirm(c) \/ Return(c) \/ Fail(c)

Next == Crash \/ \E c \in Clients : Step(c)

Spec == Init /\ [][Next]_<<value, request, answer>>
=============================================================================
