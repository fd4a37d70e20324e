----------------------------- MODULE TurnEvents -----------------------------
(***************************************************************************)
(* What one chat turn promises the reader of its event stream              *)
(* (spec/chat-protocol.md and the docstring of run_turn): the user's       *)
(* message first, every tool call followed by its own result before        *)
(* anything else but an error, at most one error and nothing but `done'    *)
(* after it, `done' last.  The reader may leave at any time; a turn nobody *)
(* reads ends too.                                                         *)
(***************************************************************************)
EXTENDS Integers

VARIABLES
  phase,              \* what the stream is in the middle of
  cards               \* calls shown to the reader and not answered yet

Over == {"done", "gone"}

Init == phase = "opening" /\ cards = 0

Become(next) == phase' = next /\ UNCHANGED cards

\* user-message is sent.
Announce == phase = "opening" /\ Become("talking")
\* tool-call is sent: the client shows a running card.
CallTool == phase = "talking" /\ phase' = "calling" /\ cards' = cards + 1
\* tool-result is sent for the one card that is open.
Answer   == phase = "calling" /\ phase' = "talking" /\ cards' = cards - 1
\* error is sent, possibly before anything else, or while a call is open: its
\* card is not answered then.
Fail     == phase \in {"opening", "talking", "calling"} /\ Become("failing")
\* done is sent; a turn that did not fail leaves no card open.
Finish   == phase \in {"talking", "failing"} /\ Become("done")
\* The reader is gone before done could be sent.
Leave    == phase \notin Over /\ Become("gone")

Next == Announce \/ CallTool \/ Answer \/ Fail \/ Finish \/ Leave

Ends == <>[](phase \in Over)

Safe == Init /\ [][Next]_<<phase, cards>>
Spec == Safe /\ Ends
=============================================================================
