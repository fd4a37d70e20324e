------------------------------- MODULE Cards --------------------------------
(***************************************************************************)
(* The tool cards of the chat, twice: as the live stream makes them        *)
(* (useHarnessChat.ts, the handler of events) and as a reloaded page makes *)
(* them from the stored messages (items.ts, historyToItems).               *)
(*                                                                         *)
(* The stream is the one loop.py writes: in each round the arguments of    *)
(* the calls come in pieces, marked by index only; when the round is       *)
(* over each call is announced with its id, then answered, in the order    *)
(* of the indices.  Arguments are "a", "b", text that does not parse       *)
(* ("bad") or nothing at all ("none"); what does not parse reads as no     *)
(* arguments.  A provider that sends ids sends distinct ones: the number of*)
(* the call in the turn.  For one that sends none the loop takes the index *)
(* of the call (loop.py:836), which every round begins anew.               *)
(***************************************************************************)
EXTENDS Integers, Sequences, SequencesExt, FiniteSets, FiniteSetsExt

CONSTANTS
  MaxCalls,           \* bound: calls in a turn
  MaxRound            \* bound: calls in a round

VARIABLES
  provided,           \* the provider sends ids
  calls,              \* the calls of this round: their arguments
  begun,              \* indices whose arguments have begun to come, in order
  answering,          \* the calls announced in this round; 0 while it streams
  open,               \* the last one announced has no result yet
  messages,           \* the calls and results that are stored
  cards,              \* the live cards
  pending,            \* the cards that wait for their call, in order: index, id
  inOrder             \* arguments have begun for every call, in their order

cardsVars == <<provided, calls, begun, answering, open, messages, cards, pending, inOrder>>

CardsInit ==
  /\ provided \in BOOLEAN
  /\ calls = <<>> /\ begun = {} /\ answering = 0 /\ open = FALSE
  /\ messages = <<>> /\ cards = <<>> /\ pending = <<>> /\ inOrder = TRUE

ParseArgs(args) == IF args \in {"a", "b"} THEN args ELSE "nothing"

Card(id, input, status) == [id |-> id, input |-> input, status |-> status]

\* Every card with the id is patched.
PatchTool(s, id, card) == [i \in DOMAIN s |-> IF s[i].id = id THEN card ELSE s[i]]

-----------------------------------------------------------------------------
(***************************************************************************)
(* The live stream.                                                        *)
(***************************************************************************)
\* The calls that are stored, those of earlier rounds, the id of one of this round.
Before  == Cardinality({m \in DOMAIN messages : messages[m].role = "call"})
Earlier == Before - (IF answering > 0 THEN Len(calls) ELSE 0)
CallId(index) == IF provided THEN Earlier + index ELSE index

\* tool-call-delta: the first piece of an index opens a card under an id of its
\* own.  A later piece, and an index that is still pending, only adds text.
Delta(index) ==
  LET temp == -1 - Len(cards)
  IN  IF \E p \in DOMAIN pending : pending[p].index = index
      THEN UNCHANGED <<cards, pending>>
      ELSE /\ cards' = Append(cards, Card(temp, "nothing", "streaming"))
           /\ pending' = Append(pending, [index |-> index, temp |-> temp,
                                          args |-> calls'[index]])

\* The model starts on its next calls, and their arguments come.
Begin(args) ==
  /\ answering = 0 /\ Len(calls) < MaxRound /\ Before + Len(calls) < MaxCalls
  /\ calls' = Append(calls, args) /\ inOrder' = (inOrder /\ args # "none")
  /\ UNCHANGED <<begun, answering, open, messages, cards, pending>>

Piece(index) ==
  /\ answering = 0 /\ index \in DOMAIN calls \ begun /\ calls[index] # "none"
  /\ UNCHANGED calls /\ begun' = begun \cup {index}
  /\ inOrder' = (inOrder /\ \A i \in begun : i < index)
  /\ Delta(index)
  /\ UNCHANGED <<answering, open, messages>>

\* Mutation: a card that has found its call goes on waiting.
UnpairedNone(p) == pending

Unpaired(p) == RemoveAt(pending, p)

\* tool-call: the first pending card whose arguments are the same, or else the
\* first, becomes the call's; without any a new card is opened.
ToolCall(id, input) ==
  LET same == {p \in DOMAIN pending : ParseArgs(pending[p].args) = input}
      p    == IF same = {} THEN 1 ELSE Min(same)
      card == Card(id, input, "pending")
  IN  IF pending = <<>>
      THEN cards' = Append(cards, card) /\ UNCHANGED pending
      ELSE /\ cards' = PatchTool(cards, pending[p].temp, card)
           /\ pending' = Unpaired(p)

\* The round is over: its message is stored and the next call announced.
Announce ==
  /\ ~open /\ answering < Len(calls)
  /\ \A i \in DOMAIN calls : calls[i] = "none" \/ i \in begun
  /\ answering' = answering + 1 /\ open' = TRUE
  /\ messages' = IF answering > 0 THEN messages
                 ELSE messages \o [i \in DOMAIN calls |->
                        [role |-> "call", id |-> CallId(i), args |-> calls[i]]]
  /\ ToolCall(CallId(answering'), ParseArgs(calls[answering']))
  /\ UNCHANGED <<calls, begun, inOrder>>

\* tool-result; after the last of them the model is asked again.
Result(status) ==
  /\ open /\ open' = FALSE
  /\ messages' = Append(messages, [role |-> "tool", id |-> CallId(answering), ok |-> status])
  /\ LET id == CallId(answering)
     IN  cards' = [i \in DOMAIN cards |->
                     IF cards[i].id = id THEN [cards[i] EXCEPT !.status = status] ELSE cards[i]]
  /\ IF answering = Len(calls)
     THEN calls' = <<>> /\ begun' = {} /\ answering' = 0
     ELSE UNCHANGED <<calls, begun, answering>>
  /\ UNCHANGED <<pending, inOrder>>

CardsNext ==
  /\ UNCHANGED provided
  /\ \/ \E args \in {"a", "b", "bad", "none"} : Begin(args)
     \/ \E index \in DOMAIN calls : Piece(index)
     \/ Announce
     \/ \E status \in {"done", "error"} : Result(status)

-----------------------------------------------------------------------------
(***************************************************************************)
(* The reloaded page.                                                      *)
(***************************************************************************)
\* A call makes a card; a result goes to the first card with its id.
AddMessage(items, m) ==
  LET at == {i \in DOMAIN items : items[i].id = m.id}
  IN  IF m.role = "call" THEN Append(items, Card(m.id, ParseArgs(m.args), "pending"))
      ELSE IF at = {} THEN items
      ELSE [items EXCEPT ![Min(at)].status = m.ok]

\* The cards of a log, a message at a time.
TakenItems(log) ==
  LET taken[k \in 0..Len(log)] ==
        IF k = 0 THEN <<>> ELSE AddMessage(taken[k - 1], log[k])
  IN  taken[Len(log)]

\* A call that has no result is over.
HistoryToItems(log) ==
  LET items == TakenItems(log)
  IN  [i \in DOMAIN items |->
         IF items[i].status = "pending" THEN [items[i] EXCEPT !.status = "error"] ELSE items[i]]

(***************************************************************************)
(* Between rounds a reloaded page would show the cards the live stream has *)
(* made, each with its arguments and its status, whatever cards the calls  *)
(* were paired with on the way; and in the same order, if arguments came   *)
(* for every call, in the order of the calls: a call without any may take  *)
(* the card of a later one.  items.ts:165 says so of every turn; it holds  *)
(* of those whose provider sends ids.  When the loop has to number the     *)
(* calls, a result of a second round patches the card of the first as well *)
(* (useHarnessChat.ts:210), on the reloaded page that card alone (items.ts *)
(* :247), and the two differ.                                              *)
(***************************************************************************)
CardsAgree ==
  calls = <<>> /\ provided =>
    LET stored == HistoryToItems(messages)
    IN  /\ Len(cards) = Len(stored) /\ Range(cards) = Range(stored)
        /\ inOrder => cards = stored
=============================================================================
