------------------------------- MODULE Views --------------------------------
(***************************************************************************)
(* What is computed from a value alone, each for itself: in the panes the  *)
(* diff of two texts, the segments of a text that streams in, the events   *)
(* of a stream, the cards of a turn; on the server the messages that fit   *)
(* the model's window.                                                     *)
(***************************************************************************)
EXTENDS Diff, Segments, Sse, Cards, Window

CONSTANTS
  Text,               \* the lines a file may hold
  MaxLines,           \* bound: lines of a file
  MaxWords,           \* bound: words of the agent's text
  MaxStream           \* bound: length of a stream

VARIABLE view         \* the one of them that is looked at

ViewsInit ==
  /\ view \in {"diff", "segments", "events", "cards", "window"}
  /\ before = <<>> /\ after = <<>> /\ text = <<>>
  /\ stream = <<>> /\ buffer = <<>> /\ got = <<>>
  /\ CardsInit /\ log = <<>>

\* The chunks of one or two marks.
Chunks == LET Marks == Lines \cup {"CR", "LF"} IN BoundedSeq(Marks, 2) \ {<<>>}

ViewsNext ==
  /\ UNCHANGED view
  /\ \/ /\ view = "diff" /\ Len(before \o after) < MaxLines
        /\ \E line \in Text : Edit(line)
        /\ UNCHANGED <<text, stream, buffer, got, cardsVars, log>>
     \/ /\ view = "segments" /\ Len(text) < MaxWords
        /\ \E word \in Words : Type(word)
        /\ UNCHANGED <<before, after, stream, buffer, got, cardsVars, log>>
     \/ /\ view = "events"
        /\ \E chunk \in Chunks : Len(stream \o chunk) <= MaxStream /\ Feed(chunk)
        /\ UNCHANGED <<before, after, text, cardsVars, log>>
     \/ /\ view = "cards" /\ CardsNext
        /\ UNCHANGED <<before, after, text, stream, buffer, got, log>>
     \/ /\ view = "window" /\ WindowNext
        /\ UNCHANGED <<before, after, text, stream, buffer, got, cardsVars>>

ViewsSpec ==
  ViewsInit /\ [][ViewsNext]_<<view, before, after, text, stream, buffer, got, cardsVars, log>>
=============================================================================
