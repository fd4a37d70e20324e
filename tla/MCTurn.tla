------------------------------- MODULE MCTurn -------------------------------
(***************************************************************************)
(* Instances of Turn.tla for TLC.                                          *)
(***************************************************************************)
EXTENDS TurnProperties

Provided == <<"id", "toolu">>       \* an id the provider made up

Slot(id, name, parses) == [id |-> id, name |-> name, parses |-> parses]

MCHistories ==
  { \* a turn that was interrupted before its results were recorded, as a
    \* project import (PATCH) may bring it in
    <<User("text"), Assistant("empty", <<[id |-> Provided, name |-> "read"]>>)>> }

MCCallSlots ==
  { Slot(NoId, "write", TRUE), Slot(Provided, "read", TRUE),
    Slot(NoId, "write", FALSE) }

Writes == Slot(NoId, "write", TRUE)
Reads  == Slot(Provided, "read", TRUE)
Broken == Slot(Provided, "read", FALSE)

MCThreeSlots == { Writes, Reads, Broken }

\* TLC follows a call that runs and only reads where it is the one call of the
\* first step; the two other kinds come everywhere and in every order.
ReadsFirst ==
  pc = "stream" /\ (\E i \in DOMAIN calls : calls[i] = Reads) =>
    step = 0 /\ Len(calls) = 1
=============================================================================
