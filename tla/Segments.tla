------------------------------ MODULE Segments ------------------------------
(***************************************************************************)
(* The agent's text, split into runs of text and blocks of choices:        *)
(* packages/spec_harness/src/react/choices.ts, called again on the whole   *)
(* text with every delta.                                                  *)
(*                                                                         *)
(* A text is a sequence of "tick" (three backquotes), "name" and "old" (the*)
(* words that make a fence of it), "list" (the JSON of some options),      *)
(* "junk" (any other word) and "blank".                                    *)
(***************************************************************************)
EXTENDS Integers, Sequences, SequencesExt, FiniteSets, FiniteSetsExt

VARIABLE text

Words == {"tick", "name", "old", "list", "junk", "blank"}

Blank(s) == \A i \in DOMAIN s : s[i] = "blank"
Trim(s)  == SelectSeq(s, LAMBDA w : w # "blank")

Md(s)   == [kind |-> "md", text |-> s]
Code(s) == [kind |-> "code", text |-> s]
Run(s)  == IF Blank(s) THEN <<>> ELSE <<Md(s)>>
Loading == [kind |-> "choices-loading"]
Chips   == [kind |-> "choices"]

\* A body that is not options is shown as code, in a fence of its own.
Block(body) == IF Trim(body) = <<"list">> THEN Chips ELSE Code(Trim(body))

Fences(s, from, name) ==
  {i \in from..Len(s) - 1 : s[i] = "tick" /\ s[i + 1] \in name}

\* Mutation: the fence that is looked for first is taken before the other.
FindFenceInTurn(s, from) ==
  IF Fences(s, from, {"name"}) # {} THEN Min(Fences(s, from, {"name"}))
  ELSE IF Fences(s, from, {"old"}) # {} THEN Min(Fences(s, from, {"old"})) ELSE 0

\* The earliest fence of either name, 0 if there is none.
FindFence(s, from) ==
  LET found == Fences(s, from, {"name", "old"})
  IN  IF found = {} THEN 0 ELSE Min(found)

ParseAssistantSegments(s) ==
  LET parse[from \in 1..Len(s) + 1] ==
        LET at    == FindFence(s, from)
            close == {i \in at + 2..Len(s) : s[i] = "tick"}
        IN  IF at = 0 THEN Run(SubSeq(s, from, Len(s)))
            ELSE Run(SubSeq(s, from, at - 1)) \o
                 IF close = {} THEN <<Loading>>
                 ELSE <<Block(SubSeq(s, at + 2, Min(close) - 1))>> \o parse[Min(close) + 1]
  IN  parse[1]

Type(word) == text' = Append(text, word)

(***************************************************************************)
(* While the text streams in, what is shown only grows: every segment but  *)
(* the last stays as it is, so no chip that can be picked changes or goes. *)
(* A block that is being written is never shown as text ("the user never   *)
(* watches raw JSON stream past", choices.ts:107): the word that completes *)
(* a fence puts the loading segment last, and nothing but the closing fence*)
(* takes it away.                                                          *)
(***************************************************************************)
EndsInTick(segments) ==
  segments # <<>> /\ Last(segments).kind = "md" /\ Last(Last(segments).text) = "tick"

Loads(word, old, new) ==
  /\ EndsInTick(old) /\ word \in {"name", "old"} => new # <<>> /\ Last(new) = Loading
  /\ old # <<>> /\ Last(old) = Loading /\ word # "tick" => new = old

SegmentsGrow ==
  [][LET old == ParseAssistantSegments(text)
         new == ParseAssistantSegments(text')
     IN  /\ old # <<>> => IsPrefix(Front(old), new)
         /\ old # <<>> /\ Last(old) = Chips => IsPrefix(old, new)
         /\ Loads(Last(text'), old, new)]_text
=============================================================================
