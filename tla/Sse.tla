-------------------------------- MODULE Sse ---------------------------------
(***************************************************************************)
(* The reader of the chat's event stream:                                  *)
(* packages/spec_harness/src/react/sse.ts.                                 *)
(*                                                                         *)
(* A stream is a sequence of "E", "D", "X" and "C" (the text of an event   *)
(* line, of a data line that is JSON, of one that is not, of a comment),   *)
(* "CR" and "LF".                                                          *)
(***************************************************************************)
EXTENDS Integers, Sequences, SequencesExt, FiniteSets, FiniteSetsExt

VARIABLES
  stream,             \* what the server has sent
  buffer,             \* the tail that is carried forward
  got                 \* the events handed on

Lines == {"E", "D", "X", "C"}

\* The LF of a CRLF takes the place of its CR.
Put(s, w) ==
  IF w = "LF" /\ s # <<>> /\ Last(s) = "CR" THEN Append(Front(s), w) ELSE Append(s, w)

\* CRLF becomes LF.
Normalized(s) ==
  LET taken[k \in 0..Len(s)] == IF k = 0 THEN <<>> ELSE Put(taken[k - 1], s[k])
  IN  taken[Len(s)]

\* Where a blank line ends what begins at `from'.
Ends(s, from) == {i \in from..Len(s) - 1 : s[i] = "LF" /\ s[i + 1] = "LF"}

\* The pieces between blank lines.
Blocks(s) ==
  LET cut[from \in 1..Len(s) + 1] ==
        LET ends == Ends(s, from)
        IN  IF ends = {} THEN <<SubSeq(s, from, Len(s))>>
            ELSE <<SubSeq(s, from, Min(ends) - 1)>> \o cut[Min(ends) + 2]
  IN  cut[1]

\* The lines of a block that say something.  The event needs a name, its data
\* must be JSON or missing.
ParseSseBlock(block) ==
  LET data == SelectSeq(block, LAMBDA w : w \in {"D", "X"})
  IN  IF Contains(block, "E") /\ data \in {<<>>, <<"D">>} THEN <<data>> ELSE <<>>

Events(blocks) == FlattenSeq([i \in DOMAIN blocks |-> ParseSseBlock(blocks[i])])

\* Mutation: each chunk is normalized by itself.
JoinChunks(rest, chunk) == rest \o Normalized(chunk)

Join(rest, chunk) == Normalized(rest \o chunk)

\* A read returns a chunk: whole blocks are parsed, the rest waits.
Read(chunk) ==
  LET blocks == Blocks(Join(buffer, chunk))
  IN  /\ got' = got \o Events(Front(blocks))
      /\ buffer' = Last(blocks)
      /\ stream' = stream \o chunk

\* Streams a server writes: a line ends in LF or CRLF.
Sent(s) ==
  \A i \in 1..Len(s) - 1 : /\ s[i] = "CR" => s[i + 1] = "LF"
                           /\ s[i] \in Lines => s[i + 1] \notin Lines

Feed(chunk) == Sent(stream \o chunk) /\ Read(chunk)

(***************************************************************************)
(* It does not matter where the network cuts the stream: what has been     *)
(* handed on, with what the end would still flush, is what the stream      *)
(* read in one piece holds.                                                *)
(***************************************************************************)
ReadsWhole ==
  got \o Events(<<buffer>>) = Events(Blocks(Normalized(stream)))
=============================================================================
