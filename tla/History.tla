------------------------------ MODULE History ------------------------------
(***************************************************************************)
(* The transcript of a project and its repair, as in                       *)
(* py/speculos_harness/speculos_harness/history.py.                        *)
(*                                                                         *)
(* A message is a record.  What a message says is abstracted to whether it *)
(* says anything ("text" or "empty"); a tool message keeps only how the    *)
(* call went.  The identifiers of calls are kept, because pairing calls    *)
(* with results is what the repair is about.                               *)
(***************************************************************************)
EXTENDS Integers, Sequences, FiniteSetsExt, SequencesExt

NoId == <<>>                        \* a call the provider gave no id

User(content)             == [role |-> "user", content |-> content]
Assistant(content, calls) == [role |-> "assistant", content |-> content,
                              calls |-> calls]
ToolResult(id, body)      == [role |-> "tool", id |-> id, body |-> body]

IsSequence(s) == s \in Seq({s[i] : i \in DOMAIN s})

\* What the store keeps as a project's messages is a list of messages.
IsMessage(msg) ==
  \/ msg.role = "user" /\ msg = User(msg.content)
  \/ msg.role = "tool" /\ msg = ToolResult(msg.id, msg.body)
  \/ /\ msg.role = "assistant" /\ msg = Assistant(msg.content, msg.calls)
     /\ IsSequence(msg.calls)
     /\ \A k \in DOMAIN msg.calls :
          msg.calls[k] = [id |-> msg.calls[k].id, name |-> msg.calls[k].name]

IsTranscript(h) == IsSequence(h) /\ \A i \in DOMAIN h : IsMessage(h[i])

\* The body of the stub that stands for a result nobody recorded.
Interrupted == "interrupted"

IsEmptyContent(msg) == msg.content = "empty"

-----------------------------------------------------------------------------
\* Calls without a function name are dropped; calls without an id get one
\* made of the position of the message and of the call, both from zero.
NormalizedToolCalls(msg, position) ==
  LET WithId(k) ==
        LET call == msg.calls[k]
        IN  IF call.id = NoId THEN [call EXCEPT !.id = <<"call", position, k - 1>>]
                              ELSE call
      normal[k \in 0..Len(msg.calls)] ==
        IF k = 0 THEN <<>>
        ELSE IF msg.calls[k].name = "" THEN normal[k-1]
        ELSE Append(normal[k-1], WithId(k))
  IN  normal[Len(msg.calls)]

\* The positions of the unbroken run of tool messages that follows h[i].
RunAfter(h, i) ==
  {j \in i+1..Len(h) : \A k \in i+1..j : h[k].role = "tool"}

\* The answer to call `id' of the assistant message h[i]: the first result of
\* the run that carries the id, else the stub.
AnswerTo(h, i, id) ==
  LET found == {j \in RunAfter(h, i) : h[j].id = id}
  IN  IF found = {} THEN ToolResult(id, Interrupted) ELSE h[Min(found)]

\* What the repair emits in place of h[i].  Tool messages are emitted by the
\* assistant message they answer and by nothing else.
Repaired(h, i) ==
  LET msg   == h[i]
      calls == NormalizedToolCalls(msg, i - 1)
  IN  CASE msg.role = "tool" -> <<>>
        [] msg.role = "assistant" /\ calls # <<>> ->
             <<[msg EXCEPT !.calls = calls]>>
               \o [k \in DOMAIN calls |-> AnswerTo(h, i, calls[k].id)]
        [] msg.role = "assistant" /\ calls = <<>> /\ ~IsEmptyContent(msg) ->
             <<[msg EXCEPT !.calls = <<>>]>>
        [] msg.role = "user" /\ ~IsEmptyContent(msg) -> <<msg>>
        [] OTHER -> <<>>

\* sanitize_history: the transcript a provider accepts.
SanitizeHistory(h) == FlattenSeq([i \in DOMAIN h |-> Repaired(h, i)])

-----------------------------------------------------------------------------
(***************************************************************************)
(* What a provider accepts: no empty message, every assistant message with *)
(* calls followed by one result per call in call order, and no result      *)
(* anywhere else.                                                          *)
(***************************************************************************)
CallsOf(msg) == IF msg.role = "assistant" THEN msg.calls ELSE <<>>

Replayable(h) ==
  /\ \A i \in DOMAIN h :
       /\ h[i].role = "user" => ~IsEmptyContent(h[i])
       /\ h[i].role = "assistant" => h[i].calls # <<>> \/ ~IsEmptyContent(h[i])
       /\ \A k \in DOMAIN CallsOf(h[i]) :
            /\ i + k <= Len(h)
            /\ h[i+k].role = "tool"
            /\ h[i+k].id = h[i].calls[k].id
            /\ h[i].calls[k].name # ""
  /\ \A j \in DOMAIN h : h[j].role = "tool" =>
       \E i \in 1..j-1 : j <= i + Len(CallsOf(h[i]))

\* The results that are recorded, as opposed to stubs.
RecordedResults(h) ==
  {i \in DOMAIN h : h[i].role = "tool" /\ h[i].body # Interrupted}

\* `longer' keeps everything `h' holds; only a stub may have become a result.
Keeps(h, longer) ==
  /\ Len(h) <= Len(longer)
  /\ \A i \in DOMAIN h :
       \/ longer[i] = h[i]
       \/ /\ h[i].role = "tool" /\ h[i].body = Interrupted
          /\ longer[i].role = "tool" /\ longer[i].id = h[i].id
=============================================================================
