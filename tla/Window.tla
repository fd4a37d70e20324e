------------------------------- MODULE Window -------------------------------
(***************************************************************************)
(* What of a transcript is sent to the model, as in fit_to_window of       *)
(* py/speculos_harness/speculos_harness/history.py: each time the provider *)
(* finds it too long the turn climbs a rung of the ladder, and the upper   *)
(* rungs drop messages.                                                    *)
(*                                                                         *)
(* A transcript is that of History, without the system message, which goes *)
(* first and is never dropped.  The lower rungs shorten what messages say, *)
(* and none becomes empty by it: this is left out.                         *)
(***************************************************************************)
EXTENDS History

CONSTANTS
  MaxAttempts,        \* context retries of a turn
  MaxLog              \* bound: messages of a transcript

ASSUME AttemptsAssumption == MaxAttempts \in 0..4

VARIABLE log          \* the stored messages and those of the turn, so far

\* The share of the middle that each rung keeps: one out of so many.
Divisor(attempt) == <<1, 1, 2, 4, 8>>[attempt + 1]

\* It says that messages were trimmed, and starts the transcript as a user's.
TrimPlaceholder == User("trimmed")

\* Mutation: results stay whose calls are gone.
RepairedCut(h) == h

Cut(h) == SanitizeHistory(h)

\* The newest of the messages stay, and a user's message at the end.
DropOldest(h, divisor) ==
  LET tail   == IF Last(h).role = "user" THEN <<Last(h)>> ELSE <<>>
      middle == SubSeq(h, 1, Len(h) - Len(tail))
      keep   == Len(middle) \div divisor
      kept   == Cut(SubSeq(middle, Len(middle) - keep + 1, Len(middle)) \o tail)
  IN  IF divisor = 1 \/ Len(h) <= 1 THEN h
      ELSE IF kept # <<>> /\ Head(kept).role # "user" THEN <<TrimPlaceholder>> \o kept
      ELSE kept

FitToWindow(h, attempt) == DropOldest(SanitizeHistory(h), Divisor(attempt))

-----------------------------------------------------------------------------
(***************************************************************************)
(* A transcript grows as the turns of a project make it.  Ids are new ones *)
(* or, from a provider that gives none, the same in every round.           *)
(***************************************************************************)
\* The user's message is on top, or the results of a round.
Asking == log # <<>> /\ Last(log).role # "assistant"

Say == log' = Append(log, User("text"))

Reply == Asking /\ log' = Append(log, Assistant("text", <<>>))

Round(calls, new) ==
  LET id(k) == IF new THEN <<"toolu", Len(log), k>> ELSE <<"call", k>>
  IN  /\ Asking
      /\ log' = Append(log, Assistant("empty", [k \in 1..calls |-> [id |-> id(k), name |-> "read"]]))
                  \o [k \in 1..calls |-> ToolResult(id(k), "ok")]

WindowNext ==
  /\ \/ Say \/ Reply
     \/ \E calls \in 1..3, new \in BOOLEAN : Round(calls, new)
  /\ Len(log') <= MaxLog

-----------------------------------------------------------------------------
\* The messages of the transcript that are sent.
Kept(sent) ==
  IF sent # <<>> /\ Head(sent) = TrimPlaceholder THEN Tail(sent) ELSE sent

(***************************************************************************)
(* Wherever a rung cuts the transcript, in the middle of a round too, what *)
(* is left is an end of it that a provider accepts, first of all a user's  *)
(* message, and no rung keeps more than the one below.  A rung that drops  *)
(* messages may leave nothing of it but the system message                 *)
(* (history.py:901-905), though never when a user's message comes last;    *)
(* when results come last the user's message may be among what is dropped. *)
(***************************************************************************)
WindowLegal ==
  log # <<>> => \A attempt \in 0..MaxAttempts :
    LET sent == FitToWindow(log, attempt)
        kept == Kept(sent)
    IN  /\ Replayable(sent)
        /\ sent # <<>> => Head(sent).role = "user"
        /\ sent = <<>> => Divisor(attempt) > 1
        /\ IsSuffix(kept, log)
        /\ Last(log).role = "user" => kept # <<>>
        /\ attempt > 0 => Len(kept) <= Len(Kept(FitToWindow(log, attempt - 1)))

(***************************************************************************)
(* history.py:889-890: "The leading system message and the trailing user   *)
(* message are the request being answered - they always survive."  The     *)
(* request a turn answers is the last message of the user's.               *)
(***************************************************************************)
RequestSurvives ==
  Asking => LET request == Max({i \in DOMAIN log : log[i].role = "user"})
            IN  \A attempt \in 0..MaxAttempts :
                  Len(Kept(FitToWindow(log, attempt))) > Len(log) - request
=============================================================================
