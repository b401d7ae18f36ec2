------------------------------- MODULE Recap --------------------------------
(***************************************************************************)
(* The Recap of a Segment (record/recap.go, compact.go writeRecap): a      *)
(* writer, the Agent's Model or code of the host's, is asked for it, and   *)
(* may fail in every way a Model call can.  What it costs is recorded, and *)
(* the Segment goes without it.  A reply is told by its lines.             *)
(***************************************************************************)
EXTENDS Naturals, Sequences

CONSTANT RecapLoads   \* the writer ("model", "truncate", "host", none), whether
                      \* it has a Model and a Context, why the Segment is closed,
                      \* the Model's reply as events, and the bounds on failures,
                      \* cancellations and timeouts

VARIABLES
  writer,    \* where writeRecap and the writer are
  request,   \* the Messages that are sent: of the Context, and the ask
  reply,     \* what was read: lines, usage, why it stopped, whether it called a
             \* Tool, and how many events are left
  recap,     \* recapOutcome: its text, the usage recorded and the failure
  recapLoad

recapVars == <<writer, request, reply, recap, recapLoad>>

Headings == {"What happened", "Key facts", "Open items"}

NoReply(events) == [lines |-> <<>>, usage |-> 0, stop |-> "none", called |-> FALSE, left |-> events]
Outcome(text, usage, failure) == [text |-> text, usage |-> usage, failure |-> failure]
NoRecap == Outcome(<<>>, 0, "none")

Init ==
  /\ recapLoad \in RecapLoads
  /\ writer = "ask"
  /\ request = <<>>
  /\ reply = NoReply(recapLoad.events)
  /\ recap = NoRecap

\* A writer's failure, with what its call had cost: the Segment has no Recap.
Fails(why, usage) == writer' = "settled" /\ recap' = Outcome(<<>>, usage, why)

\* writeRecap: no writer, a Context that cannot be built (its builder fails or
\* panics), and the validation and request of ModelRecap.  A writer that needs the
\* Context is not asked when the Context was refused as too long.
Ask ==
  /\ writer = "ask"
  /\ CASE recapLoad.kind = "none" -> writer' = "settled" /\ UNCHANGED <<request, recap>>
       [] recapLoad.context = "fails" -> Fails("context", 0) /\ UNCHANGED request
       [] recapLoad.kind # "model" -> writer' = "write" /\ UNCHANGED <<request, recap>>
       [] ~recapLoad.model -> Fails("no_model", 0) /\ UNCHANGED request
       [] recapLoad.context = "none" ->
            /\ Fails(IF recapLoad.why = "overflow" THEN "skipped_overflow" ELSE "no_context", 0)
            /\ UNCHANGED request
       [] OTHER -> /\ request' = recapLoad.messages \o <<"ask">>
                   /\ writer' = "stream" /\ UNCHANGED recap
  /\ UNCHANGED <<reply, recapLoad>>

\* TruncateRecap lists the closed Messages; a host's writer returns a text, none,
\* an error, or panics (guardedCall2).
Write ==
  /\ writer = "write"
  /\ \/ /\ recapLoad.kind = "truncate"
        /\ writer' = "settled" /\ recap' = Outcome(<<"summary">> \o recapLoad.messages, 0, "none")
     \/ /\ recapLoad.kind = "host"
        /\ \/ Fails("writer", 0)
           \/ Fails("empty_recap", 1)
           \/ writer' = "settled" /\ recap' = Outcome(<<"text">>, 1, "none")
  /\ UNCHANGED <<request, reply, recapLoad>>

Spends(what) == recapLoad[what] > 0 /\ recapLoad' = [recapLoad EXCEPT ![what] = @ - 1]

\* complete: Stream or Recv fails, panics or passes the Recap's timeout.
Break ==
  /\ writer = "stream" \/ (writer = "read" /\ reply.stop = "none")
  /\ Spends("fails")
  /\ Fails("model_failure", 0)
  /\ UNCHANGED <<request, reply>>

Open ==
  /\ writer = "stream"
  /\ writer' = "read"
  /\ UNCHANGED <<request, reply, recap, recapLoad>>

\* One event of the stream; a usage of the last one replaces an earlier one
\* unless it is empty.
Recv ==
  /\ writer = "read"
  /\ reply.left # <<>>
  /\ reply.stop = "none"
  /\ LET event == Head(reply.left)
         next == [reply EXCEPT !.left = Tail(@)]
     IN reply' =
          CASE event.kind = "text" -> [next EXCEPT !.lines = Append(@, event.line)]
            [] event.kind = "call" -> [next EXCEPT !.called = TRUE]
            [] event.kind = "usage" -> [next EXCEPT !.usage = event.usage]
            [] OTHER -> [next EXCEPT !.stop = event.stop,
                                     !.usage = IF event.usage # 0 THEN event.usage ELSE @]
  /\ UNCHANGED <<writer, request, recap, recapLoad>>

\* ValidateRecap: it starts with a heading, all its headings are known ones, and
\* it says what happened.
ValidRecap(lines) ==
  /\ lines # <<>> /\ Head(lines).heading
  /\ \A k \in DOMAIN lines : lines[k].heading => lines[k].text \in Headings
  /\ \E k \in DOMAIN lines : lines[k].heading /\ lines[k].text = "What happened"

\* The end of the stream: a reply that is not a whole Recap is refused, and what
\* it cost is kept.
Complete ==
  /\ writer = "read"
  /\ reply.left = <<>> \/ reply.stop # "none"
  /\ CASE reply.stop = "none" -> Fails("model_failure", 0)
       [] reply.called \/ reply.stop \in {"calls", "max_tokens"} \/ ~ValidRecap(reply.lines) ->
            Fails("model_failure", reply.usage)
       [] OTHER -> writer' = "settled" /\ recap' = Outcome(reply.lines, reply.usage, "none")
  /\ UNCHANGED <<request, reply, recapLoad>>

\* The compaction is canceled: it fails, whatever the writer came to.
Cancel ==
  /\ writer \notin {"settled", "canceled"}
  /\ Spends("cancels")
  /\ writer' = "canceled" /\ recap' = Outcome(<<>>, 0, "canceled")
  /\ UNCHANGED <<request, reply>>

Goes == Ask \/ Write \/ Open \/ Recv \/ Complete
Next == Goes \/ Break \/ Cancel

-----------------------------------------------------------------------------

\* A Recap of a Model is a whole reply under the headings, of one that ended by
\* itself and called no Tool; the request it answers is the next call's own with
\* the ask behind it; a writer that is asked and gives none leaves a reason; and a
\* call that was answered is paid for whether its Recap is used or not.
RecapsAreWhole ==
  writer = "settled" =>
    /\ (recap.text # <<>> /\ recapLoad.kind = "model") =>
         /\ reply.stop = "end" /\ ~reply.called /\ ValidRecap(recap.text)
         /\ request = Append(recapLoad.messages, "ask")
    /\ (recap.text = <<>>) <=> (recap.failure # "none" \/ recapLoad.kind = "none")
    /\ reply.stop # "none" => recap.usage = reply.usage

RecapEnds == writer \in {"settled", "canceled"}
=============================================================================
