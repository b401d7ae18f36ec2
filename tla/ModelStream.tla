---------------------------- MODULE ModelStream -----------------------------
(***************************************************************************)
(* One Model call: the Client that sends the request and reads the reply   *)
(* (model/http.go send, stream.go, restart.go, classify.go), the Decoder of *)
(* each wire (chat.go, anthropic_stream.go, responses_stream.go), and the  *)
(* Session's reader that builds the Message (gotato/reply.go, retry.go).   *)
(*                                                                         *)
(* A provider streams the same reply for every request it answers, and may *)
(* refuse a request, cut a stream or send an error in it.  What a reader   *)
(* gets is marked with the request it is from.                             *)
(***************************************************************************)
EXTENDS Naturals, Sequences, SequencesExt

CONSTANTS
  MaxRetries,   \* Retry.Max
  ModelLoads    \* the calls: the wire, the reply (its wire events), whether a
                \* Session listens, the size limit of the reply (0 for none)
                \* and, as bounds, the failures and cancels

VARIABLES
  pc,           \* where the call is: send, wait, read, ended
  sent,         \* the requests sent
  tries,        \* attempt: of the send that goes on
  restart,      \* restarter: restarts, delivered, and whether it opens again
  next,         \* the wire event that the provider sends next
  decoder,      \* what the Decoder keeps of the reply
  stream,       \* queue, done and err
  reader,       \* assistantReader: what it received, and the Cut-off replies
  ended,        \* the call's context ended
  result,       \* what the call returned
  load          \* the call, with what is left of its bounds

modelVars == <<pc, sent, tries, restart, next, decoder, stream, reader, ended, result, load>>

-----------------------------------------------------------------------------
(* The Decoders.  A wire event is [kind, call, last, stop]: text and        *)
(* reasoning, "signed" at the end of a reasoning block, "open" when a call  *)
(* appears, "args" for a piece of its arguments, "close" at its end,        *)
(* "stop" with the reason the Model stopped for, and "done".                *)

Fresh == [calls |-> <<>>, stop |-> "none"]

Yields(d, events) == [decoder |-> d, events |-> events, done |-> FALSE, err |-> "none"]
Breaks(d, err) == [decoder |-> d, events |-> <<>>, done |-> TRUE, err |-> err]

ModelEvent(kind, call, whole) == [kind |-> kind, call |-> call, whole |-> whole, from |-> sent]

Content(kind) == <<ModelEvent(kind, 0, TRUE)>>

\* callFor, startBlock, ensureResponsesCall: the call that a delta adds to.
OpenCall(d, c) ==
  IF \E i \in DOMAIN d.calls : d.calls[i].call = c THEN d
  ELSE [d EXCEPT !.calls = Append(@, [call |-> c, whole |-> FALSE, emitted |-> FALSE])]

\* A piece of a call's arguments, with the last of them or not.
AddArguments(d, c, last) ==
  [OpenCall(d, c) EXCEPT !.calls =
     [i \in DOMAIN @ |-> IF @[i].call = c THEN [@[i] EXCEPT !.whole = @ \/ last] ELSE @[i]]]

\* The calls of a decoder that have these IDs, handed over once.
Emitted(d, calls) ==
  LET out == SelectSeq(d.calls, LAMBDA c : c.call \in calls /\ ~c.emitted)
  IN [i \in DOMAIN out |-> ModelEvent("tool_call", out[i].call, out[i].whole)]

MarkEmitted(d, calls) ==
  [d EXCEPT !.calls = [i \in DOMAIN @ |-> [@[i] EXCEPT !.emitted = @ \/ d.calls[i].call \in calls]]]

Finishes(d, events) ==
  [decoder |-> d, events |-> events \o Content("done"), done |-> TRUE, err |-> "none"]

\* chatStopReason, anthropicStopReason, responsesStopReason: a reason nobody
\* knows fails the reply, and so does a window that ran out.
StopFails(stop) == CASE stop = "unknown" -> "protocol" [] stop = "overflow" -> "overflow" [] OTHER -> "none"

\* chatDecoder: the calls are handed over as the reply ends, at [DONE] or at the
\* end of a body that had a finish_reason.
ChatDecode(d, e) ==
  CASE e.kind \in {"text", "reasoning"} -> Yields(d, Content(e.kind))
    [] e.kind = "open"  -> Yields(OpenCall(d, e.call), <<>>)
    [] e.kind = "args"  -> Yields(AddArguments(d, e.call, e.last), <<>>)
    [] e.kind = "stop" /\ StopFails(e.stop) # "none" -> Breaks(d, StopFails(e.stop))
    [] e.kind = "stop"  -> Yields([d EXCEPT !.stop = e.stop], <<>>)
    [] e.kind = "done" \/ (e.kind = "end" /\ d.stop # "none") ->
         Finishes(d, Emitted(d, {c.call : c \in ToSet(d.calls)}))
    [] OTHER -> Yields(d, <<>>)

\* anthropicDecoder: a call is handed over as its block stops.
AnthropicDecode(d, e) ==
  LET closes == {e.call}
  IN CASE e.kind \in {"text", "reasoning"} -> Yields(d, Content(e.kind))
       [] e.kind = "signed" -> Yields(d, Content("signed"))
       [] e.kind = "open"   -> Yields(OpenCall(d, e.call), <<>>)
       [] e.kind = "args"   -> Yields(AddArguments(d, e.call, e.last), <<>>)
       [] e.kind = "close"  -> Yields(MarkEmitted(d, closes), Emitted(d, closes))
       [] e.kind = "stop" /\ StopFails(e.stop) # "none" -> Breaks(d, StopFails(e.stop))
       [] e.kind = "stop"   -> Yields([d EXCEPT !.stop = e.stop], <<>>)
       [] e.kind = "done"   -> Finishes(d, <<>>)
       [] OTHER -> Yields(d, <<>>)

\* responsesDecoder: a call's arguments are whole (argumentsDone) with the event
\* that ends them or with its item's.  It is handed over as its item is done; the
\* rest of them when the response completes, unless the output limit cut their
\* arguments off.  The reason comes with the response.
ResponsesDecode(d, e) ==
  LET closes == {e.call}
      rest   == {c.call : c \in {x \in ToSet(d.calls) : d.stop = "length" => x.whole}}
  IN CASE e.kind \in {"text", "reasoning"} -> Yields(d, Content(e.kind))
       [] e.kind = "signed" -> Yields(d, Content("signed"))
       [] e.kind = "open"   -> Yields(OpenCall(d, e.call), <<>>)
       [] e.kind = "args"   -> Yields(AddArguments(d, e.call, e.last), <<>>)
       [] e.kind = "close"  ->
            LET closed == AddArguments(d, e.call, TRUE)
            IN Yields(MarkEmitted(closed, closes), Emitted(closed, closes))
       [] e.kind = "stop"   -> Yields([d EXCEPT !.stop = e.stop], <<>>)
       [] e.kind = "done" /\ StopFails(d.stop) # "none" -> Breaks(d, StopFails(d.stop))
       [] e.kind = "done"   -> Finishes(MarkEmitted(d, rest), Emitted(d, rest))
       [] OTHER -> Yields(d, <<>>)

Decode(e) ==
  CASE load.wire = "chat"      -> ChatDecode(decoder, e)
    [] load.wire = "anthropic" -> AnthropicDecode(decoder, e)
    [] load.wire = "responses" -> ResponsesDecode(decoder, e)

-----------------------------------------------------------------------------
(* The reader.                                                             *)

\* assistantReader with nothing received; a retried reply is another Message.
NewReply(r) == [r EXCEPT !.received = <<>>, !.complete = FALSE]

HasText(events) == \E i \in DOMAIN events : events[i].kind = "text"

\* cutOffReply: the text that was received.
CutOffReply(r) == IF HasText(r.received) THEN Append(r.cutOff, Head(r.received).from) ELSE r.cutOff

\* Wrong: the reply so far is kept, and the new one is added to it.
RetriedOnTop(r) == r

\* retried: what was received is void, and kept as a Cut-off reply.
Retried(r) == [NewReply(r) EXCEPT !.cutOff = CutOffReply(r)]

\* ReportModelRetry: a Session hears of it.
Reports == IF load.session THEN Retried(reader) ELSE reader

Fail(code) ==
  /\ pc' = "ended"
  /\ result' = [kind |-> "error", code |-> code]
  /\ UNCHANGED <<sent, tries, restart, next, decoder, stream, ended>>

\* grow and appendToolCall: an event over the size limit, or a call whose ID was
\* used, ends the reply.
Refused(e) ==
  CASE load.limit > 0 /\ Len(reader.received) >= load.limit -> "limit"
    [] e.kind = "tool_call" /\ \E i \in DOMAIN reader.received :
         reader.received[i].kind = "tool_call" /\ reader.received[i].call = e.call -> "protocol"
    [] OTHER -> "none"

\* Recv of what is queued, and apply.
Deliver ==
  /\ pc = "read" /\ stream.queue # <<>>
  /\ LET e == Head(stream.queue)
     IN IF e.kind = "done"
        THEN /\ reader' = [reader EXCEPT !.complete = TRUE]
             /\ pc' = "ended" /\ result' = [kind |-> "reply", code |-> "none"]
             /\ restart' = [restart EXCEPT !.delivered = TRUE]
             /\ stream' = [stream EXCEPT !.queue = Tail(@)]
             /\ UNCHANGED <<sent, tries, next, decoder, ended>>
        ELSE IF Refused(e) # "none"
        THEN Fail(Refused(e)) /\ reader' = [reader EXCEPT !.cutOff = CutOffReply(reader)]
        ELSE /\ reader' = [reader EXCEPT !.received = Append(@, e)]
             /\ restart' = [restart EXCEPT !.delivered = TRUE]
             /\ stream' = [stream EXCEPT !.queue = Tail(@)]
             /\ UNCHANGED <<pc, sent, tries, next, decoder, ended, result>>
  /\ UNCHANGED load

\* writePart: the event was applied, and the write of the reply's part fails.
PartFails ==
  /\ pc = "read" /\ stream.queue # <<>> /\ load.session /\ load.fails > 0
  /\ LET e   == Head(stream.queue)
         got == [reader EXCEPT !.received = Append(@, e)]
     IN /\ e.kind \in {"text", "reasoning"} /\ Refused(e) = "none"
        /\ Fail("journal")
        /\ reader' = [got EXCEPT !.cutOff = CutOffReply(got)]
  /\ load' = [load EXCEPT !.fails = @ - 1]

\* broken: the reply failed once what was decoded before it is delivered.
Broken ==
  /\ pc = "read" /\ stream.queue = <<>> /\ stream.err # "none"
  /\ Fail(stream.err)
  /\ reader' = [reader EXCEPT !.cutOff = CutOffReply(reader)]
  /\ UNCHANGED load

-----------------------------------------------------------------------------
(* Client.send.                                                            *)

\* DefaultClassifier: what the provider's answer means.
Answers == {"stream", "transport", "transient", "final", "overflow"}
Retryable(answer) == answer \in {"transport", "transient"}

\* NewStream, or reopen on a response after a restart: nothing decoded is kept.
OpensStream ==
  /\ pc' = "read"
  /\ next' = 1
  /\ decoder' = Fresh
  /\ stream' = [queue |-> <<>>, done |-> FALSE, err |-> "none"]
  /\ UNCHANGED <<reader, result, restart, tries>>

\* One request and its answer: the reply's stream, an error that is retried
\* within MaxRetries, or the end.
Send ==
  /\ pc = "send"
  /\ sent' = sent + 1
  /\ \E answer \in Answers :
       /\ answer # "stream" => load.fails > 0
       /\ load' = IF answer = "stream" THEN load ELSE [load EXCEPT !.fails = @ - 1]
       /\ IF answer = "stream" /\ ~ended THEN OpensStream
          ELSE IF ~ended /\ Retryable(answer) /\ tries < MaxRetries
          THEN /\ pc' = "wait"
               /\ tries' = tries + 1
               /\ reader' = Reports
               /\ UNCHANGED <<restart, next, decoder, stream, result>>
          ELSE /\ pc' = "ended"
               /\ result' = [kind |-> "error", code |-> IF ended THEN "canceled"
                                                        ELSE IF answer = "overflow" THEN "overflow" ELSE "failure"]
               /\ UNCHANGED <<tries, reader, restart, next, decoder, stream>>
  /\ UNCHANGED ended

\* wait: the delay, or the context's end.
Wait ==
  /\ pc = "wait"
  /\ \/ /\ pc' = "send" /\ UNCHANGED <<result, reader>>
     \/ /\ ended
        /\ pc' = "ended" /\ result' = [kind |-> "error", code |-> "canceled"]
        /\ reader' = [reader EXCEPT !.cutOff = CutOffReply(reader)]
  /\ UNCHANGED <<sent, tries, restart, next, decoder, stream, ended, load>>

-----------------------------------------------------------------------------
(* The stream loop: Recv with nothing queued.                              *)

Reading == pc = "read" /\ stream.queue = <<>> /\ stream.err = "none" /\ ~stream.done

Takes(decoded) ==
  /\ decoder' = decoded.decoder
  /\ stream' = [queue |-> decoded.events, done |-> decoded.done, err |-> decoded.err]

\* readSSEEvent and decode: the next event of the reply.
ReadEvent ==
  /\ Reading /\ ~ended
  /\ next <= Len(load.reply)
  /\ Takes(Decode(load.reply[next]))
  /\ next' = next + 1
  /\ UNCHANGED <<pc, sent, tries, restart, reader, ended, result, load>>

\* An error event, or one that is not JSON: no interruption, and not sent again.
ReadError ==
  /\ Reading /\ ~ended /\ load.fails > 0
  /\ \E err \in {"failure", "overflow"} : stream' = [stream EXCEPT !.err = err]
  /\ load' = [load EXCEPT !.fails = @ - 1]
  /\ UNCHANGED <<pc, sent, tries, restart, next, decoder, reader, ended, result>>

\* recover: within MaxRetries, and after output only when a Session drops it.
MayRestart == restart.count < MaxRetries /\ (restart.delivered => load.session)

\* recover after an interruption.
Recover ==
  IF MayRestart
  THEN /\ pc' = "wait"
       /\ restart' = [restart EXCEPT !.count = @ + 1]
       /\ tries' = 0
       /\ reader' = Reports
       /\ UNCHANGED <<sent, next, decoder, stream, ended, result>>
  ELSE /\ Fail("failure")
       /\ reader' = [reader EXCEPT !.cutOff = CutOffReply(reader)]

\* The body ends between two events: complete if the Decoder says so
\* (decodeEnd), and an interruption otherwise.
BodyEnds ==
  /\ Reading /\ ~ended
  /\ next > Len(load.reply) \/ load.fails > 0
  /\ load' = IF next > Len(load.reply) THEN load ELSE [load EXCEPT !.fails = @ - 1]
  /\ LET decoded == Decode([kind |-> "end", call |-> 0, last |-> FALSE, stop |-> "none"])
     IN IF decoded.done
        THEN Takes(decoded) /\ UNCHANGED <<pc, sent, tries, restart, next, reader, ended, result>>
        ELSE Recover

\* The connection is cut in an event.
Cut ==
  /\ Reading /\ ~ended /\ load.fails > 0
  /\ load' = [load EXCEPT !.fails = @ - 1]
  /\ Recover

\* readSSEEvent and recover once the context ended.
Canceled ==
  /\ Reading /\ ended
  /\ Fail("canceled")
  /\ reader' = [reader EXCEPT !.cutOff = CutOffReply(reader)]
  /\ UNCHANGED load

\* The Run is aborted, an Interrupt comes, or the deadline passes.
ContextEnds ==
  /\ load.cancels > 0 /\ ~ended /\ pc # "ended"
  /\ ended' = TRUE
  /\ load' = [load EXCEPT !.cancels = @ - 1]
  /\ UNCHANGED <<pc, sent, tries, restart, next, decoder, stream, reader, result>>

-----------------------------------------------------------------------------

Init ==
  /\ load \in ModelLoads
  /\ pc = "send" /\ sent = 0 /\ tries = 0
  /\ restart = [count |-> 0, delivered |-> FALSE]
  /\ next = 1 /\ decoder = Fresh
  /\ stream = [queue |-> <<>>, done |-> FALSE, err |-> "none"]
  /\ reader = [received |-> <<>>, complete |-> FALSE, cutOff |-> <<>>]
  /\ ended = FALSE /\ result = [kind |-> "none", code |-> "none"]

Goes ==
  \/ Send \/ Wait \/ Deliver \/ PartFails \/ Broken \/ ReadEvent \/ ReadError \/ BodyEnds \/ Cut \/ Canceled

Next == Goes \/ ContextEnds

Spec == Init /\ [][Next]_modelVars /\ WF_modelVars(Goes)

-----------------------------------------------------------------------------

\* What the reply holds, as the reader gets it.
Whole == SelectSeq(load.reply, LAMBDA e : e.kind \in {"text", "reasoning"})

Received(kinds) == SelectSeq(reader.received, LAMBDA e : e.kind \in kinds)

\* A Message is one reply of the provider: nothing of a reply that was cut off
\* is in it, a complete one has all of it once and in order, and a reply is
\* called complete only if the provider ended it (restart.go, retried).  A call of
\* the Responses wire whose arguments the output limit cut off is not in it.  The
\* request is sent again within the bounds, MaxRetries times for each of the
\* MaxRetries restarts.
ReplyIsOneAttempt ==
  /\ \A i \in DOMAIN reader.received : reader.received[i].from = reader.received[1].from
  /\ LET got == Received({"text", "reasoning"})
     IN /\ Len(got) <= Len(Whole)
        /\ \A i \in DOMAIN got : got[i].kind = Whole[i].kind
        /\ result.kind = "reply" => Len(got) = Len(Whole) /\ reader.complete
  /\ load.wire = "responses" => \A i \in DOMAIN reader.received : reader.received[i].whole
  /\ sent <= (MaxRetries + 1) * (MaxRetries + 1)

ModelCallEnds == pc = "ended"
=============================================================================
