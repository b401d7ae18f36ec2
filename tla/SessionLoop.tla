---------------------------- MODULE SessionLoop -----------------------------
(***************************************************************************)
(* One gotato Session (gotato/session.go, sessionlifecycle.go, loop.go):   *)
(* its goroutine, which serves Prompt and Continue and ends at Close, the  *)
(* control queue that Steer, Interrupt, FollowUp and Notice fill from      *)
(* goroutines of their own (queue.go, controlqueue.go, notice.go), Abort,  *)
(* and the Events all of them write (eventwrite.go).                       *)
(*                                                                         *)
(* A step is what a goroutine does under run.mu, queue.mu or events.mu, or *)
(* by itself between two of them.  A Tool batch is one step here; module   *)
(* ToolBatch opens it.  Of the Events only those are kept that start or    *)
(* end a Run or say what became of a message.                              *)
(***************************************************************************)
EXTENDS Naturals, FiniteSets, Sequences, SequencesExt

CONSTANTS
  Prompt,        \* calls of Prompt and Continue
  Continue,      \* those of Continue
  Message,       \* calls of Steer, Interrupt, FollowUp and Notice, one message each
  Source,        \* the source of each message
  Limit,         \* the limit of each kind of queued control
  MaxTruncated,  \* CoreLimits.MaxTruncatedContinuations
  SessionLoads   \* the Sessions: whether the host takes the queue over (handoff)
                 \* and, as bounds, the calls made, the aborts, closes, cancels
                 \* (contexts that end), fails (Journal), refusals (commits that
                 \* exceed a limit) and the turns that do not answer

VARIABLES
  at,        \* where the Session goroutine is
  prompt,    \* the command it serves
  run,       \* sessionRun and runState
  queue,     \* controlQueue: items in the order of their seq, held, sealed
  taken,     \* the lease: what a boundary took and has not settled
  staged,    \* sessionEvents.staged
  journal,   \* what the Journal keeps
  stopped,   \* a Journal that failed a write takes no other
  history,   \* the messages committed to the Transcript
  handed,    \* the messages the host took with takeQueued
  caller,    \* where each call is, what it was told, and the Model call it saw
  token,     \* life.admission
  closing,   \* life.closeRequested
  last,      \* who wrote the last Message that is no cut-off reply
  budget     \* what is left of the load

loopVars == <<at, prompt, run, queue, taken, staged, journal, stopped, history,
              handed, caller, token, closing, last, budget>>

Nobody == "nobody"

SourceKind == {"steer", "interrupt", "followUp", "notice"}

Load == [handoff : BOOLEAN, calls : SUBSET (Prompt \cup Message), aborts : Nat, closes : BOOLEAN,
         cancels : Nat, fails : Nat, refusals : Nat, turns : Nat]

LoopAssumption ==
  /\ Prompt \cap Message = {} /\ Nobody \notin Prompt \cup Message
  /\ Source \in [Message -> SourceKind]
  /\ SessionLoads \subseteq Load

-----------------------------------------------------------------------------
(* The control queue.                                                      *)

Kind(m) == CASE Source[m] = "followUp" -> "followUp"
             [] Source[m] = "notice"   -> "notice"
             [] OTHER                  -> "steer"

Kinds == {"steer", "followUp", "notice"}

\* reserve and add: what is queued of the kind, and the places held for it.
Room(k) ==
  Cardinality({i \in DOMAIN queue.items : Kind(queue.items[i].m) = k}) + queue.held[k] < Limit[k]

Interrupting == \E i \in DOMAIN queue.items : Source[queue.items[i].m] = "interrupt"

\* The places in the queue of the messages of these kinds.
Places(kinds) == {i \in DOMAIN queue.items : Kind(queue.items[i].m) \in kinds}

\* A finite set of numbers, in order.
Ascending(K) == CHOOSE s \in SetToSeqs(K) : \A i, j \in DOMAIN s : i < j => s[i] < s[j]

\* What a sequence has at these places, in order.
PickOut(s, K) == LET order == Ascending(K) IN [n \in DOMAIN order |-> s[order[n]]]

\* split: the messages of these kinds go out, the rest stays, both in order.
Split(kinds) ==
  /\ taken' = PickOut(queue.items, Places(kinds))
  /\ queue' = [queue EXCEPT !.items = PickOut(@, Places(Kinds \ kinds))]

\* take: Notices come along with what starts a Turn, or when one follows anyhow.
Take(settling) ==
  LET starts == IF settling THEN {"steer", "followUp"} ELSE {"steer"}
      notices == ~settling \/ \E i \in DOMAIN queue.items : Kind(queue.items[i].m) \in starts
  IN Split(starts \cup (IF notices THEN {"notice"} ELSE {}))

\* Wrong: what was not committed is forgotten.
PutBackNothing(items) == queue.items

\* lease.putBack: each at the place that its seq gives it.
PutBack(items) ==
  LET all == items \o queue.items
      order == Ascending({all[i].seq : i \in DOMAIN all})
  IN [n \in DOMAIN order |-> all[CHOOSE i \in DOMAIN all : all[i].seq = order[n]]]

-----------------------------------------------------------------------------
(* Events: writeEvents under events.mu.                                    *)

Event(kind, of, r) == [kind |-> kind, of |-> of, run |-> r]

\* openSpan: an Event without a Run gets the open one; run_started opens its
\* span and is followed by the abort that came before it.
Stamp(e) == IF e.run = 0 /\ run.open THEN [e EXCEPT !.run = run.id] ELSE e

Span(events) ==
  LET stamped == [i \in DOMAIN events |-> Stamp(events[i])]
      starts == {i \in DOMAIN events : events[i].kind = "started"}
  IN IF starts # {} /\ run.abortBeforeStart
     THEN InsertAt(stamped, Min(starts) + 1, Event("abort", Nobody, run.id))
     ELSE stamped

Opened(events) ==
  IF \E i \in DOMAIN events : events[i].kind = "started"
  THEN [run EXCEPT !.open = TRUE, !.abortBeforeStart = FALSE]
  ELSE run

Closes(events) == \E i \in DOMAIN events : events[i].kind = "ended"

\* A write that goes through, or one the Journal fails: its Events are lost.
\* The span is opened either way, and closed by a write that went through.
Writes(events, ok) ==
  /\ IF ok
     THEN /\ ~stopped
          /\ journal' = journal \o Span(events)
          /\ UNCHANGED stopped
     ELSE /\ stopped \/ budget.fails > 0
          /\ stopped' = TRUE
          /\ UNCHANGED journal

AfterWrite(events, ok) == [Opened(events) EXCEPT !.open = @ /\ ~(ok /\ Closes(events))]

\* nowHeader and writeNow: an Event outside the goroutine's own steps.
WriteNow(kind, m, ok) ==
  /\ Writes(<<Event(kind, m, 0)>>, ok)
  /\ UNCHANGED staged

-----------------------------------------------------------------------------
(* Prompt and Continue: submit.                                            *)

Told(c, what) == caller' = [caller EXCEPT ![c].at = "returned", ![c].told = what]

Moves(c, where) == caller' = [caller EXCEPT ![c].at = where]

Admit(p) ==
  /\ caller[p].at = "out" /\ p \in budget.calls
  /\ IF closing \/ caller[p].ended \/ token # Nobody
     THEN Told(p, "refused") /\ UNCHANGED token
     ELSE Moves(p, "sends") /\ token' = p
  /\ UNCHANGED <<at, prompt, run, queue, taken, staged, journal, stopped, history, handed,
                 closing, last, budget>>

\* The caller's context ended or the Session closes before the command is taken.
GivesUp(p) ==
  /\ caller[p].at = "sends"
  /\ caller[p].ended \/ closing
  /\ Told(p, "refused")
  /\ token' = Nobody
  /\ UNCHANGED <<at, prompt, run, queue, taken, staged, journal, stopped, history, handed,
                 closing, last, budget>>

\* settleGrace after the context ended: the Run goes on without its caller.
GraceEnds(p) ==
  /\ caller[p].at = "waits" /\ caller[p].ended
  /\ Told(p, "left")
  /\ UNCHANGED <<at, prompt, run, queue, taken, staged, journal, stopped, history, handed,
                 token, closing, last, budget>>

\* The context of a call ends, and the Run's with it.
ContextEnds(p) ==
  /\ budget.cancels > 0 /\ p \in budget.calls /\ ~caller[p].ended
  /\ caller[p].at # "returned"
  /\ budget' = [budget EXCEPT !.cancels = @ - 1]
  /\ caller' = [caller EXCEPT ![p].ended = TRUE]
  /\ run' = [run EXCEPT !.canceled = @ \/ (prompt = p /\ run.stop)]
  /\ UNCHANGED <<at, prompt, queue, taken, staged, journal, stopped, history, handed, token,
                 closing, last>>

-----------------------------------------------------------------------------
(* Abort and Close.                                                        *)

Abort ==
  /\ budget.aborts > 0
  /\ budget' = [budget EXCEPT !.aborts = @ - 1]
  /\ run' = IF ~run.stop \/ run.ending THEN run
            ELSE IF ~run.open THEN [run EXCEPT !.abortBeforeStart = TRUE, !.canceled = TRUE]
            ELSE [run EXCEPT !.aborts = @ + 1, !.canceled = TRUE]
  /\ UNCHANGED <<at, prompt, queue, taken, staged, journal, stopped, history, handed, caller,
                 token, closing, last>>

\* The goroutine of Abort writes abort_requested.
AbortWrites(ok) ==
  /\ run.aborts > 0
  /\ WriteNow("abort", Nobody, ok)
  /\ run' = [run EXCEPT !.aborts = @ - 1]
  /\ UNCHANGED <<at, prompt, queue, taken, history, handed, caller, token, closing, last, budget>>

Close ==
  /\ ~closing /\ budget.closes
  /\ closing' = TRUE
  /\ UNCHANGED <<at, prompt, run, queue, taken, staged, journal, stopped, history, handed,
                 caller, token, last, budget>>

-----------------------------------------------------------------------------
(* Steer, Interrupt, FollowUp and Notice: enqueueControl and QueueNotice.  *)

Reserve(m) ==
  /\ caller[m].at = "out" /\ m \in budget.calls
  /\ IF closing \/ (Source[m] = "interrupt" /\ ~run.inRun) \/ ~Room(Kind(m))
     THEN Told(m, "refused") /\ UNCHANGED queue
     ELSE Moves(m, "writes") /\ queue' = [queue EXCEPT !.held[Kind(m)] = @ + 1]
  /\ UNCHANGED <<at, prompt, run, taken, staged, journal, stopped, history, handed, token,
                 closing, last, budget>>

WriteQueued(m, ok) ==
  /\ caller[m].at = "writes"
  /\ WriteNow("queued", m, ok)
  /\ IF ok
     THEN Moves(m, "fills") /\ UNCHANGED queue
     ELSE Told(m, "failed") /\ queue' = [queue EXCEPT !.held[Kind(m)] = @ - 1]
  /\ UNCHANGED <<at, prompt, run, taken, history, handed, token, closing, last, budget>>

\* controlGate: an Interrupt needs a Run, and a Run that ends without keeping
\* its queue takes nothing more.  A Notice has no gate.
Gate(m) ==
  \/ Source[m] = "notice"
  \/ ~((Source[m] = "interrupt" /\ ~run.inRun) \/ (run.inRun /\ run.ending /\ ~run.keeps))

\* fillControl and fill.
Fill(m) ==
  /\ caller[m].at = "fills"
  /\ LET free == [queue EXCEPT !.held[Kind(m)] = @ - 1]
     IN IF Gate(m) /\ ~queue.sealed
        THEN /\ queue' = [free EXCEPT !.seq = @ + 1,
                                      !.items = Append(@, [m |-> m, seq |-> queue.seq + 1])]
             /\ IF Source[m] = "interrupt"
                THEN Moves(m, "looks")
                ELSE Told(m, "accepted")
        ELSE queue' = free /\ Moves(m, "drops")
  /\ UNCHANGED <<at, prompt, run, taken, staged, journal, stopped, history, handed, token,
                 closing, last, budget>>

\* dropAfterQueued.
DropAfterQueued(m, ok) ==
  /\ caller[m].at = "drops"
  /\ WriteNow("dropped", m, ok)
  /\ Told(m, "failed")
  /\ UNCHANGED <<at, prompt, run, queue, taken, history, handed, token, closing, last, budget>>

\* Interrupt, once it is queued: it reads callCancel,
LookForCall(m) ==
  /\ caller[m].at = "looks"
  /\ caller' = [caller EXCEPT ![m].at = "cancels", ![m].saw = IF at = "reading" THEN run.calls ELSE 0]
  /\ UNCHANGED <<at, prompt, run, queue, taken, staged, journal, stopped, history, handed,
                 token, closing, last, budget>>

\* Wrong: the call is canceled whether or not the message still waits.
CancelAnyCall(m) ==
  /\ caller[m].at = "cancels"
  /\ run' = [run EXCEPT !.cut = @ \/ (at = "reading" /\ caller[m].saw = run.calls)]
  /\ Told(m, "accepted")
  /\ UNCHANGED <<at, prompt, queue, taken, staged, journal, stopped, history, handed, token,
                 closing, last, budget>>

\* and cancels that call while an Interrupt waits.
CancelCall(m) ==
  /\ caller[m].at = "cancels"
  /\ run' = [run EXCEPT !.cut = @ \/ (at = "reading" /\ caller[m].saw = run.calls /\ Interrupting)]
  /\ Told(m, "accepted")
  /\ UNCHANGED <<at, prompt, queue, taken, staged, journal, stopped, history, handed, token,
                 closing, last, budget>>

\* The host takes what a Run left (takeQueued).
TakeQueued ==
  /\ budget.handoff /\ at = "select" /\ prompt = Nobody
  /\ queue.items # <<>>
  /\ handed' = handed \cup {c.m : c \in ToSet(queue.items)}
  /\ queue' = [queue EXCEPT !.items = <<>>]
  /\ UNCHANGED <<at, prompt, run, taken, staged, journal, stopped, history, caller, token,
                 closing, last, budget>>
-----------------------------------------------------------------------------
(* The Session goroutine: loop and serve.                                  *)

NoRun(id) ==
  [id |-> id, inRun |-> FALSE, stop |-> FALSE, ending |-> FALSE, keeps |-> FALSE, open |-> FALSE,
   abortBeforeStart |-> FALSE, aborts |-> 0, canceled |-> FALSE, calls |-> 0, cut |-> FALSE,
   refused |-> FALSE, truncated |-> 0, reply |-> "none", injected |-> FALSE, status |-> "none"]

\* validateContinuable.
Continuable == last = "user"

\* serve and beginRun: the command is refused, or its Run begins.
Serve(p) ==
  /\ at = "select" /\ caller[p].at = "sends"
  /\ IF closing \/ (p \in Continue /\ ~Continuable)
     THEN /\ Told(p, "refused")
          /\ token' = Nobody
          /\ UNCHANGED <<at, prompt, run, staged>>
     ELSE /\ Moves(p, "waits")
          /\ at' = "prepare"
          /\ prompt' = p
          /\ run' = [NoRun(run.id + 1) EXCEPT !.inRun = TRUE, !.stop = TRUE,
                                              !.canceled = caller[p].ended]
          /\ staged' = Append(staged, Event("started", Nobody, run.id + 1))
          /\ UNCHANGED token
  /\ UNCHANGED <<queue, taken, journal, stopped, history, handed, closing, last, budget>>

\* fail and settle: how the Run ends.
EndsAs(status) == at' = "ending" /\ run' = [run EXCEPT !.status = status]

\* flush: what is staged is written, or lost with the Run's failure.
Flush(events, ok) == Writes(staged \o events, ok) /\ staged' = <<>>

GoesOn(where, events, ok) ==
  /\ at' = IF ok THEN where ELSE "ending"
  /\ run' = [AfterWrite(staged \o events, ok) EXCEPT !.status = IF ok THEN @ ELSE "failed"]

\* A hook, a ToolSet refresh, a preparer or the Context builder fails.
HostFails ==
  /\ at \in {"prepare", "turn", "call", "stop"}
  /\ budget.refusals > 0
  /\ EndsAs("failed")
  /\ UNCHANGED <<prompt, queue, taken, staged, journal, stopped, history, handed, caller,
                 token, closing, last, budget>>

\* A commit over a limit: nothing of the step is written.
Refuse == budget.refusals > 0 /\ budget' = [budget EXCEPT !.refusals = @ - 1]

\* executeRun up to the first Turn, commitPrompt included.
CommitPrompt(ok) ==
  /\ at = "prepare"
  /\ \/ /\ prompt \in Continue /\ ok
        /\ at' = "turn"
        /\ UNCHANGED <<run, staged, journal, stopped, history, last, budget>>
     \/ /\ prompt \notin Continue /\ ok
        /\ Refuse
        /\ EndsAs("failed")
        /\ UNCHANGED <<staged, journal, stopped, history, last>>
     \/ /\ prompt \notin Continue
        /\ history' = history \cup {prompt}
        /\ last' = "user"
        /\ Flush(<<Event("committed", prompt, run.id)>>, ok)
        /\ GoesOn("turn", <<>>, ok)
        /\ UNCHANGED budget
  /\ UNCHANGED <<prompt, queue, taken, handed, caller, token, closing>>

\* runTurn and commitQueuedNotices: the Turn takes the Notices that wait.
BeginTurn ==
  /\ at = "turn"
  /\ IF run.canceled
     THEN EndsAs("canceled") /\ UNCHANGED <<queue, taken>>
     ELSE /\ Split({"notice"})
          /\ at' = "notices"
          /\ run' = [run EXCEPT !.refused = FALSE]
  /\ UNCHANGED <<prompt, staged, journal, stopped, history, handed, caller, token, closing,
                 last, budget>>

\* commitNotice and commitContinuation of the next message taken.  A failure
\* settles that message and puts the others back.
CommitTaken(ok) ==
  /\ at \in {"notices", "control"} /\ taken # <<>>
  /\ LET m == Head(taken).m
     IN \/ /\ Refuse /\ ok
           /\ staged' = Append(staged, Event("dropped", m, run.id))
           /\ EndsAs("failed")
           /\ UNCHANGED <<journal, stopped, history, last>>
        \/ /\ history' = history \cup {m}
           /\ last' = "user"
           /\ Flush(<<Event("committed", m, run.id)>>, ok)
           /\ at' = IF ok THEN at ELSE "ending"
           /\ run' = [AfterWrite(staged, ok) EXCEPT
                        !.status = IF ok THEN @ ELSE "failed",
                        !.injected = @ \/ Kind(m) # "notice"]
           /\ UNCHANGED budget
  /\ taken' = IF at' = "ending" THEN <<>> ELSE Tail(taken)
  /\ queue' = IF at' = "ending" THEN [queue EXCEPT !.items = PutBack(Tail(taken))] ELSE queue
  /\ UNCHANGED <<prompt, handed, caller, token, closing>>

NoticesDone ==
  /\ at = "notices" /\ taken = <<>>
  /\ at' = "call"
  /\ UNCHANGED <<prompt, run, queue, taken, staged, journal, stopped, history, handed, caller,
                 token, closing, last, budget>>

\* callModel up to the call: what is staged is written first, and readAssistant
\* cancels the call at once while an Interrupt waits.
StartCall(ok) ==
  /\ at = "call"
  /\ Flush(<<>>, ok)
  /\ at' = IF ok THEN "reading" ELSE "ending"
  /\ run' = [AfterWrite(staged, ok) EXCEPT !.status = IF ok THEN @ ELSE "failed",
                                           !.calls = IF ok THEN @ + 1 ELSE @,
                                           !.cut = Interrupting]
  /\ UNCHANGED <<prompt, queue, taken, history, handed, caller, token, closing, last, budget>>

\* The Model refuses a Context over its window: one more call, if a preparer
\* changed the history; HostFails and ModelFails are the others.
Overflows ==
  /\ at = "reading" /\ ~run.refused /\ budget.turns > 0
  /\ budget' = [budget EXCEPT !.turns = @ - 1]
  /\ run' = [run EXCEPT !.refused = TRUE]
  /\ at' = "call"
  /\ UNCHANGED <<prompt, queue, taken, staged, journal, stopped, history, handed, caller,
                 token, closing, last>>

\* The reply is read and committed; its Tool batch is open until its results are.
Replies(reply, ok) ==
  /\ at = "reading"
  /\ reply # "answer" => budget.turns > 0
  /\ \/ /\ Refuse /\ ok
        /\ EndsAs("failed")
        /\ UNCHANGED <<staged, journal, stopped, last>>
     \/ /\ budget' = [budget EXCEPT !.turns = IF reply = "answer" THEN @ ELSE @ - 1]
        /\ Flush(<<>>, ok)
        /\ at' = IF ~ok THEN "ending" ELSE IF reply = "tools" THEN "tools" ELSE "stop"
        /\ run' = [AfterWrite(staged, ok) EXCEPT !.status = IF ok THEN @ ELSE "failed",
                                                 !.reply = reply]
        /\ last' = IF reply = "tools" /\ ~ok THEN "user" ELSE "assistant"
  /\ UNCHANGED <<prompt, queue, taken, history, handed, caller, token, closing>>

\* The call fails, also at its deadline: afterModelError keeps the cut-off reply.
ModelFails ==
  /\ at = "reading" /\ budget.refusals > 0
  /\ EndsAs("failed")
  /\ UNCHANGED <<prompt, queue, taken, staged, journal, stopped, history, handed, caller,
                 token, closing, last, budget>>

\* The call is canceled: by an Interrupt, which the next Turn answers, or with
\* its Run.
CutOff ==
  /\ at = "reading"
  /\ run.cut \/ run.canceled
  /\ IF ~run.canceled /\ Interrupting
     THEN /\ Take(FALSE)
          /\ at' = "control"
          /\ run' = [run EXCEPT !.reply = "cut", !.injected = FALSE]
     ELSE EndsAs("canceled") /\ UNCHANGED <<queue, taken>>
  /\ UNCHANGED <<prompt, staged, journal, stopped, history, handed, caller, token, closing,
                 last, budget>>

\* runToolBatch: the results are committed, or the Run fails and closeOpenCalls
\* commits the ones that are missing.
RunTools(ok) ==
  /\ at = "tools"
  /\ Flush(<<>>, ok)
  /\ GoesOn("stop", <<>>, ok)
  /\ last' = "user"
  /\ UNCHANGED <<prompt, queue, taken, history, handed, caller, token, closing, budget>>

Settling == run.reply \in {"answer", "truncated"}

\* stopTurn: an extension ends the Run here.
StopTurn ==
  /\ at = "stop" /\ budget.turns > 0
  /\ EndsAs("completed")
  /\ UNCHANGED <<prompt, queue, taken, staged, journal, stopped, history, handed, caller,
                 token, closing, last, budget>>

\* boundary: what waits is taken.
Boundary ==
  /\ at = "stop"
  /\ IF run.canceled
     THEN EndsAs("canceled") /\ UNCHANGED <<queue, taken>>
     ELSE /\ Take(Settling)
          /\ at' = "control"
          /\ run' = [run EXCEPT !.injected = FALSE]
  /\ UNCHANGED <<prompt, staged, journal, stopped, history, handed, caller, token, closing,
                 last, budget>>

\* endAnswerTurn and endToolTurn after the boundary: another Turn, a reply cut
\* at the output limit continued, or the end.
ControlDone(ok) ==
  /\ at = "control" /\ taken = <<>>
  /\ \/ /\ ~Settling \/ run.injected
        /\ ok /\ at' = "turn"
        /\ UNCHANGED <<run, staged, journal, stopped, last>>
     \/ /\ Settling /\ ~run.injected
        /\ run.reply = "truncated" /\ run.truncated < MaxTruncated
        /\ Flush(<<>>, ok)
        /\ at' = IF ok THEN "turn" ELSE "ending"
        /\ run' = [AfterWrite(staged, ok) EXCEPT !.status = IF ok THEN @ ELSE "failed",
                                                 !.truncated = @ + 1]
        /\ last' = "user"
     \/ /\ Settling /\ ~run.injected
        /\ ~(run.reply = "truncated" /\ run.truncated < MaxTruncated)
        /\ ok /\ EndsAs("completed")
        /\ UNCHANGED <<staged, journal, stopped, last>>
  /\ UNCHANGED <<prompt, queue, taken, history, handed, caller, token, closing, budget>>

-----------------------------------------------------------------------------
(* end, and the Session's.                                                 *)

\* keepsQueued.
KeepsQueued(status) == budget.handoff /\ status \in {"completed", "failed"}

Ending ==
  /\ at = "ending"
  /\ run' = [run EXCEPT !.ending = TRUE, !.keeps = KeepsQueued(run.status)]
  /\ at' = "discard"
  /\ UNCHANGED <<prompt, queue, taken, staged, journal, stopped, history, handed, caller,
                 token, closing, last, budget>>

\* discardControl: the Notices stay for the next Run.
Discard ==
  /\ at = "discard"
  /\ IF run.keeps
     THEN UNCHANGED <<queue, staged>>
     ELSE LET gone == PickOut(queue.items, Places(Kinds \ {"notice"}))
          IN /\ staged' = staged \o [i \in DOMAIN gone |-> Event("dropped", gone[i].m, run.id)]
             /\ queue' = [queue EXCEPT !.items = PickOut(@, Places({"notice"}))]
  /\ at' = "ended"
  /\ UNCHANGED <<prompt, run, taken, journal, stopped, history, handed, caller, token, closing,
                 last, budget>>

\* Wrong: run_ended does not wait for the aborts.
AbortsWrittenSoon == TRUE

\* aborts.Wait.
AbortsWritten == run.aborts = 0

End(ok) ==
  /\ at = "ended" /\ AbortsWritten
  /\ LET ended == <<Event("ended", Nobody, run.id)>>
     IN /\ Flush(ended, ok)
        /\ run' = [AfterWrite(staged \o ended, ok) EXCEPT
                     !.status = IF ok \/ @ # "completed" THEN @ ELSE "failed"]
  /\ at' = "over"
  /\ UNCHANGED <<prompt, queue, taken, history, handed, caller, token, closing, last, budget>>

\* endRun.
EndRun ==
  /\ at = "over"
  /\ run' = [run EXCEPT !.inRun = FALSE, !.open = FALSE, !.stop = FALSE]
  /\ at' = "reply"
  /\ UNCHANGED <<prompt, queue, taken, staged, journal, stopped, history, handed, caller,
                 token, closing, last, budget>>

\* reply: the token, the status and the answer, if its caller still waits.
Reply ==
  /\ at = "reply"
  /\ token' = Nobody
  /\ IF caller[prompt].at = "waits" THEN Told(prompt, run.status) ELSE UNCHANGED caller
  /\ at' = IF closing THEN "close" ELSE "select"
  /\ prompt' = Nobody
  /\ UNCHANGED <<run, queue, taken, staged, journal, stopped, history, handed, closing, last,
                 budget>>

CloseSignal ==
  /\ at = "select" /\ closing
  /\ at' = "close"
  /\ UNCHANGED <<prompt, run, queue, taken, staged, journal, stopped, history, handed, caller,
                 token, closing, last, budget>>

\* finishClose and dropLeftoverControl: the queue is sealed and emptied.
Seal ==
  /\ at = "close"
  /\ queue' = [queue EXCEPT !.sealed = TRUE, !.items = <<>>]
  /\ taken' = queue.items
  /\ at' = "sealed"
  /\ UNCHANGED <<prompt, run, staged, journal, stopped, history, handed, caller, token,
                 closing, last, budget>>

DropLeftover(ok) ==
  /\ at = "sealed"
  /\ IF taken = <<>>
     THEN /\ at' = "done" /\ ok
          /\ UNCHANGED <<taken, staged, journal, stopped>>
     ELSE /\ WriteNow("dropped", Head(taken).m, ok)
          /\ taken' = Tail(taken)
          /\ UNCHANGED at
  /\ UNCHANGED <<prompt, run, queue, history, handed, caller, token, closing, last, budget>>

-----------------------------------------------------------------------------

Idle == [at |-> "out", told |-> "none", ended |-> FALSE, saw |-> 0]

LoopInit ==
  /\ at = "select" /\ prompt = Nobody /\ run = NoRun(0)
  /\ queue = [items |-> <<>>, held |-> [k \in Kinds |-> 0], sealed |-> FALSE, seq |-> 0]
  /\ taken = <<>> /\ staged = <<>> /\ journal = <<>> /\ stopped = FALSE
  /\ history = {} /\ handed = {}
  /\ caller = [c \in Prompt \cup Message |-> Idle]
  /\ token = Nobody /\ closing = FALSE
  /\ last = "none"
  /\ budget \in SessionLoads

Loop ==
  \/ BeginTurn \/ NoticesDone \/ Overflows \/ ModelFails \/ CutOff \/ StopTurn \/ Boundary
  \/ HostFails \/ Ending \/ Discard \/ EndRun \/ Reply \/ CloseSignal \/ Seal
  \/ \E p \in Prompt : Serve(p)
  \/ \E ok \in BOOLEAN :
       \/ CommitPrompt(ok) \/ CommitTaken(ok) \/ StartCall(ok) \/ RunTools(ok)
       \/ ControlDone(ok) \/ End(ok) \/ DropLeftover(ok)
       \/ \E reply \in {"answer", "tools", "truncated"} : Replies(reply, ok)

Callers ==
  \/ \E p \in Prompt : Admit(p) \/ GivesUp(p) \/ GraceEnds(p)
  \/ \E m \in Message :
       \/ Reserve(m) \/ Fill(m) \/ LookForCall(m) \/ CancelCall(m)
       \/ \E ok \in BOOLEAN : WriteQueued(m, ok) \/ DropAfterQueued(m, ok)
  \/ \E ok \in BOOLEAN : AbortWrites(ok)
  \/ Close

Outside == Abort \/ TakeQueued \/ \E p \in Prompt : ContextEnds(p)

LoopNext == Loop \/ Callers \/ Outside

Progress == WF_loopVars(Loop \/ Callers)

LoopSpec == LoopInit /\ [][LoopNext]_loopVars /\ Progress

-----------------------------------------------------------------------------

Queued(m) == \E i \in DOMAIN queue.items : queue.items[i].m = m

Leased(m) == \E i \in DOMAIN taken : taken[i].m = m

Dropped(m) == \E e \in ToSet(staged \o journal) : e.kind = "dropped" /\ e.of = m

\* A message its caller was told is queued is in one place at any time: it
\* waits, a boundary has it, it is in the history, the host has it, or an Event
\* says that it was dropped.  One that was refused is in none of the first four.
NoMessageIsLost ==
  \A m \in Message :
    LET places == <<Queued(m), Leased(m), m \in history, m \in handed, Dropped(m)>>
    IN /\ ~stopped /\ caller[m].told = "accepted" =>
            Cardinality({i \in 1 .. 5 : places[i]}) = 1
       /\ caller[m].told \in {"refused", "failed"} =>
            \A i \in 1 .. 4 : ~places[i]

\* An Event with a Run lies between that Run's run_started and run_ended, and
\* an abort_requested has a Run.
RunEventsInSpan ==
  \A i \in DOMAIN journal :
    LET e == journal[i]
    IN /\ e.kind \in {"abort", "ended"} => e.run # 0
       /\ e.run # 0 /\ e.kind # "started" =>
            /\ \E j \in 1 .. i - 1 : journal[j].kind = "started" /\ journal[j].run = e.run
            /\ \A j \in 1 .. i - 1 : ~(journal[j].kind = "ended" /\ journal[j].run = e.run)

\* A Run is reported canceled only when its caller or an Abort canceled it: an
\* Interrupt cuts a call off and never its Run, and none waits between two Runs.
InterruptsSpareTheRun ==
  /\ run.status = "canceled" => run.canceled
  /\ ~run.inRun /\ ~budget.handoff => ~Interrupting

\* The Events of a Run and its outcome are its own.
RunsAreWhole == RunEventsInSpan /\ InterruptsSpareTheRun

\* Every call of a Session returns, and Close ends it.
SessionEnds ==
  /\ \A c \in budget.calls : caller[c].at = "returned"
  /\ budget.closes => at = "done"
=============================================================================
