------------------------------ MODULE HostRuns ------------------------------
(***************************************************************************)
(* The Runs of one Session on one Instance: admission (host/internal/runs, *)
(* host/admission.go), the Session lock (host/locks.go), the life of a Run *)
(* from its admission to its release (host/run.go, serve.go, runend.go),   *)
(* the Runs that follow it with the messages it left (followon.go), the    *)
(* messages sent to it (messages.go, runhandle.go), stops (lifecycle.go)   *)
(* and the drain (drain.go).                                               *)
(*                                                                         *)
(* A call is a goroutine of a caller: Run, Send, or a change that only     *)
(* takes the Session lock (Compact, SetToolActive, DeleteSession).  The    *)
(* handle of an admitted Run has its call's name, and so has the message   *)
(* of a Send.  A step is what happens under one lock of the code.  What a  *)
(* Run writes is SessionClaims' matter, what its loop does SessionLoop's.  *)
(***************************************************************************)
EXTENDS Naturals, Sequences, FiniteSets, SequencesExt

CONSTANTS
  Run,         \* the calls of Run
  Steer,       \* the calls of Send that steer or follow up
  Interrupt,   \* the calls of Send that interrupt
  Edit,        \* the calls that take the Session lock only
  MaxActiveRuns, \* Limits.MaxActiveRuns (0: none)
  Loads        \* the Runners: a policy on a busy Session (wait: QueuePolicyWait),
               \* a limit on queued messages (queue), and as bounds the calls that
               \* are made, and how many stops (AbortSession), cancels (contexts
               \* that end), fails (to open or to run) and drains there are

Send == Steer \cup Interrupt

Call == Run \cup Send \cup Edit

ASSUME HostAssumption ==
  /\ IsFiniteSet(Call)
  /\ Edit \cap (Run \cup Send) = {}
  /\ MaxActiveRuns \in Nat
  /\ Loads \subseteq [wait : BOOLEAN, queue : Nat, calls : SUBSET Call,
                     stops : Nat, cancels : Nat, fails : Nat, drains : Nat]

VARIABLES
  pc,        \* where each call is
  held,      \* the Session lock
  waiters,   \* and who waits for it
  inflight,  \* Table.inflight
  locked,    \* Table.locked
  table,     \* Table.handles of the Session
  draining,  \* Table.draining
  drained,   \* whether Table.drained is closed
  drainer,   \* where Runner.Drain is
  toStop,    \* the handles stopAll has still to stop
  h,         \* the handle of each admitted Run
  acts,      \* the stops that have marked a handle and not acted yet
  send,      \* what a Send knows: the handle it is at, and whether it waited
  accepted,  \* the messages a live Session took, in order
  fate,      \* what became of each message
  ctxEnded,  \* the callers whose context ended
  left       \* the Runner's policy and limit, and what is left of the bounds

vars == <<pc, held, waiters, inflight, locked, table, draining, drained,
          drainer, toStop, h, acts, send, accepted, fate, ctxEnded, left>>

lockState == <<held, waiters>>
tableState == <<inflight, locked, table>>
drainState == <<draining, drained, drainer, toStop>>
messageState == <<send, accepted, fate>>

\* Where a call is: a Send before its Run, an admission, the Session lock and
\* what is done under it, what follows, and the end.
Pc == {"find", "awaitReady", "send", "stuck", "ending", "awaitOver", "admit", "check",
       "admitted", "counted", "waiting", "granted", "failed", "opening", "built",
       "attached", "running", "settling", "ended", "settled", "unlock", "uncount",
       "next", "drainwait", "finish", "remove", "release", "done"}

-----------------------------------------------------------------------------
(* Handles.                                                                *)

\* A handle, with the live Session's queue: stopped, settled, stopNext, abort
\* (installed), drained, live, over and next are the fields of runHandle; ready
\* is readyClosed, and gen counts the Runs the handle has had; follow is what
\* the Run that follows is to take; canceled says its own context was canceled,
\* aborted that the live Session's Run was; counted is the admission's
\* OnceFunc not called yet.
NewHandle(wait) ==
  [stopped |-> FALSE, settled |-> FALSE, stopNext |-> FALSE, abort |-> FALSE,
   drained |-> FALSE, live |-> FALSE, over |-> FALSE, ready |-> FALSE,
   wait |-> wait, gen |-> 0, queue |-> <<>>, next |-> <<>>, follow |-> <<>>,
   canceled |-> FALSE, aborted |-> FALSE, completed |-> FALSE, counted |-> TRUE]

Following(c) == h[c].gen > 0

\* runCtx has ended: the caller's context, until a Run follows, or its own.
RunCtxDone(c) == h[c].canceled \/ (~Following(c) /\ c \in ctxEnded)

\* The places of a handle's messages, in the order they are to be run.
Pending(c) == h[c].follow \o h[c].next \o h[c].queue

Started(c) == pc[c] \in {"running", "settling", "ended"}

Goto(c, where) == pc' = [pc EXCEPT ![c] = where]

Dropped(ms) == [m \in DOMAIN fate |-> IF m \in ToSet(ms) THEN "dropped" ELSE fate[m]]

-----------------------------------------------------------------------------
(* The Session lock (see SessionLocks).                                    *)

\* Who goes on with the lock: whoever release handed it to, and its user.
Owners == {c \in Call : pc[c] \in {"granted", "opening", "built", "attached",
                                   "running", "settling", "ended", "settled",
                                   "unlock"}}

\* Wrong: release frees the lock and wakes the first waiter.
ReleaseLockFrees(c, after) ==
  IF waiters # <<>>
  THEN /\ pc' = [pc EXCEPT ![c] = after, ![Head(waiters)] = "counted"]
       /\ waiters' = Tail(waiters)
       /\ held' = FALSE
  ELSE /\ Goto(c, after)
       /\ held' = FALSE
       /\ UNCHANGED waiters

\* release: the first waiter is handed the lock, and c goes on at `after'.
ReleaseLock(c, after) ==
  IF waiters # <<>>
  THEN /\ pc' = [pc EXCEPT ![c] = after, ![Head(waiters)] = "granted"]
       /\ waiters' = Tail(waiters)
       /\ UNCHANGED held
  ELSE /\ Goto(c, after)
       /\ held' = FALSE
       /\ UNCHANGED waiters

\* sessionLock counts its caller before it asks for the lock.  An Edit is not
\* admitted, so its handle is a blank one that says how its caller's context is.
Locked(c) ==
  /\ pc[c] = "admitted"
  /\ Goto(c, "counted")
  /\ locked' = locked + 1
  /\ UNCHANGED <<lockState, inflight, table, drainState, h, acts, messageState, ctxEnded, left>>

AcquireFree(c) ==
  /\ pc[c] = "counted"
  /\ ~held /\ waiters = <<>>
  /\ held' = TRUE
  /\ Goto(c, "opening")
  /\ UNCHANGED <<waiters, tableState, drainState, h, acts, messageState, ctxEnded, left>>

\* A Run that follows, and one that waited for an ending Run, wait whatever
\* the policy.
ForceWait(c) == h[c].follow # <<>> \/ h[c].wait

AcquireBusy(c) ==
  /\ pc[c] = "counted"
  /\ held \/ waiters # <<>>
  /\ IF left.wait \/ ForceWait(c)
     THEN /\ waiters' = Append(waiters, c)
          /\ Goto(c, "waiting")
     ELSE /\ Goto(c, "failed")
          /\ UNCHANGED waiters
  /\ UNCHANGED <<held, tableState, drainState, h, acts, messageState, ctxEnded, left>>

\* The context of a waiter ends before the lock is handed to it.
LeaveQueue(c) ==
  /\ pc[c] = "waiting"
  /\ RunCtxDone(c)
  /\ waiters' = RemoveFirst(waiters, c)
  /\ Goto(c, "failed")
  /\ UNCHANGED <<held, tableState, drainState, h, acts, messageState, ctxEnded, left>>

\* Wrong: a waiter that gives up as it is handed the lock keeps it.
GrantedLeaks(c) ==
  /\ pc[c] = "granted"
  /\ IF RunCtxDone(c)
     THEN Goto(c, "failed") /\ UNCHANGED lockState
     ELSE Goto(c, "opening") /\ UNCHANGED lockState
  /\ UNCHANGED <<tableState, drainState, h, acts, messageState, ctxEnded, left>>

\* A waiter finds the lock handed to it; if its context ended it gives it on.
Granted(c) ==
  /\ pc[c] = "granted"
  /\ IF RunCtxDone(c)
     THEN ReleaseLock(c, "failed")
     ELSE Goto(c, "opening") /\ UNCHANGED lockState
  /\ UNCHANGED <<tableState, drainState, h, acts, messageState, ctxEnded, left>>

\* dropFollow: the messages a following Run was to take are reported dropped.
DropFollow(c) ==
  /\ fate' = Dropped(h[c].follow)
  /\ h' = [h EXCEPT ![c].follow = <<>>]
  /\ UNCHANGED <<send, accepted>>

\* sessionLock returns without having had the lock: the count ends, and serve
\* drops what it was to follow with.
LockFailed(c) ==
  /\ pc[c] = "failed"
  /\ locked' = locked - 1
  /\ DropFollow(c)
  /\ Goto(c, IF c \in Edit THEN "done" ELSE "next")
  /\ UNCHANGED <<lockState, inflight, table, drainState, acts, ctxEnded, left>>

-----------------------------------------------------------------------------
(* Admission.                                                              *)

\* Wrong: a drain that began since Draining() was asked is not seen.
AdmitOkLate == MaxActiveRuns = 0 \/ inflight < MaxActiveRuns

\* Runner.admit with Limits: a draining Instance refuses, then the limit.
AdmitOk ==
  /\ ~draining
  /\ MaxActiveRuns = 0 \/ inflight < MaxActiveRuns

Admit(c) ==
  /\ pc[c] = "admit"
  /\ IF AdmitOk
     THEN /\ inflight' = inflight + 1
          /\ table' = Append(table, c)
          /\ h' = [h EXCEPT ![c] = NewHandle(c \in Send /\ send[c].waited)]
          /\ Goto(c, "admitted")
     ELSE /\ Goto(c, "done")
          /\ UNCHANGED <<inflight, table, h>>
  /\ UNCHANGED <<lockState, locked, drainState, acts, messageState, ctxEnded, left>>

\* Compact, SetToolActive: a draining Instance refuses, and the caller goes on
\* to sessionLock.
CheckDraining(c) ==
  /\ pc[c] = "check"
  /\ Goto(c, IF draining THEN "done" ELSE "admitted")
  /\ UNCHANGED <<lockState, tableState, drainState, h, acts, messageState, ctxEnded, left>>

-----------------------------------------------------------------------------
(* A Run under the Session lock.                                           *)

Fail == left.fails > 0 /\ left' = [left EXCEPT !.fails = @ - 1]

\* openSession, resolveAgent or startRun fails, or runCtx ended: abandon.
OpenFails(c) ==
  /\ pc[c] = "opening"
  /\ \/ RunCtxDone(c) /\ UNCHANGED left
     \/ Fail
  /\ DropFollow(c)
  /\ Goto(c, "unlock")
  /\ UNCHANGED <<lockState, tableState, drainState, acts, ctxEnded>>

\* An Edit does its work.
EditSession(c) ==
  /\ c \in Edit
  /\ pc[c] = "opening"
  /\ Goto(c, "unlock")
  /\ UNCHANGED <<lockState, tableState, drainState, h, acts, messageState, ctxEnded, left>>

\* startRun: the live Session is built, what waited behind the first message is
\* queued again, in order, up to the limit, and a stop now goes to Abort.
StartRun(c) ==
  /\ c \notin Edit
  /\ pc[c] = "opening"
  /\ LET rest  == IF h[c].follow = <<>> THEN <<>> ELSE Tail(h[c].follow)
         first == SubSeq(h[c].follow, 1, Len(h[c].follow) - Len(rest))
         fit   == IF Len(rest) <= left.queue THEN rest ELSE SubSeq(rest, 1, left.queue)
     IN /\ h' = [h EXCEPT ![c].queue = fit, ![c].follow = first, ![c].abort = TRUE,
                          ![c].aborted = FALSE, ![c].completed = FALSE]
        /\ fate' = Dropped(SubSeq(rest, Len(fit) + 1, Len(rest)))
  /\ Goto(c, "built")
  /\ UNCHANGED <<lockState, tableState, drainState, acts, send, accepted, ctxEnded, left>>

\* attachLive.
AttachLive(c) ==
  /\ pc[c] = "built"
  /\ h' = [h EXCEPT ![c].live = TRUE, ![c].ready = TRUE]
  /\ Goto(c, "attached")
  /\ UNCHANGED <<lockState, tableState, drainState, acts, messageState, ctxEnded, left>>

\* Wrong: no look at a stop that came before the Run could be aborted.
RunStartsDeaf(c) ==
  /\ pc[c] = "attached"
  /\ Goto(c, "running")
  /\ UNCHANGED <<lockState, tableState, drainState, h, acts, messageState, ctxEnded, left>>

\* The Run starts, and the hook of startRun applies a stop that came before.
RunStarts(c) ==
  /\ pc[c] = "attached"
  /\ h' = [h EXCEPT ![c].aborted = h[c].stopped]
  /\ Goto(c, "running")
  /\ UNCHANGED <<lockState, tableState, drainState, acts, messageState, ctxEnded, left>>

\* The context Prompt waits on: the caller's, or a following Run's own.
PromptCtxDone(c) == IF Following(c) THEN h[c].canceled ELSE c \in ctxEnded

\* The Run commits its prompt, and then what waits in its queue.
Commit(c) ==
  /\ pc[c] = "running"
  /\ ~h[c].aborted /\ ~PromptCtxDone(c)
  /\ \/ /\ h[c].follow # <<>>
        /\ fate' = [fate EXCEPT ![Head(h[c].follow)] = "committed"]
        /\ h' = [h EXCEPT ![c].follow = <<>>]
     \/ /\ h[c].follow = <<>> /\ h[c].queue # <<>>
        /\ fate' = [fate EXCEPT ![Head(h[c].queue)] = "committed"]
        /\ h' = [h EXCEPT ![c].queue = Tail(@)]
  /\ UNCHANGED <<pc, lockState, tableState, drainState, acts, send, accepted, ctxEnded, left>>

\* The Run's last boundary: nothing waits, so it goes on to settle.
LastBoundary(c) ==
  /\ pc[c] = "running"
  /\ Pending(c) = <<>>
  /\ ~h[c].aborted /\ ~PromptCtxDone(c)
  /\ Goto(c, "settling")
  /\ UNCHANGED <<lockState, tableState, drainState, h, acts, messageState, ctxEnded, left>>

\* Prompt returns.  A Run that completes or fails leaves its queue for the
\* host, a canceled one drops it; a first message that was not committed is
\* dropped (dropUntakenFollow).
PromptReturns(c) ==
  /\ \/ /\ pc[c] = "settling"
        /\ h' = [h EXCEPT ![c].completed = TRUE]
        /\ UNCHANGED <<fate, left>>
     \/ /\ pc[c] = "running"
        /\ Fail
        /\ fate' = Dropped(h[c].follow)
        /\ h' = [h EXCEPT ![c].follow = <<>>]
     \/ /\ pc[c] \in {"running", "settling"}
        /\ h[c].aborted \/ PromptCtxDone(c)
        /\ fate' = Dropped(h[c].follow \o h[c].queue)
        /\ h' = [h EXCEPT ![c].follow = <<>>, ![c].queue = <<>>]
        /\ UNCHANGED left
     \/ /\ pc[c] = "attached"
        /\ PromptCtxDone(c)
        /\ fate' = Dropped(h[c].follow)
        /\ h' = [h EXCEPT ![c].follow = <<>>]
        /\ UNCHANGED left
  /\ Goto(c, "ended")
  /\ UNCHANGED <<lockState, tableState, drainState, acts, send, accepted, ctxEnded>>

\* detachLive, under the handle's mu: a stop is now for the Run that follows.
Settle(c) ==
  /\ pc[c] = "ended"
  /\ h' = [h EXCEPT ![c].settled = TRUE]
  /\ Goto(c, "settled")
  /\ UNCHANGED <<lockState, tableState, drainState, acts, messageState, ctxEnded, left>>

\* dropReason: the messages left must not start another Run.
DropReason(c) == draining \/ h[c].stopped \/ RunCtxDone(c)

\* Wrong: the live Session is withdrawn, and its queue taken, in two steps.
DetachLiveForgets(c) ==
  /\ pc[c] = "settled"
  /\ h' = [h EXCEPT ![c].live = FALSE, ![c].queue = <<>>]
  /\ Goto(c, "unlock")
  /\ UNCHANGED <<lockState, tableState, drainState, acts, messageState, ctxEnded, left>>

\* detachLive, under liveMu: the live Session is withdrawn and its queue taken.
\* What is left is dropped, or makes the handle wait for the Run that follows.
DetachLive(c) ==
  /\ pc[c] = "settled"
  /\ \/ /\ h[c].queue = <<>> \/ DropReason(c)
        /\ fate' = Dropped(h[c].queue)
        /\ h' = [h EXCEPT ![c].live = FALSE, ![c].queue = <<>>]
     \/ /\ h[c].queue # <<>> /\ ~DropReason(c)
        /\ h' = [h EXCEPT ![c].live = FALSE, ![c].queue = <<>>,
                          ![c].next = h[c].queue, ![c].ready = FALSE, ![c].gen = @ + 1]
        /\ UNCHANGED fate
  /\ Goto(c, "unlock")
  /\ UNCHANGED <<lockState, tableState, drainState, acts, send, accepted, ctxEnded, left>>

\* The Session is saved and released, and the lock given on.
Unlock(c) ==
  /\ pc[c] = "unlock"
  /\ ReleaseLock(c, "uncount")
  /\ UNCHANGED <<tableState, drainState, h, acts, messageState, ctxEnded, left>>

\* sessionLock returns: the count of Locked ends.
Uncount(c) ==
  /\ pc[c] = "uncount"
  /\ locked' = locked - 1
  /\ Goto(c, IF c \in Edit THEN "done" ELSE "next")
  /\ UNCHANGED <<lockState, inflight, table, drainState, h, acts, messageState, ctxEnded, left>>

-----------------------------------------------------------------------------
(* What follows a Run.                                                     *)

\* Wrong: a stop kept for the Run that follows is cleared with the settled one.
RearmForgets(x) ==
  [x EXCEPT !.follow = x.next, !.next = <<>>, !.abort = FALSE,
            !.stopped = FALSE, !.stopNext = FALSE, !.settled = FALSE,
            !.canceled = IF x.gen = 1 THEN FALSE ELSE @]

\* Wrong: the newest message left comes first.
RearmReversed(x) == [RearmForgets(x) EXCEPT !.follow = Reverse(x.next), !.stopped = x.stopNext]

\* takeNext and rearm: the handle is the admitted Run's again.  The first Run
\* that follows has a context of its own, which the later ones share.
Rearm(x) ==
  [x EXCEPT !.follow = x.next, !.next = <<>>, !.abort = FALSE,
            !.stopped = x.stopNext, !.stopNext = FALSE, !.settled = FALSE,
            !.canceled = IF x.gen = 1 THEN FALSE ELSE @]

\* followOn: a Run follows with the messages left, under the same admission.
FollowOn(c) ==
  /\ pc[c] = "next"
  /\ h[c].next # <<>>
  /\ h' = [h EXCEPT ![c] = Rearm(@)]
  /\ Goto(c, "admitted")
  /\ UNCHANGED <<lockState, tableState, drainState, acts, messageState, ctxEnded, left>>

\* Nothing follows.  A Run the drain stopped gives its place back, and then
\* waits for the rest of the drain.
NothingFollows(c) ==
  /\ pc[c] = "next"
  /\ h[c].next = <<>>
  /\ IF h[c].drained /\ ~h[c].completed /\ ~Following(c)
     THEN /\ Goto(c, "drainwait")
          /\ inflight' = inflight - 1
          /\ h' = [h EXCEPT ![c].counted = FALSE]
     ELSE Goto(c, "finish") /\ UNCHANGED <<inflight, h>>
  /\ UNCHANGED <<lockState, locked, table, drainState, acts, messageState, ctxEnded, left>>

DrainWaitEnds(c) ==
  /\ pc[c] = "drainwait"
  /\ drained \/ c \in ctxEnded
  /\ Goto(c, "finish")
  /\ UNCHANGED <<lockState, tableState, drainState, h, acts, messageState, ctxEnded, left>>

\* unregisterHandle: finish, then Remove and the close of over.
Finish(c) ==
  /\ pc[c] = "finish"
  /\ h' = [h EXCEPT ![c].ready = TRUE]
  /\ Goto(c, "remove")
  /\ UNCHANGED <<lockState, tableState, drainState, acts, messageState, ctxEnded, left>>

Unregister(c) ==
  /\ pc[c] = "remove"
  /\ table' = RemoveFirst(table, c)
  /\ h' = [h EXCEPT ![c].over = TRUE]
  /\ Goto(c, "release")
  /\ UNCHANGED <<lockState, inflight, locked, drainState, acts, messageState, ctxEnded, left>>

\* Wrong: the admission of a Run the drain stopped ends twice.
DoneTwice(c) ==
  /\ pc[c] = "release"
  /\ inflight' = inflight - 1
  /\ Goto(c, "done")
  /\ UNCHANGED <<lockState, locked, table, drainState, h, acts, messageState, ctxEnded, left>>

\* The admission ends, once.
Done(c) ==
  /\ pc[c] = "release"
  /\ inflight' = IF h[c].counted THEN inflight - 1 ELSE inflight
  /\ h' = [h EXCEPT ![c].counted = FALSE]
  /\ Goto(c, "done")
  /\ UNCHANGED <<lockState, locked, table, drainState, acts, messageState, ctxEnded, left>>

-----------------------------------------------------------------------------
(* Send.                                                                   *)

\* Where a Send goes next, and what it keeps.
SendAt(m, where, at) ==
  /\ Goto(m, where)
  /\ send' = [send EXCEPT ![m].at = at, ![m].gen = IF at = {} THEN 0 ELSE h[CHOOSE c \in at : TRUE].gen]

\* The place in the table of the first handle with a live Session (0: none).
LiveAt == SelectInSeq(table, LAMBDA c : h[c].live)

\* findLiveRun: a Run with a live Session, else the first Run there is.
FindLiveRun(m) ==
  /\ pc[m] = "find"
  /\ IF LiveAt # 0 THEN SendAt(m, "send", {table[LiveAt]})
     ELSE IF table # <<>> THEN SendAt(m, "awaitReady", {Head(table)})
     ELSE SendAt(m, "ending", {})
  /\ UNCHANGED <<lockState, tableState, drainState, h, acts, accepted, fate, ctxEnded, left>>

\* The ready channel it took is closed: it is another one once a Run follows.
AwaitReady(m) ==
  /\ pc[m] = "awaitReady"
  /\ \E c \in send[m].at :
       /\ h[c].ready \/ h[c].gen > send[m].gen
       /\ Goto(m, IF h[c].live THEN "send" ELSE "ending")
  /\ UNCHANGED <<lockState, tableState, drainState, h, acts, messageState, ctxEnded, left>>

\* runHandle.send, under liveMu.  An Interrupt needs a Run in flight; a full
\* queue is an error of its own.
SendMessage(m) ==
  /\ pc[m] = "send"
  /\ \E c \in send[m].at :
       \/ /\ h[c].live
          /\ m \in Interrupt => pc[c] \in {"running", "settling"}
          /\ Len(h[c].queue) < left.queue
          /\ h' = [h EXCEPT ![c].queue = Append(@, m)]
          /\ accepted' = Append(accepted, m)
          /\ fate' = [fate EXCEPT ![m] = "queued"]
          /\ Goto(m, "done")
       \/ /\ h[c].live
          /\ m \in Interrupt => pc[c] \in {"running", "settling"}
          /\ Len(h[c].queue) >= left.queue
          /\ Goto(m, "done")
          /\ UNCHANGED <<h, accepted, fate>>
       \/ /\ h[c].live => m \in Interrupt /\ pc[c] \notin {"running", "settling"}
          /\ Goto(m, IF h[c].live THEN "stuck" ELSE "ending")
          /\ UNCHANGED <<h, accepted, fate>>
  /\ UNCHANGED <<lockState, tableState, drainState, acts, send, ctxEnded, left>>

\* awaitLiveChange: until the live Session that refused it is withdrawn.
AwaitLiveChange(m) ==
  /\ pc[m] = "stuck"
  /\ \E c \in send[m].at : ~h[c].live \/ h[c].gen > send[m].gen
  /\ Goto(m, "ending")
  /\ UNCHANGED <<lockState, tableState, drainState, h, acts, messageState, ctxEnded, left>>

\* endingRun: the first Run there is takes messages again, or is to be waited
\* for; with none the message starts a Run of its own.
EndingRun(m) ==
  /\ pc[m] = "ending"
  /\ \/ /\ table = <<>>
        /\ Goto(m, "admit")
        /\ UNCHANGED send
     \/ /\ table # <<>> /\ h[Head(table)].live
        /\ Goto(m, "find")
        /\ send' = [send EXCEPT ![m].waited = TRUE]
     \/ /\ table # <<>> /\ ~h[Head(table)].live
        /\ SendAt(m, "awaitOver", {Head(table)})
  /\ UNCHANGED <<lockState, tableState, drainState, h, acts, accepted, fate, ctxEnded, left>>

AwaitOver(m) ==
  /\ pc[m] = "awaitOver"
  /\ \E c \in send[m].at : h[c].over
  /\ Goto(m, "find")
  /\ send' = [send EXCEPT ![m].waited = TRUE]
  /\ UNCHANGED <<lockState, tableState, drainState, h, acts, accepted, fate, ctxEnded, left>>

\* The sender's context ends while it waits.
SendGivesUp(m) ==
  /\ m \in ctxEnded
  /\ pc[m] \in {"awaitReady", "stuck", "awaitOver"}
  /\ Goto(m, "done")
  /\ UNCHANGED <<lockState, tableState, drainState, h, acts, messageState, ctxEnded, left>>

-----------------------------------------------------------------------------
(* Stops and the drain.                                                    *)

\* runHandle.stop, up to the unlock: a settled Run keeps it for the next, and
\* any other is marked, with what is to be called afterwards.
StopHandle(x, c) ==
  IF x.settled THEN [x EXCEPT !.stopNext = TRUE] ELSE [x EXCEPT !.stopped = TRUE]

StopActs(c) ==
  IF h[c].settled THEN acts
  ELSE acts \cup {[at |-> c, gen |-> h[c].gen, abort |-> h[c].abort]}

\* abortSession: the Run that started, or the oldest that waits.
Chosen ==
  LET started == SelectInSeq(table, Started)
  IN  IF started # 0 THEN table[started] ELSE Head(table)

AbortSession ==
  /\ left.stops > 0
  /\ table # <<>>
  /\ h' = [h EXCEPT ![Chosen] = StopHandle(@, Chosen)]
  /\ acts' = StopActs(Chosen)
  /\ left' = [left EXCEPT !.stops = @ - 1]
  /\ UNCHANGED <<pc, lockState, tableState, drainState, messageState, ctxEnded>>

\* The call stop makes once it has unlocked: Abort, which is a no-op with no Run
\* in flight, or the cancel of the context it found.
Act(a) ==
  /\ acts' = acts \ {a}
  /\ \/ /\ a.abort
        /\ h' = [h EXCEPT ![a.at].aborted =
                   @ \/ (h[a.at].gen = a.gen /\ pc[a.at] \in {"running", "settling"})]
     \/ /\ ~a.abort
        /\ h' = [h EXCEPT ![a.at].canceled = @ \/ ((a.gen = 0) <=> ~Following(a.at))]
  /\ UNCHANGED <<pc, lockState, tableState, drainState, messageState, ctxEnded, left>>

\* The context of a caller ends.
CtxEnds(c) ==
  /\ left.cancels > 0
  /\ c \notin ctxEnded /\ pc[c] # "done"
  /\ ctxEnded' = ctxEnded \cup {c}
  /\ left' = [left EXCEPT !.cancels = @ - 1]
  /\ UNCHANGED <<pc, lockState, tableState, drainState, h, acts, messageState>>

\* Runner.Drain.
Drain ==
  /\ drainer = "idle" /\ left.drains > 0
  /\ draining' = TRUE
  /\ drainer' = "waiting"
  /\ UNCHANGED <<pc, lockState, tableState, drained, toStop, h, acts, messageState, ctxEnded, left>>

\* Wrong: the drain waits for admitted Runs only.
DrainedRunsOnly == draining /\ ~drained /\ inflight = 0

\* The goroutine of Table.Drain finds nothing counted.
NothingCounted == draining /\ ~drained /\ inflight = 0 /\ locked = 0

CloseDrained ==
  /\ NothingCounted
  /\ drained' = TRUE
  /\ UNCHANGED <<pc, lockState, tableState, draining, drainer, toStop, h, acts, messageState, ctxEnded, left>>

\* DrainTimeout, or the caller's context: stopAll stops what All returns.
DrainTimesOut ==
  /\ drainer = "waiting" /\ ~drained
  /\ drainer' = "stopping"
  /\ toStop' = ToSet(table)
  /\ UNCHANGED <<pc, lockState, tableState, draining, drained, h, acts, messageState, ctxEnded, left>>

StopForDrain(c) ==
  /\ c \in toStop
  /\ toStop' = toStop \ {c}
  /\ h' = [h EXCEPT ![c] = StopHandle([@ EXCEPT !.drained = TRUE], c)]
  /\ acts' = StopActs(c)
  /\ UNCHANGED <<pc, lockState, tableState, draining, drained, drainer, messageState, ctxEnded, left>>

\* Drain returns once all is drained, or drainStopWait after its stops.
DrainReturns ==
  /\ \/ drainer = "waiting" /\ drained
     \/ drainer = "stopping" /\ toStop = {}
  /\ drainer' = "done"
  /\ UNCHANGED <<pc, lockState, tableState, draining, drained, toStop, h, acts, messageState, ctxEnded, left>>

-----------------------------------------------------------------------------
Init ==
  /\ left \in Loads
  /\ pc = [c \in Call |-> IF c \notin left.calls THEN "done" ELSE
                          IF c \in Run THEN "admit" ELSE IF c \in Send THEN "find" ELSE "check"]
  /\ held = FALSE /\ waiters = <<>>
  /\ inflight = 0 /\ locked = 0 /\ table = <<>>
  /\ draining = FALSE /\ drained = FALSE /\ drainer = "idle" /\ toStop = {}
  /\ h = [c \in Call |-> NewHandle(FALSE)]
  /\ acts = {}
  /\ send = [m \in Send |-> [at |-> {}, gen |-> 0, waited |-> FALSE]]
  /\ accepted = <<>>
  /\ fate = [m \in Send |-> "none"]
  /\ ctxEnded = {}

RunStep(c) ==
  \/ Admit(c) \/ Locked(c) \/ AcquireFree(c) \/ AcquireBusy(c) \/ LeaveQueue(c)
  \/ Granted(c) \/ LockFailed(c) \/ OpenFails(c) \/ StartRun(c) \/ AttachLive(c)
  \/ RunStarts(c) \/ Commit(c) \/ LastBoundary(c) \/ PromptReturns(c) \/ Settle(c)
  \/ DetachLive(c) \/ Unlock(c) \/ Uncount(c) \/ FollowOn(c) \/ NothingFollows(c)
  \/ DrainWaitEnds(c) \/ Finish(c) \/ Unregister(c) \/ Done(c)

SendStep(m) ==
  \/ FindLiveRun(m) \/ AwaitReady(m) \/ SendMessage(m) \/ AwaitLiveChange(m)
  \/ EndingRun(m) \/ AwaitOver(m) \/ SendGivesUp(m)

EditStep(c) == CheckDraining(c) \/ EditSession(c)

\* What goes on by itself, once a call is made.
Step(c) == RunStep(c) \/ (c \in Send /\ SendStep(c)) \/ (c \in Edit /\ EditStep(c))

DrainStep == CloseDrained \/ DrainTimesOut \/ DrainReturns \/ \E c \in Call : StopForDrain(c)

Goes == (\E c \in Call : Step(c)) \/ (\E a \in acts : Act(a)) \/ DrainStep

Next == Goes \/ (\E c \in Call : CtxEnds(c)) \/ AbortSession \/ Drain

\* The program goes on while a goroutine of it can: a model call, a tool and the
\* store answer or time out.  No caller's context must end, and nobody must stop
\* or drain anything.
Progress == WF_vars(Goes)

Spec == Init /\ [][Next]_vars /\ Progress

-----------------------------------------------------------------------------
(* Properties.                                                             *)

TypeOK ==
  /\ pc \in [Call -> Pc]
  /\ held \in BOOLEAN /\ ToSet(waiters) \subseteq Call
  /\ {inflight, locked} \subseteq 0 .. Cardinality(Call)
  /\ ToSet(table) \subseteq Call \ Edit
  /\ fate \in [Send -> {"none", "queued", "committed", "dropped"}]
  /\ \A c \in Call : ToSet(Pending(c)) \subseteq Send

\* The lock the calls go through is the lock SessionLocks describes.
Locks == INSTANCE SessionLocks WITH Caller <- Call, owners <- Owners

\* Every step of the calls is a step of the Session's lock, or none: one use of
\* the Session at a time, first come first served (host/locks.go).
KeepsLock == Locks!Spec

\* Where a message waits: in a live Session's queue, among the leftovers, or with
\* the Run that is to take them.
Places(m) ==
  UNION {{<<c, k>> : k \in {n \in DOMAIN Pending(c) : Pending(c)[n] = m}} : c \in Call}

\* "A message Send reported as queued is never lost because its Run ended": it
\* waits in exactly one place, until it is committed or reported dropped
\* (host/messages.go Send, runhandle.go detachLive, followon.go).
QueuedMessagesWaitOnce ==
  \A m \in Send : Cardinality(Places(m)) = IF fate[m] = "queued" THEN 1 ELSE 0

\* The messages of a handle are run in the order they were accepted, those a
\* Run left before those that came to the Run that follows (detachLive, requeue).
LeftoversKeepTheirOrder ==
  \A c \in Call : \A k, n \in DOMAIN Pending(c) :
    k < n => \E i, j \in DOMAIN accepted :
               i < j /\ accepted[i] = Pending(c)[k] /\ accepted[j] = Pending(c)[n]

Working(c) == c \in Owners \/ pc[c] \in {"admitted", "counted", "waiting", "failed", "uncount", "next"}

\* Once the drain's channel is closed no Run that was admitted has work left, and
\* none is admitted again: none waits for the Session, holds it or is to be
\* followed by another Run (host/internal/runs Drain, host/drain.go).
DrainedMeansSettled == drained => \A c \in Call \ Edit : ~Working(c)

\* The channel is not closed while a change of the Session that was counted is
\* under way (host/locks.go sessionLock, runs Locked).
DrainWaitsForChanges ==
  [][(drained' /\ ~drained) => \A c \in Edit : Working(c) => pc[c] = "admitted"]_vars

\* A stop that has returned to its caller has reached the Run it was for: the Run
\* is aborted by the time it runs, also when the stop came while it waited for
\* the lock, while it was built, or as the Run before it settled and it was kept
\* for the one that follows (host/runhandle.go stop, abortIfStopped, rearm).
StopsReachTheirRun ==
  \A c \in Call :
    (/\ pc[c] = "running"
     /\ h[c].stopped
     /\ \A a \in acts : a.at # c)
      => h[c].aborted

\* Nothing is under way.
Ended ==
  /\ \A c \in Call : pc[c] = "done"
  /\ \A m \in Send : fate[m] # "queued"
  /\ draining => drained

\* Every call returns and every message that was queued is committed or reported
\* dropped in the end: no Run waits for a lock nobody gives on, no Send for a Run
\* that is over, no Run the drain stopped for a drain that waits for it.
EverythingEnds == <>[]Ended
=============================================================================
