------------------------------- MODULE Serving -------------------------------
(***************************************************************************)
(* Requests about one Session that reach Instances, of which one may write *)
(* it: adapter/http (handler.go, message.go, run.go, errors.go), and of    *)
(* the host Send, Notice, AbortSession, StreamRunAdmitted, checkWriter     *)
(* and what an answer says of the request (errors.go, codes.go).           *)
(*                                                                         *)
(* A client sends a request again only when its answer is marked not run   *)
(* and retryable, as handler.go tells it to.  A client may leave, an       *)
(* Instance may crash or lose its Liveness row, a forward may be cut off   *)
(* and a store call may fail, with what it wrote kept or not.  What a Run  *)
(* does between its start and its end is SessionLoop's, the lock and the   *)
(* handles of an Instance are HostRuns', the Claim is SessionClaims', and  *)
(* what a Claim drops of a Run that a dead writer left is RecordFold's.    *)
(***************************************************************************)
EXTENDS Naturals, Sequences, FiniteSets, Functions

CONSTANTS
  Server,         \* the Instances that serve the Session
  Request,        \* the requests of the clients
  ServingLoads    \* what is asked and what may happen

VARIABLES
  holder,      \* the Claim in the Record: [inst, busy]
  facts,       \* the Record: <<kind, request>>, one for each fact about a request
  instances,   \* of an Instance: up, its Liveness row alive, draining
  going,       \* of an Instance: who holds the Session lock, and the Run
  work,        \* of a request: where it is
  answer,      \* of a request: what its client was told
  accepted,    \* history: how often it had its effect
  lost,        \* history: the messages whose Run lost its writer
  servingLoad  \* what may still happen

servingVars == <<holder, facts, instances, going, work, answer, accepted, lost, servingLoad>>

KindOf(q) == servingLoad.kind[q]

NoRunHere == [at |-> "none", of |-> "none", inbox |-> <<>>, stop |-> FALSE, failed |-> FALSE]

NoAnswer == [code |-> "none", notRun |-> FALSE, retry |-> FALSE]

\* gotato.RuntimeError and errorOf: a code, whether the request did not run and
\* whether it may succeed later.
Says(code, notRun, retry) == [code |-> code, notRun |-> notRun, retry |-> retry]
Done(code) == Says(code, FALSE, FALSE)
TryElsewhere(code) == Says(code, TRUE, TRUE)

ServingInit ==
  \E l \in ServingLoads :
    /\ servingLoad = l
    /\ holder = [inst |-> CHOOSE i \in Server : TRUE, busy |-> FALSE]
    /\ facts = <<>>
    /\ instances = [i \in Server |-> [up |-> TRUE, row |-> TRUE, drain |-> FALSE]]
    /\ going = [i \in Server |-> NoRunHere]
    /\ work = [q \in Request |-> [at |-> "new", inst |-> holder.inst, via |-> {}, to |-> holder.inst,
                                  waited |-> FALSE, dropped |-> FALSE, streams |-> FALSE]]
    /\ answer = [q \in Request |-> NoAnswer]
    /\ accepted = [q \in Request |-> 0]
    /\ lost = {}

\* What the constants are: "none" is the Run of no request, a load has its requests.
ServingAssumption ==
  /\ Server /= {} /\ "none" \notin Request
  /\ \A l \in ServingLoads : "kind" \in DOMAIN l

Spend(what) == servingLoad[what] > 0 /\ servingLoad' = [servingLoad EXCEPT ![what] = @ - 1]

At(q, step) == work[q].at = step /\ instances[work[q].inst].up

\* writeFailure, writeJSON: the client of q is answered, unless it left.
Answer(q, a) ==
  /\ work' = [work EXCEPT ![q].at = "done"]
  /\ answer' = [answer EXCEPT ![q] = IF work[q].dropped THEN @ ELSE a]

\* Another Instance has a Run going: it holds the Claim, and its row is alive.
WriterElsewhere(i) == holder.busy /\ holder.inst /= i /\ instances[holder.inst].row

\* The guard and the fence of a write by i.
MayWrite(i) == holder = [inst |-> i, busy |-> TRUE] /\ instances[i].row

Accepted(q) == accepted' = [accepted EXCEPT ![q] = @ + 1]

\* The messages among the elements of s.
Messages(s) == {q \in Range(s) : KindOf(q) = "message"}

\* The elements of s at the places K, in their order.
Sifted(s, K) ==
  LET rank(i) == Cardinality({j \in K : j <= i})
  IN [n \in 1 .. Cardinality(K) |-> s[CHOOSE i \in K : rank(i) = n]]

\* Record.PendingNotices: queued and not committed, in order.
PendingNotices ==
  LET waits(f) == /\ f[1] = "queued" /\ KindOf(f[2]) = "notice"
                  /\ <<"committed", f[2]>> \notin Range(facts)
      pending == Sifted(facts, {n \in DOMAIN facts : waits(facts[n])})
  IN [n \in DOMAIN pending |-> pending[n][2]]

-----------------------------------------------------------------------------
(* Clients.                                                                *)

Submit(q, i) ==
  /\ KindOf(q) /= "none" /\ instances[i].up
  /\ \/ work[q].at = "new" /\ UNCHANGED servingLoad
     \/ work[q].at = "done" /\ answer[q].notRun /\ answer[q].retry /\ Spend("resends")
  /\ work' = [work EXCEPT ![q] = [at |-> "arrived", inst |-> i, via |-> {}, to |-> i, waited |-> FALSE,
                                  dropped |-> FALSE, streams |-> FALSE]]
  /\ answer' = [answer EXCEPT ![q] = NoAnswer]
  /\ UNCHANGED <<holder, facts, instances, going, accepted, lost>>

\* The client leaves: the request's context ends.
Drop(q) ==
  /\ work[q].at \notin {"new", "done"} /\ ~work[q].dropped /\ Spend("drops")
  /\ work' = [work EXCEPT ![q].dropped = TRUE]
  /\ UNCHANGED <<holder, facts, instances, going, answer, accepted, lost>>

\* What waits with that context gives up.
GiveUp(q) ==
  /\ At(q, "arrived") \/ At(q, "check") \/ At(q, "admit")
  /\ work[q].dropped
  /\ work' = [work EXCEPT ![q].at = "done"]
  /\ UNCHANGED <<holder, facts, instances, going, answer, accepted, lost, servingLoad>>

-----------------------------------------------------------------------------
(* A request at an Instance.                                               *)

\* scoped, decode, validate: refused before anything is looked at.
RefuseRequest(q) ==
  /\ At(q, "arrived") /\ KindOf(q) = "bad"
  /\ Answer(q, Done("invalid_argument"))
  /\ UNCHANGED <<holder, facts, instances, going, accepted, lost, servingLoad>>

\* reachStore, checkWriter: a read failed, so nothing was done.
StoreRefuses(q) ==
  /\ KindOf(q) \in {"message", "notice", "abort"}
  /\ (At(q, "arrived") /\ going[work[q].inst].at /= "none") \/ At(q, "check")
  /\ Spend("fails")
  /\ Answer(q, TryElsewhere("store_failure"))
  /\ UNCHANGED <<holder, facts, instances, going, accepted, lost>>

\* handle.send and handle.notice: the live Session writes that it is queued.
Queue(q) ==
  LET i == work[q].inst
      m == going[i]
  IN /\ At(q, "arrived") /\ KindOf(q) \in {"message", "notice"} /\ m.at = "live"
     /\ KindOf(q) = "notice" => ~instances[i].drain
     /\ \/ /\ MayWrite(i) /\ ~m.failed
           /\ facts' = Append(facts, <<"queued", q>>)
           /\ going' = [going EXCEPT ![i].inbox = Append(@, q)]
           /\ Answer(q, Done("queued")) /\ Accepted(q)
           /\ UNCHANGED <<lost, servingLoad>>
        \* A write that failed stops the Writer, and its outcome is not known.
        \/ /\ Spend("fails") /\ MayWrite(i) /\ ~m.failed
           /\ going' = [going EXCEPT ![i].failed = TRUE]
           /\ Answer(q, Says("store_failure", FALSE, TRUE))
           /\ \/ facts' = Append(facts, <<"queued", q>>) /\ Accepted(q) /\ lost' = lost \cup Messages(<<q>>)
              \/ UNCHANGED <<facts, accepted, lost>>
        \/ /\ ~MayWrite(i) \/ m.failed
           /\ going' = [going EXCEPT ![i].failed = TRUE]
           /\ Answer(q, Done("conflict"))
           /\ UNCHANGED <<facts, accepted, lost, servingLoad>>
     /\ UNCHANGED <<holder, instances>>

NoticeRefused(q) ==
  /\ At(q, "arrived") /\ KindOf(q) = "notice" /\ instances[work[q].inst].drain
  /\ Answer(q, TryElsewhere("draining"))
  /\ UNCHANGED <<holder, facts, instances, going, accepted, lost, servingLoad>>

\* abortSession: the Run of this Instance, at whatever stage it is.  Once that has
\* settled the stop is for the Run that follows (stopNext).
AbortSession(q) ==
  LET i == work[q].inst
  IN /\ At(q, "arrived") /\ KindOf(q) = "abort" /\ going[i].at \in {"open", "claimed", "live", "detached"}
     /\ going' = [going EXCEPT ![i].stop = TRUE]
     /\ Answer(q, Done("queued")) /\ Accepted(q)
     /\ UNCHANGED <<holder, facts, instances, lost, servingLoad>>

\* endingRun: a message waits for a Run that takes no more messages to release
\* the Session, and its own Run then waits for the lock.
EndingRun(q) ==
  /\ At(q, "arrived") /\ KindOf(q) = "message" /\ going[work[q].inst].at = "detached"
  /\ ~work[q].waited
  /\ work' = [work EXCEPT ![q].waited = TRUE]
  /\ UNCHANGED <<holder, facts, instances, going, answer, accepted, lost, servingLoad>>

\* No Run takes it here.  A message and a notice wait for a Run that is loading
\* its Session; a notice does not wait for one that ends.
NoLiveRun(q) ==
  LET i == work[q].inst
      m == going[i]
  IN /\ At(q, "arrived")
     /\ \/ KindOf(q) \in {"run", "stream"} /\ work' = [work EXCEPT ![q].at = "admit"]
        \/ /\ KindOf(q) \in {"message", "notice", "abort"}
           /\ m.at \in {"none", "claimnotice", "noticing", "noticed"} \cup
                       (IF KindOf(q) = "notice" THEN {"detached"} ELSE {})
           /\ KindOf(q) = "notice" => ~instances[i].drain
           /\ work' = [work EXCEPT ![q].at = "check"]
     /\ UNCHANGED <<holder, facts, instances, going, answer, accepted, lost, servingLoad>>

CheckWriter(q) ==
  LET i == work[q].inst
  IN /\ At(q, "check")
     /\ CASE WriterElsewhere(i) ->
               /\ work' = [work EXCEPT ![q].at = "not_writer", ![q].to = holder.inst]
               /\ UNCHANGED answer
          [] ~WriterElsewhere(i) /\ KindOf(q) = "abort" -> Answer(q, Done("no_run"))
          [] OTHER -> work' = [work EXCEPT ![q].at = "admit"] /\ UNCHANGED answer
     /\ UNCHANGED <<holder, facts, instances, going, accepted, lost, servingLoad>>

\* Wrong: a forward that failed is marked not run.
ForwardFailedNotRun == TryElsewhere("forward_failed")

\* It may have reached the writer, so it is not marked not run.
ForwardFailed == Done("forward_failed")

\* forwarded: once, to the address that the writer advertised, if allowed.
Forward(q) ==
  LET to == work[q].to
  IN /\ At(q, "not_writer")
     /\ IF servingLoad.forwards /\ work[q].via = {}
        THEN IF instances[to].up
             THEN /\ work' = [work EXCEPT ![q].at = "arrived", ![q].inst = to, ![q].via = {work[q].inst}]
                  /\ UNCHANGED answer
             ELSE Answer(q, ForwardFailed)
        ELSE Answer(q, TryElsewhere("not_writer"))
     /\ UNCHANGED <<holder, facts, instances, going, accepted, lost, servingLoad>>

\* The connection to the writer is cut, or the client's timeout ends: the
\* request's context ends there too.
ForwardLost(q) ==
  /\ work[q].at \notin {"new", "done"} /\ work[q].via /= {} /\ ~work[q].dropped
  /\ Spend("cuts")
  /\ work' = [work EXCEPT ![q].dropped = TRUE]
  /\ answer' = [answer EXCEPT ![q] = ForwardFailed]
  /\ UNCHANGED <<holder, facts, instances, going, accepted, lost>>

-----------------------------------------------------------------------------
(* Runs, and a notice between Runs.                                        *)

Refused(q, i, a) ==
  /\ Answer(q, a)
  /\ going' = IF going[i].of = q THEN [going EXCEPT ![i] = NoRunHere] ELSE going

\* admit and the Session lock; a notice waits for the lock, and so does the Run
\* of a message that waited for an ending one.
AdmitRequest(q) ==
  LET i == work[q].inst
      m == going[i]
  IN /\ At(q, "admit")
     /\ \/ /\ KindOf(q) /= "notice"
           /\ \/ instances[i].drain /\ Answer(q, TryElsewhere("draining")) /\ UNCHANGED servingLoad
              \/ ~instances[i].drain /\ Spend("full") /\ Answer(q, TryElsewhere("overloaded"))
              \/ /\ ~instances[i].drain /\ m.at /= "none" /\ ~work[q].waited
                 /\ Answer(q, TryElsewhere("busy")) /\ UNCHANGED servingLoad
           /\ UNCHANGED going
        \/ /\ m.at = "none" /\ (KindOf(q) = "notice" \/ ~instances[i].drain)
           /\ going' = [going EXCEPT ![i] =
                [NoRunHere EXCEPT !.at = IF KindOf(q) = "notice" THEN "claimnotice" ELSE "open", !.of = q]]
           /\ work' = [work EXCEPT ![q].at = "running"]
           /\ UNCHANGED <<answer, servingLoad>>
     /\ UNCHANGED <<holder, facts, instances, accepted, lost>>

\* dropFollow of a Run that follows and could not open: no writer, so no Record says
\* that its messages are dropped.
NoRunFollows(i) ==
  /\ lost' = lost \cup Range(going[i].inbox)
  /\ going' = [going EXCEPT ![i] = NoRunHere]

OpensRun(i) == instances[i].up /\ going[i].at \in {"open", "claimnotice"}

\* acquire, openSession.
Claim(i) ==
  /\ OpensRun(i) /\ ~WriterElsewhere(i) /\ instances[i].row
  /\ instances[i].drain => holder.inst = i
  /\ holder' = [inst |-> i, busy |-> TRUE]
  /\ going' = [going EXCEPT ![i].at = IF @ = "open" THEN "claimed" ELSE "noticing"]
  /\ UNCHANGED <<facts, instances, work, answer, accepted, lost, servingLoad>>

\* holderCheck, busyElsewhere, a lapsed row, a store that fails: the request did
\* not run.  A Claim that failed may have been written.
OpenRefused(i) ==
  LET q == going[i].of
  IN /\ OpensRun(i)
     /\ \/ /\ WriterElsewhere(i) \/ ~instances[i].row \/ (instances[i].drain /\ holder.inst /= i)
           /\ UNCHANGED <<holder, servingLoad>>
        \/ /\ Spend("fails") /\ ~WriterElsewhere(i) /\ instances[i].row
           /\ holder' \in {holder, [inst |-> i, busy |-> TRUE]}
     /\ IF q = "none" THEN NoRunFollows(i) /\ UNCHANGED <<work, answer>>
        ELSE Refused(q, i, TryElsewhere("not_opened")) /\ UNCHANGED lost
     /\ UNCHANGED <<facts, instances, accepted>>

\* A Run that is stopped as it waits settles as a canceled Run.
Stopped(i) == going[i].stop \/ (going[i].of /= "none" /\ work[going[i].of].dropped)

CanceledRunResult(i) ==
  /\ OpensRun(i) /\ going[i].at = "open" /\ Stopped(i)
  /\ IF going[i].of = "none" THEN NoRunFollows(i) /\ UNCHANGED <<work, answer>>
     ELSE Refused(going[i].of, i, Done("canceled")) /\ UNCHANGED lost
  /\ UNCHANGED <<holder, facts, instances, accepted, servingLoad>>

\* repairReleases: a Claim that no one here uses is given back.
RepairRelease(i) ==
  /\ instances[i].up /\ going[i].at = "none" /\ MayWrite(i)
  /\ holder' = [holder EXCEPT !.busy = FALSE]
  /\ UNCHANGED <<facts, instances, going, work, answer, accepted, lost, servingLoad>>

\* startRun and the prompt's commit; the notices of the Record are queued again.
\* The first message of a Run that follows is its prompt.
StartRun(i) ==
  LET m == going[i]
      follows == m.of = "none"
  IN /\ instances[i].up /\ m.at = "claimed" /\ MayWrite(i)
     /\ facts' = Append(facts, IF follows THEN <<"committed", Head(m.inbox)>> ELSE <<"prompt", m.of>>)
     /\ going' = [going EXCEPT ![i].at = "live",
                    ![i].inbox = PendingNotices \o (IF follows THEN Tail(@) ELSE <<>>)]
     /\ IF follows THEN UNCHANGED accepted ELSE Accepted(m.of)
     /\ UNCHANGED <<holder, instances, work, answer, lost, servingLoad>>

DropFacts(messages) == [n \in DOMAIN messages |-> <<"dropped", messages[n]>>]

\* abandon: the live Session could not be built, or a stop came first, and the Claim
\* is given back.  dropFollow writes that the messages of a Run that follows are
\* dropped, if it still can.
Abandon(i) ==
  LET m == going[i]
  IN /\ instances[i].up /\ m.at = "claimed"
     /\ Spend("fails") \/ (Stopped(i) /\ UNCHANGED servingLoad)
     /\ holder' = IF MayWrite(i) THEN [holder EXCEPT !.busy = FALSE] ELSE holder
     /\ \/ /\ m.of = "none" /\ MayWrite(i)
           /\ facts' = facts \o DropFacts(m.inbox)
           /\ going' = [going EXCEPT ![i] = NoRunHere]
           /\ UNCHANGED <<work, answer, lost>>
        \/ m.of = "none" /\ ~MayWrite(i) /\ NoRunFollows(i) /\ UNCHANGED <<facts, work, answer>>
        \/ m.of /= "none" /\ Refused(m.of, i, Done("failed")) /\ UNCHANGED <<facts, lost>>
     /\ UNCHANGED <<instances, accepted>>

\* The same of a Run that follows and was stopped, when the write of dropFollow
\* fails: its outcome is not known, and a Writer that failed releases nothing.
DropFollowFails(i) ==
  /\ instances[i].up /\ going[i].at = "claimed" /\ going[i].of = "none"
  /\ MayWrite(i) /\ Stopped(i) /\ Spend("fails")
  /\ facts' \in {facts, facts \o DropFacts(going[i].inbox)}
  /\ NoRunFollows(i)
  /\ UNCHANGED <<holder, instances, work, answer, accepted>>

\* StreamRunAdmitted: the stream starts once the Run does.
Admitted(q) ==
  /\ At(q, "running") /\ KindOf(q) = "stream" /\ ~work[q].streams
  /\ going[work[q].inst].at \in {"live", "detached"}
  /\ work' = [work EXCEPT ![q].streams = TRUE]
  /\ UNCHANGED <<holder, facts, instances, going, answer, accepted, lost, servingLoad>>

\* A Turn boundary commits what is queued.
Commit(i) ==
  LET m == going[i]
  IN /\ instances[i].up /\ m.at = "live" /\ m.inbox /= <<>> /\ MayWrite(i) /\ ~m.failed /\ ~Stopped(i)
     /\ facts' = Append(facts, <<"committed", Head(m.inbox)>>)
     /\ going' = [going EXCEPT ![i].inbox = Tail(@)]
     /\ UNCHANGED <<holder, instances, work, answer, accepted, lost, servingLoad>>

\* detach: a Run that completed leaves its messages to the Run that follows; one
\* that was stopped or drained reports them dropped, one whose writer failed too,
\* but in no Record.  The notices wait in the Record.  A stop from here on is not for
\* this Run (settled).
Detach(i) ==
  LET m == going[i]
      unwritten == m.failed \/ ~MayWrite(i)
      rest == Sifted(m.inbox, {n \in DOMAIN m.inbox : KindOf(m.inbox[n]) = "message"})
      kept == ~Stopped(i) /\ ~instances[i].drain /\ ~unwritten
  IN /\ instances[i].up /\ m.at = "live"
     /\ going' = [going EXCEPT ![i].at = "detached", ![i].failed = unwritten, ![i].stop = FALSE,
                    ![i].inbox = IF kept THEN rest ELSE <<>>]
     /\ facts' = IF kept \/ unwritten THEN facts ELSE facts \o DropFacts(rest)
     /\ lost' = IF unwritten THEN lost \cup Range(rest) ELSE lost
     /\ UNCHANGED <<holder, instances, work, answer, accepted, servingLoad>>

\* persist and respond: the Claim is given back, the Run is answered, and its
\* messages have a Run that follows, with the stop that came meanwhile (rearm).
Release(i) ==
  LET m == going[i]
  IN /\ instances[i].up /\ m.at = "detached"
     /\ \/ /\ holder' = IF MayWrite(i) /\ ~m.failed THEN [holder EXCEPT !.busy = FALSE] ELSE holder
           /\ UNCHANGED servingLoad
        \/ Spend("fails") /\ UNCHANGED holder
     /\ going' = [going EXCEPT ![i] =
          IF m.inbox = <<>> THEN NoRunHere ELSE [NoRunHere EXCEPT !.at = "open", !.inbox = m.inbox, !.stop = m.stop]]
     /\ IF m.of = "none" THEN UNCHANGED <<work, answer>>
        ELSE Answer(m.of, Done(IF m.failed THEN "not_persisted" ELSE "ran"))
     /\ UNCHANGED <<facts, instances, accepted, lost>>

\* The first write of a Run whose Claim is lost fails, and the Run with it.
StartFails(i) ==
  LET m == going[i]
  IN /\ instances[i].up /\ m.at = "claimed" /\ ~MayWrite(i)
     /\ going' = [going EXCEPT ![i] = [@ EXCEPT !.at = "detached", !.failed = TRUE, !.stop = FALSE, !.inbox = <<>>]]
     /\ lost' = lost \cup Range(m.inbox)
     /\ UNCHANGED <<holder, facts, instances, work, answer, accepted, servingLoad>>

\* noticeBetweenRuns: the notice is written, then the Claim is given back.
WriteNotice(i) ==
  LET q == going[i].of
  IN /\ instances[i].up /\ going[i].at = "noticing"
     /\ \/ /\ MayWrite(i) /\ facts' = Append(facts, <<"queued", q>>) /\ Accepted(q)
           /\ going' = [going EXCEPT ![i].at = "noticed"]
           /\ UNCHANGED servingLoad
        \/ /\ ~MayWrite(i) /\ going' = [going EXCEPT ![i].at = "noticed", ![i].failed = TRUE]
           /\ UNCHANGED <<facts, accepted, servingLoad>>
        \/ /\ Spend("fails") /\ MayWrite(i)
           /\ going' = [going EXCEPT ![i].at = "noticed", ![i].failed = TRUE]
           /\ \/ facts' = Append(facts, <<"queued", q>>) /\ Accepted(q)
              \/ UNCHANGED <<facts, accepted>>
     /\ UNCHANGED <<holder, instances, work, answer, lost>>

ReleaseNotice(i) ==
  LET m == going[i]
      fails == Answer(m.of, Says("store_failure", FALSE, TRUE)) /\ UNCHANGED holder
  IN /\ instances[i].up /\ m.at = "noticed"
     /\ \/ /\ m.failed \/ ~MayWrite(i)
           /\ fails /\ UNCHANGED servingLoad
        \/ Spend("fails") /\ fails
        \/ /\ ~m.failed /\ MayWrite(i) /\ holder' = [holder EXCEPT !.busy = FALSE]
           /\ Answer(m.of, Done("queued")) /\ UNCHANGED servingLoad
     /\ going' = [going EXCEPT ![i] = NoRunHere]
     /\ UNCHANGED <<facts, instances, accepted, lost>>

-----------------------------------------------------------------------------
(* Instances.                                                              *)

\* The process dies with its Run and the messages of its inbox, and its clients see
\* the connection end.  Its notices are in the Record.  What it forwarded goes on at
\* the writer until that sees its connection end.
Crash(i) ==
  LET here == {q \in Request : work[q].at \notin {"new", "done"} /\ work[q].inst = i}
      sent == {q \in Request : work[q].at \notin {"new", "done"} /\ i \in work[q].via}
  IN /\ instances[i].up /\ Spend("crashes")
     /\ instances' = [instances EXCEPT ![i].up = FALSE]
     /\ lost' = lost \cup Messages(going[i].inbox)
     /\ going' = [going EXCEPT ![i] = NoRunHere]
     /\ work' = [q \in Request |->
          [work[q] EXCEPT !.at = IF q \in here THEN "done" ELSE @, !.dropped = @ \/ q \in sent]]
     /\ answer' = [q \in Request |->
          CASE q \in here /\ work[q].via /= {} -> ForwardFailed
            [] q \in here \cup sent /\ ~(q \in here /\ work[q].via /= {}) -> Done("connection_lost")
            [] OTHER -> answer[q]]
     /\ UNCHANGED <<holder, facts, accepted>>

\* The Liveness row of an Instance lapses: it died, or could not renew it.
Lapse(i) ==
  /\ instances[i].row
  /\ IF instances[i].up THEN Spend("lapses") ELSE UNCHANGED servingLoad
  /\ instances' = [instances EXCEPT ![i].row = FALSE]
  /\ UNCHANGED <<holder, facts, going, work, answer, accepted, lost>>

Drain(i) ==
  /\ instances[i].up /\ ~instances[i].drain /\ Spend("drains")
  /\ instances' = [instances EXCEPT ![i].drain = TRUE]
  /\ UNCHANGED <<holder, facts, going, work, answer, accepted, lost>>

ServeRequest(q) ==
  \/ RefuseRequest(q) \/ Queue(q) \/ NoticeRefused(q) \/ AbortSession(q) \/ EndingRun(q) \/ NoLiveRun(q)
  \/ CheckWriter(q) \/ Forward(q) \/ AdmitRequest(q) \/ Admitted(q) \/ GiveUp(q)

RunGoes(i) ==
  \/ Claim(i) \/ OpenRefused(i) \/ CanceledRunResult(i) \/ RepairRelease(i) \/ StartRun(i)
  \/ StartFails(i) \/ Commit(i) \/ Detach(i) \/ Release(i) \/ WriteNotice(i) \/ ReleaseNotice(i)

ServingGoes == (\E q \in Request : ServeRequest(q)) \/ (\E i \in Server : RunGoes(i))

ServingNext ==
  \/ ServingGoes
  \/ \E q \in Request, i \in Server : Submit(q, i)
  \/ \E q \in Request : Drop(q) \/ StoreRefuses(q) \/ ForwardLost(q)
  \/ \E i \in Server : Abandon(i) \/ DropFollowFails(i) \/ Crash(i) \/ Lapse(i) \/ Drain(i)

ServingSpec == ServingInit /\ [][ServingNext]_servingVars /\ WF_servingVars(ServingGoes)

-----------------------------------------------------------------------------

TimesLogged(kind, q) == Cardinality({n \in DOMAIN facts : facts[n] = <<kind, q>>})

\* A request has its effect once, however often a client sends it again because
\* it is told that it did not run, and an answer says what happened (Gotato-Not-Run
\* of writeFailure, handler.go, message.go forwarded): one marked not run had no
\* effect, one that reports it has had it, and no stream was begun for the first.
RequestsRunOnce ==
  \A q \in Request :
    /\ accepted[q] <= 1
    /\ answer[q].notRun => accepted[q] = 0 /\ ~work[q].streams
    /\ answer[q].code \in {"queued", "ran"} => accepted[q] = 1

\* A message that its client was told is queued is committed or reported dropped,
\* once, or a Run of an Instance that is up has it, unless its writer is lost
\* (Send, messages.go, dropFollow and detach).  A notice is never lost: it stays in
\* the Record until it is committed, and every Run that may write has it (Notice,
\* notices.go).
AcceptedAreKept ==
  \A q \in Request : answer[q].code = "queued" /\ KindOf(q) \in {"message", "notice"} =>
    /\ TimesLogged("queued", q) = 1 /\ TimesLogged("committed", q) + TimesLogged("dropped", q) <= 1
    /\ \/ TimesLogged("committed", q) + TimesLogged("dropped", q) = 1
       \/ KindOf(q) = "message" /\ (q \in lost \/ \E i \in Server : q \in Range(going[i].inbox))
       \/ /\ KindOf(q) = "notice"
          /\ \A i \in Server : going[i].at = "live" /\ MayWrite(i) /\ ~going[i].failed =>
                q \in Range(going[i].inbox)

\* A request that clients send again and Instances forward has its effect once,
\* its answer says so, and what was accepted is kept.
RequestsServed == RequestsRunOnce /\ AcceptedAreKept

\* Every request is answered or left, and no Run goes on.
ServingSettles ==
  /\ \A q \in Request : work[q].at \in {"new", "done"}
  /\ \A i \in Server : going[i].at = "none"
=============================================================================
