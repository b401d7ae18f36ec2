--------------------------- MODULE ServingProofs ----------------------------
(***************************************************************************)
(* A request has its effect once, and what was accepted is kept, for any   *)
(* number of Instances, of requests and of crashes, cuts, lapses, failures *)
(* and resends.                                                            *)
(*                                                                         *)
(* A request is fresh until an Instance queues it, applies it or takes it  *)
(* as its Run; then it is of that Instance alone, until it is answered.    *)
(* Only a fresh request, or one of a Run that has not begun, is answered   *)
(* as not run, and only one that was is sent again.                        *)
(*                                                                         *)
(* A message that was queued is in the inbox of one Run until the Record   *)
(* has it committed or dropped; it leaves an inbox otherwise only when its *)
(* writer is lost.  A notice may be in more than one, but only the Run     *)
(* that may write commits it, and that one took every notice that waited.  *)
(***************************************************************************)
EXTENDS Serving, FiniteSetTheorems, FunctionTheorems, SequenceTheorems, TLAPS

Fresh == {"new", "arrived", "check", "not_writer", "admit"}

Codes ==
  {"none", "queued", "ran", "no_run", "canceled", "failed", "not_persisted", "conflict",
   "invalid_argument", "store_failure", "draining", "overloaded", "busy", "not_opened", "not_writer",
   "forward_failed", "connection_lost"}

WorkRec ==
  [at : Fresh \cup {"running", "done"}, inst : Server, via : SUBSET Server, to : Server, waited : BOOLEAN,
   dropped : BOOLEAN, streams : BOOLEAN]

AnswerRec == [code : Codes, notRun : BOOLEAN, retry : BOOLEAN]

\* A record of who holds the Session lock, whatever its messages are.
Shape(m) == m = [x \in {"at", "of", "inbox", "stop", "failed"} |-> m[x]]

Types ==
  /\ holder \in [inst : Server, busy : BOOLEAN]
  /\ going = [i \in Server |-> going[i]]
  /\ \A i \in Server :
       Shape(going[i]) /\ going[i].of \in Request \cup {"none"} /\ going[i].failed \in BOOLEAN
  /\ work \in [Request -> WorkRec]
  /\ answer \in [Request -> AnswerRec]
  /\ accepted \in [Request -> Nat]

\* A request, its answer and its effect.
RequestOK(q) ==
  /\ accepted[q] <= 1
  /\ work[q].at \in Fresh => accepted[q] = 0 /\ ~work[q].streams
  /\ work[q].at # "done" => ~answer[q].notRun /\ answer[q].code \notin {"queued", "ran"}
  /\ answer[q].notRun => accepted[q] = 0 /\ ~work[q].streams
  /\ answer[q].code \in {"queued", "ran"} => accepted[q] = 1
  /\ work[q].at = "running" => going[work[q].inst].of = q

\* What an Instance has of the request that its Run is of.
RunOK(i) ==
  /\ going[i].at = "none" => going[i].of = "none"
  /\ going[i].at \in {"claimnotice", "noticing", "noticed"} => going[i].of # "none"
  /\ going[i].of # "none" =>
       /\ work[going[i].of].at = "running" /\ work[going[i].of].inst = i
       /\ going[i].at \in {"open", "claimed", "claimnotice", "noticing"} =>
            accepted[going[i].of] = 0 /\ ~work[going[i].of].streams
       /\ going[i].at = "live" \/ (going[i].at \in {"detached", "noticed"} /\ ~going[i].failed) =>
            accepted[going[i].of] = 1

ServedInv == (\A q \in Request : RequestOK(q)) /\ (\A i \in Server : RunOK(i))

Inv == Types /\ ServedInv

-----------------------------------------------------------------------------
(* Two kinds of steps.                                                     *)

\* Request r is as it was.
Same(r) == work'[r] = work[r] /\ answer'[r] = answer[r] /\ accepted'[r] = accepted[r]

\* A step of a request that is of no Run: Runs see no more than a stop, a message
\* or a failure.
LEMMA RequestStep ==
  ASSUME ServingAssumption, Inv, NEW q \in Request,
         work[q].at # "running", work'[q].at # "running",
         \A r \in Request : r # q => Same(r),
         \A i \in Server : /\ going'[i].at = going[i].at /\ going'[i].of = going[i].of
                           /\ going[i].failed => going'[i].failed,
         RequestOK(q)'
  PROVE  ServedInv'
<1>1. ASSUME NEW i \in Server PROVE RunOK(i)'
  <2>1. RunOK(i) /\ (going[i].of # "none" => going[i].of \in Request /\ going[i].of # q)
    BY DEF Inv, ServedInv, Types, RunOK
  <2>2. QED
    BY <2>1 DEF RunOK, Same
<1>2. ASSUME NEW r \in Request, r # q PROVE RequestOK(r)'
  <2>1. RequestOK(r) /\ work[r].inst \in Server /\ Same(r)
    BY <1>2 DEF Inv, ServedInv, Types, WorkRec
  <2>2. QED
    BY <2>1 DEF RequestOK, Same
<1>3. QED
  BY <1>1, <1>2 DEF ServedInv

\* A step of the Run of an Instance, which may answer its request.
LEMMA RunStep ==
  ASSUME ServingAssumption, Inv, NEW i \in Server, NEW p, p = going[i].of,
         \A r \in Request : r # p => Same(r),
         \A j \in Server : j # i => going'[j] = going[j],
         p # "none" => RequestOK(p)',
         RunOK(i)'
  PROVE  ServedInv'
<1>1. ASSUME NEW j \in Server, j # i PROVE RunOK(j)'
  <2>1. RunOK(j) /\ RunOK(i) /\ (going[j].of # "none" => going[j].of \in Request)
    BY DEF Inv, ServedInv, Types
  <2>2. going[j].of # "none" => going[j].of # going[i].of
    BY <1>1, <2>1 DEF RunOK
  <2>3. QED
    BY <1>1, <2>1, <2>2 DEF RunOK, Same
<1>2. ASSUME NEW r \in Request, r # p PROVE RequestOK(r)'
  <2>1. RequestOK(r) /\ work[r].inst \in Server /\ Same(r)
    BY <1>2 DEF Inv, ServedInv, Types, WorkRec
  <2>2. work[r].at = "running" => work[r].inst # i
    BY <1>2, <2>1 DEF RequestOK
  <2>3. QED
    BY <2>1, <2>2 DEF RequestOK, Same
<1>3. ASSUME NEW r \in Request PROVE RequestOK(r)'
  <2>1. CASE r = p
    BY <2>1 DEF ServingAssumption
  <2>2. QED
    BY <1>2, <2>1
<1>4. \A j \in Server : RunOK(j)'
  BY <1>1
<1>5. QED
  BY <1>3, <1>4 DEF ServedInv

\* What an answer leaves of its request, whether its client is there or not.
LEMMA Answered ==
  ASSUME Types, NEW q \in Request, NEW a \in AnswerRec, Answer(q, a)
  PROVE  /\ work' \in [Request -> WorkRec] /\ answer' \in [Request -> AnswerRec]
         /\ \A r \in Request : r # q => work'[r] = work[r] /\ answer'[r] = answer[r]
         /\ work'[q].at = "done" /\ work'[q].inst = work[q].inst
         /\ work'[q].streams = work[q].streams
         /\ answer'[q] = a \/ answer'[q] = answer[q]
<1>1. work \in [Request -> WorkRec] /\ answer \in [Request -> AnswerRec]
  BY DEF Types
<1>2. work' = [work EXCEPT ![q].at = "done"]
  BY DEF Answer
<1>3. answer' = [answer EXCEPT ![q] = a] \/ answer' = answer
  BY <1>1 DEF Answer
<1>4. work[q] \in WorkRec
  BY <1>1
<1>5. [work[q] EXCEPT !.at = "done"] \in WorkRec
  BY <1>4 DEF WorkRec, Fresh
<1>6. QED
  BY <1>1, <1>2, <1>3, <1>4, <1>5 DEF WorkRec

\* The answers that are given.
LEMMA Answers ==
  ASSUME NEW code \in Codes
  PROVE  /\ Done(code) \in AnswerRec /\ Done(code).code = code /\ ~Done(code).notRun
         /\ TryElsewhere(code) \in AnswerRec /\ TryElsewhere(code).code = code
         /\ Says(code, FALSE, TRUE) \in AnswerRec /\ Says(code, FALSE, TRUE).code = code
         /\ ~Says(code, FALSE, TRUE).notRun
         /\ ForwardFailed = Done("forward_failed") /\ NoAnswer \in AnswerRec
         /\ NoAnswer.code = "none" /\ ~NoAnswer.notRun
BY DEF Says, Done, TryElsewhere, ForwardFailed, AnswerRec, NoAnswer, Codes

\* A change of what one Instance has.
LEMMA GoingStep ==
  ASSUME Types, NEW i \in Server, NEW m, Shape(m), m.of \in Request \cup {"none"},
         m.failed \in BOOLEAN, going' = [going EXCEPT ![i] = m]
  PROVE  /\ going' = [j \in Server |-> going'[j]]
         /\ \A j \in Server : /\ Shape(going'[j]) /\ going'[j].of \in Request \cup {"none"}
                              /\ going'[j].failed \in BOOLEAN
         /\ going'[i] = m /\ \A j \in Server : j # i => going'[j] = going[j]
<1>1. going' = [j \in Server |-> IF j = i THEN m ELSE going[j]]
  BY DEF Types
<1>2. going'[i] = m /\ \A j \in Server : j # i => going'[j] = going[j]
  BY <1>1
<1>3. going' = [j \in Server |-> going'[j]]
  BY <1>1
<1>4. QED
  BY <1>2, <1>3 DEF Types

-----------------------------------------------------------------------------
(* The steps of requests.                                                  *)

\* Runs see no more than a stop, a message or a failure.
RunsGoOn ==
  /\ going' = [j \in Server |-> going'[j]]
  /\ \A j \in Server :
       /\ Shape(going'[j]) /\ going'[j].failed \in BOOLEAN
       /\ going'[j].at = going[j].at /\ going'[j].of = going[j].of
       /\ going[j].failed => going'[j].failed

\* A step that leaves the Runs alone is one of them.
LEMMA RunsUnchanged == ASSUME Types, UNCHANGED going PROVE RunsGoOn
BY DEF Types, RunsGoOn

\* A fresh request is answered and had no effect.
LEMMA AnsweredFresh ==
  ASSUME ServingAssumption, Inv, NEW q \in Request, NEW a \in AnswerRec, work[q].at \in Fresh,
         Answer(q, a), a.code \notin {"queued", "ran"}, RunsGoOn, UNCHANGED <<holder, accepted>>
  PROVE  Inv'
<1> USE DEF Inv
<1>1. RequestOK(q) /\ work[q].at \notin {"running", "done"}
  BY DEF ServedInv, Fresh
<1>2. /\ work' \in [Request -> WorkRec] /\ answer' \in [Request -> AnswerRec]
      /\ \A r \in Request : r # q => Same(r)
      /\ work'[q].at = "done" /\ ~work'[q].streams /\ accepted'[q] = 0
      /\ answer'[q].code \notin {"queued", "ran"}
  BY <1>1, Answered DEF Same, RequestOK
<1>3. RequestOK(q)'
  BY <1>2 DEF RequestOK, Fresh
<1>4. ServedInv'
  BY <1>1, <1>2, <1>3, RequestStep DEF RunsGoOn
<1>5. QED
  BY <1>2, <1>4 DEF Types, RunsGoOn

\* A fresh request has its effect at once, and is answered.
LEMMA AppliedFresh ==
  ASSUME ServingAssumption, Inv, NEW q \in Request, NEW a \in AnswerRec, work[q].at \in Fresh,
         Answer(q, a), ~a.notRun, Accepted(q), RunsGoOn, UNCHANGED holder
  PROVE  Inv'
<1> USE DEF Inv
<1>1. RequestOK(q) /\ work[q].at \notin {"running", "done"}
  BY DEF ServedInv, Fresh
<1>2. /\ work' \in [Request -> WorkRec] /\ answer' \in [Request -> AnswerRec]
      /\ \A r \in Request : r # q => work'[r] = work[r] /\ answer'[r] = answer[r]
      /\ work'[q].at = "done" /\ ~answer'[q].notRun
  BY <1>1, Answered DEF RequestOK
<1>3. /\ accepted' \in [Request -> Nat] /\ accepted'[q] = 1
      /\ \A r \in Request : r # q => accepted'[r] = accepted[r]
  BY <1>1 DEF Types, Accepted, RequestOK
<1>4. RequestOK(q)'
  BY <1>2, <1>3 DEF RequestOK, Fresh
<1>5. ServedInv'
  BY <1>1, <1>2, <1>3, <1>4, RequestStep DEF RunsGoOn, Same
<1>6. QED
  BY <1>2, <1>3, <1>5 DEF Types, RunsGoOn

\* A fresh request goes on to another check, or its client has left it.
LEMMA MovedFresh ==
  ASSUME ServingAssumption, Inv, NEW q \in Request, NEW w \in WorkRec, work[q].at \in Fresh,
         work' = [work EXCEPT ![q] = w], w.at \in Fresh \cup {"done"}, ~w.streams,
         UNCHANGED <<holder, going, answer, accepted>>
  PROVE  Inv'
<1> USE DEF Inv
<1>1. RequestOK(q) /\ work[q].at \notin {"running", "done"}
  BY DEF ServedInv, Fresh
<1>2. /\ work' \in [Request -> WorkRec] /\ work'[q] = w
      /\ \A r \in Request : r # q => Same(r)
  BY DEF Types, Same
<1>3. RequestOK(q)'
  BY <1>1, <1>2 DEF RequestOK, Fresh
<1>4. ServedInv'
  BY <1>1, <1>2, <1>3, RequestStep DEF Fresh
<1>5. QED
  BY <1>2, <1>4 DEF Types

\* A request is sent, or sent again.
LEMMA SubmitServed ==
  ASSUME ServingAssumption, Inv, NEW q \in Request, NEW i \in Server, Submit(q, i)
  PROVE  Inv'
<1> USE DEF Inv
<1> DEFINE w == [at |-> "arrived", inst |-> i, via |-> {}, to |-> i, waited |-> FALSE,
                 dropped |-> FALSE, streams |-> FALSE]
<1>1. w \in WorkRec /\ w.at = "arrived" /\ ~w.streams
  BY DEF WorkRec, Fresh
<1>2. work' = [work EXCEPT ![q] = w] /\ UNCHANGED <<holder, going, accepted>>
  BY DEF Submit
<1>3. answer' = [answer EXCEPT ![q] = NoAnswer]
  BY DEF Submit
<1>4. RequestOK(q) /\ accepted[q] = 0 /\ work[q].at # "running"
  BY DEF ServedInv, Submit, RequestOK, Fresh
<1> HIDE DEF w
<1>5. /\ work' \in [Request -> WorkRec] /\ answer' \in [Request -> AnswerRec]
      /\ \A r \in Request : r # q => Same(r)
      /\ work'[q] = w /\ answer'[q] = NoAnswer /\ accepted'[q] = 0
  BY <1>1, <1>2, <1>3, <1>4, Answers DEF Types, Same, Codes
<1>6. NoAnswer.code = "none" /\ ~NoAnswer.notRun
  BY DEF NoAnswer
<1>7. RequestOK(q)'
  BY <1>1, <1>5, <1>6 DEF RequestOK, Fresh
<1>8. ServedInv'
  BY <1>1, <1>2, <1>4, <1>5, <1>7, RequestStep
<1>9. QED
  BY <1>2, <1>5, <1>8 DEF Types

\* What becomes of a request that its Instance has not taken as its Run.
LEMMA ServeServed ==
  ASSUME ServingAssumption, Inv, NEW q \in Request,
         \/ RefuseRequest(q) \/ StoreRefuses(q) \/ Queue(q) \/ NoticeRefused(q) \/ AbortSession(q)
         \/ EndingRun(q) \/ NoLiveRun(q) \/ CheckWriter(q) \/ Forward(q) \/ GiveUp(q)
  PROVE  Inv'
<1> USE DEF Inv
<1>0. /\ work[q] \in WorkRec /\ work[q].inst \in Server /\ work[q].to \in Server
      /\ holder.inst \in Server
  BY DEF Types, WorkRec
<1>1. ASSUME NEW a \in AnswerRec, work[q].at \in Fresh, Answer(q, a),
             a.code \notin {"queued", "ran"}, UNCHANGED <<holder, going, accepted>>
      PROVE  Inv'
  BY <1>1, AnsweredFresh, RunsUnchanged
<1>2. ASSUME NEW p \in Fresh \cup {"done"}, work[q].at \in Fresh,
             work' = [work EXCEPT ![q].at = p], UNCHANGED <<holder, going, answer, accepted>>
      PROVE  Inv'
  <2>1. ~work[q].streams
    BY <1>2 DEF ServedInv, RequestOK
  <2>2. [work[q] EXCEPT !.at = p] \in WorkRec
    BY <1>0 DEF WorkRec
  <2>3. work' = [work EXCEPT ![q] = [work[q] EXCEPT !.at = p]]
    BY <1>2
  <2>4. [work[q] EXCEPT !.at = p].at = p /\ ~[work[q] EXCEPT !.at = p].streams
    BY <1>0, <2>1 DEF WorkRec
  <2>5. QED
    BY <1>2, <2>2, <2>3, <2>4, MovedFresh
<1>3. CASE RefuseRequest(q)
  <2>1. Done("invalid_argument") \in AnswerRec /\ Done("invalid_argument").code = "invalid_argument"
    BY Answers DEF Codes
  <2>2. QED
    BY <1>1, <1>3, <2>1 DEF RefuseRequest, At, Fresh
<1>4. CASE StoreRefuses(q)
  <2>1. TryElsewhere("store_failure") \in AnswerRec /\ TryElsewhere("store_failure").code = "store_failure"
    BY Answers DEF Codes
  <2>2. QED
    BY <1>1, <1>4, <2>1 DEF StoreRefuses, At, Fresh
<1>5. CASE NoticeRefused(q)
  <2>1. TryElsewhere("draining") \in AnswerRec /\ TryElsewhere("draining").code = "draining"
    BY Answers DEF Codes
  <2>2. QED
    BY <1>1, <1>5, <2>1 DEF NoticeRefused, At, Fresh
<1>6. CASE Queue(q)
  <2>1. work[q].at \in Fresh /\ UNCHANGED holder
    BY <1>6 DEF Queue, At, Fresh
  <2> DEFINE i == work[q].inst
             full == [going[i] EXCEPT !.inbox = Append(@, q)]
             broken == [going[i] EXCEPT !.failed = TRUE]
  <2>2. Shape(going[i]) /\ going[i].of \in Request \cup {"none"} /\ going[i].failed \in BOOLEAN
    BY <1>0 DEF Types
  <2>3. /\ Shape(full) /\ full.of = going[i].of /\ full.at = going[i].at /\ full.failed = going[i].failed
        /\ Shape(broken) /\ broken.of = going[i].of /\ broken.at = going[i].at /\ broken.failed
    BY <2>2 DEF Shape
  <2>4. broken.failed \in BOOLEAN
    BY <2>2 DEF Shape
  <2>5. going' = [going EXCEPT ![i] = full] \/ going' = [going EXCEPT ![i] = broken]
    BY <1>6 DEF Queue
  <2> HIDE DEF i, full, broken
  <2>6. RunsGoOn
    <3>1. i \in Server
      BY <1>0 DEF i
    <3>2. CASE going' = [going EXCEPT ![i] = full]
      BY <2>2, <2>3, <3>1, <3>2, GoingStep DEF RunsGoOn, Types
    <3>3. CASE going' = [going EXCEPT ![i] = broken]
      BY <2>2, <2>3, <2>4, <3>1, <3>3, GoingStep DEF RunsGoOn, Types
    <3>4. QED
      BY <2>5, <3>2, <3>3
  <2>7. CASE Answer(q, Done("queued")) /\ Accepted(q)
    BY <2>1, <2>6, <2>7, AppliedFresh, Answers DEF Codes
  <2>8. CASE Answer(q, Says("store_failure", FALSE, TRUE)) /\ Accepted(q)
    BY <2>1, <2>6, <2>8, AppliedFresh, Answers DEF Codes
  <2>9. CASE Answer(q, Says("store_failure", FALSE, TRUE)) /\ UNCHANGED accepted
    <3>1. /\ Says("store_failure", FALSE, TRUE) \in AnswerRec
          /\ Says("store_failure", FALSE, TRUE).code = "store_failure"
      BY Answers DEF Codes
    <3>2. QED
      BY <2>1, <2>6, <2>9, <3>1, AnsweredFresh
  <2>10. CASE Answer(q, Done("conflict")) /\ UNCHANGED accepted
    <3>1. Done("conflict") \in AnswerRec /\ Done("conflict").code = "conflict"
      BY Answers DEF Codes
    <3>2. QED
      BY <2>1, <2>6, <2>10, <3>1, AnsweredFresh
  <2>11. QED
    BY <1>6, <2>7, <2>8, <2>9, <2>10 DEF Queue
<1>7. CASE AbortSession(q)
  <2> DEFINE i == work[q].inst
             stopped == [going[i] EXCEPT !.stop = TRUE]
  <2>1. /\ work[q].at \in Fresh /\ UNCHANGED holder /\ Answer(q, Done("queued")) /\ Accepted(q)
        /\ going' = [going EXCEPT ![i] = stopped]
    BY <1>7 DEF AbortSession, At, Fresh
  <2>2. Shape(going[i]) /\ going[i].of \in Request \cup {"none"} /\ going[i].failed \in BOOLEAN
    BY <1>0 DEF Types
  <2>3. /\ Shape(stopped) /\ stopped.of = going[i].of /\ stopped.at = going[i].at
        /\ stopped.failed = going[i].failed
    BY <2>2 DEF Shape
  <2>4. i \in Server
    BY <1>0
  <2> HIDE DEF i, stopped
  <2>5. RunsGoOn
    BY <2>1, <2>2, <2>3, <2>4, GoingStep DEF RunsGoOn, Types
  <2>6. QED
    BY <2>1, <2>5, AppliedFresh, Answers DEF Codes
<1>8. CASE EndingRun(q)
  <2> DEFINE w == [work[q] EXCEPT !.waited = TRUE]
  <2>1. work[q].at \in Fresh /\ work' = [work EXCEPT ![q] = w] /\ UNCHANGED <<holder, going, answer, accepted>>
    BY <1>8 DEF EndingRun, At, Fresh
  <2>2. w \in WorkRec /\ w.at = work[q].at /\ ~w.streams
    BY <1>0, <2>1 DEF WorkRec, ServedInv, RequestOK
  <2> HIDE DEF w
  <2>3. QED
    BY <2>1, <2>2, MovedFresh
<1>9. CASE NoLiveRun(q)
  BY <1>2, <1>9 DEF NoLiveRun, At, Fresh
<1>10. CASE CheckWriter(q)
  <2>1. work[q].at \in Fresh /\ UNCHANGED <<holder, going, accepted>>
    BY <1>10 DEF CheckWriter, At, Fresh
  <2>2. CASE Answer(q, Done("no_run"))
    <3>1. Done("no_run") \in AnswerRec /\ Done("no_run").code = "no_run"
      BY Answers DEF Codes
    <3>2. QED
      BY <1>1, <2>1, <2>2, <3>1
  <2>3. CASE work' = [work EXCEPT ![q].at = "admit"] /\ UNCHANGED answer
    BY <1>2, <2>1, <2>3 DEF Fresh
  <2> DEFINE w == [work[q] EXCEPT !.at = "not_writer", !.to = holder.inst]
  <2>4. CASE /\ work' = [work EXCEPT ![q].at = "not_writer", ![q].to = holder.inst]
             /\ UNCHANGED answer
    <3>1. work' = [work EXCEPT ![q] = w]
      BY <1>0, <2>4 DEF Types
    <3>2. w \in WorkRec /\ w.at = "not_writer" /\ ~w.streams
      BY <1>0, <2>1 DEF WorkRec, Fresh, ServedInv, RequestOK
    <3> HIDE DEF w
    <3>3. QED
      BY <2>1, <2>4, <3>1, <3>2, MovedFresh DEF Fresh
  <2>5. QED
    BY <1>10, <2>2, <2>3, <2>4 DEF CheckWriter
<1>11. CASE Forward(q)
  <2>1. work[q].at \in Fresh /\ UNCHANGED <<holder, going, accepted>>
    BY <1>11 DEF Forward, At, Fresh
  <2>2. CASE Answer(q, ForwardFailed)
    <3>1. ForwardFailed \in AnswerRec /\ ForwardFailed.code = "forward_failed"
      BY Answers DEF Codes
    <3>2. QED
      BY <1>1, <2>1, <2>2, <3>1
  <2>3. CASE Answer(q, TryElsewhere("not_writer"))
    <3>1. TryElsewhere("not_writer") \in AnswerRec /\ TryElsewhere("not_writer").code = "not_writer"
      BY Answers DEF Codes
    <3>2. QED
      BY <1>1, <2>1, <2>3, <3>1
  <2> DEFINE w == [work[q] EXCEPT !.at = "arrived", !.inst = work[q].to, !.via = {work[q].inst}]
  <2>4. CASE /\ work' = [work EXCEPT ![q].at = "arrived", ![q].inst = work[q].to,
                                     ![q].via = {work[q].inst}]
             /\ UNCHANGED answer
    <3>1. work' = [work EXCEPT ![q] = w]
      BY <1>0, <2>4 DEF Types
    <3>2. w \in WorkRec /\ w.at = "arrived" /\ ~w.streams
      BY <1>0, <2>1 DEF WorkRec, Fresh, ServedInv, RequestOK
    <3> HIDE DEF w
    <3>3. QED
      BY <2>1, <2>4, <3>1, <3>2, MovedFresh DEF Fresh
  <2>5. QED
    BY <1>11, <2>2, <2>3, <2>4 DEF Forward
<1>12. CASE GiveUp(q)
  BY <1>2, <1>12 DEF GiveUp, At, Fresh
<1>13. QED
  BY <1>3, <1>4, <1>5, <1>6, <1>7, <1>8, <1>9, <1>10, <1>11, <1>12

\* A client leaves or is cut off: what is under way of its request goes on.
LEMMA LeftServed ==
  ASSUME ServingAssumption, Inv, NEW q \in Request, Drop(q) \/ ForwardLost(q)
  PROVE  Inv'
<1> USE DEF Inv
<1> DEFINE w == [work[q] EXCEPT !.dropped = TRUE]
<1>1. work[q] \in WorkRec
  BY DEF Types
<1>2. /\ w \in WorkRec /\ w.at = work[q].at /\ w.inst = work[q].inst /\ w.streams = work[q].streams
      /\ work' = [work EXCEPT ![q] = w] /\ UNCHANGED <<holder, going, accepted>>
      /\ work[q].at # "done"
  BY <1>1 DEF WorkRec, Drop, ForwardLost
<1>3. ForwardFailed \in AnswerRec /\ ForwardFailed.code = "forward_failed" /\ ~ForwardFailed.notRun
  BY Answers DEF Codes
<1>4. answer' = answer \/ answer' = [answer EXCEPT ![q] = ForwardFailed]
  BY DEF Drop, ForwardLost
<1> HIDE DEF w
<1>5. /\ work' \in [Request -> WorkRec] /\ answer' \in [Request -> AnswerRec]
      /\ work'[q] = w /\ (answer'[q] = answer[q] \/ answer'[q] = ForwardFailed)
      /\ \A r \in Request : r # q => Same(r)
  BY <1>2, <1>3, <1>4 DEF Types, Same
<1>6. \A r \in Request : work'[r].at = work[r].at /\ work'[r].inst = work[r].inst
                          /\ work'[r].streams = work[r].streams
  BY <1>2, <1>5 DEF Same
<1>7. ASSUME NEW r \in Request PROVE RequestOK(r)'
  <2>1. RequestOK(r)
    BY DEF ServedInv
  <2>2. CASE r = q
    BY <1>2, <1>3, <1>5, <1>6, <2>1, <2>2 DEF RequestOK
  <2>3. CASE r # q
    BY <1>2, <1>5, <2>1, <2>3 DEF RequestOK, Same
  <2>4. QED
    BY <2>2, <2>3
<1>8. ASSUME NEW i \in Server PROVE RunOK(i)'
  <2>1. RunOK(i) /\ (going[i].of # "none" => going[i].of \in Request)
    BY DEF ServedInv, Types
  <2>2. QED
    BY <1>2, <1>6, <2>1 DEF RunOK
<1>9. QED
  BY <1>2, <1>5, <1>7, <1>8 DEF Types, ServedInv

\* The stream of a Run that has begun, or has failed, begins.
LEMMA AdmittedServed ==
  ASSUME ServingAssumption, Inv, NEW q \in Request, Admitted(q)
  PROVE  Inv'
<1> USE DEF Inv
<1> DEFINE w == [work[q] EXCEPT !.streams = TRUE]
<1>1. work[q] \in WorkRec
  BY DEF Types
<1>2. /\ w \in WorkRec /\ w.at = work[q].at /\ w.inst = work[q].inst
      /\ work' = [work EXCEPT ![q] = w] /\ UNCHANGED <<holder, going, answer, accepted>>
      /\ work[q].at = "running" /\ going[work[q].inst].at \in {"live", "detached"}
      /\ work[q].inst \in Server
  BY <1>1 DEF WorkRec, Admitted, At
<1> HIDE DEF w
<1>3. /\ work' \in [Request -> WorkRec] /\ work'[q] = w
      /\ \A r \in Request : r # q => Same(r)
  BY <1>2 DEF Types, Same
<1>4. PICK i \in Server : i = work[q].inst
  BY <1>2
<1>5. going[i].of = q /\ RunOK(i) /\ RequestOK(q) /\ going[i].at \in {"live", "detached"}
  BY <1>2, <1>4 DEF ServedInv, RequestOK
<1>6. RequestOK(q)'
  BY <1>2, <1>3, <1>5 DEF RequestOK, Fresh
<1>7. RunOK(i)'
  BY <1>2, <1>3, <1>5 DEF RunOK
<1>8. ServedInv'
  BY <1>2, <1>3, <1>5, <1>6, <1>7, RunStep
<1>9. QED
  BY <1>2, <1>3, <1>8 DEF Types

\* Admission answers a request or makes it the Run of its Instance.
LEMMA AdmitServed ==
  ASSUME ServingAssumption, Inv, NEW q \in Request, AdmitRequest(q)
  PROVE  Inv'
<1> USE DEF Inv
<1>1. /\ work[q].at = "admit" /\ work[q] \in WorkRec /\ RequestOK(q) /\ work[q].inst \in Server
      /\ UNCHANGED <<holder, accepted>>
  BY DEF AdmitRequest, At, ServedInv, Types, WorkRec
<1>2. ASSUME NEW c \in {"draining", "overloaded", "busy"}, Answer(q, TryElsewhere(c)), UNCHANGED going
      PROVE  Inv'
  <2>1. TryElsewhere(c) \in AnswerRec /\ TryElsewhere(c).code = c
    BY Answers DEF Codes
  <2>2. QED
    BY <1>1, <1>2, <2>1, AnsweredFresh, RunsUnchanged DEF Fresh
<1>3. PICK i \in Server : i = work[q].inst
  BY <1>1
<1> DEFINE w == [work[q] EXCEPT !.at = "running"]
           m == [NoRunHere EXCEPT !.at = IF KindOf(q) = "notice" THEN "claimnotice" ELSE "open", !.of = q]
<1>4. CASE /\ going[i].at = "none" /\ going' = [going EXCEPT ![i] = m]
           /\ work' = [work EXCEPT ![q].at = "running"] /\ UNCHANGED answer
  <2>1. /\ w \in WorkRec /\ w.at = "running" /\ w.inst = i /\ ~w.streams
        /\ work' = [work EXCEPT ![q] = w]
    BY <1>1, <1>3, <1>4 DEF WorkRec, RequestOK, Fresh
  <2>2. Shape(m) /\ m.at \in {"open", "claimnotice"} /\ m.of = q /\ m.failed \in BOOLEAN
    BY DEF Shape, NoRunHere
  <2> HIDE DEF w, m
  <2>3. /\ going' = [j \in Server |-> going'[j]]
        /\ \A j \in Server : /\ Shape(going'[j]) /\ going'[j].of \in Request \cup {"none"}
                             /\ going'[j].failed \in BOOLEAN
        /\ going'[i] = m /\ \A j \in Server : j # i => going'[j] = going[j]
    BY <1>4, <2>2, GoingStep
  <2>4. /\ work' \in [Request -> WorkRec] /\ work'[q] = w
        /\ \A r \in Request : r # q => Same(r)
    BY <1>1, <1>4, <2>1 DEF Types, Same
  <2>5. going[i].of = "none" /\ q # "none"
    BY <1>4 DEF ServedInv, RunOK, ServingAssumption
  <2>6. ASSUME NEW r \in Request PROVE RequestOK(r)'
    <3>1. CASE r = q
      BY <1>1, <1>4, <2>1, <2>2, <2>3, <2>4, <3>1 DEF RequestOK, Fresh
    <3>2. CASE r # q
      <4>1. RequestOK(r) /\ Same(r) /\ work[r].inst \in Server
        BY <2>4, <3>2 DEF ServedInv, Types, WorkRec
      <4>2. work[r].at = "running" => work[r].inst # i
        BY <2>5, <4>1 DEF RequestOK, ServingAssumption
      <4>3. QED
        BY <2>3, <4>1, <4>2 DEF RequestOK, Same
    <3>3. QED
      BY <3>1, <3>2
  <2>7. ASSUME NEW j \in Server PROVE RunOK(j)'
    <3>1. CASE j = i
      BY <1>1, <2>1, <2>2, <2>3, <2>4, <2>5, <3>1 DEF RunOK, RequestOK, Fresh
    <3>2. CASE j # i
      <4>1. RunOK(j) /\ going'[j] = going[j] /\ (going[j].of # "none" => going[j].of \in Request)
        BY <2>3, <3>2 DEF ServedInv, Types
      <4>2. going[j].of # q
        BY <1>1, <2>5, <4>1 DEF RunOK
      <4>3. QED
        BY <2>4, <4>1, <4>2 DEF RunOK, Same
    <3>3. QED
      BY <3>1, <3>2
  <2>8. QED
    BY <1>1, <1>4, <2>3, <2>4, <2>6, <2>7 DEF Types, ServedInv
<1>5. QED
  BY <1>2, <1>3, <1>4 DEF AdmitRequest

-----------------------------------------------------------------------------
(* The steps of Runs.                                                      *)

\* A place where the request of the Run has had no effect, and one where it has.
Before(m) == m.at \in {"open", "claimed", "claimnotice", "noticing"}
After(m) == m.at = "live" \/ (m.at \in {"detached", "noticed"} /\ ~m.failed)

\* A Run moves on, and its request is as it was.
LEMMA RunMoves ==
  ASSUME ServingAssumption, Inv, NEW i \in Server, NEW m, Shape(m), m.of = going[i].of,
         m.failed \in BOOLEAN, going' = [going EXCEPT ![i] = m], UNCHANGED <<work, answer, accepted>>,
         holder' \in [inst : Server, busy : BOOLEAN],
         m.at = "none" => m.of = "none",
         m.at \in {"claimnotice", "noticing", "noticed"} => m.of # "none",
         m.of # "none" /\ Before(m) => Before(going[i]),
         m.of # "none" /\ After(m) => After(going[i])
  PROVE  Inv'
<1> USE DEF Inv
<1>1. going[i].of \in Request \cup {"none"} /\ RunOK(i)
  BY DEF Types, ServedInv
<1>2. PICK p \in Request \cup {"none"} : p = going[i].of
  BY <1>1
<1>3. /\ going' = [j \in Server |-> going'[j]]
      /\ \A j \in Server : /\ Shape(going'[j]) /\ going'[j].of \in Request \cup {"none"}
                           /\ going'[j].failed \in BOOLEAN
      /\ going'[i] = m /\ \A j \in Server : j # i => going'[j] = going[j]
  BY <1>1, GoingStep
<1>4. RunOK(i)'
  BY <1>1, <1>3 DEF RunOK, Before, After
<1>5. p # "none" => RequestOK(p)'
  BY <1>1, <1>2, <1>3 DEF ServedInv, RequestOK, RunOK
<1>6. \A r \in Request : Same(r)
  BY DEF Same
<1>7. ServedInv'
  BY <1>2, <1>3, <1>4, <1>5, <1>6, RunStep
<1>8. QED
  BY <1>3, <1>7 DEF Types

\* The request of a Run has its effect.
LEMMA RunBegins ==
  ASSUME ServingAssumption, Inv, NEW i \in Server, NEW m, Shape(m), m.of = going[i].of,
         m.failed \in BOOLEAN, going' = [going EXCEPT ![i] = m], UNCHANGED <<holder, work, answer>>,
         m.of # "none", m.at \in {"live", "noticed"}, Before(going[i]), Accepted(going[i].of)
  PROVE  Inv'
<1> USE DEF Inv
<1>1. going[i].of \in Request /\ RunOK(i)
  BY DEF Types, ServedInv
<1>2. PICK p \in Request : p = going[i].of
  BY <1>1
<1>3. /\ going' = [j \in Server |-> going'[j]]
      /\ \A j \in Server : /\ Shape(going'[j]) /\ going'[j].of \in Request \cup {"none"}
                           /\ going'[j].failed \in BOOLEAN
      /\ going'[i] = m /\ \A j \in Server : j # i => going'[j] = going[j]
  BY <1>1, GoingStep
<1>4. /\ accepted' \in [Request -> Nat] /\ accepted'[p] = 1
      /\ \A r \in Request : r # p => Same(r)
  BY <1>1, <1>2 DEF Types, Accepted, RunOK, Before, Same
<1>5. RunOK(i)'
  BY <1>1, <1>2, <1>3, <1>4 DEF RunOK
<1>6. RequestOK(p)'
  BY <1>1, <1>2, <1>3, <1>4 DEF ServedInv, RequestOK, RunOK, Fresh
<1>7. ServedInv'
  BY <1>2, <1>3, <1>4, <1>5, <1>6, RunStep
<1>8. QED
  BY <1>3, <1>4, <1>7 DEF Types

\* The request of a Run is answered, and the Instance goes on without it.
LEMMA RunAnswers ==
  ASSUME ServingAssumption, Inv, NEW i \in Server, NEW m, Shape(m), m.of = "none",
         m.at \in {"none", "open"}, m.failed \in BOOLEAN, going' = [going EXCEPT ![i] = m],
         going[i].of # "none", UNCHANGED accepted, holder' \in [inst : Server, busy : BOOLEAN],
         NEW a \in AnswerRec, Answer(going[i].of, a),
         a.notRun => Before(going[i]),
         a.code \in {"queued", "ran"} => After(going[i])
  PROVE  Inv'
<1> USE DEF Inv
<1>1. going[i].of \in Request /\ RunOK(i)
  BY DEF Types, ServedInv
<1>2. PICK p \in Request : p = going[i].of
  BY <1>1
<1>3. /\ going' = [j \in Server |-> going'[j]]
      /\ \A j \in Server : /\ Shape(going'[j]) /\ going'[j].of \in Request \cup {"none"}
                           /\ going'[j].failed \in BOOLEAN
      /\ going'[i] = m /\ \A j \in Server : j # i => going'[j] = going[j]
  BY GoingStep
<1>4. /\ work' \in [Request -> WorkRec] /\ answer' \in [Request -> AnswerRec]
      /\ \A r \in Request : r # p => Same(r)
      /\ work'[p].at = "done" /\ work'[p].streams = work[p].streams
      /\ answer'[p] = a \/ answer'[p] = answer[p]
      /\ accepted'[p] = accepted[p]
  BY <1>2, Answered DEF Same
<1>5. RunOK(i)'
  BY <1>3 DEF RunOK
<1>6. RequestOK(p)'
  <2>1. RequestOK(p)
    BY DEF ServedInv
  <2>2. CASE answer'[p] = answer[p]
    BY <1>4, <2>1, <2>2 DEF RequestOK, Fresh
  <2>3. CASE answer'[p] = a
    BY <1>1, <1>2, <1>4, <2>1, <2>3 DEF RequestOK, RunOK, Before, After, Fresh
  <2>4. QED
    BY <1>4, <2>2, <2>3
<1>7. ServedInv'
  BY <1>2, <1>3, <1>4, <1>5, <1>6, RunStep
<1>8. QED
  BY <1>3, <1>4, <1>7 DEF Types

\* An Instance without a Run.
LEMMA IdleIs ==
  /\ Shape(NoRunHere) /\ NoRunHere.at = "none" /\ NoRunHere.of = "none" /\ ~NoRunHere.failed
  /\ NoRunHere.failed \in BOOLEAN
BY DEF Shape, NoRunHere

\* A Run that does not open ends, and its request, if it has one, is told.
LEMMA GivenUp ==
  ASSUME ServingAssumption, Inv, NEW i \in Server, NEW a \in AnswerRec, Before(going[i]),
         IF going[i].of = "none" THEN going' = [going EXCEPT ![i] = NoRunHere] /\ UNCHANGED <<work, answer>>
         ELSE Refused(going[i].of, i, a),
         a.code \notin {"queued", "ran"}, UNCHANGED accepted,
         holder' \in [inst : Server, busy : BOOLEAN]
  PROVE  Inv'
<1>1. going' = [going EXCEPT ![i] = NoRunHere]
  BY DEF Refused
<1>2. CASE going[i].of = "none"
  BY <1>1, <1>2, IdleIs, RunMoves DEF Before, After
<1>3. CASE going[i].of # "none"
  BY <1>1, <1>3, IdleIs, RunAnswers DEF Refused
<1>4. QED
  BY <1>2, <1>3

\* From the Claim to the answer, and a notice between Runs.
LEMMA RunServed ==
  ASSUME ServingAssumption, Inv, NEW i \in Server, RunGoes(i) \/ Abandon(i) \/ DropFollowFails(i)
  PROVE  Inv'
<1>0. /\ Shape(going[i]) /\ going[i].of \in Request \cup {"none"} /\ going[i].failed \in BOOLEAN
      /\ holder \in [inst : Server, busy : BOOLEAN] /\ RunOK(i)
      /\ [inst |-> i, busy |-> TRUE] \in [inst : Server, busy : BOOLEAN]
      /\ [holder EXCEPT !.busy = FALSE] \in [inst : Server, busy : BOOLEAN]
  BY DEF Inv, Types, ServedInv
<1>1. CASE Claim(i)
  <2> DEFINE m == [going[i] EXCEPT !.at = IF @ = "open" THEN "claimed" ELSE "noticing"]
  <2>1. going' = [going EXCEPT ![i] = m] /\ UNCHANGED <<work, answer, accepted>>
    BY <1>1 DEF Claim
  <2>2. holder' = [inst |-> i, busy |-> TRUE] /\ going[i].at \in {"open", "claimnotice"}
    BY <1>1 DEF Claim, OpensRun
  <2>3. /\ Shape(m) /\ m.of = going[i].of /\ m.failed = going[i].failed
        /\ m.at = IF going[i].at = "open" THEN "claimed" ELSE "noticing"
    BY <1>0 DEF Shape
  <2> HIDE DEF m
  <2>4. QED
    BY <1>0, <2>1, <2>2, <2>3, RunMoves DEF Before, After, RunOK
<1>2. CASE OpenRefused(i)
  <2>1. /\ Before(going[i]) /\ UNCHANGED accepted
        /\ holder' \in [inst : Server, busy : BOOLEAN]
    BY <1>0, <1>2 DEF OpenRefused, OpensRun, Before
  <2>2. IF going[i].of = "none" THEN going' = [going EXCEPT ![i] = NoRunHere] /\ UNCHANGED <<work, answer>>
        ELSE Refused(going[i].of, i, TryElsewhere("not_opened"))
    BY <1>2 DEF OpenRefused, NoRunFollows
  <2>3. TryElsewhere("not_opened") \in AnswerRec /\ TryElsewhere("not_opened").code = "not_opened"
    BY Answers DEF Codes
  <2>4. QED
    BY <2>1, <2>2, <2>3, GivenUp
<1>3. CASE CanceledRunResult(i)
  <2>1. Before(going[i]) /\ UNCHANGED <<accepted, holder>>
    BY <1>3 DEF CanceledRunResult, Before
  <2>2. IF going[i].of = "none" THEN going' = [going EXCEPT ![i] = NoRunHere] /\ UNCHANGED <<work, answer>>
        ELSE Refused(going[i].of, i, Done("canceled"))
    BY <1>3 DEF CanceledRunResult, NoRunFollows
  <2>3. Done("canceled") \in AnswerRec /\ Done("canceled").code = "canceled"
    BY Answers DEF Codes
  <2>4. QED
    BY <1>0, <2>1, <2>2, <2>3, GivenUp
<1>4. CASE Abandon(i) \/ DropFollowFails(i)
  <2>1. /\ Before(going[i]) /\ UNCHANGED accepted
        /\ holder' \in [inst : Server, busy : BOOLEAN]
    BY <1>0, <1>4 DEF Abandon, DropFollowFails, Before
  <2>2. IF going[i].of = "none" THEN going' = [going EXCEPT ![i] = NoRunHere] /\ UNCHANGED <<work, answer>>
        ELSE Refused(going[i].of, i, Done("failed"))
    BY <1>4 DEF Abandon, DropFollowFails, NoRunFollows
  <2>3. Done("failed") \in AnswerRec /\ Done("failed").code = "failed"
    BY Answers DEF Codes
  <2>4. QED
    BY <2>1, <2>2, <2>3, GivenUp
<1>5. CASE RepairRelease(i)
  <2>1. /\ UNCHANGED <<going, work, answer, accepted>>
        /\ holder' \in [inst : Server, busy : BOOLEAN]
    BY <1>0, <1>5 DEF RepairRelease
  <2>2. QED
    BY <2>1 DEF Inv, Types, ServedInv, RequestOK, RunOK
<1>6. CASE StartRun(i)
  <2>1. PICK e : going' = [going EXCEPT ![i].at = "live", ![i].inbox = e]
    BY <1>6 DEF StartRun
  <2> DEFINE m == [going[i] EXCEPT !.at = "live", !.inbox = e]
  <2>2. going' = [going EXCEPT ![i] = m]
    BY <2>1
  <2>3. /\ UNCHANGED <<holder, work, answer>> /\ going[i].at = "claimed"
        /\ IF going[i].of = "none" THEN UNCHANGED accepted ELSE Accepted(going[i].of)
    BY <1>6 DEF StartRun
  <2>4. Shape(m) /\ m.of = going[i].of /\ m.failed = going[i].failed /\ m.at = "live"
    BY <1>0 DEF Shape
  <2> HIDE DEF m
  <2>5. CASE going[i].of = "none"
    BY <1>0, <2>2, <2>3, <2>4, <2>5, RunMoves
  <2>6. CASE going[i].of # "none"
    BY <1>0, <2>2, <2>3, <2>4, <2>6, RunBegins DEF Before
  <2>7. QED
    BY <2>5, <2>6
<1>7. CASE StartFails(i)
  <2> DEFINE m == [going[i] EXCEPT !.at = "detached", !.failed = TRUE, !.stop = FALSE, !.inbox = <<>>]
  <2>1. going' = [going EXCEPT ![i] = m] /\ UNCHANGED <<holder, work, answer, accepted>>
    BY <1>7 DEF StartFails
  <2>2. Shape(m) /\ m.of = going[i].of /\ m.failed /\ m.at = "detached"
    BY <1>0 DEF Shape
  <2>3. m.failed \in BOOLEAN
    BY <1>0 DEF Shape
  <2> HIDE DEF m
  <2>4. QED
    BY <1>0, <2>1, <2>2, <2>3, RunMoves DEF Before, After
<1>8. CASE Commit(i)
  <2> DEFINE m == [going[i] EXCEPT !.inbox = Tail(@)]
  <2>1. going' = [going EXCEPT ![i] = m] /\ UNCHANGED <<holder, work, answer, accepted>>
        /\ going[i].at = "live"
    BY <1>8 DEF Commit
  <2>2. Shape(m) /\ m.of = going[i].of /\ m.failed = going[i].failed /\ m.at = going[i].at
    BY <1>0 DEF Shape
  <2> HIDE DEF m
  <2>3. QED
    BY <1>0, <2>1, <2>2, RunMoves DEF Before, After
<1>9. CASE Detach(i)
  <2>0. PICK f \in BOOLEAN :
          \E e : going' = [going EXCEPT ![i].at = "detached", ![i].failed = f, ![i].stop = FALSE, ![i].inbox = e]
    <3>1. (going[i].failed \/ ~MayWrite(i)) \in BOOLEAN
      BY <1>0 DEF MayWrite
    <3>2. QED
      BY <1>9, <3>1 DEF Detach
  <2>1. PICK e : going' = [going EXCEPT ![i].at = "detached", ![i].failed = f, ![i].stop = FALSE, ![i].inbox = e]
    BY <2>0
  <2> DEFINE m == [going[i] EXCEPT !.at = "detached", !.failed = f, !.stop = FALSE, !.inbox = e]
  <2>2. going' = [going EXCEPT ![i] = m]
    BY <2>1
  <2>3. UNCHANGED <<holder, work, answer, accepted>> /\ going[i].at = "live"
    BY <1>9 DEF Detach
  <2>4. Shape(m) /\ m.of = going[i].of /\ m.failed = f /\ m.at = "detached"
    BY <1>0 DEF Shape
  <2> HIDE DEF m
  <2>5. QED
    BY <1>0, <2>1, <2>2, <2>3, <2>4, RunMoves DEF Before, After
<1>10. CASE Release(i)
  <2> DEFINE m == IF going[i].inbox = <<>> THEN NoRunHere
                  ELSE [NoRunHere EXCEPT !.at = "open", !.inbox = going[i].inbox, !.stop = going[i].stop]
  <2>1. /\ going' = [going EXCEPT ![i] = m] /\ UNCHANGED accepted /\ going[i].at = "detached"
        /\ holder' \in [inst : Server, busy : BOOLEAN]
    BY <1>0, <1>10 DEF Release
  <2>2. Shape(m) /\ m.of = "none" /\ m.failed \in BOOLEAN /\ m.at \in {"none", "open"}
    BY DEF Shape, NoRunHere
  <2>3. IF going[i].of = "none" THEN UNCHANGED <<work, answer>>
        ELSE Answer(going[i].of, Done(IF going[i].failed THEN "not_persisted" ELSE "ran"))
    BY <1>10 DEF Release
  <2> HIDE DEF m
  <2>4. CASE going[i].of = "none"
    BY <1>0, <2>1, <2>2, <2>3, <2>4, RunMoves
  <2>5. CASE going[i].of # "none"
    <3> DEFINE a == Done(IF going[i].failed THEN "not_persisted" ELSE "ran")
    <3>1. /\ a \in AnswerRec /\ ~a.notRun
          /\ a.code = IF going[i].failed THEN "not_persisted" ELSE "ran"
      BY Answers DEF Codes
    <3>2. a.code \in {"queued", "ran"} => After(going[i])
      BY <2>1, <3>1 DEF After
    <3>3. Answer(going[i].of, a)
      BY <2>3, <2>5
    <3> HIDE DEF a
    <3>4. QED
      BY <2>1, <2>2, <2>5, <3>1, <3>2, <3>3, RunAnswers
  <2>6. QED
    BY <2>4, <2>5
<1>11. CASE WriteNotice(i)
  <2>1. /\ going[i].at = "noticing" /\ UNCHANGED <<holder, work, answer>> /\ going[i].of # "none"
        /\ Before(going[i])
    BY <1>0, <1>11 DEF WriteNotice, RunOK, Before
  <2> DEFINE m == [going[i] EXCEPT !.at = "noticed"]
             n == [going[i] EXCEPT !.at = "noticed", !.failed = TRUE]
  <2>2. /\ Shape(m) /\ m.of = going[i].of /\ m.failed = going[i].failed /\ m.at = "noticed"
        /\ Shape(n) /\ n.of = going[i].of /\ n.failed /\ n.at = "noticed"
    BY <1>0 DEF Shape
  <2>3. n.failed \in BOOLEAN
    BY <1>0 DEF Shape
  <2>4. \/ going' = [going EXCEPT ![i] = m] /\ Accepted(going[i].of)
        \/ going' = [going EXCEPT ![i] = n] /\ (Accepted(going[i].of) \/ UNCHANGED accepted)
    BY <1>11 DEF WriteNotice
  <2> HIDE DEF m, n
  <2>5. CASE going' = [going EXCEPT ![i] = m] /\ Accepted(going[i].of)
    BY <1>0, <2>1, <2>2, <2>5, RunBegins
  <2>6. CASE going' = [going EXCEPT ![i] = n] /\ Accepted(going[i].of)
    BY <1>0, <2>1, <2>2, <2>3, <2>6, RunBegins
  <2>7. CASE going' = [going EXCEPT ![i] = n] /\ UNCHANGED accepted
    BY <1>0, <2>1, <2>2, <2>3, <2>7, RunMoves DEF Before, After
  <2>8. QED
    BY <2>4, <2>5, <2>6, <2>7
<1>12. CASE ReleaseNotice(i)
  <2>1. /\ going[i].at = "noticed" /\ UNCHANGED accepted /\ going[i].of # "none"
        /\ going' = [going EXCEPT ![i] = NoRunHere]
        /\ holder' \in [inst : Server, busy : BOOLEAN]
    BY <1>0, <1>12 DEF ReleaseNotice, RunOK
  <2>2. \/ Answer(going[i].of, Says("store_failure", FALSE, TRUE))
        \/ Answer(going[i].of, Done("queued")) /\ ~going[i].failed
    BY <1>12 DEF ReleaseNotice
  <2>3. CASE Answer(going[i].of, Says("store_failure", FALSE, TRUE))
    <3>1. /\ Says("store_failure", FALSE, TRUE) \in AnswerRec
          /\ Says("store_failure", FALSE, TRUE).code = "store_failure"
          /\ ~Says("store_failure", FALSE, TRUE).notRun
      BY Answers DEF Codes
    <3>2. QED
      BY <2>1, <2>3, <3>1, IdleIs, RunAnswers
  <2>4. CASE Answer(going[i].of, Done("queued")) /\ ~going[i].failed
    <3>1. Done("queued") \in AnswerRec /\ ~Done("queued").notRun
      BY Answers DEF Codes
    <3>2. QED
      BY <2>1, <2>4, <3>1, IdleIs, RunAnswers DEF After
  <2>5. QED
    BY <2>2, <2>3, <2>4
<1>13. QED
  BY <1>1, <1>2, <1>3, <1>4, <1>5, <1>6, <1>7, <1>8, <1>9, <1>10, <1>11, <1>12 DEF RunGoes

-----------------------------------------------------------------------------
(* The steps of Instances, and all steps.                                  *)

\* A crash answers what is there and drops what was sent from there: none of it
\* is marked not run, for it may have been.
LEMMA CrashServed ==
  ASSUME ServingAssumption, Inv, NEW i \in Server, Crash(i)
  PROVE  Inv'
<1> USE DEF Inv
<1> DEFINE here == {q \in Request : work[q].at \notin {"new", "done"} /\ work[q].inst = i}
           sent == {q \in Request : work[q].at \notin {"new", "done"} /\ i \in work[q].via}
<1>1. /\ going' = [going EXCEPT ![i] = NoRunHere] /\ UNCHANGED <<holder, accepted>>
      /\ work' = [q \in Request |->
           [work[q] EXCEPT !.at = IF q \in here THEN "done" ELSE @, !.dropped = @ \/ q \in sent]]
      /\ answer' = [q \in Request |->
           CASE q \in here /\ work[q].via /= {} -> ForwardFailed
             [] q \in here \cup sent /\ ~(q \in here /\ work[q].via /= {}) -> Done("connection_lost")
             [] OTHER -> answer[q]]
  BY DEF Crash
<1>2. /\ going' = [j \in Server |-> going'[j]]
      /\ \A j \in Server : /\ Shape(going'[j]) /\ going'[j].of \in Request \cup {"none"}
                           /\ going'[j].failed \in BOOLEAN
      /\ going'[i] = NoRunHere /\ \A j \in Server : j # i => going'[j] = going[j]
  BY <1>1, GoingStep, IdleIs
<1>3. /\ ForwardFailed \in AnswerRec /\ ~ForwardFailed.notRun /\ ForwardFailed.code = "forward_failed"
      /\ Done("connection_lost") \in AnswerRec /\ ~Done("connection_lost").notRun
      /\ Done("connection_lost").code = "connection_lost"
  BY Answers DEF Codes
<1>4. ASSUME NEW r \in Request
      PROVE  /\ work'[r] \in WorkRec /\ work'[r].inst = work[r].inst
             /\ work'[r].streams = work[r].streams
             /\ work'[r].at = IF r \in here THEN "done" ELSE work[r].at
  <2>1. work[r] \in WorkRec
    BY DEF Types
  <2>2. (work[r].dropped \/ r \in sent) \in BOOLEAN
    BY <2>1 DEF WorkRec
  <2>3. PICK b \in BOOLEAN : b = (work[r].dropped \/ r \in sent)
    BY <2>2
  <2>4. PICK s \in Fresh \cup {"running", "done"} : s = IF r \in here THEN "done" ELSE work[r].at
    BY <2>1 DEF WorkRec
  <2>5. work'[r] = [work[r] EXCEPT !.at = s, !.dropped = b]
    BY <1>1, <2>3, <2>4
  <2>6. QED
    BY <2>1, <2>4, <2>5 DEF WorkRec
<1>5. ASSUME NEW r \in Request
      PROVE  /\ answer'[r] \in AnswerRec
             /\ \/ answer'[r] = answer[r] /\ r \notin here
                \/ /\ ~answer'[r].notRun /\ answer'[r].code \notin {"queued", "ran"}
  <2>1. \/ answer'[r] = ForwardFailed \/ answer'[r] = Done("connection_lost")
        \/ answer'[r] = answer[r] /\ r \notin here
    BY <1>1
  <2>2. answer[r] \in AnswerRec
    BY DEF Types
  <2>3. QED
    BY <1>3, <2>1, <2>2
<1>6. ASSUME NEW r \in Request PROVE RequestOK(r)'
  <2>1. RequestOK(r) /\ work[r].inst \in Server
    BY DEF ServedInv, Types, WorkRec
  <2>2. work'[r].at = "running" => work[r].at = "running" /\ work[r].inst # i
    BY <1>4
  <2>3. work'[r].at = "running" => going'[work'[r].inst].of = r
    BY <1>2, <1>4, <2>1, <2>2 DEF RequestOK
  <2>4. work'[r].at = "done" \/ work'[r].at = work[r].at
    BY <1>4
  <2>5. accepted'[r] = accepted[r] /\ work'[r].streams = work[r].streams
    BY <1>1, <1>4
  <2> HIDE DEF here, sent
  <2>6. CASE answer'[r] = answer[r] /\ r \notin here
    BY <1>4, <2>1, <2>3, <2>5, <2>6 DEF RequestOK
  <2>7. CASE ~answer'[r].notRun /\ answer'[r].code \notin {"queued", "ran"}
    BY <2>1, <2>3, <2>4, <2>5, <2>7 DEF RequestOK, Fresh
  <2>8. QED
    BY <1>5, <2>6, <2>7
<1>7. ASSUME NEW j \in Server PROVE RunOK(j)'
  <2>1. CASE j = i
    BY <1>2, <2>1, IdleIs DEF RunOK
  <2>2. CASE j # i
    <3>1. RunOK(j) /\ going'[j] = going[j] /\ going[j].of \in Request \cup {"none"}
      BY <1>2, <2>2 DEF ServedInv, Types
    <3>2. going[j].of # "none" =>
            work'[going[j].of].at = "running" /\ work'[going[j].of].inst = j
            /\ work'[going[j].of].streams = work[going[j].of].streams
      BY <1>4, <2>2, <3>1 DEF RunOK
    <3>3. QED
      BY <1>1, <3>1, <3>2 DEF RunOK
  <2>3. QED
    BY <2>1, <2>2
<1>8. work' \in [Request -> WorkRec]
  <2>1. work' = [r \in Request |-> work'[r]]
    BY <1>1
  <2> HIDE DEF here, sent
  <2>2. QED
    BY <1>4, <2>1
<1>9. answer' \in [Request -> AnswerRec]
  <2>1. answer' = [r \in Request |-> answer'[r]]
    BY <1>1
  <2> HIDE DEF here, sent
  <2>2. QED
    BY <1>5, <2>1
<1>10. QED
  BY <1>1, <1>2, <1>6, <1>7, <1>8, <1>9 DEF Types, ServedInv

\* Nothing has been asked yet.
LEMMA InitServed == ASSUME ServingAssumption, ServingInit PROVE Inv
<1> USE DEF Inv
<1>1. /\ going = [i \in Server |-> NoRunHere] /\ accepted = [q \in Request |-> 0]
      /\ answer = [q \in Request |-> NoAnswer]
      /\ holder = [inst |-> CHOOSE i \in Server : TRUE, busy |-> FALSE]
      /\ work = [q \in Request |-> [at |-> "new", inst |-> holder.inst, via |-> {}, to |-> holder.inst,
                                    waited |-> FALSE, dropped |-> FALSE, streams |-> FALSE]]
  BY DEF ServingInit
<1>2. holder \in [inst : Server, busy : BOOLEAN] /\ holder.inst \in Server
  BY <1>1 DEF ServingAssumption
<1>3. NoAnswer \in AnswerRec /\ NoAnswer.code = "none" /\ ~NoAnswer.notRun
  BY DEF NoAnswer, AnswerRec, Codes
<1>4. work \in [Request -> WorkRec]
  BY <1>1, <1>2 DEF WorkRec, Fresh
<1>5. \A q \in Request : work[q].at = "new" /\ ~work[q].streams
  BY <1>1
<1>6. \A q \in Request : RequestOK(q)
  BY <1>1, <1>3, <1>5 DEF RequestOK, Fresh
<1>7. \A i \in Server : RunOK(i)
  BY <1>1, IdleIs DEF RunOK
<1>8. Types
  BY <1>1, <1>2, <1>3, <1>4, IdleIs DEF Types
<1>9. QED
  BY <1>6, <1>7, <1>8 DEF ServedInv

\* One case for each action.
LEMMA NextServed == ASSUME ServingAssumption, Inv, [ServingNext]_servingVars PROVE Inv'
<1>1. ASSUME UNCHANGED <<holder, going, work, answer, accepted>> PROVE Inv'
  BY <1>1 DEF Inv, Types, ServedInv, RequestOK, RunOK
<1>2. ASSUME NEW q \in Request, ServeRequest(q) PROVE Inv'
  BY <1>2, ServeServed, AdmitServed, AdmittedServed DEF ServeRequest
<1>3. ASSUME NEW i \in Server, RunGoes(i) PROVE Inv'
  BY <1>3, RunServed
<1>4. ASSUME NEW q \in Request, NEW i \in Server, Submit(q, i) PROVE Inv'
  BY <1>4, SubmitServed
<1>5. ASSUME NEW q \in Request, Drop(q) \/ StoreRefuses(q) \/ ForwardLost(q) PROVE Inv'
  BY <1>5, LeftServed, ServeServed
<1>6. ASSUME NEW i \in Server, Abandon(i) \/ DropFollowFails(i) \/ Crash(i) PROVE Inv'
  BY <1>6, RunServed, CrashServed
<1>7. ASSUME NEW i \in Server, Lapse(i) \/ Drain(i) PROVE Inv'
  BY <1>1, <1>7 DEF Lapse, Drain
<1>8. CASE UNCHANGED servingVars
  BY <1>1, <1>8 DEF servingVars
<1>9. QED
  BY <1>2, <1>3, <1>4, <1>5, <1>6, <1>7, <1>8 DEF ServingNext, ServingGoes

-----------------------------------------------------------------------------
(* Numbers in order.                                                       *)

Ranked(f, c, K) ==
  /\ \A i, j \in K : f[i] = f[j] => i = j
  /\ \A i \in K : f[i] \in 1 .. c
  /\ \A n \in 1 .. c : \E i \in K : f[i] = n

\* The ranks of the numbers of a finite set are those from 1 to its size.
LEMMA Ranks ==
  ASSUME NEW K \in SUBSET Nat, IsFiniteSet(K), NEW c, c = Cardinality(K),
         NEW f, f = [i \in K |-> Cardinality({j \in K : j <= i})]
  PROVE  c \in Nat /\ Ranked(f, c, K)
<1>1. c \in Nat
  BY FS_CardinalityType
<1>2. ASSUME NEW i \in K
      PROVE  IsFiniteSet({j \in K : j <= i}) /\ f[i] = Cardinality({j \in K : j <= i}) /\ f[i] \in 1 .. c
  <2> DEFINE U == {j \in K : j <= i}
  <2>1. U \in SUBSET K /\ i \in U
    OBVIOUS
  <2> HIDE DEF U
  <2>2. IsFiniteSet(U) /\ Cardinality(U) <= c
    BY <2>1, FS_Subset
  <2>3. Cardinality(U) \in Nat /\ Cardinality(U) # 0
    BY <2>1, <2>2, FS_EmptySet, FS_CardinalityType
  <2>4. f[i] = Cardinality(U)
    BY DEF U
  <2>5. QED
    BY <1>1, <2>2, <2>3, <2>4 DEF U
<1>3. ASSUME NEW i \in K, NEW j \in K, i < j
      PROVE  f[i] # f[j]
  <2> DEFINE U == {k \in K : k <= i}
             W == {k \in K : k <= j}
  <2>1. U \in SUBSET W /\ j \in W /\ j \notin U
    <3>1. i \in Nat /\ j \in Nat /\ \A k \in K : k \in Nat
      OBVIOUS
    <3>2. \A k \in K : k <= i => k <= j
      BY <1>3, <3>1
    <3>3. ~(j <= i) /\ j <= j
      BY <1>3, <3>1
    <3>4. QED
      BY <3>2, <3>3
  <2>2. IsFiniteSet(W) /\ f[i] = Cardinality(U) /\ f[j] = Cardinality(W)
    BY <1>2
  <2> HIDE DEF U, W
  <2>3. QED
    BY <2>1, <2>2, FS_Subset
<1>4. \A i, j \in K : f[i] = f[j] => i = j
  <2> SUFFICES ASSUME NEW i \in K, NEW j \in K, i # j PROVE f[i] # f[j]
    OBVIOUS
  <2>1. i < j \/ j < i
    OBVIOUS
  <2>2. QED
    BY <1>3, <2>1
<1>5. f \in [K -> 1 .. c]
  BY <1>2
<1>6. f \in Injection(K, 1 .. c)
  BY <1>4, <1>5 DEF Injection, IsInjective
<1>7. IsFiniteSet(1 .. c) /\ Cardinality(1 .. c) = Cardinality(K)
  BY <1>1, FS_Interval
<1>8. f \in Surjection(K, 1 .. c)
  BY <1>6, <1>7, FS_Injection
<1>9. \A n \in 1 .. c : \E i \in K : f[i] = n
  BY <1>8 DEF Surjection
<1>10. QED
  BY <1>1, <1>2, <1>4, <1>9 DEF Ranked

\* What is sifted: the elements at those places, each once.
Sifts(t, s, K) ==
  /\ \A n \in DOMAIN t : \E i \in K : t[n] = s[i]
  /\ \A i \in K : \E n \in DOMAIN t : t[n] = s[i]
  /\ \A n, k \in DOMAIN t : n # k => \E i, j \in K : i # j /\ t[n] = s[i] /\ t[k] = s[j]

LEMMA SiftedIs ==
  ASSUME NEW S, NEW s \in Seq(S), NEW K \in SUBSET (DOMAIN s)
  PROVE  Sifted(s, K) \in Seq(S) /\ Sifts(Sifted(s, K), s, K)
<1> DEFINE c == Cardinality(K)
           f == [i \in K |-> Cardinality({j \in K : j <= i})]
           p == [n \in 1 .. c |-> CHOOSE i \in K : Cardinality({j \in K : j <= i}) = n]
           t == [n \in 1 .. c |-> s[p[n]]]
<1>1. K \in SUBSET Nat /\ IsFiniteSet(K)
  <2>1. DOMAIN s = 1 .. Len(s) /\ Len(s) \in Nat
    OBVIOUS
  <2>2. IsFiniteSet(1 .. Len(s))
    BY <2>1, FS_Interval
  <2>3. QED
    BY <2>1, <2>2, FS_Subset
<1>2. Sifted(s, K) = t
  BY DEF Sifted
<1>3. c \in Nat /\ Ranked(f, c, K)
  <2>1. c = Cardinality(K) /\ f = [i \in K |-> Cardinality({j \in K : j <= i})]
    OBVIOUS
  <2> HIDE DEF c, f
  <2>2. QED
    BY <1>1, <2>1, Ranks
<1>4. \A n \in 1 .. c : p[n] \in K /\ f[p[n]] = n
  <2> SUFFICES ASSUME NEW n \in 1 .. c PROVE p[n] \in K /\ f[p[n]] = n
    OBVIOUS
  <2>1. \E i \in K : Cardinality({j \in K : j <= i}) = n
    BY <1>3 DEF Ranked
  <2>2. QED
    BY <2>1
<1> HIDE DEF c, f, p
<1>5. \A i \in K : f[i] \in 1 .. c /\ p[f[i]] = i
  BY <1>3, <1>4 DEF Ranked
<1>6. t \in Seq(S) /\ DOMAIN t = 1 .. c /\ \A n \in 1 .. c : t[n] = s[p[n]]
  <2>1. \A n \in 1 .. c : s[p[n]] \in S
    BY <1>4
  <2>2. QED
    BY <1>3, <2>1
<1> HIDE DEF t
<1>7. \A n, k \in 1 .. c : n # k => p[n] # p[k]
  BY <1>4
<1>8. ASSUME NEW n \in DOMAIN t, NEW k \in DOMAIN t, n # k
      PROVE  \E i, j \in K : i # j /\ t[n] = s[i] /\ t[k] = s[j]
  BY <1>4, <1>6, <1>7, <1>8
<1>9. \A i \in K : \E n \in DOMAIN t : t[n] = s[i]
  BY <1>5, <1>6
<1>10. \A n \in DOMAIN t : \E i \in K : t[n] = s[i]
  BY <1>4, <1>6
<1>11. Sifts(t, s, K)
  BY <1>8, <1>9, <1>10, Zenon DEF Sifts
<1>12. QED
  BY <1>2, <1>6, <1>11

-----------------------------------------------------------------------------
(* What is accepted is kept: the Record and the inboxes of the Runs.       *)

FactKinds == {"queued", "prompt", "committed", "dropped"}

ProcRec == [up : BOOLEAN, row : BOOLEAN, drain : BOOLEAN]

InRecord(kind, q) == \E n \in DOMAIN facts : facts[n] = <<kind, q>>

OnceInRecord(kind, q) ==
  \A m, n \in DOMAIN facts : facts[m] = <<kind, q>> /\ facts[n] = <<kind, q>> => m = n

Settled(q) == InRecord("committed", q) \/ InRecord("dropped", q)

Inbox(i) == {going[i].inbox[n] : n \in DOMAIN going[i].inbox}

\* The facts about a request.
FactsOK(q) ==
  /\ OnceInRecord("queued", q) /\ OnceInRecord("committed", q) /\ OnceInRecord("dropped", q)
  /\ ~(InRecord("committed", q) /\ InRecord("dropped", q))
  /\ Settled(q) => InRecord("queued", q)
  /\ InRecord("queued", q) => accepted[q] # 0
  /\ InRecord("dropped", q) => KindOf(q) = "message"
  /\ answer[q].code = "queued" /\ KindOf(q) \in {"message", "notice"} => InRecord("queued", q)

\* The inbox of a Run: a message in it is not settled yet, a Run that may write has
\* the notices, and none that is settled.
InboxOK(i) ==
  /\ \A m, n \in DOMAIN going[i].inbox : going[i].inbox[m] = going[i].inbox[n] => m = n
  /\ \A q \in Inbox(i) : /\ InRecord("queued", q)
                         /\ KindOf(q) = "message" => ~Settled(q)
  /\ going[i].at = "live" /\ MayWrite(i) =>
       /\ \A q \in Inbox(i) : ~InRecord("committed", q)
       /\ ~going[i].failed => \A q \in Request :
            KindOf(q) = "notice" /\ InRecord("queued", q) /\ ~InRecord("committed", q) => q \in Inbox(i)

\* The inbox at each place of the Run.
PlaceOK(i) ==
  /\ going[i].at \in {"none", "claimnotice", "noticing", "noticed"} => going[i].inbox = <<>>
  /\ going[i].at \in {"open", "claimed"} => (going[i].inbox = <<>> <=> going[i].of # "none")
  /\ going[i].at \in {"open", "claimed", "detached"} => \A q \in Inbox(i) : KindOf(q) = "message"
  /\ going[i].at \in {"claimnotice", "noticing", "noticed"} => KindOf(going[i].of) = "notice"
  /\ going[i].at = "noticed" /\ ~going[i].failed => InRecord("queued", going[i].of)

\* A message is of one Run.
Apart(i, j) == \A q \in Inbox(i) \cap Inbox(j) : KindOf(q) # "message"

\* A message that was queued.
MessageOK(q) ==
  KindOf(q) = "message" /\ InRecord("queued", q) =>
    Settled(q) \/ q \in lost \/ \E i \in Server : q \in Inbox(i)

KeptTypes ==
  /\ "kind" \in DOMAIN servingLoad
  /\ instances \in [Server -> ProcRec]
  /\ facts \in Seq(FactKinds \X Request)
  /\ \A i \in Server : going[i].inbox \in Seq(Request)

KeptInv ==
  /\ \A q \in Request : FactsOK(q) /\ MessageOK(q)
  /\ \A i \in Server : InboxOK(i) /\ PlaceOK(i)
  /\ \A i, j \in Server : i # j => Apart(i, j)

Kept == KeptTypes /\ KeptInv

-----------------------------------------------------------------------------
(* What a step writes, and what it leaves.                                 *)

\* The Record gets these requests queued, committed and dropped.
Writes(queued, committed, dropped) ==
  /\ \A q \in Request :
       /\ InRecord("queued", q)' <=> InRecord("queued", q) \/ q \in queued
       /\ InRecord("committed", q)' <=> InRecord("committed", q) \/ q \in committed
       /\ InRecord("dropped", q)' <=> InRecord("dropped", q) \/ q \in dropped
  /\ \A q \in Request :
       /\ OnceInRecord("queued", q) /\ ~(InRecord("queued", q) /\ q \in queued)
            => OnceInRecord("queued", q)'
       /\ OnceInRecord("committed", q) /\ ~(InRecord("committed", q) /\ q \in committed)
            => OnceInRecord("committed", q)'
       /\ OnceInRecord("dropped", q) /\ ~(InRecord("dropped", q) /\ q \in dropped)
            => OnceInRecord("dropped", q)'

LEMMA WritesNothing ==
  ASSUME UNCHANGED facts PROVE Writes({}, {}, {})
BY DEF Writes, InRecord, OnceInRecord

\* One fact more.
LEMMA WritesOne ==
  ASSUME KeptTypes, NEW k \in FactKinds, NEW r \in Request, facts' = Append(facts, <<k, r>>)
  PROVE  /\ facts' \in Seq(FactKinds \X Request)
         /\ Writes(IF k = "queued" THEN {r} ELSE {}, IF k = "committed" THEN {r} ELSE {},
                   IF k = "dropped" THEN {r} ELSE {})
<1>1. facts \in Seq(FactKinds \X Request) /\ <<k, r>> \in FactKinds \X Request
  BY DEF KeptTypes
<1>2. /\ facts' \in Seq(FactKinds \X Request) /\ DOMAIN facts = 1 .. Len(facts) /\ Len(facts) \in Nat
      /\ DOMAIN facts' = 1 .. Len(facts) + 1
      /\ \A n \in 1 .. Len(facts) : facts'[n] = facts[n]
      /\ facts'[Len(facts) + 1] = <<k, r>>
  BY <1>1
<1>3. \A n \in DOMAIN facts' : n \in DOMAIN facts \/ n = Len(facts) + 1
  BY <1>2
<1>4. DOMAIN facts \subseteq DOMAIN facts' /\ Len(facts) + 1 \in DOMAIN facts'
      /\ Len(facts) + 1 \notin DOMAIN facts
  BY <1>2
<1>5. ASSUME NEW x \in FactKinds, NEW q \in Request
      PROVE  /\ InRecord(x, q)' <=> InRecord(x, q) \/ (x = k /\ q = r)
             /\ OnceInRecord(x, q) /\ ~(InRecord(x, q) /\ x = k /\ q = r) => OnceInRecord(x, q)'
  <2>1. <<x, q>> = <<k, r>> <=> x = k /\ q = r
    OBVIOUS
  <2>2. PICK e : e = Len(facts) + 1
    OBVIOUS
  <2>3. PICK f : f = <<x, q>>
    OBVIOUS
  <2>4. /\ \A n \in DOMAIN facts' : n \in DOMAIN facts \/ n = e
        /\ \A n \in DOMAIN facts : facts'[n] = facts[n] /\ n \in DOMAIN facts'
        /\ e \in DOMAIN facts' /\ e \notin DOMAIN facts /\ (facts'[e] = f <=> x = k /\ q = r)
    BY <1>2, <1>3, <1>4, <2>1, <2>2, <2>3
  <2>5. InRecord(x, q)' <=> \E n \in DOMAIN facts' : facts'[n] = f
    BY <2>3 DEF InRecord
  <2>6. InRecord(x, q) <=> \E n \in DOMAIN facts : facts[n] = f
    BY <2>3 DEF InRecord
  <2>7. OnceInRecord(x, q) <=> \A m, n \in DOMAIN facts : facts[m] = f /\ facts[n] = f => m = n
    BY <2>3 DEF OnceInRecord
  <2>8. OnceInRecord(x, q)' <=> \A m, n \in DOMAIN facts' : facts'[m] = f /\ facts'[n] = f => m = n
    BY <2>3 DEF OnceInRecord
  <2>9. InRecord(x, q)' <=> InRecord(x, q) \/ (x = k /\ q = r)
    BY <2>4, <2>5, <2>6
  <2>10. OnceInRecord(x, q) /\ ~(InRecord(x, q) /\ x = k /\ q = r) => OnceInRecord(x, q)'
    BY <2>4, <2>6, <2>7, <2>8
  <2>11. QED
    BY <2>9, <2>10
<1>6. QED
  BY <1>2, <1>5 DEF Writes, FactKinds

\* The messages that are reported dropped.
LEMMA WritesEach ==
  ASSUME KeptTypes, NEW t \in Seq(Request), \A m, n \in DOMAIN t : t[m] = t[n] => m = n,
         facts' = facts \o [n \in DOMAIN t |-> <<"dropped", t[n]>>]
  PROVE  /\ facts' \in Seq(FactKinds \X Request)
         /\ Writes({}, {}, {t[n] : n \in DOMAIN t})
<1> DEFINE d == [n \in DOMAIN t |-> <<"dropped", t[n]>>]
           L == Len(facts)
<1>1. facts \in Seq(FactKinds \X Request) /\ DOMAIN t = 1 .. Len(t) /\ Len(t) \in Nat
  BY DEF KeptTypes
<1>2. \A n \in DOMAIN t : t[n] \in Request /\ d[n] = <<"dropped", t[n]>> /\ d[n] \in FactKinds \X Request
  BY <1>1 DEF FactKinds
<1>3. d \in Seq(FactKinds \X Request) /\ DOMAIN d = DOMAIN t /\ Len(d) = Len(t)
  BY <1>1, <1>2
<1> HIDE DEF d
<1>4. facts' = facts \o d
  BY DEF d
<1>5. /\ facts' \in Seq(FactKinds \X Request) /\ DOMAIN facts = 1 .. L /\ L \in Nat
      /\ DOMAIN facts' = 1 .. L + Len(t)
      /\ \A n \in 1 .. L : facts'[n] = facts[n]
      /\ \A n \in DOMAIN t : facts'[L + n] = <<"dropped", t[n]>>
  BY <1>1, <1>2, <1>3, <1>4
<1> HIDE DEF L
<1>6. \A n \in DOMAIN facts' : n \in DOMAIN facts \/ \E k \in DOMAIN t : n = L + k
  <2> SUFFICES ASSUME NEW n \in 1 .. L + Len(t), n \notin 1 .. L PROVE \E k \in DOMAIN t : n = L + k
    BY <1>5
  <2>1. n - L \in DOMAIN t /\ n = L + (n - L)
    BY <1>1, <1>5
  <2>2. QED
    BY <2>1
<1>7. /\ \A n \in DOMAIN facts : n \in DOMAIN facts' /\ facts'[n] = facts[n]
      /\ \A k \in DOMAIN t : L + k \in DOMAIN facts' /\ L + k \notin DOMAIN facts
  BY <1>1, <1>5
<1>8. ASSUME NEW x \in FactKinds, NEW q \in Request
      PROVE  /\ InRecord(x, q)' <=> InRecord(x, q) \/ (x = "dropped" /\ \E n \in DOMAIN t : t[n] = q)
             /\ OnceInRecord(x, q) /\ ~(InRecord(x, q) /\ x = "dropped" /\ \E n \in DOMAIN t : t[n] = q)
                  => OnceInRecord(x, q)'
  <2>1. PICK f : f = <<x, q>>
    OBVIOUS
  <2>2. \A k \in DOMAIN t : facts'[L + k] = f <=> x = "dropped" /\ t[k] = q
    BY <1>5, <2>1
  <2>3. InRecord(x, q)' <=> \E n \in DOMAIN facts' : facts'[n] = f
    BY <2>1 DEF InRecord
  <2>4. InRecord(x, q) <=> \E n \in DOMAIN facts : facts[n] = f
    BY <2>1 DEF InRecord
  <2>5. OnceInRecord(x, q) <=> \A m, n \in DOMAIN facts : facts[m] = f /\ facts[n] = f => m = n
    BY <2>1 DEF OnceInRecord
  <2>6. OnceInRecord(x, q)' <=> \A m, n \in DOMAIN facts' : facts'[m] = f /\ facts'[n] = f => m = n
    BY <2>1 DEF OnceInRecord
  <2>7. InRecord(x, q)' <=> InRecord(x, q) \/ (x = "dropped" /\ \E n \in DOMAIN t : t[n] = q)
    BY ZenonT(30), <1>6, <1>7, <2>2, <2>3, <2>4
  <2>8. ASSUME OnceInRecord(x, q), ~(InRecord(x, q) /\ x = "dropped" /\ \E n \in DOMAIN t : t[n] = q),
               NEW m \in DOMAIN facts', NEW n \in DOMAIN facts', facts'[m] = f, facts'[n] = f
        PROVE  m = n
    <3>1. CASE m \in DOMAIN facts
      <4>1. InRecord(x, q)
        BY <1>7, <2>4, <2>8, <3>1
      <4>2. n \in DOMAIN facts
        BY <1>6, <2>2, <2>8, <4>1
      <4>3. QED
        BY <1>7, <2>5, <2>8, <3>1, <4>2
    <3>2. CASE m \notin DOMAIN facts
      <4>1. PICK k \in DOMAIN t : m = L + k
        BY <1>6, <3>2
      <4>2. x = "dropped" /\ t[k] = q
        BY <2>2, <2>8, <4>1
      <4>3. n \notin DOMAIN facts
        BY <1>7, <2>4, <2>8, <4>2
      <4>4. PICK l \in DOMAIN t : n = L + l
        BY <1>6, <4>3
      <4>5. t[l] = q
        BY <2>2, <2>8, <4>4
      <4>6. QED
        BY <4>1, <4>2, <4>4, <4>5
    <3>3. QED
      BY <3>1, <3>2
  <2>9. QED
    BY <2>6, <2>7, <2>8
<1>9. \A q : q \in {t[n] : n \in DOMAIN t} <=> \E n \in DOMAIN t : t[n] = q
  OBVIOUS
<1>10. PICK D : D = {t[n] : n \in DOMAIN t}
  OBVIOUS
<1>11. Writes({}, {}, D)
  BY <1>8, <1>9, <1>10 DEF Writes, FactKinds
<1>12. QED
  BY <1>5, <1>10, <1>11

\* The same, as dropFollow and detach write it.
LEMMA WritesDropped ==
  ASSUME KeptTypes, NEW t \in Seq(Request), \A m, n \in DOMAIN t : t[m] = t[n] => m = n,
         facts' = facts \o DropFacts(t)
  PROVE  /\ facts' \in Seq(FactKinds \X Request)
         /\ Writes({}, {}, {t[n] : n \in DOMAIN t})
<1>1. facts' = facts \o [n \in DOMAIN t |-> <<"dropped", t[n]>>]
  BY DEF DropFacts
<1>2. QED
  BY <1>1, WritesEach

\* The requests are what they are, whatever else of the load is used up.
KindsStay == "kind" \in DOMAIN servingLoad' /\ servingLoad'.kind = servingLoad.kind

LEMMA SpendKinds ==
  ASSUME "kind" \in DOMAIN servingLoad,
         \/ UNCHANGED servingLoad
         \/ \E what \in {"resends", "drops", "fails", "cuts", "full", "crashes", "lapses", "drains"} : Spend(what)
  PROVE  KindsStay
BY DEF KindsStay, Spend

\* No Instance but i may write that could not.
WriterStays(i) == \A j \in Server : j # i /\ MayWrite(j)' => MayWrite(j)

\* A request that had its effect has had it.
EffectsStay == \A q \in Request : accepted[q] # 0 => accepted'[q] # 0

\* An answer that says queued is of a request that is in the Record.
AnswersHold ==
  \A q \in Request : answer'[q].code = "queued" /\ KindOf(q) \in {"message", "notice"} =>
    InRecord("queued", q)'

\* A step that writes nothing and takes nothing out of an inbox.
LEMMA KeptQuiet ==
  ASSUME KeptInv, UNCHANGED <<facts, lost>>, KindsStay, EffectsStay, AnswersHold,
         \A j \in Server :
           /\ going'[j].inbox = going[j].inbox /\ going'[j].at = going[j].at /\ going'[j].of = going[j].of
           /\ going[j].failed => going'[j].failed
           /\ MayWrite(j)' => MayWrite(j)
  PROVE  KeptInv'
<1>1. \A q : KindOf(q)' = KindOf(q)
  BY DEF KindOf, KindsStay
<1>2. \A x, q : /\ InRecord(x, q)' <=> InRecord(x, q)
                /\ OnceInRecord(x, q)' <=> OnceInRecord(x, q)
  BY DEF InRecord, OnceInRecord
<1>3. \A q : Settled(q)' <=> Settled(q)
  BY <1>2 DEF Settled
<1>4. \A j \in Server : Inbox(j)' = Inbox(j)
  BY DEF Inbox
<1>5. ASSUME NEW q \in Request PROVE FactsOK(q)' /\ MessageOK(q)'
  <2>1. FactsOK(q) /\ MessageOK(q)
    BY DEF KeptInv
  <2>2. MessageOK(q)'
    BY <1>1, <1>2, <1>3, <1>4, <2>1 DEF MessageOK
  <2>3. FactsOK(q)'
    BY <1>1, <1>2, <1>3, <2>1 DEF FactsOK, EffectsStay, AnswersHold
  <2>4. QED
    BY <2>2, <2>3
<1>6. ASSUME NEW i \in Server PROVE InboxOK(i)' /\ PlaceOK(i)'
  <2>1. InboxOK(i) /\ PlaceOK(i)
    BY DEF KeptInv
  <2>2. InboxOK(i)'
    BY <1>1, <1>2, <1>3, <1>4, <2>1 DEF InboxOK
  <2>3. PlaceOK(i)'
    BY <1>1, <1>2, <1>4, <2>1 DEF PlaceOK
  <2>4. QED
    BY <2>2, <2>3
<1>7. ASSUME NEW i \in Server, NEW j \in Server, i # j PROVE Apart(i, j)'
  <2>1. Apart(i, j)
    BY <1>7 DEF KeptInv
  <2>2. QED
    BY <1>1, <1>4, <2>1 DEF Apart
<1>8. QED
  BY <1>5, <1>6, <1>7 DEF KeptInv

\* A step of one Instance, as the others see it.
LEMMA KeptStep ==
  ASSUME KeptInv, NEW i \in Server, NEW queued, NEW committed, NEW dropped,
         Writes(queued, committed, dropped), KindsStay, WriterStays(i),
         (queued = {} /\ committed = {}) \/ MayWrite(i),
         \A j \in Server : j # i => going'[j] = going[j],
         \A j \in Server : j # i => \A q \in Inbox(j) :
           q \in Request /\ (KindOf(q) = "message" => q \notin committed /\ q \notin dropped),
         \A j \in Server : going[j].at = "noticed" => going[j].of \in Request,
         \A q \in Request : FactsOK(q)' /\ MessageOK(q)',
         InboxOK(i)', PlaceOK(i)', \A j \in Server : j # i => Apart(i, j)'
  PROVE  KeptInv'
<1>1. \A q : KindOf(q)' = KindOf(q)
  BY DEF KindOf, KindsStay
<1>2. ASSUME NEW j \in Server, j # i PROVE Inbox(j)' = Inbox(j)
  BY <1>2 DEF Inbox
<1>3. ASSUME NEW j \in Server, j # i PROVE InboxOK(j)'
  <2>1. InboxOK(j) /\ going'[j] = going[j] /\ Inbox(j)' = Inbox(j)
    BY <1>2, <1>3 DEF KeptInv
  <2>2. MayWrite(j)' => MayWrite(j) /\ queued = {} /\ committed = {}
    BY <1>3 DEF WriterStays, MayWrite
  <2>3. \A q \in Inbox(j) : /\ InRecord("queued", q)'
                            /\ KindOf(q)' = "message" => ~Settled(q)'
    BY <1>1, <1>3, <2>1 DEF InboxOK, Writes, Settled
  <2>4. going[j].at = "live" /\ MayWrite(j)' =>
          /\ \A q \in Inbox(j) : ~InRecord("committed", q)'
          /\ ~going[j].failed => \A q \in Request :
               KindOf(q)' = "notice" /\ InRecord("queued", q)' /\ ~InRecord("committed", q)' => q \in Inbox(j)
    BY <1>1, <1>3, <2>1, <2>2 DEF InboxOK, Writes
  <2>5. \A m, n \in DOMAIN going'[j].inbox : going'[j].inbox[m] = going'[j].inbox[n] => m = n
    BY <2>1 DEF InboxOK
  <2>6. QED
    BY <2>1, <2>3, <2>4, <2>5 DEF InboxOK
<1>4. ASSUME NEW j \in Server, j # i PROVE PlaceOK(j)'
  <2>1. PlaceOK(j) /\ going'[j] = going[j] /\ Inbox(j)' = Inbox(j)
    BY <1>2, <1>4 DEF KeptInv
  <2>2. going[j].at = "noticed" /\ ~going[j].failed => InRecord("queued", going[j].of)'
    BY <2>1 DEF PlaceOK, Writes
  <2>3. QED
    BY <1>1, <2>1, <2>2 DEF PlaceOK
<1>5. ASSUME NEW j \in Server, NEW k \in Server, j # k PROVE Apart(j, k)'
  <2>1. CASE j # i /\ k # i
    <3>1. Apart(j, k)
      BY <1>5 DEF KeptInv
    <3>2. QED
      BY <1>1, <1>2, <2>1, <3>1 DEF Apart
  <2>2. CASE j = i
    BY <1>5, <2>2
  <2>3. CASE k = i
    <3>1. Apart(i, j)'
      BY <1>5, <2>3
    <3>2. QED
      BY <2>3, <3>1 DEF Apart
  <2>4. QED
    BY <2>1, <2>2, <2>3
<1>6. \A j \in Server : InboxOK(j)' /\ PlaceOK(j)'
  BY <1>3, <1>4
<1>7. \A j, k \in Server : j # k => Apart(j, k)'
  BY <1>5
<1>8. QED
  BY <1>6, <1>7 DEF KeptInv

\* The facts about one request.
LEMMA FactsStep ==
  ASSUME NEW q \in Request, FactsOK(q), NEW queued, NEW committed, NEW dropped,
         Writes(queued, committed, dropped), KindsStay, EffectsStay, AnswersHold,
         q \in queued => ~InRecord("queued", q) /\ accepted'[q] # 0,
         q \in committed => ~Settled(q) /\ q \notin dropped /\ InRecord("queued", q),
         q \in dropped => ~Settled(q) /\ InRecord("queued", q) /\ KindOf(q) = "message"
  PROVE  FactsOK(q)'
<1>1. KindOf(q)' = KindOf(q)
  BY DEF KindOf, KindsStay
<1>2. /\ InRecord("queued", q)' <=> InRecord("queued", q) \/ q \in queued
      /\ InRecord("committed", q)' <=> InRecord("committed", q) \/ q \in committed
      /\ InRecord("dropped", q)' <=> InRecord("dropped", q) \/ q \in dropped
  BY DEF Writes
<1>3. OnceInRecord("queued", q)' /\ OnceInRecord("committed", q)' /\ OnceInRecord("dropped", q)'
  BY DEF Writes, FactsOK, Settled
<1>4. ~(InRecord("committed", q)' /\ InRecord("dropped", q)')
  BY <1>2 DEF FactsOK, Settled
<1>5. Settled(q)' => InRecord("queued", q)'
  BY <1>2 DEF FactsOK, Settled
<1>6. InRecord("queued", q)' => accepted'[q] # 0
  BY <1>2 DEF FactsOK, EffectsStay
<1>7. InRecord("dropped", q)' => KindOf(q)' = "message"
  BY <1>1, <1>2 DEF FactsOK
<1>8. answer'[q].code = "queued" /\ KindOf(q)' \in {"message", "notice"} => InRecord("queued", q)'
  BY <1>1 DEF AnswersHold
<1>9. QED
  BY <1>3, <1>4, <1>5, <1>6, <1>7, <1>8 DEF FactsOK

\* A Run that answers a notice has its request.
LEMMA NoticedOf ==
  ASSUME Inv PROVE \A j \in Server : going[j].at = "noticed" => going[j].of \in Request
BY DEF Inv, Types, ServedInv, RunOK

\* A step that writes nothing, of a Run that is not live then: what it takes out
\* of its inbox is lost.
LEMMA KeptMove ==
  ASSUME Inv, KeptTypes, KeptInv, NEW i \in Server, UNCHANGED facts, KindsStay, WriterStays(i),
         EffectsStay, AnswersHold, \A j \in Server : j # i => going'[j] = going[j],
         going'[i].at # "live", PlaceOK(i)',
         \A m, n \in DOMAIN going'[i].inbox : going'[i].inbox[m] = going'[i].inbox[n] => m = n,
         Inbox(i)' \subseteq Inbox(i), lost \subseteq lost',
         \A q \in Inbox(i) : KindOf(q) = "message" => q \in Inbox(i)' \/ q \in lost'
  PROVE  KeptInv'
<1>1. Writes({}, {}, {})
  BY WritesNothing
<1>2. \A q : KindOf(q)' = KindOf(q)
  BY DEF KindOf, KindsStay
<1>3. \A x, q : InRecord(x, q)' <=> InRecord(x, q)
  BY DEF InRecord
<1>4. \A q : Settled(q)' <=> Settled(q)
  BY <1>3 DEF Settled
<1>5. \A q \in Request : FactsOK(q)'
  BY <1>1, FactsStep DEF KeptInv
<1>6. ASSUME NEW j \in Server, j # i PROVE Inbox(j)' = Inbox(j)
  BY <1>6 DEF Inbox
<1>7. ASSUME NEW q \in Request PROVE MessageOK(q)'
  <2>1. MessageOK(q)
    BY DEF KeptInv
  <2>2. ASSUME NEW j \in Server, q \in Inbox(j), KindOf(q) = "message"
        PROVE  q \in lost' \/ \E k \in Server : q \in Inbox(k)'
    BY <1>6, <2>2
  <2>3. QED
    BY <1>2, <1>3, <1>4, <2>1, <2>2 DEF MessageOK
<1>8. InboxOK(i)'
  <2>1. InboxOK(i)
    BY DEF KeptInv
  <2>2. \A q \in Inbox(i)' : InRecord("queued", q)' /\ (KindOf(q)' = "message" => ~Settled(q)')
    BY <1>2, <1>3, <1>4, <2>1 DEF InboxOK
  <2>3. QED
    BY <2>2 DEF InboxOK
<1>9. ASSUME NEW j \in Server, j # i PROVE Apart(i, j)'
  <2>1. Apart(i, j)
    BY <1>9 DEF KeptInv
  <2>2. QED
    BY <1>2, <1>6, <1>9, <2>1 DEF Apart
<1>10. ASSUME NEW j \in Server, NEW q \in Inbox(j) PROVE q \in Request
  BY DEF KeptTypes, Inbox
<1>11. QED
  BY <1>1, <1>5, <1>7, <1>8, <1>9, <1>10, NoticedOf, KeptStep

\* The inbox is left as it is.
LEMMA KeptStays ==
  ASSUME Inv, KeptTypes, KeptInv, NEW i \in Server, UNCHANGED <<facts, lost>>, KindsStay, WriterStays(i),
         EffectsStay, AnswersHold, \A j \in Server : j # i => going'[j] = going[j],
         going'[i].at # "live", PlaceOK(i)', going'[i].inbox = going[i].inbox
  PROVE  KeptInv'
<1>1. Inbox(i)' = Inbox(i)
  BY DEF Inbox
<1>2. \A m, n \in DOMAIN going'[i].inbox : going'[i].inbox[m] = going'[i].inbox[n] => m = n
  BY DEF KeptInv, InboxOK
<1>3. QED
  BY <1>1, <1>2, KeptMove

\* The inbox is emptied, and its messages are lost.
LEMMA KeptLoses ==
  ASSUME Inv, KeptTypes, KeptInv, NEW i \in Server, UNCHANGED facts, KindsStay, WriterStays(i),
         EffectsStay, AnswersHold, \A j \in Server : j # i => going'[j] = going[j],
         going'[i].at # "live", PlaceOK(i)', going'[i].inbox = <<>>,
         lost \subseteq lost', \A q \in Inbox(i) : KindOf(q) = "message" => q \in lost'
  PROVE  KeptInv'
<1>1. Inbox(i)' = {}
  BY DEF Inbox
<1>2. \A m, n \in DOMAIN going'[i].inbox : going'[i].inbox[m] = going'[i].inbox[n] => m = n
  OBVIOUS
<1>3. QED
  BY <1>1, <1>2, KeptMove

\* An answer is of a request in the Record, or says something else.
LEMMA AnswersStay ==
  ASSUME KeptInv, \A q \in Request : InRecord("queued", q) => InRecord("queued", q)',
         \A q \in Request : \/ answer'[q] = answer[q] \/ answer'[q].code # "queued"
                            \/ KindOf(q) \notin {"message", "notice"} \/ InRecord("queued", q)'
  PROVE  AnswersHold
<1> SUFFICES ASSUME NEW q \in Request, answer'[q].code = "queued", KindOf(q) \in {"message", "notice"}
             PROVE  InRecord("queued", q)'
  BY DEF AnswersHold
<1>1. FactsOK(q)
  BY DEF KeptInv
<1>2. QED
  BY <1>1 DEF FactsOK

LEMMA EffectStays ==
  ASSUME Types, UNCHANGED accepted \/ \E q \in Request : Accepted(q)
  PROVE  EffectsStay
BY DEF Types, Accepted, EffectsStay

\* An answer to q, and those to the others.
LEMMA AnswerGiven ==
  ASSUME Types, NEW q \in Request, NEW a, Answer(q, a)
  PROVE  /\ \A r \in Request : r # q => answer'[r] = answer[r]
         /\ answer'[q] = answer[q] \/ answer'[q] = a
BY DEF Types, Answer

\* A request comes, goes on or is answered, and nothing is written.
LEMMA RequestQuiet ==
  ASSUME Kept, UNCHANGED <<holder, facts, instances, lost>>, KindsStay, EffectsStay, RunsGoOn,
         \A j \in Server : going'[j].inbox = going[j].inbox,
         \A q \in Request : \/ answer'[q] = answer[q] \/ answer'[q].code # "queued"
                            \/ KindOf(q) \notin {"message", "notice"}
  PROVE  Kept'
<1>1. AnswersHold
  BY AnswersStay DEF Kept, InRecord
<1>2. \A j \in Server : MayWrite(j)' <=> MayWrite(j)
  BY DEF MayWrite
<1>3. KeptInv'
  BY <1>1, <1>2, KeptQuiet DEF Kept, RunsGoOn
<1>4. KeptTypes'
  BY DEF Kept, KeptTypes, KindsStay
<1>5. QED
  BY <1>3, <1>4 DEF Kept

\* What becomes of a request that its Instance does not take or queue.
LEMMA RequestKept ==
  ASSUME ServingAssumption, Inv, Kept, NEW q \in Request,
         \/ RefuseRequest(q) \/ StoreRefuses(q) \/ NoticeRefused(q) \/ EndingRun(q) \/ NoLiveRun(q)
         \/ CheckWriter(q) \/ Forward(q) \/ GiveUp(q) \/ Drop(q) \/ ForwardLost(q) \/ Admitted(q)
         \/ \E i \in Server : Submit(q, i)
  PROVE  Kept'
<1>0. Types /\ "kind" \in DOMAIN servingLoad
  BY DEF Inv, Kept, KeptTypes
<1>1. UNCHANGED <<holder, facts, instances, going, accepted, lost>>
  BY DEF RefuseRequest, StoreRefuses, NoticeRefused, EndingRun, NoLiveRun, CheckWriter, Forward, GiveUp,
         Drop, ForwardLost, Admitted, Submit
<1>2. KindsStay
  BY <1>0, SpendKinds DEF RefuseRequest, StoreRefuses, NoticeRefused, EndingRun, NoLiveRun, CheckWriter,
         Forward, GiveUp, Drop, ForwardLost, Admitted, Submit
<1>3. \A r \in Request : answer'[r] = answer[r] \/ answer'[r].code # "queued"
  <2>1. \/ UNCHANGED answer
        \/ \E c \in Codes \ {"queued"} : Answer(q, Done(c)) \/ Answer(q, TryElsewhere(c))
        \/ \E a \in {ForwardFailed, NoAnswer} : answer' = [answer EXCEPT ![q] = a]
    <3>1. CASE RefuseRequest(q)
      BY <3>1 DEF RefuseRequest, Codes
    <3>2. CASE StoreRefuses(q)
      BY <3>2 DEF StoreRefuses, Codes
    <3>3. CASE NoticeRefused(q)
      BY <3>3 DEF NoticeRefused, Codes
    <3>4. CASE CheckWriter(q)
      BY <3>4 DEF CheckWriter, Codes
    <3>5. CASE Forward(q)
      BY <3>5 DEF Forward, ForwardFailed, Codes
    <3>6. CASE EndingRun(q) \/ NoLiveRun(q) \/ GiveUp(q) \/ Drop(q) \/ Admitted(q)
      BY <3>6 DEF EndingRun, NoLiveRun, GiveUp, Drop, Admitted
    <3>7. CASE ForwardLost(q) \/ \E i \in Server : Submit(q, i)
      BY <3>7 DEF ForwardLost, Submit
    <3>8. QED
      BY <3>1, <3>2, <3>3, <3>4, <3>5, <3>6, <3>7
  <2>2. ASSUME NEW c \in Codes \ {"queued"}, Answer(q, Done(c)) \/ Answer(q, TryElsewhere(c))
        PROVE  \A r \in Request : answer'[r] = answer[r] \/ answer'[r].code # "queued"
    <3>1. PICK a \in {Done(c), TryElsewhere(c)} : Answer(q, a)
      BY <2>2
    <3>2. a.code # "queued"
      BY Answers
    <3>3. QED
      BY <1>0, <3>1, <3>2, AnswerGiven
  <2>3. ASSUME NEW a \in {ForwardFailed, NoAnswer}, answer' = [answer EXCEPT ![q] = a]
        PROVE  \A r \in Request : answer'[r] = answer[r] \/ answer'[r].code # "queued"
    <3>1. a.code # "queued"
      BY Answers DEF Codes
    <3>2. QED
      BY <1>0, <2>3, <3>1 DEF Types
  <2>4. QED
    BY <2>1, <2>2, <2>3
<1>4. EffectsStay /\ RunsGoOn
  BY <1>0, <1>1, EffectStays, RunsUnchanged
<1>5. QED
  BY <1>1, <1>2, <1>3, <1>4, RequestQuiet

\* An abort stops the Run of its Instance.
LEMMA AbortKept ==
  ASSUME ServingAssumption, Inv, Kept, NEW q \in Request, AbortSession(q)
  PROVE  Kept'
<1>0. Types /\ "kind" \in DOMAIN servingLoad /\ work[q].inst \in Server
  BY DEF Inv, Kept, KeptTypes, Types, WorkRec
<1>1. PICK i \in Server : i = work[q].inst
  BY <1>0
<1>2. /\ UNCHANGED <<holder, facts, instances, lost, servingLoad>> /\ KindOf(q) = "abort"
      /\ Answer(q, Done("queued")) /\ Accepted(q) /\ going' = [going EXCEPT ![i].stop = TRUE]
  BY <1>1 DEF AbortSession
<1>3. Shape(going[i]) /\ going = [j \in Server |-> going[j]]
  BY <1>0 DEF Types
<1> DEFINE m == [going[i] EXCEPT !.stop = TRUE]
<1>4. /\ Shape(m) /\ m.at = going[i].at /\ m.of = going[i].of /\ m.failed = going[i].failed
      /\ m.inbox = going[i].inbox
  BY <1>3 DEF Shape
<1>5. going' = [going EXCEPT ![i] = m]
  BY <1>2
<1> HIDE DEF m
<1>6. RunsGoOn /\ \A j \in Server : going'[j].inbox = going[j].inbox
  BY <1>0, <1>3, <1>4, <1>5, GoingStep DEF RunsGoOn, Types
<1>7. \A r \in Request : \/ answer'[r] = answer[r] \/ answer'[r].code # "queued"
                         \/ KindOf(r) \notin {"message", "notice"}
  BY <1>0, <1>2, AnswerGiven
<1>8. KindsStay /\ EffectsStay
  BY <1>0, <1>2, SpendKinds, EffectStays
<1>9. QED
  BY <1>2, <1>6, <1>7, <1>8, RequestQuiet

-----------------------------------------------------------------------------
(* Steps of Runs that write nothing.                                       *)

LEMMA OneGoes ==
  ASSUME Types, NEW i \in Server, NEW m, going' = [going EXCEPT ![i] = m]
  PROVE  going'[i] = m /\ \A j \in Server : j # i => going'[j] = going[j]
BY DEF Types

\* Only the Instance that claims becomes the writer.
LEMMA WriterStep ==
  ASSUME Types, NEW i \in Server,
         holder' \in {holder, [holder EXCEPT !.busy = FALSE], [inst |-> i, busy |-> TRUE]},
         \A j \in Server : instances'[j].row => instances[j].row
  PROVE  WriterStays(i)
<1> SUFFICES ASSUME NEW j \in Server, j # i, MayWrite(j)' PROVE MayWrite(j)
  BY DEF WriterStays
<1>1. holder \in [inst : Server, busy : BOOLEAN]
  BY DEF Types
<1>2. holder' = [inst |-> j, busy |-> TRUE] /\ instances[j].row
  BY DEF MayWrite
<1>3. [holder EXCEPT !.busy = FALSE].busy = FALSE
  BY <1>1
<1>4. [inst |-> i, busy |-> TRUE].inst = i /\ [inst |-> j, busy |-> TRUE].inst = j
      /\ [inst |-> j, busy |-> TRUE].busy = TRUE
  OBVIOUS
<1>5. holder' = holder
  BY <1>2, <1>3, <1>4
<1>6. QED
  BY <1>2, <1>5 DEF MayWrite

\* What a step of an Instance that writes nothing leaves as it is.
Around(i) ==
  /\ UNCHANGED facts /\ KindsStay /\ EffectsStay /\ AnswersHold /\ WriterStays(i)
  /\ instances' \in [Server -> ProcRec]

\* The Run moves on with its inbox.
LEMMA RunMovesKept ==
  ASSUME Inv, Kept, NEW i \in Server, NEW m, going' = [going EXCEPT ![i] = m], UNCHANGED lost, Around(i),
         m.at # "live", m.inbox = going[i].inbox,
         m.at \in {"none", "claimnotice", "noticing", "noticed"} => m.inbox = <<>>,
         m.at \in {"open", "claimed"} => (m.inbox = <<>> <=> m.of # "none"),
         m.at \in {"open", "claimed", "detached"} => \A q \in Inbox(i) : KindOf(q) = "message",
         m.at \in {"claimnotice", "noticing", "noticed"} => KindOf(m.of) = "notice",
         m.at = "noticed" => m.failed
  PROVE  Kept'
<1>1. going'[i] = m /\ \A j \in Server : j # i => going'[j] = going[j]
  BY OneGoes DEF Inv
<1>2. Inbox(i)' = Inbox(i) /\ \A q : KindOf(q)' = KindOf(q)
  BY <1>1 DEF Inbox, KindOf, KindsStay, Around
<1>3. PlaceOK(i)'
  BY <1>1, <1>2 DEF PlaceOK
<1>4. KeptInv'
  BY <1>1, <1>3, KeptStays DEF Kept, Around
<1>5. KeptTypes'
  <2>1. \A j \in Server : going'[j].inbox = going[j].inbox
    BY <1>1
  <2>2. QED
    BY <2>1 DEF Kept, KeptTypes, Around, KindsStay
<1>6. QED
  BY <1>4, <1>5 DEF Kept

\* The Run goes on without its inbox.
LEMMA RunLosesKept ==
  ASSUME Inv, Kept, NEW i \in Server, NEW m, going' = [going EXCEPT ![i] = m], Around(i),
         m.at \in {"none", "detached"}, m.inbox = <<>>,
         \/ lost' = lost \cup Range(going[i].inbox)
         \/ lost' = lost \cup Messages(going[i].inbox)
         \/ UNCHANGED lost /\ going[i].inbox = <<>>
  PROVE  Kept'
<1>1. going'[i] = m /\ \A j \in Server : j # i => going'[j] = going[j]
  BY OneGoes DEF Inv
<1>2. Inbox(i)' = {}
  BY <1>1 DEF Inbox
<1>3. PlaceOK(i)'
  BY <1>1, <1>2 DEF PlaceOK
<1>4. lost \subseteq lost' /\ \A q \in Inbox(i) : KindOf(q) = "message" => q \in lost'
  BY DEF Inbox, Messages, Range
<1>5. KeptInv'
  BY <1>1, <1>3, <1>4, KeptLoses DEF Kept, Around
<1>6. KeptTypes'
  <2>1. \A j \in Server : going'[j].inbox \in Seq(Request)
    <3>1. m.inbox \in Seq(Request)
      OBVIOUS
    <3>2. \A j \in Server : going[j].inbox \in Seq(Request)
      BY DEF Kept, KeptTypes
    <3>3. QED
      BY <1>1, <3>1, <3>2
  <2>2. QED
    BY <2>1 DEF Kept, KeptTypes, Around, KindsStay
<1>7. QED
  BY <1>5, <1>6 DEF Kept

\* The request of a Run is answered, or it has none, and nothing is written.
LEMMA AroundRun ==
  ASSUME Inv, Kept, NEW i \in Server, UNCHANGED <<facts, instances, accepted>>, KindsStay,
         holder' \in {holder, [holder EXCEPT !.busy = FALSE], [inst |-> i, busy |-> TRUE]},
         \/ UNCHANGED answer
         \/ \E q \in Request, c \in Codes :
              /\ c # "queued" \/ InRecord("queued", q)
              /\ \E a \in {Done(c), TryElsewhere(c), Says(c, FALSE, TRUE)} : Answer(q, a)
  PROVE  Around(i)
<1>1. Types /\ KeptInv /\ instances \in [Server -> ProcRec]
  BY DEF Inv, Kept, KeptTypes
<1>2. WriterStays(i)
  BY <1>1, WriterStep
<1>3. EffectsStay
  BY <1>1, EffectStays
<1>4. \A q : InRecord("queued", q)' <=> InRecord("queued", q)
  BY DEF InRecord
<1>5. \A r \in Request : \/ answer'[r] = answer[r] \/ answer'[r].code # "queued" \/ InRecord("queued", r)'
  <2>1. ASSUME NEW q \in Request, NEW c \in Codes, c # "queued" \/ InRecord("queued", q),
               NEW a \in {Done(c), TryElsewhere(c), Says(c, FALSE, TRUE)}, Answer(q, a), NEW r \in Request
        PROVE  \/ answer'[r] = answer[r] \/ answer'[r].code # "queued" \/ InRecord("queued", r)'
    <3>1. a.code = c
      BY Answers
    <3>2. QED
      BY <1>1, <1>4, <2>1, <3>1, AnswerGiven
  <2>2. QED
    BY <2>1
<1>6. AnswersHold
  BY <1>1, <1>4, <1>5, AnswersStay
<1>7. QED
  BY <1>1, <1>2, <1>3, <1>6 DEF Around

\* A Run that does not open, or is given up, ends.
LEMMA GivenUpKept ==
  ASSUME ServingAssumption, Inv, Kept, NEW i \in Server,
         \/ OpenRefused(i) \/ CanceledRunResult(i)
         \/ Abandon(i) /\ (going[i].of # "none" \/ ~MayWrite(i))
         \/ DropFollowFails(i) /\ UNCHANGED facts
  PROVE  Kept'
<1>0. /\ Types /\ "kind" \in DOMAIN servingLoad /\ going[i].of \in Request \cup {"none"}
      /\ PlaceOK(i) /\ holder \in [inst : Server, busy : BOOLEAN]
  BY DEF Inv, Kept, KeptTypes, Types, KeptInv
<1>1. /\ UNCHANGED <<facts, instances, accepted>> /\ going[i].at \in {"open", "claimed", "claimnotice"}
      /\ holder' \in {holder, [holder EXCEPT !.busy = FALSE], [inst |-> i, busy |-> TRUE]}
  BY DEF OpenRefused, CanceledRunResult, Abandon, DropFollowFails, OpensRun
<1>2. KindsStay
  BY <1>0, SpendKinds DEF OpenRefused, CanceledRunResult, Abandon, DropFollowFails
<1>3. \E c \in Codes \ {"queued"} : \E a \in {Done(c), TryElsewhere(c), Says(c, FALSE, TRUE)} :
        IF going[i].of = "none" THEN NoRunFollows(i) /\ UNCHANGED <<work, answer>>
        ELSE Refused(going[i].of, i, a) /\ UNCHANGED lost
  <2>1. CASE OpenRefused(i)
    <3>1. "not_opened" \in Codes \ {"queued"}
      BY DEF Codes
    <3>2. QED
      BY <2>1, <3>1 DEF OpenRefused
  <2>2. CASE CanceledRunResult(i)
    <3>1. "canceled" \in Codes \ {"queued"}
      BY DEF Codes
    <3>2. QED
      BY <2>2, <3>1 DEF CanceledRunResult
  <2>3. CASE \/ Abandon(i) /\ (going[i].of # "none" \/ ~MayWrite(i))
             \/ DropFollowFails(i) /\ UNCHANGED facts
    <3>1. "failed" \in Codes \ {"queued"}
      BY DEF Codes
    <3>2. QED
      BY <2>3, <3>1 DEF Abandon, DropFollowFails
  <2>4. QED
    BY <2>1, <2>2, <2>3
<1>4. PICK c \in Codes \ {"queued"} : \E a \in {Done(c), TryElsewhere(c), Says(c, FALSE, TRUE)} :
        IF going[i].of = "none" THEN NoRunFollows(i) /\ UNCHANGED <<work, answer>>
        ELSE Refused(going[i].of, i, a) /\ UNCHANGED lost
  BY <1>3
<1>5. PICK a \in {Done(c), TryElsewhere(c), Says(c, FALSE, TRUE)} :
      IF going[i].of = "none" THEN NoRunFollows(i) /\ UNCHANGED <<work, answer>>
      ELSE Refused(going[i].of, i, a) /\ UNCHANGED lost
  BY <1>4
<1>6. going' = [going EXCEPT ![i] = NoRunHere] /\ NoRunHere.at = "none" /\ NoRunHere.inbox = <<>>
  BY <1>5 DEF NoRunFollows, Refused, NoRunHere
<1>7. CASE going[i].of = "none"
  <2>1. UNCHANGED answer /\ lost' = lost \cup Range(going[i].inbox)
    BY <1>7, <1>5 DEF NoRunFollows
  <2>2. Around(i)
    BY <1>1, <1>2, <2>1, AroundRun
  <2>3. QED
    BY <1>6, <2>1, <2>2, RunLosesKept
<1>8. CASE going[i].of # "none"
  <2>1. Answer(going[i].of, a) /\ UNCHANGED lost /\ going[i].of \in Request
    BY <1>0, <1>8, <1>5 DEF Refused
  <2>2. PICK q \in Request : Answer(q, a)
    BY <2>1
  <2>3. Around(i)
    BY <1>1, <1>2, <2>2, AroundRun
  <2>4. going[i].inbox = <<>>
    BY <1>0, <1>1, <1>8 DEF PlaceOK
  <2>5. QED
    BY <1>6, <2>1, <2>3, <2>4, RunLosesKept
<1>9. QED
  BY <1>7, <1>8

\* The Claim, a Run that cannot start, and the end of a Run and of a notice.
LEMMA MovesKept ==
  ASSUME ServingAssumption, Inv, Kept, NEW i \in Server,
         Claim(i) \/ StartFails(i) \/ Release(i) \/ ReleaseNotice(i)
  PROVE  Kept'
<1>0. /\ Types /\ "kind" \in DOMAIN servingLoad /\ going[i].of \in Request \cup {"none"}
      /\ Shape(going[i]) /\ PlaceOK(i) /\ RunOK(i) /\ holder \in [inst : Server, busy : BOOLEAN]
  BY DEF Inv, Kept, KeptTypes, Types, KeptInv, ServedInv
<1>1. CASE Claim(i)
  <2> DEFINE m == [going[i] EXCEPT !.at = IF @ = "open" THEN "claimed" ELSE "noticing"]
  <2>1. /\ going' = [going EXCEPT ![i] = m] /\ going[i].at \in {"open", "claimnotice"}
        /\ UNCHANGED <<facts, instances, answer, accepted, lost, servingLoad>>
        /\ holder' = [inst |-> i, busy |-> TRUE]
    BY <1>1 DEF Claim, OpensRun
  <2>2. /\ m.at = (IF going[i].at = "open" THEN "claimed" ELSE "noticing")
        /\ m.of = going[i].of /\ m.inbox = going[i].inbox
    BY <1>0 DEF Shape
  <2> HIDE DEF m
  <2>3. Around(i)
    BY <1>0, <2>1, SpendKinds, AroundRun
  <2>4. /\ m.at # "live" /\ m.at # "noticed"
        /\ m.at \in {"none", "claimnotice", "noticing", "noticed"} => m.inbox = <<>>
        /\ m.at \in {"open", "claimed"} => (m.inbox = <<>> <=> m.of # "none")
        /\ m.at \in {"open", "claimed", "detached"} => \A q \in Inbox(i) : KindOf(q) = "message"
        /\ m.at \in {"claimnotice", "noticing", "noticed"} => KindOf(m.of) = "notice"
    BY <1>0, <2>1, <2>2 DEF PlaceOK
  <2>5. QED
    BY <2>1, <2>2, <2>3, <2>4, RunMovesKept
<1>2. CASE StartFails(i)
  <2> DEFINE m == [going[i] EXCEPT !.at = "detached", !.failed = TRUE, !.stop = FALSE, !.inbox = <<>>]
  <2>1. /\ going' = [going EXCEPT ![i] = m] /\ lost' = lost \cup Range(going[i].inbox)
        /\ UNCHANGED <<holder, facts, instances, answer, accepted, servingLoad>>
    BY <1>2 DEF StartFails
  <2>2. m.at = "detached" /\ m.inbox = <<>>
    BY <1>0 DEF Shape
  <2> HIDE DEF m
  <2>3. Around(i)
    BY <1>0, <2>1, SpendKinds, AroundRun
  <2>4. QED
    BY <2>1, <2>2, <2>3, RunLosesKept
<1>3. CASE Release(i)
  <2> DEFINE m == IF going[i].inbox = <<>> THEN NoRunHere
                  ELSE [NoRunHere EXCEPT !.at = "open", !.inbox = going[i].inbox, !.stop = going[i].stop]
  <2>1. /\ going' = [going EXCEPT ![i] = m] /\ UNCHANGED <<facts, instances, accepted, lost>>
        /\ holder' \in {holder, [holder EXCEPT !.busy = FALSE]} /\ going[i].at = "detached"
    BY <1>3 DEF Release
  <2>2. m.inbox = going[i].inbox /\ m.of = "none" /\ m.at = IF going[i].inbox = <<>> THEN "none" ELSE "open"
    BY DEF NoRunHere
  <2> HIDE DEF m
  <2>3. KindsStay
    BY <1>0, <1>3, SpendKinds DEF Release
  <2>4. \/ UNCHANGED answer
        \/ \E q \in Request, c \in Codes : /\ c # "queued" \/ InRecord("queued", q)
                                           /\ \E a \in {Done(c), TryElsewhere(c), Says(c, FALSE, TRUE)} : Answer(q, a)
    <3>1. CASE going[i].of = "none"
      BY <1>3, <3>1 DEF Release
    <3>2. CASE going[i].of # "none"
      <4>1. PICK q \in Request : q = going[i].of
        BY <1>0, <3>2
      <4>2. PICK c \in Codes \ {"queued"} : Answer(q, Done(c))
        <5>1. "not_persisted" \in Codes \ {"queued"} /\ "ran" \in Codes \ {"queued"}
          BY DEF Codes
        <5>2. Answer(q, Done("not_persisted")) \/ Answer(q, Done("ran"))
          BY <1>3, <3>2, <4>1 DEF Release
        <5>3. QED
          BY <5>1, <5>2
      <4>3. QED
        BY <4>2
    <3>3. QED
      BY <3>1, <3>2
  <2>5. Around(i)
    BY <2>1, <2>3, <2>4, AroundRun
  <2>6. /\ m.at # "live" /\ m.at # "noticed"
        /\ m.at \in {"none", "claimnotice", "noticing", "noticed"} => m.inbox = <<>>
        /\ m.at \in {"open", "claimed"} => (m.inbox = <<>> <=> m.of # "none")
        /\ m.at \in {"open", "claimed", "detached"} => \A q \in Inbox(i) : KindOf(q) = "message"
        /\ m.at \in {"claimnotice", "noticing", "noticed"} => KindOf(m.of) = "notice"
    BY <1>0, <2>1, <2>2 DEF PlaceOK
  <2>7. QED
    BY <2>1, <2>2, <2>5, <2>6, RunMovesKept
<1>4. CASE ReleaseNotice(i)
  <2>1. /\ going' = [going EXCEPT ![i] = NoRunHere] /\ UNCHANGED <<facts, instances, accepted, lost>>
        /\ holder' \in {holder, [holder EXCEPT !.busy = FALSE]} /\ going[i].at = "noticed"
        /\ NoRunHere.at = "none" /\ NoRunHere.inbox = <<>>
    BY <1>4 DEF ReleaseNotice, NoRunHere
  <2>2. KindsStay
    BY <1>0, <1>4, SpendKinds DEF ReleaseNotice
  <2>3. PICK q \in Request : q = going[i].of
    BY <1>0, <2>1 DEF RunOK
  <2>4. \E c \in Codes : /\ c # "queued" \/ InRecord("queued", q)
                         /\ \E a \in {Done(c), TryElsewhere(c), Says(c, FALSE, TRUE)} : Answer(q, a)
    <3>1. "queued" \in Codes /\ "store_failure" \in Codes
      BY DEF Codes
    <3>2. \/ Answer(q, Says("store_failure", FALSE, TRUE))
          \/ ~going[i].failed /\ Answer(q, Done("queued"))
      BY <1>4, <2>3 DEF ReleaseNotice
    <3>3. ~going[i].failed => InRecord("queued", q)
      BY <1>0, <2>1, <2>3 DEF PlaceOK
    <3>4. QED
      BY <3>1, <3>2, <3>3
  <2>5. Around(i)
    BY <2>1, <2>2, <2>4, AroundRun
  <2>6. going[i].inbox = <<>>
    BY <1>0, <2>1 DEF PlaceOK
  <2>7. QED
    BY <2>1, <2>5, <2>6, RunLosesKept
<1>5. QED
  BY <1>1, <1>2, <1>3, <1>4

\* A Claim that nobody uses is given back, a row lapses, an Instance drains.
LEMMA InstanceKept ==
  ASSUME ServingAssumption, Inv, Kept, NEW i \in Server, RepairRelease(i) \/ Lapse(i) \/ Drain(i)
  PROVE  Kept'
<1>0. /\ Types /\ KeptInv /\ "kind" \in DOMAIN servingLoad /\ instances \in [Server -> ProcRec]
      /\ holder \in [inst : Server, busy : BOOLEAN]
  BY DEF Inv, Kept, KeptTypes, Types
<1>1. UNCHANGED <<facts, going, answer, accepted, lost>>
  BY DEF RepairRelease, Lapse, Drain
<1>2. KindsStay
  BY <1>0, SpendKinds DEF RepairRelease, Lapse, Drain
<1>3. instances' \in [Server -> ProcRec] /\ \A j \in Server : instances'[j].row => instances[j].row
  <2>1. CASE RepairRelease(i)
    BY <1>0, <2>1 DEF RepairRelease
  <2>2. ASSUME NEW p \in ProcRec, instances' = [instances EXCEPT ![i] = p], p.row => instances[i].row
        PROVE  instances' \in [Server -> ProcRec] /\ \A j \in Server : instances'[j].row => instances[j].row
    BY <1>0, <2>2
  <2>3. CASE Lapse(i)
    <3>1. /\ [instances[i] EXCEPT !.row = FALSE] \in ProcRec
          /\ [instances[i] EXCEPT !.row = FALSE].row = FALSE
      BY <1>0 DEF ProcRec
    <3>2. instances' = [instances EXCEPT ![i] = [instances[i] EXCEPT !.row = FALSE]]
      BY <2>3 DEF Lapse
    <3>3. QED
      BY <2>2, <3>1, <3>2
  <2>4. CASE Drain(i)
    <3>1. /\ [instances[i] EXCEPT !.drain = TRUE] \in ProcRec
          /\ [instances[i] EXCEPT !.drain = TRUE].row = instances[i].row
      BY <1>0 DEF ProcRec
    <3>2. instances' = [instances EXCEPT ![i] = [instances[i] EXCEPT !.drain = TRUE]]
      BY <2>4 DEF Drain
    <3>3. QED
      BY <2>2, <3>1, <3>2
  <2>5. QED
    BY <2>1, <2>3, <2>4
<1>4. holder' = holder \/ holder' = [holder EXCEPT !.busy = FALSE]
  BY DEF RepairRelease, Lapse, Drain
<1>5. ASSUME NEW j \in Server, MayWrite(j)' PROVE MayWrite(j)
  <2>1. [holder EXCEPT !.busy = FALSE].busy = FALSE /\ [inst |-> j, busy |-> TRUE].busy = TRUE
    BY <1>0
  <2>2. holder' = [inst |-> j, busy |-> TRUE] /\ instances[j].row
    BY <1>3, <1>5 DEF MayWrite
  <2>3. holder' = holder
    BY <1>4, <2>1, <2>2
  <2>4. QED
    BY <2>2, <2>3 DEF MayWrite
<1>6. EffectsStay
  BY <1>0, <1>1, EffectStays
<1>7. AnswersHold
  BY <1>0, <1>1, AnswersStay DEF InRecord
<1>8. KeptInv'
  BY <1>0, <1>1, <1>2, <1>5, <1>6, <1>7, KeptQuiet
<1>9. KeptTypes'
  BY <1>1, <1>2, <1>3 DEF Kept, KeptTypes, KindsStay
<1>10. QED
  BY <1>8, <1>9 DEF Kept

\* An Instance crashes: the messages of its Run are lost, the notices are not.
LEMMA CrashKept ==
  ASSUME ServingAssumption, Inv, Kept, NEW i \in Server, Crash(i)
  PROVE  Kept'
<1>0. /\ Types /\ KeptInv /\ "kind" \in DOMAIN servingLoad /\ instances \in [Server -> ProcRec]
  BY DEF Inv, Kept, KeptTypes
<1>1. /\ UNCHANGED <<holder, facts, accepted>> /\ going' = [going EXCEPT ![i] = NoRunHere]
      /\ lost' = lost \cup Messages(going[i].inbox) /\ NoRunHere.at = "none" /\ NoRunHere.inbox = <<>>
  BY DEF Crash, NoRunHere
<1>2. KindsStay
  BY <1>0, SpendKinds DEF Crash
<1>3. instances' \in [Server -> ProcRec] /\ \A j \in Server : instances'[j].row => instances[j].row
  <2> DEFINE p == [instances[i] EXCEPT !.up = FALSE]
  <2>1. p \in ProcRec /\ p.row = instances[i].row
    BY <1>0 DEF ProcRec
  <2>2. instances' = [instances EXCEPT ![i] = p]
    BY DEF Crash
  <2> HIDE DEF p
  <2>3. QED
    BY <1>0, <2>1, <2>2
<1>4. WriterStays(i)
  BY <1>0, <1>1, <1>3, WriterStep
<1>5. EffectsStay
  BY <1>0, <1>1, EffectStays
<1>6. \A q \in Request : answer'[q] \in {answer[q], ForwardFailed, Done("connection_lost")}
  BY DEF Crash
<1>7. ForwardFailed.code # "queued" /\ Done("connection_lost").code # "queued"
  BY Answers DEF Codes
<1>8. AnswersHold
  BY <1>0, <1>1, <1>6, <1>7, AnswersStay DEF InRecord
<1>9. Around(i)
  BY <1>1, <1>2, <1>3, <1>4, <1>5, <1>8 DEF Around
<1>10. QED
  BY <1>1, <1>9, RunLosesKept

\* Admission answers a request or makes it the Run of its Instance.
LEMMA AdmitKept ==
  ASSUME ServingAssumption, Inv, Kept, NEW q \in Request, AdmitRequest(q)
  PROVE  Kept'
<1>0. /\ Types /\ KeptInv /\ "kind" \in DOMAIN servingLoad /\ work[q].inst \in Server /\ q # "none"
  BY DEF Inv, Kept, KeptTypes, Types, WorkRec, ServingAssumption
<1>1. UNCHANGED <<holder, facts, instances, accepted, lost>>
  BY DEF AdmitRequest
<1>2. KindsStay
  BY <1>0, SpendKinds DEF AdmitRequest
<1>3. PICK i \in Server : i = work[q].inst
  BY <1>0
<1> DEFINE m == [NoRunHere EXCEPT !.at = IF KindOf(q) = "notice" THEN "claimnotice" ELSE "open", !.of = q]
<1>4. \/ UNCHANGED going /\ \E c \in Codes \ {"queued"} : Answer(q, TryElsewhere(c))
      \/ going[i].at = "none" /\ going' = [going EXCEPT ![i] = m] /\ UNCHANGED answer
  BY <1>3 DEF AdmitRequest, Codes
<1>5. /\ m.at \in {"claimnotice", "open"} /\ m.of = q /\ m.inbox = <<>>
      /\ m.at = "claimnotice" => KindOf(q) = "notice"
  BY DEF NoRunHere
<1> HIDE DEF m
<1>6. CASE UNCHANGED going /\ \E c \in Codes \ {"queued"} : Answer(q, TryElsewhere(c))
  <2>1. PICK c \in Codes \ {"queued"} : Answer(q, TryElsewhere(c))
    BY <1>6
  <2>2. TryElsewhere(c).code # "queued"
    BY Answers
  <2>3. \A r \in Request : answer'[r] = answer[r] \/ answer'[r].code # "queued"
    BY <1>0, <2>1, <2>2, AnswerGiven
  <2>4. EffectsStay /\ RunsGoOn
    BY <1>0, <1>1, <1>6, EffectStays, RunsUnchanged
  <2>5. QED
    BY <1>1, <1>2, <1>6, <2>3, <2>4, RequestQuiet
<1>7. CASE going[i].at = "none" /\ going' = [going EXCEPT ![i] = m] /\ UNCHANGED answer
  <2>1. going[i].inbox = <<>>
    BY <1>0, <1>7 DEF KeptInv, PlaceOK
  <2>2. Inbox(i) = {}
    BY <2>1 DEF Inbox
  <2>3. Around(i)
    BY <1>1, <1>2, <1>7, AroundRun
  <2>4. QED
    BY <1>0, <1>1, <1>5, <1>7, <2>1, <2>2, <2>3, RunMovesKept
<1>8. QED
  BY <1>4, <1>6, <1>7

-----------------------------------------------------------------------------
(* Steps that write.                                                       *)

\* A request that had no effect is not in the Record, nor in an inbox.
LEMMA NotYetQueued ==
  ASSUME Kept, NEW q \in Request, accepted[q] = 0
  PROVE  /\ ~InRecord("queued", q) /\ ~Settled(q)
         /\ \A j \in Server : q \notin Inbox(j)
<1>1. FactsOK(q)
  BY DEF Kept, KeptInv
<1>2. ~InRecord("queued", q) /\ ~Settled(q)
  BY <1>1 DEF FactsOK
<1>3. QED
  BY <1>2 DEF Kept, KeptInv, InboxOK

\* What is in an inbox is a request, and was queued.
LEMMA InboxIs ==
  ASSUME Kept, NEW j \in Server, NEW q \in Inbox(j)
  PROVE  q \in Request /\ InRecord("queued", q) /\ (KindOf(q) = "message" => ~Settled(q))
<1>1. q \in Request
  BY DEF Kept, KeptTypes, Inbox
<1>2. QED
  BY <1>1 DEF Kept, KeptInv, InboxOK

\* The live Session writes that a request is queued, and has it in its inbox, or
\* does not know that it was written.
LEMMA QueueWrites ==
  ASSUME ServingAssumption, Inv, Kept, NEW q \in Request, NEW i \in Server, accepted[q] = 0,
         NEW m, going' = [going EXCEPT ![i] = m], m.at = "live", going[i].at = "live",
         MayWrite(i), facts' = Append(facts, <<"queued", q>>), Accepted(q),
         NEW a, Answer(q, a), KindsStay, UNCHANGED <<holder, instances>>,
         \/ m.inbox = Append(going[i].inbox, q) /\ UNCHANGED lost /\ m.failed = going[i].failed
         \/ m.inbox = going[i].inbox /\ lost' = lost \cup Messages(<<q>>) /\ m.failed
  PROVE  Kept'
<1>0. /\ Types /\ KeptTypes /\ KeptInv /\ InboxOK(i)
  BY DEF Inv, Kept, KeptInv
<1>1. going'[i] = m /\ \A j \in Server : j # i => going'[j] = going[j]
  BY <1>0, OneGoes
<1>2. facts' \in Seq(FactKinds \X Request) /\ Writes({q}, {}, {})
  BY <1>0, WritesOne DEF FactKinds
<1>3. /\ ~InRecord("queued", q) /\ ~Settled(q)
      /\ \A j \in Server : q \notin Inbox(j)
  BY NotYetQueued
<1>4. \A r : KindOf(r)' = KindOf(r)
  BY DEF KindOf, KindsStay
<1>5. /\ \A r \in Request : InRecord("queued", r)' <=> InRecord("queued", r) \/ r = q
      /\ \A r \in Request : InRecord("committed", r)' <=> InRecord("committed", r)
      /\ \A r \in Request : Settled(r)' <=> Settled(r)
  BY <1>2 DEF Writes, Settled
<1>6. accepted'[q] # 0 /\ EffectsStay
  <2>1. accepted'[q] = accepted[q] + 1
    BY <1>0 DEF Types, Accepted
  <2>2. QED
    BY <1>0, <2>1, EffectStays
<1>7. AnswersHold
  BY <1>0, <1>5, AnswerGiven, AnswersStay
<1>8. \A r \in Request : FactsOK(r)'
  BY <1>2, <1>3, <1>6, <1>7, FactsStep DEF Kept, KeptInv
<1>9. going[i].inbox \in Seq(Request)
  BY <1>0 DEF KeptTypes
<1>10. /\ m.inbox \in Seq(Request) /\ \A x, y \in DOMAIN m.inbox : m.inbox[x] = m.inbox[y] => x = y
       /\ \/ Inbox(i)' = Inbox(i) \cup {q} /\ UNCHANGED lost /\ m.failed = going[i].failed
          \/ Inbox(i)' = Inbox(i) /\ lost' = lost \cup Messages(<<q>>) /\ m.failed
  <2>0. \A x, y \in DOMAIN going[i].inbox : going[i].inbox[x] = going[i].inbox[y] => x = y
    BY <1>0 DEF InboxOK
  <2>1. CASE m.inbox = going[i].inbox /\ lost' = lost \cup Messages(<<q>>) /\ m.failed
    <3>1. Inbox(i)' = Inbox(i)
      BY <1>1, <2>1 DEF Inbox
    <3>2. QED
      BY <1>9, <2>0, <2>1, <3>1
  <2>2. CASE m.inbox = Append(going[i].inbox, q) /\ UNCHANGED lost /\ m.failed = going[i].failed
    <3>1. PICK b \in Seq(Request) : b = going[i].inbox
      BY <1>9
    <3>2. /\ m.inbox \in Seq(Request) /\ DOMAIN b = 1 .. Len(b) /\ Len(b) \in Nat
          /\ DOMAIN m.inbox = 1 .. Len(b) + 1 /\ m.inbox[Len(b) + 1] = q
          /\ \A x \in 1 .. Len(b) : m.inbox[x] = b[x]
      BY <2>2, <3>1
    <3>3. \A x \in DOMAIN b : b[x] # q
      BY <1>3, <3>1 DEF Inbox
    <3>4. \A x \in DOMAIN m.inbox : x \in DOMAIN b \/ x = Len(b) + 1
      BY <3>2
    <3>5. ASSUME NEW x \in DOMAIN m.inbox, NEW y \in DOMAIN m.inbox, m.inbox[x] = m.inbox[y] PROVE x = y
      <4>1. /\ \A z \in DOMAIN b : m.inbox[z] = b[z] /\ b[z] # q
            /\ \A z, w \in DOMAIN b : b[z] = b[w] => z = w
        BY <2>0, <3>1, <3>2, <3>3
      <4>2. m.inbox[Len(b) + 1] = q
        BY <3>2
      <4>3. QED
        BY <3>4, <3>5, <4>1, <4>2
    <3>6. Inbox(i)' = Inbox(i) \cup {q}
      <4>1. Inbox(i)' = {m.inbox[x] : x \in DOMAIN m.inbox} /\ Inbox(i) = {b[x] : x \in DOMAIN b}
        BY <1>1, <3>1 DEF Inbox
      <4>2. \A x \in DOMAIN b : x \in DOMAIN m.inbox /\ m.inbox[x] = b[x]
        BY <3>2
      <4>3. Len(b) + 1 \in DOMAIN m.inbox
        BY <3>2
      <4>4. ASSUME NEW r, r \in Inbox(i)' PROVE r \in Inbox(i) \cup {q}
        <5>1. PICK x \in DOMAIN m.inbox : r = m.inbox[x]
          BY <4>1, <4>4
        <5>2. QED
          BY <3>2, <3>4, <4>1, <4>2, <5>1
      <4>5. q \in Inbox(i)'
        BY <3>2, <4>1, <4>3
      <4>6. \A r \in Inbox(i) : r \in Inbox(i)'
        BY <4>1, <4>2
      <4>7. QED
        BY <4>4, <4>5, <4>6
    <3>7. QED
      BY <2>2, <3>2, <3>5, <3>6
  <2>3. QED
    BY <2>1, <2>2
<1>11. ASSUME NEW r \in Request PROVE MessageOK(r)'
  <2>1. MessageOK(r)
    BY <1>0 DEF KeptInv
  <2>2. ASSUME NEW j \in Server, r \in Inbox(j) PROVE r \in Inbox(j)'
    <3>1. CASE j = i
      BY <1>10, <2>2, <3>1
    <3>2. CASE j # i
      BY <1>1, <2>2, <3>2 DEF Inbox
    <3>3. QED
      BY <3>1, <3>2
  <2>3. CASE r = q
    <3>1. KindOf(q) = "message" => q \in Messages(<<q>>)
      BY DEF Messages, Range
    <3>2. QED
      BY <1>4, <1>10, <2>3, <3>1 DEF MessageOK
  <2>4. CASE r # q
    BY <1>4, <1>5, <1>10, <2>1, <2>2, <2>4 DEF MessageOK
  <2>5. QED
    BY <2>3, <2>4
<1>12. InboxOK(i)'
  <2>1. \A r \in Inbox(i)' : r \in Request /\ (r \in Inbox(i) \/ r = q)
    BY <1>10, InboxIs
  <2>2. \A r \in Inbox(i)' : InRecord("queued", r)' /\ (KindOf(r)' = "message" => ~Settled(r)')
    BY <1>3, <1>4, <1>5, <2>1, InboxIs
  <2>3. \A r \in Inbox(i)' : ~InRecord("committed", r)'
    BY <1>0, <1>3, <1>5, <2>1 DEF InboxOK, Settled
  <2>4. ~m.failed => \A r \in Request :
          KindOf(r)' = "notice" /\ InRecord("queued", r)' /\ ~InRecord("committed", r)' => r \in Inbox(i)'
    BY <1>0, <1>4, <1>5, <1>10 DEF InboxOK
  <2>5. QED
    BY <1>1, <1>10, <2>2, <2>3, <2>4 DEF InboxOK
<1>13. PlaceOK(i)'
  BY <1>1 DEF PlaceOK
<1>14. ASSUME NEW j \in Server, j # i PROVE Apart(i, j)'
  <2>1. Apart(i, j) /\ Inbox(j)' = Inbox(j)
    BY <1>0, <1>1, <1>14 DEF KeptInv, Inbox
  <2>2. QED
    BY <1>3, <1>4, <1>10, <2>1 DEF Apart
<1>15. WriterStays(i)
  BY <1>0, WriterStep
<1>16. KeptInv'
  <2>1. \A j \in Server : j # i => \A r \in Inbox(j) :
          r \in Request /\ (KindOf(r) = "message" => r \notin {} /\ r \notin {})
    BY InboxIs
  <2>2. \A j \in Server : going[j].at = "noticed" => going[j].of \in Request
    BY NoticedOf
  <2>3. \A r \in Request : FactsOK(r)' /\ MessageOK(r)'
    BY <1>8, <1>11
  <2>4. \A j \in Server : j # i => Apart(i, j)'
    BY <1>14
  <2>5. QED
    BY <1>0, <1>1, <1>2, <1>12, <1>13, <1>15, <2>1, <2>2, <2>3, <2>4, KeptStep
<1>17. KeptTypes'
  <2>1. \A j \in Server : going'[j].inbox \in Seq(Request)
    BY <1>0, <1>1, <1>10 DEF KeptTypes
  <2>2. QED
    BY <1>0, <1>2, <2>1 DEF KeptTypes, KindsStay
<1>18. QED
  BY <1>16, <1>17 DEF Kept

\* What an Instance settles was in its inbox, what it queues is in no Record, and
\* each message of both is then in its inbox, settled or lost.
Accounted(i, queued, committed, dropped) ==
  /\ \A r \in queued : r \in Request /\ ~InRecord("queued", r) /\ accepted'[r] # 0
  /\ \A r \in committed : r \in Inbox(i) /\ ~Settled(r) /\ r \notin dropped
  /\ \A r \in dropped : r \in Inbox(i) /\ KindOf(r) = "message"
  /\ \A r \in Inbox(i)' : KindOf(r) = "message" => r \in Inbox(i) \/ r \in queued
  /\ \A r \in Request : KindOf(r) = "message" /\ (r \in Inbox(i) \/ r \in queued) =>
       r \in Inbox(i)' \/ r \in lost' \/ r \in committed \/ r \in dropped

\* A step of an Instance that writes.
LEMMA WriteStep ==
  ASSUME Inv, Kept, NEW i \in Server, NEW m, going' = [going EXCEPT ![i] = m], m.inbox \in Seq(Request),
         NEW queued, NEW committed, NEW dropped, Writes(queued, committed, dropped),
         facts' \in Seq(FactKinds \X Request), KindsStay, EffectsStay, AnswersHold,
         holder' \in {holder, [holder EXCEPT !.busy = FALSE]}, UNCHANGED instances,
         (queued = {} /\ committed = {}) \/ MayWrite(i),
         Accounted(i, queued, committed, dropped),
         lost \subseteq lost', InboxOK(i)', PlaceOK(i)'
  PROVE  Kept'
<1>0. Types /\ KeptTypes /\ KeptInv
  BY DEF Inv, Kept
<1>1. going'[i] = m /\ \A j \in Server : j # i => going'[j] = going[j]
  BY <1>0, OneGoes
<1>2. \A r : KindOf(r)' = KindOf(r)
  BY DEF KindOf, KindsStay
<1>3. \A j \in Server : j # i => Inbox(j)' = Inbox(j)
  BY <1>1 DEF Inbox
<1>4. \A r \in Inbox(i) : r \in Request /\ InRecord("queued", r) /\ (KindOf(r) = "message" => ~Settled(r))
  BY InboxIs
<1>5. ASSUME NEW r \in Request PROVE FactsOK(r)'
  <2>1. FactsOK(r)
    BY <1>0 DEF KeptInv
  <2>2. QED
    BY <1>4, <2>1, FactsStep DEF Accounted
<1>6. ASSUME NEW r \in Request, KindOf(r)' = "message", InRecord("queued", r)'
      PROVE  Settled(r)' \/ r \in lost' \/ \E j \in Server : r \in Inbox(j)'
  <2>1. MessageOK(r) /\ KindOf(r) = "message"
    BY <1>0, <1>2, <1>6 DEF KeptInv
  <2>2. /\ r \in committed \/ r \in dropped \/ Settled(r) => Settled(r)'
        /\ InRecord("queued", r) \/ r \in queued
    BY <1>6 DEF Writes, Settled
  <2>3. r \in Inbox(i) \/ r \in queued => Settled(r)' \/ r \in lost' \/ r \in Inbox(i)'
    BY <2>1, <2>2 DEF Accounted
  <2>4. InRecord("queued", r) => Settled(r) \/ r \in lost \/ \E j \in Server : r \in Inbox(j)
    BY <2>1 DEF MessageOK
  <2>5. QED
    BY <1>3, <2>2, <2>3, <2>4
<1>7. ASSUME NEW j \in Server, j # i PROVE Apart(i, j)'
  <2>1. Apart(i, j) /\ Inbox(j)' = Inbox(j)
    BY <1>0, <1>3, <1>7 DEF KeptInv
  <2>2. \A r \in Inbox(j) : InRecord("queued", r)
    BY InboxIs
  <2>3. QED
    BY <1>2, <2>1, <2>2 DEF Apart, Accounted
<1>8. ASSUME NEW j \in Server, j # i, NEW r \in Inbox(j)
      PROVE  r \in Request /\ (KindOf(r) = "message" => r \notin committed /\ r \notin dropped)
  <2>1. r \in Request
    BY InboxIs
  <2>2. Apart(i, j)
    BY <1>0, <1>8 DEF KeptInv
  <2>3. QED
    BY <2>1, <2>2 DEF Apart, Accounted
<1>9. WriterStays(i)
  BY <1>0, WriterStep
<1>10. \A j \in Server : going[j].at = "noticed" => going[j].of \in Request
  BY NoticedOf
<1>11. \A r \in Request : FactsOK(r)' /\ MessageOK(r)'
  BY <1>5, <1>6 DEF MessageOK
<1>12. KeptInv'
  BY <1>0, <1>1, <1>7, <1>8, <1>9, <1>10, <1>11, KeptStep
<1>13. KeptTypes'
  <2>1. \A j \in Server : going'[j].inbox \in Seq(Request)
    BY <1>0, <1>1 DEF KeptTypes
  <2>2. QED
    BY <1>0, <2>1 DEF KeptTypes, KindsStay
<1>14. QED
  BY <1>12, <1>13 DEF Kept

\* A message or a notice reaches the live Session of its Instance.
LEMMA QueueKept ==
  ASSUME ServingAssumption, Inv, Kept, NEW q \in Request, Queue(q)
  PROVE  Kept'
<1>0. /\ Types /\ KeptInv /\ "kind" \in DOMAIN servingLoad /\ work[q].inst \in Server /\ RequestOK(q)
  BY DEF Inv, Kept, KeptTypes, Types, WorkRec, ServedInv
<1>1. PICK i \in Server : i = work[q].inst
  BY <1>0
<1>2. UNCHANGED <<holder, instances>> /\ going[i].at = "live" /\ accepted[q] = 0
  BY <1>0, <1>1 DEF Queue, At, RequestOK, Fresh
<1>3. Shape(going[i])
  BY <1>0 DEF Types
<1>4. KindsStay
  BY <1>0, SpendKinds DEF Queue
<1> DEFINE m == [going[i] EXCEPT !.inbox = Append(@, q)]
           n == [going[i] EXCEPT !.failed = TRUE]
<1>5. /\ m.at = going[i].at /\ m.inbox = Append(going[i].inbox, q) /\ m.failed = going[i].failed
      /\ Shape(n) /\ n.at = going[i].at /\ n.of = going[i].of /\ n.inbox = going[i].inbox /\ n.failed = TRUE
  BY <1>3 DEF Shape
<1>6. \/ /\ MayWrite(i) /\ facts' = Append(facts, <<"queued", q>>) /\ going' = [going EXCEPT ![i] = m]
         /\ Answer(q, Done("queued")) /\ Accepted(q) /\ UNCHANGED lost
      \/ /\ MayWrite(i) /\ facts' = Append(facts, <<"queued", q>>) /\ going' = [going EXCEPT ![i] = n]
         /\ Answer(q, Says("store_failure", FALSE, TRUE)) /\ Accepted(q) /\ lost' = lost \cup Messages(<<q>>)
      \/ /\ UNCHANGED <<facts, accepted, lost>> /\ going' = [going EXCEPT ![i] = n]
         /\ Answer(q, Says("store_failure", FALSE, TRUE)) \/ Answer(q, Done("conflict"))
  BY <1>1 DEF Queue
<1> HIDE DEF m, n
<1>7. CASE /\ MayWrite(i) /\ facts' = Append(facts, <<"queued", q>>) /\ going' = [going EXCEPT ![i] = m]
           /\ Answer(q, Done("queued")) /\ Accepted(q) /\ UNCHANGED lost
  BY <1>2, <1>4, <1>5, <1>7, QueueWrites
<1>8. CASE /\ MayWrite(i) /\ facts' = Append(facts, <<"queued", q>>) /\ going' = [going EXCEPT ![i] = n]
           /\ Answer(q, Says("store_failure", FALSE, TRUE)) /\ Accepted(q) /\ lost' = lost \cup Messages(<<q>>)
  BY <1>2, <1>4, <1>5, <1>8, QueueWrites
<1>9. CASE /\ UNCHANGED <<facts, accepted, lost>> /\ going' = [going EXCEPT ![i] = n]
           /\ Answer(q, Says("store_failure", FALSE, TRUE)) \/ Answer(q, Done("conflict"))
  <2>1. RunsGoOn /\ \A j \in Server : going'[j].inbox = going[j].inbox
    <3>1. n.of \in Request \cup {"none"} /\ n.failed \in BOOLEAN
      BY <1>0, <1>5 DEF Types
    <3>2. QED
      BY <1>0, <1>5, <1>9, <3>1, GoingStep DEF RunsGoOn, Types
  <2>2. \A r \in Request : answer'[r] = answer[r] \/ answer'[r].code # "queued"
    <3>1. PICK a \in {Says("store_failure", FALSE, TRUE), Done("conflict")} : Answer(q, a)
      BY <1>9
    <3>2. a.code # "queued"
      BY Answers DEF Codes
    <3>3. QED
      BY <1>0, <3>1, <3>2, AnswerGiven
  <2>3. EffectsStay
    BY <1>0, <1>9, EffectStays
  <2>4. QED
    BY <1>2, <1>4, <1>9, <2>1, <2>2, <2>3, RequestQuiet
<1>10. QED
  BY <1>6, <1>7, <1>8, <1>9

\* A queue, its first element and the others.
Rest(t, h, b) ==
  /\ t \in Seq(Request) /\ h \in Request
  /\ \A x, y \in DOMAIN t : t[x] = t[y] => x = y
  /\ \E x \in DOMAIN b : b[x] = h
  /\ \A x \in DOMAIN t : t[x] # h /\ \E y \in DOMAIN b : b[y] = t[x]
  /\ \A y \in DOMAIN b : b[y] = h \/ \E x \in DOMAIN t : b[y] = t[x]

LEMMA TailIs ==
  ASSUME NEW b \in Seq(Request), b # <<>>, \A x, y \in DOMAIN b : b[x] = b[y] => x = y,
         NEW h, h = Head(b), NEW t, t = Tail(b)
  PROVE  Rest(t, h, b)
<1>1. /\ Len(b) \in Nat /\ Len(b) # 0 /\ DOMAIN b = 1 .. Len(b) /\ h = b[1]
      /\ t \in Seq(Request) /\ DOMAIN t = 1 .. Len(b) - 1
      /\ \A x \in 1 .. Len(b) - 1 : t[x] = b[x + 1]
  OBVIOUS
<1>2. \A x \in DOMAIN t : x + 1 \in DOMAIN b /\ x + 1 # 1 /\ t[x] = b[x + 1] /\ x \in Nat
  BY <1>1
<1>3. \A x, y \in DOMAIN t : t[x] = t[y] => x = y
  BY <1>2
<1>4. 1 \in DOMAIN b /\ b[1] = h
  BY <1>1
<1>5. \A x \in DOMAIN t : t[x] # h
  BY <1>2, <1>4
<1>6. ASSUME NEW y \in DOMAIN b, b[y] # h PROVE \E x \in DOMAIN t : b[y] = t[x]
  <2>1. y - 1 \in DOMAIN t /\ t[y - 1] = b[y]
    BY <1>1, <1>4, <1>6
  <2>2. QED
    BY <2>1
<1>7. h \in Request
  BY <1>4
<1>8. QED
  BY <1>1, <1>2, <1>3, <1>4, <1>5, <1>6, <1>7 DEF Rest

Elements(t) == {t[x] : x \in DOMAIN t}

\* The inbox, its first element and the others.
Headed(i, h, t) ==
  /\ t \in Seq(Request) /\ h \in Request /\ h \in Inbox(i)
  /\ \A x, y \in DOMAIN t : t[x] = t[y] => x = y
  /\ Elements(t) = Inbox(i) \ {h}

LEMMA InboxTail ==
  ASSUME Kept, NEW i \in Server, going[i].inbox # <<>>,
         NEW h, h = Head(going[i].inbox), NEW t, t = Tail(going[i].inbox)
  PROVE  Headed(i, h, t)
<1>1. PICK b \in Seq(Request) : b = going[i].inbox
  BY DEF Kept, KeptTypes
<1>2. \A x, y \in DOMAIN b : b[x] = b[y] => x = y
  BY <1>1 DEF Kept, KeptInv, InboxOK
<1>3. b # <<>> /\ h = Head(b) /\ t = Tail(b)
  BY <1>1
<1>4. Rest(t, h, b)
  BY <1>2, <1>3, TailIs
<1>5. Inbox(i) = {b[x] : x \in DOMAIN b}
  BY <1>1 DEF Inbox
<1>6. h \in Inbox(i) /\ \A r : r \in Elements(t) <=> r \in Inbox(i) /\ r # h
  BY SMTT(30), <1>4, <1>5 DEF Rest, Elements
<1>7. QED
  BY <1>4, <1>6 DEF Rest, Headed

\* A Turn boundary commits what is queued.
LEMMA CommitKept ==
  ASSUME ServingAssumption, Inv, Kept, NEW i \in Server, Commit(i)
  PROVE  Kept'
<1>0. /\ Types /\ KeptInv /\ "kind" \in DOMAIN servingLoad /\ Shape(going[i]) /\ InboxOK(i)
  BY DEF Inv, Kept, KeptTypes, Types, KeptInv
<1>1. PICK q : q = Head(going[i].inbox)
  OBVIOUS
<1>2. PICK t : t = Tail(going[i].inbox)
  OBVIOUS
<1> DEFINE m == [going[i] EXCEPT !.inbox = t]
<1>3. /\ going[i].at = "live" /\ MayWrite(i) /\ ~going[i].failed /\ going[i].inbox # <<>>
      /\ facts' = Append(facts, <<"committed", q>>) /\ going' = [going EXCEPT ![i] = m]
      /\ UNCHANGED <<holder, instances, work, answer, accepted, lost, servingLoad>>
  BY <1>1, <1>2 DEF Commit
<1>4. /\ m.at = "live" /\ m.inbox = t /\ m.failed = going[i].failed
  BY <1>0, <1>3 DEF Shape
<1> HIDE DEF m
<1>5. /\ t \in Seq(Request) /\ q \in Request /\ q \in Inbox(i)
      /\ \A x, y \in DOMAIN t : t[x] = t[y] => x = y
      /\ Elements(t) = Inbox(i) \ {q}
  <2>1. Headed(i, q, t)
    BY <1>1, <1>2, <1>3, InboxTail
  <2>2. QED
    BY <2>1 DEF Headed
<1>6. going'[i] = m /\ Inbox(i)' = Inbox(i) \ {q}
  <2>1. going'[i] = m
    BY <1>0, <1>3, OneGoes
  <2>2. Inbox(i)' = Elements(t)
    BY <1>4, <2>1 DEF Inbox, Elements
  <2>3. QED
    BY <1>5, <2>1, <2>2
<1>7. facts' \in Seq(FactKinds \X Request) /\ Writes({}, {q}, {})
  BY <1>3, <1>5, WritesOne DEF FactKinds, Kept, KeptTypes
<1>8. KindsStay /\ EffectsStay
  BY <1>0, <1>3, SpendKinds, EffectStays
<1>9. /\ \A r \in Request : InRecord("queued", r)' <=> InRecord("queued", r)
      /\ \A r \in Request : InRecord("committed", r)' <=> InRecord("committed", r) \/ r = q
      /\ \A r \in Request : r # q => (Settled(r)' <=> Settled(r))
  BY <1>7 DEF Writes, Settled
<1>10. AnswersHold
  BY <1>0, <1>3, <1>9, AnswersStay
<1>11. \A r \in Inbox(i) : r \in Request /\ InRecord("queued", r) /\ (KindOf(r) = "message" => ~Settled(r))
  BY InboxIs
<1>12. ~Settled(q)
  <2>1. FactsOK(q) /\ ~InRecord("committed", q)
    BY <1>0, <1>3, <1>5 DEF KeptInv, InboxOK
  <2>2. QED
    BY <1>5, <1>11, <2>1 DEF FactsOK, Settled
<1>13. \A r : KindOf(r)' = KindOf(r)
  BY <1>8 DEF KindOf, KindsStay
<1>14. InboxOK(i)'
  <2>1. \A x, y \in DOMAIN going'[i].inbox : going'[i].inbox[x] = going'[i].inbox[y] => x = y
    BY <1>4, <1>5, <1>6
  <2>2. \A r \in Inbox(i)' : InRecord("queued", r)' /\ (KindOf(r)' = "message" => ~Settled(r)')
    BY <1>6, <1>9, <1>11, <1>13
  <2>3. \A r \in Inbox(i)' : ~InRecord("committed", r)'
    BY <1>0, <1>3, <1>6, <1>9, <1>11 DEF InboxOK
  <2>4. \A r \in Request :
          KindOf(r)' = "notice" /\ InRecord("queued", r)' /\ ~InRecord("committed", r)' => r \in Inbox(i)'
    BY <1>0, <1>3, <1>6, <1>9, <1>13 DEF InboxOK
  <2>5. QED
    BY <2>1, <2>2, <2>3, <2>4 DEF InboxOK
<1>15. PlaceOK(i)'
  BY <1>4, <1>6 DEF PlaceOK
<1>16. Accounted(i, {}, {q}, {})
  BY <1>5, <1>6, <1>12 DEF Accounted
<1>17. m.inbox \in Seq(Request) /\ lost \subseteq lost' /\ UNCHANGED <<holder, instances>>
  BY <1>3, <1>4, <1>5
<1>18. QED
  BY <1>3, <1>7, <1>8, <1>10, <1>14, <1>15, <1>16, <1>17, WriteStep

\* A notice is written between Runs, or its write fails, or nobody knows.
LEMMA WriteNoticeKept ==
  ASSUME ServingAssumption, Inv, Kept, NEW i \in Server, WriteNotice(i)
  PROVE  Kept'
<1>0. /\ Types /\ KeptInv /\ "kind" \in DOMAIN servingLoad /\ Shape(going[i]) /\ PlaceOK(i) /\ RunOK(i)
      /\ InboxOK(i)
  BY DEF Inv, Kept, KeptTypes, Types, KeptInv, ServedInv
<1>1. going[i].at = "noticing" /\ UNCHANGED <<holder, instances, work, answer, lost>>
  BY DEF WriteNotice
<1>2. PICK q \in Request : q = going[i].of
  BY <1>0, <1>1 DEF RunOK, Types
<1>3. /\ accepted[q] = 0 /\ KindOf(q) = "notice" /\ going[i].inbox = <<>> /\ q # "none"
  BY <1>0, <1>1, <1>2 DEF RunOK, PlaceOK
<1>4. KindsStay
  BY <1>0, SpendKinds DEF WriteNotice
<1> DEFINE m == [going[i] EXCEPT !.at = "noticed"]
           n == [going[i] EXCEPT !.at = "noticed", !.failed = TRUE]
<1>5. /\ m.at = "noticed" /\ m.of = q /\ m.inbox = <<>>
      /\ n.at = "noticed" /\ n.of = q /\ n.inbox = <<>> /\ n.failed = TRUE
  BY <1>0, <1>2, <1>3 DEF Shape
<1>6. \/ /\ MayWrite(i) /\ facts' = Append(facts, <<"queued", q>>) /\ Accepted(q)
         /\ going' = [going EXCEPT ![i] = m] \/ going' = [going EXCEPT ![i] = n]
      \/ UNCHANGED <<facts, accepted>> /\ going' = [going EXCEPT ![i] = n]
  BY <1>2 DEF WriteNotice
<1> HIDE DEF m, n
<1>7. CASE UNCHANGED <<facts, accepted>> /\ going' = [going EXCEPT ![i] = n]
  <2>1. Around(i)
    BY <1>1, <1>4, <1>7, AroundRun
  <2>2. QED
    BY <1>1, <1>3, <1>5, <1>7, <2>1, RunMovesKept
<1>8. CASE /\ MayWrite(i) /\ facts' = Append(facts, <<"queued", q>>) /\ Accepted(q)
           /\ going' = [going EXCEPT ![i] = m] \/ going' = [going EXCEPT ![i] = n]
  <2>1. PICK p : /\ going' = [going EXCEPT ![i] = p] /\ p.at = "noticed" /\ p.of = q /\ p.inbox = <<>>
    BY <1>5, <1>8
  <2>2. going'[i] = p
    BY <1>0, <2>1, OneGoes
  <2>3. Inbox(i)' = {} /\ Inbox(i) = {}
    BY <1>3, <2>1, <2>2 DEF Inbox
  <2>4. facts' \in Seq(FactKinds \X Request) /\ Writes({q}, {}, {})
    BY <1>8, WritesOne DEF FactKinds, Kept, KeptTypes
  <2>5. \A r \in Request : InRecord("queued", r)' <=> InRecord("queued", r) \/ r = q
    BY <2>4 DEF Writes
  <2>6. ~InRecord("queued", q)
    BY <1>3, NotYetQueued
  <2>7. EffectsStay /\ accepted'[q] # 0
    <3>1. accepted'[q] = accepted[q] + 1
      BY <1>0, <1>8 DEF Types, Accepted
    <3>2. QED
      BY <1>0, <1>3, <1>8, <3>1, EffectStays
  <2>8. AnswersHold
    BY <1>0, <1>1, <2>5, AnswersStay
  <2>9. InboxOK(i)'
    BY <2>1, <2>2, <2>3 DEF InboxOK
  <2>10. KindOf(q)' = KindOf(q)
    BY <1>4 DEF KindOf, KindsStay
  <2>11. PlaceOK(i)'
    BY <1>3, <2>1, <2>2, <2>5, <2>10 DEF PlaceOK
  <2>12. p.inbox \in Seq(Request)
    BY <2>1
  <2>13. Accounted(i, {q}, {}, {})
    BY <1>3, <2>3, <2>6, <2>7 DEF Accounted
  <2>14. lost \subseteq lost' /\ UNCHANGED <<holder, instances>>
    BY <1>1
  <2>15. QED
    BY <1>4, <1>8, <2>1, <2>4, <2>7, <2>8, <2>9, <2>11, <2>12, <2>13, <2>14, WriteStep
<1>9. QED
  BY <1>6, <1>7, <1>8

\* The notices of the Record, each once.
LEMMA PendingAre ==
  ASSUME Kept, NEW p, p = PendingNotices
  PROVE  /\ p \in Seq(Request) /\ \A x, y \in DOMAIN p : p[x] = p[y] => x = y
         /\ \A r : r \in Elements(p) <=> /\ r \in Request /\ KindOf(r) = "notice"
                                         /\ InRecord("queued", r) /\ ~InRecord("committed", r)
<1> DEFINE K == {n \in DOMAIN facts : /\ facts[n][1] = "queued" /\ KindOf(facts[n][2]) = "notice"
                                      /\ <<"committed", facts[n][2]>> \notin Range(facts)}
<1>1. facts \in Seq(FactKinds \X Request)
  BY DEF Kept, KeptTypes
<1>2. PICK t : t = Sifted(facts, K)
  OBVIOUS
<1>3. t \in Seq(FactKinds \X Request) /\ Sifts(t, facts, K)
  <2>1. K \in SUBSET (DOMAIN facts)
    OBVIOUS
  <2> HIDE DEF K
  <2>2. QED
    BY <1>1, <1>2, <2>1, SiftedIs
<1>4. p = [n \in DOMAIN t |-> t[n][2]]
  BY <1>2 DEF PendingNotices
<1>5. \A n \in DOMAIN t : t[n][2] \in Request /\ p[n] = t[n][2]
  BY <1>3, <1>4
<1>6. p \in Seq(Request) /\ DOMAIN p = DOMAIN t
  <2>1. DOMAIN t = 1 .. Len(t) /\ Len(t) \in Nat
    BY <1>3
  <2>2. QED
    BY <1>4, <1>5, <2>1
<1>7. \A n \in DOMAIN facts : facts[n][1] \in FactKinds /\ facts[n][2] \in Request
                              /\ facts[n] = <<facts[n][1], facts[n][2]>>
  BY <1>1
<1>8. \A r : <<"committed", r>> \in Range(facts) <=> InRecord("committed", r)
  BY DEF Range, InRecord
<1>9. \A n \in DOMAIN facts : n \in K <=> /\ facts[n] = <<"queued", facts[n][2]>>
                                          /\ KindOf(facts[n][2]) = "notice"
                                          /\ ~InRecord("committed", facts[n][2])
  BY <1>7, <1>8
<1>10. K \subseteq DOMAIN facts
  OBVIOUS
<1> HIDE DEF K
<1>11. ASSUME NEW x \in DOMAIN p, NEW y \in DOMAIN p, p[x] = p[y] PROVE x = y
  <2>1. SUFFICES ASSUME x # y PROVE FALSE
    OBVIOUS
  <2>2. PICK i, j \in K : i # j /\ t[x] = facts[i] /\ t[y] = facts[j]
    BY <1>3, <1>6, <2>1 DEF Sifts
  <2>3. PICK r \in Request : r = facts[i][2] /\ r = facts[j][2]
    BY <1>5, <1>6, <1>7, <1>10, <1>11, <2>2
  <2>4. facts[i] = <<"queued", r>> /\ facts[j] = <<"queued", r>> /\ i \in DOMAIN facts /\ j \in DOMAIN facts
    BY <1>9, <1>10, <2>3
  <2>5. FactsOK(r)
    BY DEF Kept, KeptInv
  <2>6. QED
    BY <2>2, <2>4, <2>5 DEF FactsOK, OnceInRecord
<1>12. ASSUME NEW r \in Elements(p)
       PROVE  r \in Request /\ KindOf(r) = "notice" /\ InRecord("queued", r) /\ ~InRecord("committed", r)
  <2>1. PICK n \in DOMAIN t : r = t[n][2]
    BY <1>5, <1>6 DEF Elements
  <2>2. PICK k \in K : t[n] = facts[k]
    BY <1>3 DEF Sifts
  <2>3. r = facts[k][2] /\ k \in DOMAIN facts
    BY <1>10, <2>1, <2>2
  <2>4. facts[k] = <<"queued", r>> /\ KindOf(r) = "notice" /\ ~InRecord("committed", r) /\ r \in Request
    BY <1>7, <1>9, <2>3
  <2>5. QED
    BY <2>3, <2>4 DEF InRecord
<1>13. ASSUME NEW r \in Request, KindOf(r) = "notice", InRecord("queued", r), ~InRecord("committed", r)
       PROVE  r \in Elements(p)
  <2>1. PICK k \in DOMAIN facts : facts[k] = <<"queued", r>>
    BY <1>13 DEF InRecord
  <2>2. facts[k][2] = r
    BY <2>1
  <2>3. k \in K
    BY <1>9, <1>13, <2>1, <2>2
  <2>4. PICK n \in DOMAIN t : t[n] = facts[k]
    BY <1>3, <2>3 DEF Sifts
  <2>5. n \in DOMAIN p /\ p[n] = r
    BY <1>5, <1>6, <2>2, <2>4
  <2>6. QED
    BY <2>5 DEF Elements
<1>14. QED
  BY <1>6, <1>11, <1>12, <1>13

\* One queue after another.
LEMMA Joined ==
  ASSUME NEW p \in Seq(Request), NEW t \in Seq(Request), NEW c, c = p \o t,
         \A x, y \in DOMAIN p : p[x] = p[y] => x = y,
         \A x, y \in DOMAIN t : t[x] = t[y] => x = y,
         \A r \in Elements(p) : r \notin Elements(t)
  PROVE  /\ c \in Seq(Request) /\ \A x, y \in DOMAIN c : c[x] = c[y] => x = y
         /\ \A r : r \in Elements(c) <=> r \in Elements(p) \/ r \in Elements(t)
<1> DEFINE L == Len(p)
<1>1. /\ c \in Seq(Request) /\ L \in Nat /\ Len(t) \in Nat /\ DOMAIN p = 1 .. L /\ DOMAIN t = 1 .. Len(t)
      /\ DOMAIN c = 1 .. L + Len(t)
      /\ \A x \in 1 .. L : c[x] = p[x]
      /\ \A x \in 1 .. Len(t) : c[L + x] = t[x]
  OBVIOUS
<1>2. \A x \in DOMAIN p : x \in DOMAIN c /\ c[x] = p[x] /\ p[x] \in Elements(p)
  BY <1>1 DEF Elements
<1>3. \A x \in DOMAIN t : L + x \in DOMAIN c /\ c[L + x] = t[x] /\ t[x] \in Elements(t)
  BY <1>1 DEF Elements
<1>4. \A x \in DOMAIN c : x \in DOMAIN p \/ (x - L \in DOMAIN t /\ x = L + (x - L))
  BY <1>1
<1>5. \A x \in DOMAIN c : x \in Nat
  BY <1>1
<1>6. L \in Nat
  BY <1>1
<1> HIDE DEF L
<1>7. \A x \in DOMAIN c : \/ x \in DOMAIN p /\ c[x] = p[x] /\ p[x] \in Elements(p)
                          \/ x - L \in DOMAIN t /\ c[x] = t[x - L] /\ t[x - L] \in Elements(t)
  BY <1>2, <1>3, <1>4
<1>8. ASSUME NEW x \in DOMAIN c, NEW y \in DOMAIN c, c[x] = c[y] PROVE x = y
  <2>1. CASE x \in DOMAIN p /\ c[x] = p[x] /\ p[x] \in Elements(p)
    BY <1>7, <1>8, <2>1
  <2>2. CASE x - L \in DOMAIN t /\ c[x] = t[x - L] /\ t[x - L] \in Elements(t)
    <3>1. y - L \in DOMAIN t /\ c[y] = t[y - L]
      BY <1>7, <1>8, <2>2
    <3>2. x - L = y - L
      BY <1>8, <2>2, <3>1
    <3>3. QED
      BY <1>5, <1>6, <3>2
  <2>3. QED
    BY <1>7, <2>1, <2>2
<1>9. ASSUME NEW r, r \in Elements(c) PROVE r \in Elements(p) \/ r \in Elements(t)
  <2>1. PICK x \in DOMAIN c : r = c[x]
    BY <1>9 DEF Elements
  <2>2. QED
    BY <1>7, <2>1
<1>10. \A r : r \in Elements(p) \/ r \in Elements(t) => r \in Elements(c)
  <2>1. \A x \in DOMAIN c : c[x] \in Elements(c)
    BY DEF Elements
  <2>2. \A r \in Elements(p) : \E x \in DOMAIN p : r = p[x]
    BY DEF Elements
  <2>3. \A r \in Elements(t) : \E x \in DOMAIN t : r = t[x]
    BY DEF Elements
  <2>4. ASSUME NEW r \in Elements(p) PROVE r \in Elements(c)
    BY <1>2, <2>1, <2>2
  <2>5. ASSUME NEW r \in Elements(t) PROVE r \in Elements(c)
    <3>1. PICK x \in DOMAIN t : r = t[x]
      BY <2>3
    <3>2. QED
      BY <1>3, <2>1, <3>1
  <2>6. QED
    BY <2>4, <2>5
<1>11. QED
  BY <1>1, <1>8, <1>9, <1>10

\* A Run starts: its prompt is committed, and the notices of the Record are queued
\* before the messages that are left for it.
LEMMA StartRunKept ==
  ASSUME ServingAssumption, Inv, Kept, NEW i \in Server, StartRun(i)
  PROVE  Kept'
<1>0. /\ Types /\ KeptTypes /\ KeptInv /\ "kind" \in DOMAIN servingLoad /\ Shape(going[i]) /\ PlaceOK(i)
      /\ going[i].of \in Request \cup {"none"}
  BY DEF Inv, Kept, KeptTypes, Types, KeptInv
<1>1. PICK p : p = PendingNotices
  OBVIOUS
<1>2. PICK t : t = IF going[i].of = "none" THEN Tail(going[i].inbox) ELSE <<>>
  OBVIOUS
<1>3. PICK c : c = p \o t
  OBVIOUS
<1> DEFINE m == [going[i] EXCEPT !.at = "live", !.inbox = c]
<1>4. /\ going[i].at = "claimed" /\ MayWrite(i) /\ going' = [going EXCEPT ![i] = m]
      /\ UNCHANGED <<holder, instances, work, answer, lost, servingLoad>>
  BY <1>1, <1>2, <1>3 DEF StartRun
<1>5. m.at = "live" /\ m.inbox = c
  BY <1>0 DEF Shape
<1> HIDE DEF m
<1>6. \A r \in Inbox(i) : /\ r \in Request /\ InRecord("queued", r)
                          /\ KindOf(r) = "message" /\ ~Settled(r)
  BY <1>0, <1>4, InboxIs DEF PlaceOK
<1>7. \E C : /\ facts' \in Seq(FactKinds \X Request) /\ Writes({}, C, {}) /\ EffectsStay
             /\ t \in Seq(Request) /\ \A x, y \in DOMAIN t : t[x] = t[y] => x = y
             /\ C \subseteq Inbox(i) /\ Elements(t) = Inbox(i) \ C
  <2>1. CASE going[i].of = "none"
    <3>1. PICK h : h = Head(going[i].inbox)
      OBVIOUS
    <3>2. going[i].inbox # <<>> /\ t = Tail(going[i].inbox)
      BY <1>0, <1>2, <1>4, <2>1 DEF PlaceOK
    <3>3. /\ t \in Seq(Request) /\ h \in Request /\ h \in Inbox(i)
          /\ \A x, y \in DOMAIN t : t[x] = t[y] => x = y
          /\ Elements(t) = Inbox(i) \ {h}
      <4>1. Headed(i, h, t)
        BY <3>1, <3>2, InboxTail
      <4>2. QED
        BY <4>1 DEF Headed
    <3>4. facts' = Append(facts, <<"committed", h>>) /\ UNCHANGED accepted
      BY <2>1, <3>1 DEF StartRun
    <3>5. facts' \in Seq(FactKinds \X Request) /\ Writes({}, {h}, {})
      BY <1>0, <3>3, <3>4, WritesOne DEF FactKinds
    <3>6. EffectsStay
      BY <1>0, <3>4, EffectStays
    <3>7. {h} \subseteq Inbox(i)
      BY <3>3
    <3>8. QED
      BY <3>3, <3>5, <3>6, <3>7
  <2>2. CASE going[i].of # "none"
    <3>1. PICK q \in Request : q = going[i].of
      BY <1>0, <2>2
    <3>2. going[i].inbox = <<>> /\ t = <<>>
      BY <1>0, <1>2, <1>4, <2>2 DEF PlaceOK
    <3>3. Inbox(i) = {} /\ Elements(t) = {} /\ t \in Seq(Request)
      BY <3>2 DEF Inbox, Elements
    <3>4. facts' = Append(facts, <<"prompt", q>>) /\ Accepted(q)
      BY <2>2, <3>1 DEF StartRun
    <3>5. facts' \in Seq(FactKinds \X Request) /\ Writes({}, {}, {})
      BY <1>0, <3>4, WritesOne DEF FactKinds
    <3>6. EffectsStay
      BY <1>0, <3>4, EffectStays
    <3>7. \A x, y \in DOMAIN t : t[x] = t[y] => x = y
      BY <3>2
    <3>8. QED
      BY <3>3, <3>5, <3>6, <3>7
  <2>3. QED
    BY <2>1, <2>2
<1>8. PICK C : /\ facts' \in Seq(FactKinds \X Request) /\ Writes({}, C, {}) /\ EffectsStay
               /\ t \in Seq(Request) /\ \A x, y \in DOMAIN t : t[x] = t[y] => x = y
               /\ C \subseteq Inbox(i) /\ Elements(t) = Inbox(i) \ C
  BY <1>7
<1>9. /\ p \in Seq(Request) /\ \A x, y \in DOMAIN p : p[x] = p[y] => x = y
      /\ \A r : r \in Elements(p) <=> /\ r \in Request /\ KindOf(r) = "notice"
                                      /\ InRecord("queued", r) /\ ~InRecord("committed", r)
  BY <1>1, PendingAre
<1>10. /\ c \in Seq(Request) /\ \A x, y \in DOMAIN c : c[x] = c[y] => x = y
       /\ \A r : r \in Elements(c) <=> r \in Elements(p) \/ r \in Elements(t)
  <2>1. \A r \in Elements(p) : r \notin Elements(t)
    BY <1>6, <1>8, <1>9
  <2>2. QED
    BY ZenonT(30), <1>3, <1>8, <1>9, <2>1, Joined
<1>11. going'[i] = m /\ Inbox(i)' = Elements(c)
  <2>1. going'[i] = m
    BY <1>0, <1>4, OneGoes
  <2>2. QED
    BY <1>5, <2>1 DEF Inbox, Elements
<1>12. KindsStay /\ \A r : KindOf(r)' = KindOf(r)
  <2>1. KindsStay
    BY <1>0, <1>4, SpendKinds
  <2>2. QED
    BY <2>1 DEF KindOf, KindsStay
<1>13. /\ \A r \in Request : InRecord("queued", r)' <=> InRecord("queued", r)
       /\ \A r \in Request : InRecord("committed", r)' <=> InRecord("committed", r) \/ r \in C
       /\ \A r \in Request : r \notin C => (Settled(r)' <=> Settled(r))
  BY <1>8 DEF Writes, Settled
<1>14. AnswersHold
  BY <1>0, <1>4, <1>13, AnswersStay
<1>15. InboxOK(i)'
  <2>1. \A x, y \in DOMAIN going'[i].inbox : going'[i].inbox[x] = going'[i].inbox[y] => x = y
    BY <1>5, <1>10, <1>11
  <2>2. \A r \in Inbox(i)' : InRecord("queued", r)' /\ (KindOf(r)' = "message" => ~Settled(r)')
    BY <1>6, <1>8, <1>9, <1>10, <1>11, <1>12, <1>13
  <2>3. \A r \in Inbox(i)' : ~InRecord("committed", r)'
    <3>1. \A r \in Elements(p) : ~InRecord("committed", r)'
      BY <1>6, <1>8, <1>9, <1>13
    <3>2. \A r \in Elements(t) : ~InRecord("committed", r)'
      BY <1>6, <1>8, <1>13 DEF Settled
    <3>3. QED
      BY <1>10, <1>11, <3>1, <3>2
  <2>4. \A r \in Request :
          KindOf(r)' = "notice" /\ InRecord("queued", r)' /\ ~InRecord("committed", r)' => r \in Inbox(i)'
    BY <1>9, <1>10, <1>11, <1>12, <1>13
  <2>5. QED
    BY <2>1, <2>2, <2>3, <2>4 DEF InboxOK
<1>16. PlaceOK(i)'
  BY <1>5, <1>11 DEF PlaceOK
<1>17. Accounted(i, {}, C, {})
  BY <1>6, <1>8, <1>9, <1>10, <1>11 DEF Accounted
<1>18. m.inbox \in Seq(Request) /\ lost \subseteq lost' /\ UNCHANGED <<holder, instances>>
  BY <1>4, <1>5, <1>10
<1>19. QED
  BY <1>4, <1>8, <1>12, <1>14, <1>15, <1>16, <1>17, <1>18, WriteStep

\* The messages of an inbox, without the notices.
LEMMA MessagesAre ==
  ASSUME Kept, NEW i \in Server,
         NEW t, t = Sifted(going[i].inbox, {n \in DOMAIN going[i].inbox : KindOf(going[i].inbox[n]) = "message"})
  PROVE  /\ t \in Seq(Request) /\ \A x, y \in DOMAIN t : t[x] = t[y] => x = y
         /\ \A r : r \in Elements(t) <=> r \in Inbox(i) /\ KindOf(r) = "message"
<1>1. PICK b \in Seq(Request) : b = going[i].inbox
  BY DEF Kept, KeptTypes
<1>2. PICK K : K = {n \in DOMAIN b : KindOf(b[n]) = "message"}
  OBVIOUS
<1>3. K \in SUBSET (DOMAIN b) /\ t = Sifted(b, K)
  BY <1>1, <1>2
<1>4. t \in Seq(Request) /\ Sifts(t, b, K)
  BY <1>3, SiftedIs
<1>5. \A x, y \in DOMAIN b : b[x] = b[y] => x = y
  BY <1>1 DEF Kept, KeptInv, InboxOK
<1>6. \A x, y \in DOMAIN t : t[x] = t[y] => x = y
  BY <1>3, <1>4, <1>5 DEF Sifts
<1>7. Inbox(i) = {b[x] : x \in DOMAIN b}
  BY <1>1 DEF Inbox
<1>8. ASSUME NEW r \in Elements(t) PROVE r \in Inbox(i) /\ KindOf(r) = "message"
  <2>1. PICK x \in DOMAIN t : r = t[x]
    BY DEF Elements
  <2>2. PICK k \in K : t[x] = b[k]
    BY <1>4 DEF Sifts
  <2>3. QED
    BY <1>2, <1>7, <2>1, <2>2
<1>9. ASSUME NEW r \in Inbox(i), KindOf(r) = "message" PROVE r \in Elements(t)
  <2>1. PICK k \in DOMAIN b : r = b[k]
    BY <1>7
  <2>2. k \in K
    BY <1>2, <1>9, <2>1
  <2>3. PICK x \in DOMAIN t : t[x] = b[k]
    BY <1>4, <2>2 DEF Sifts
  <2>4. QED
    BY <2>1, <2>3 DEF Elements
<1>10. QED
  BY <1>4, <1>6, <1>8, <1>9

\* A Run takes no more messages: it leaves those it has to the Run that follows,
\* reports them dropped, or loses them.
LEMMA DetachKept ==
  ASSUME ServingAssumption, Inv, Kept, NEW i \in Server, Detach(i)
  PROVE  Kept'
<1>0. /\ Types /\ KeptTypes /\ KeptInv /\ "kind" \in DOMAIN servingLoad /\ Shape(going[i])
  BY DEF Inv, Kept, KeptTypes, Types
<1>1. PICK t : t = Sifted(going[i].inbox, {n \in DOMAIN going[i].inbox : KindOf(going[i].inbox[n]) = "message"})
  OBVIOUS
<1>2. /\ t \in Seq(Request) /\ \A x, y \in DOMAIN t : t[x] = t[y] => x = y
      /\ \A r : r \in Elements(t) <=> r \in Inbox(i) /\ KindOf(r) = "message"
  BY <1>1, MessagesAre
<1>3. PICK u : u = (going[i].failed \/ ~MayWrite(i))
  OBVIOUS
<1>4. PICK k : k = (~Stopped(i) /\ ~instances[i].drain /\ ~u)
  OBVIOUS
<1>5. PICK b : b = IF k THEN t ELSE <<>>
  OBVIOUS
<1> DEFINE m == [going[i] EXCEPT !.at = "detached", !.failed = u, !.stop = FALSE, !.inbox = b]
<1>6. /\ going' = [going EXCEPT ![i] = m] /\ UNCHANGED <<holder, instances, work, answer, accepted, servingLoad>>
      /\ facts' = IF k \/ u THEN facts ELSE facts \o DropFacts(t)
      /\ lost' = IF u THEN lost \cup Range(t) ELSE lost
  BY <1>1, <1>3, <1>4, <1>5 DEF Detach
<1>7. m.at = "detached" /\ m.inbox = b
  BY <1>0 DEF Shape
<1> HIDE DEF m
<1>8. Elements(t) = Range(t)
  BY DEF Elements, Range
<1>9. \E D : /\ facts' \in Seq(FactKinds \X Request) /\ Writes({}, {}, D) /\ D \subseteq Elements(t)
             /\ lost \subseteq lost' /\ b \in {t, <<>>} /\ (b = <<>> \/ D = {})
             /\ \A r \in Elements(t) : r \in Elements(b) \/ r \in lost' \/ r \in D
  <2>1. CASE k \/ u
    <3>1. UNCHANGED facts
      BY <1>6, <2>1
    <3>2. facts' \in Seq(FactKinds \X Request) /\ Writes({}, {}, {})
      BY <1>0, <3>1, WritesNothing DEF KeptTypes
    <3>3. lost \subseteq lost' /\ b \in {t, <<>>} /\ \A r \in Elements(t) : r \in Elements(b) \/ r \in lost'
      BY <1>5, <1>6, <1>8, <2>1
    <3>4. QED
      BY <3>2, <3>3
  <2>2. CASE ~(k \/ u)
    <3>1. facts' = facts \o DropFacts(t) /\ UNCHANGED lost /\ b = <<>>
      BY <1>5, <1>6, <2>2
    <3>2. facts' \in Seq(FactKinds \X Request) /\ Writes({}, {}, Elements(t))
      BY <1>0, <1>2, <3>1, WritesDropped DEF Elements
    <3>3. QED
      BY <3>1, <3>2
  <2>3. QED
    BY <2>1, <2>2
<1>10. PICK D : /\ facts' \in Seq(FactKinds \X Request) /\ Writes({}, {}, D) /\ D \subseteq Elements(t)
                /\ lost \subseteq lost' /\ b \in {t, <<>>} /\ (b = <<>> \/ D = {})
                /\ \A r \in Elements(t) : r \in Elements(b) \/ r \in lost' \/ r \in D
  BY <1>9
<1>11. /\ b \in Seq(Request) /\ \A x, y \in DOMAIN b : b[x] = b[y] => x = y
       /\ \A r \in Elements(b) : r \in Elements(t) /\ r \notin D
  <2>1. CASE b = <<>>
    <3>1. b \in Seq(Request)
      BY <2>1
    <3>2. Elements(b) = {}
      BY <2>1 DEF Elements
    <3>3. \A x, y \in DOMAIN b : b[x] = b[y] => x = y
      BY <2>1
    <3>4. QED
      BY <3>1, <3>2, <3>3
  <2>2. CASE b = t /\ D = {}
    BY <1>2, <2>2
  <2>3. QED
    BY <1>10, <2>1, <2>2
<1>12. going'[i] = m /\ Inbox(i)' = Elements(b)
  <2>1. going'[i] = m
    BY <1>0, <1>6, OneGoes
  <2>2. QED
    BY <1>7, <2>1 DEF Inbox, Elements
<1>13. KindsStay /\ \A r : KindOf(r)' = KindOf(r)
  <2>1. KindsStay
    BY <1>0, <1>6, SpendKinds
  <2>2. QED
    BY <2>1 DEF KindOf, KindsStay
<1>14. EffectsStay
  BY <1>0, <1>6, EffectStays
<1>15. /\ \A r \in Request : InRecord("queued", r)' <=> InRecord("queued", r)
       /\ \A r \in Request : r \notin D => (Settled(r)' <=> Settled(r))
  BY <1>10 DEF Writes, Settled
<1>16. AnswersHold
  BY <1>0, <1>6, <1>15, AnswersStay
<1>17. \A r \in Inbox(i) : r \in Request /\ InRecord("queued", r) /\ (KindOf(r) = "message" => ~Settled(r))
  BY InboxIs
<1>18. InboxOK(i)'
  <2>1. \A r \in Inbox(i)' : InRecord("queued", r)' /\ (KindOf(r)' = "message" => ~Settled(r)')
    BY <1>2, <1>11, <1>12, <1>13, <1>15, <1>17
  <2>2. QED
    BY <1>7, <1>11, <1>12, <2>1 DEF InboxOK
<1>19. PlaceOK(i)'
  BY <1>2, <1>7, <1>11, <1>12, <1>13 DEF PlaceOK
<1>20. Accounted(i, {}, {}, D)
  BY <1>2, <1>10, <1>11, <1>12 DEF Accounted
<1>21. m.inbox \in Seq(Request) /\ lost \subseteq lost' /\ UNCHANGED <<holder, instances>>
  BY <1>6, <1>7, <1>10, <1>11
<1>22. QED
  BY <1>6, <1>10, <1>13, <1>14, <1>16, <1>18, <1>19, <1>20, <1>21, WriteStep

\* A Run that follows and did not begin reports its messages dropped.
LEMMA DropsFollow ==
  ASSUME ServingAssumption, Inv, Kept, NEW i \in Server, going[i].at = "claimed",
         facts' = facts \o DropFacts(going[i].inbox), going' = [going EXCEPT ![i] = NoRunHere],
         holder' \in {holder, [holder EXCEPT !.busy = FALSE]}, KindsStay, lost \subseteq lost',
         UNCHANGED <<instances, answer, accepted>>
  PROVE  Kept'
<1>0. Types /\ KeptTypes /\ KeptInv /\ InboxOK(i) /\ PlaceOK(i)
  BY DEF Inv, Kept, KeptInv
<1>1. PICK t \in Seq(Request) : t = going[i].inbox
  BY <1>0 DEF KeptTypes
<1>2. \A x, y \in DOMAIN t : t[x] = t[y] => x = y
  BY <1>0, <1>1 DEF InboxOK
<1>3. Inbox(i) = {t[x] : x \in DOMAIN t}
  BY <1>1 DEF Inbox
<1>4. facts' \in Seq(FactKinds \X Request) /\ Writes({}, {}, Inbox(i))
  BY <1>0, <1>1, <1>2, <1>3, WritesDropped
<1>5. \A r \in Inbox(i) : KindOf(r) = "message"
  BY <1>0 DEF PlaceOK
<1>6. /\ going'[i] = NoRunHere /\ NoRunHere.inbox = <<>> /\ NoRunHere.at = "none"
      /\ NoRunHere.inbox \in Seq(Request)
  <2>1. going'[i] = NoRunHere
    BY <1>0, OneGoes
  <2>2. NoRunHere.inbox = <<>> /\ NoRunHere.at = "none"
    BY DEF NoRunHere
  <2>3. <<>> \in Seq(Request)
    OBVIOUS
  <2>4. QED
    BY <2>1, <2>2, <2>3
<1>7. Inbox(i)' = {}
  BY <1>6 DEF Inbox
<1>8. InboxOK(i)' /\ PlaceOK(i)'
  BY <1>6, <1>7 DEF InboxOK, PlaceOK
<1>9. EffectsStay
  BY <1>0, EffectStays
<1>10. AnswersHold
  BY <1>0, <1>4, AnswersStay DEF Writes
<1>11. Accounted(i, {}, {}, Inbox(i))
  BY <1>5, <1>7 DEF Accounted
<1>12. QED
  BY <1>4, <1>6, <1>8, <1>9, <1>10, <1>11, WriteStep

\* A Run is given up after its Claim.
LEMMA AbandonKept ==
  ASSUME ServingAssumption, Inv, Kept, NEW i \in Server, Abandon(i) \/ DropFollowFails(i)
  PROVE  Kept'
<1>1. KindsStay
  BY SpendKinds DEF Abandon, DropFollowFails, Kept, KeptTypes
<1>2. CASE Abandon(i) /\ going[i].of = "none" /\ MayWrite(i)
  BY <1>1, <1>2, DropsFollow DEF Abandon
<1>3. CASE Abandon(i) /\ ~(going[i].of = "none" /\ MayWrite(i))
  BY <1>3, GivenUpKept
<1>4. CASE DropFollowFails(i) /\ UNCHANGED facts
  BY <1>4, GivenUpKept
<1>5. CASE DropFollowFails(i) /\ facts' = facts \o DropFacts(going[i].inbox)
  BY <1>1, <1>5, DropsFollow DEF DropFollowFails, NoRunFollows
<1>6. QED
  BY <1>2, <1>3, <1>4, <1>5 DEF DropFollowFails

-----------------------------------------------------------------------------

\* Nothing has been written yet.
LEMMA InitKept == ASSUME ServingAssumption, ServingInit PROVE Kept
<1>1. /\ facts = <<>> /\ going = [i \in Server |-> NoRunHere] /\ servingLoad \in ServingLoads
      /\ instances = [i \in Server |-> [up |-> TRUE, row |-> TRUE, drain |-> FALSE]]
      /\ answer = [q \in Request |-> NoAnswer]
  BY DEF ServingInit
<1>2. "kind" \in DOMAIN servingLoad
  BY <1>1 DEF ServingAssumption
<1>3. instances \in [Server -> ProcRec]
  BY <1>1 DEF ProcRec
<1>4. \A i \in Server : going[i].at = "none" /\ going[i].inbox = <<>> /\ Inbox(i) = {}
  BY <1>1 DEF NoRunHere, Inbox
<1>5. facts \in Seq(FactKinds \X Request)
  BY <1>1
<1>6. \A i \in Server : going[i].inbox \in Seq(Request)
  <2>1. <<>> \in Seq(Request)
    OBVIOUS
  <2>2. QED
    BY <1>4, <2>1
<1>7. \A k, q : ~InRecord(k, q) /\ OnceInRecord(k, q)
  BY <1>1 DEF InRecord, OnceInRecord
<1>8. \A q \in Request : FactsOK(q) /\ MessageOK(q)
  BY <1>1, <1>7 DEF FactsOK, MessageOK, Settled, NoAnswer
<1>9. \A i \in Server : InboxOK(i) /\ PlaceOK(i)
  BY <1>4 DEF InboxOK, PlaceOK
<1>10. \A i, j \in Server : Apart(i, j)
  BY <1>4 DEF Apart
<1>11. QED
  BY <1>2, <1>3, <1>5, <1>6, <1>8, <1>9, <1>10 DEF Kept, KeptTypes, KeptInv

\* One case for each action.
LEMMA NextKept == ASSUME ServingAssumption, Inv, Kept, [ServingNext]_servingVars PROVE Kept'
<1>1. ASSUME NEW q \in Request, ServeRequest(q) PROVE Kept'
  BY <1>1, RequestKept, QueueKept, AbortKept, AdmitKept DEF ServeRequest
<1>2. ASSUME NEW i \in Server, RunGoes(i) PROVE Kept'
  BY <1>2, MovesKept, GivenUpKept, InstanceKept, StartRunKept, CommitKept, DetachKept, WriteNoticeKept
     DEF RunGoes
<1>3. ASSUME NEW q \in Request, NEW i \in Server, Submit(q, i) PROVE Kept'
  BY <1>3, RequestKept
<1>4. ASSUME NEW q \in Request, Drop(q) \/ StoreRefuses(q) \/ ForwardLost(q) PROVE Kept'
  BY <1>4, RequestKept
<1>5. ASSUME NEW i \in Server, Abandon(i) \/ DropFollowFails(i) \/ Crash(i) \/ Lapse(i) \/ Drain(i)
      PROVE  Kept'
  BY <1>5, AbandonKept, CrashKept, InstanceKept
<1>6. CASE UNCHANGED servingVars
  <2>1. UNCHANGED <<holder, facts, instances, going, answer, accepted, lost, servingLoad>>
    BY <1>6 DEF servingVars
  <2>2. KindsStay
    BY <2>1, SpendKinds DEF Kept, KeptTypes
  <2>3. EffectsStay /\ RunsGoOn
    BY <2>1, EffectStays, RunsUnchanged DEF Inv
  <2>4. QED
    BY <2>1, <2>2, <2>3, RequestQuiet
<1>7. QED
  BY <1>1, <1>2, <1>3, <1>4, <1>5, <1>6 DEF ServingNext, ServingGoes

\* How often a fact is in the Record.
LEMMA TimesAre ==
  ASSUME Kept, NEW q \in Request, NEW k \in {"queued", "committed", "dropped"}
  PROVE  TimesLogged(k, q) = IF InRecord(k, q) THEN 1 ELSE 0
<1>1. OnceInRecord(k, q)
  BY DEF Kept, KeptInv, FactsOK
<1> DEFINE S == {n \in DOMAIN facts : facts[n] = <<k, q>>}
<1>2. TimesLogged(k, q) = Cardinality(S)
  BY DEF TimesLogged
<1>3. CASE InRecord(k, q)
  <2>1. PICK n \in DOMAIN facts : facts[n] = <<k, q>>
    BY <1>3 DEF InRecord
  <2>2. S = {n}
    BY <1>1, <2>1 DEF OnceInRecord
  <2> HIDE DEF S
  <2>3. Cardinality(S) = 1
    BY <2>2, FS_Singleton
  <2>4. QED
    BY <1>2, <1>3, <2>3
<1>4. CASE ~InRecord(k, q)
  <2>1. S = {}
    BY <1>4 DEF InRecord
  <2> HIDE DEF S
  <2>2. QED
    BY <1>2, <1>4, <2>1, FS_EmptySet
<1>5. QED
  BY <1>3, <1>4

\* The invariant says what is promised to clients.
LEMMA KeptIsKept == ASSUME Kept PROVE AcceptedAreKept
<1> SUFFICES ASSUME NEW q \in Request, answer[q].code = "queued", KindOf(q) \in {"message", "notice"}
             PROVE  /\ TimesLogged("queued", q) = 1
                    /\ TimesLogged("committed", q) + TimesLogged("dropped", q) <= 1
                    /\ \/ TimesLogged("committed", q) + TimesLogged("dropped", q) = 1
                       \/ /\ KindOf(q) = "message"
                          /\ q \in lost \/ \E i \in Server : q \in Range(going[i].inbox)
                       \/ /\ KindOf(q) = "notice"
                          /\ \A i \in Server : going[i].at = "live" /\ MayWrite(i) /\ ~going[i].failed =>
                                q \in Range(going[i].inbox)
  BY DEF AcceptedAreKept
<1>1. FactsOK(q) /\ MessageOK(q)
  BY DEF Kept, KeptInv
<1>2. InRecord("queued", q)
  BY <1>1 DEF FactsOK
<1>3. PICK c : c = TimesLogged("committed", q)
  OBVIOUS
<1>4. PICK d : d = TimesLogged("dropped", q)
  OBVIOUS
<1>5. /\ TimesLogged("queued", q) = 1 /\ c = (IF InRecord("committed", q) THEN 1 ELSE 0)
      /\ d = (IF InRecord("dropped", q) THEN 1 ELSE 0)
  BY <1>2, <1>3, <1>4, TimesAre
<1>6. c + d <= 1 /\ (Settled(q) => c + d = 1)
  BY <1>1, <1>5 DEF FactsOK, Settled
<1>7. \A i \in Server : Inbox(i) = Range(going[i].inbox)
  BY DEF Inbox, Range
<1>8. CASE KindOf(q) = "message"
  <2>1. Settled(q) \/ q \in lost \/ \E i \in Server : q \in Inbox(i)
    BY <1>1, <1>2, <1>8 DEF MessageOK
  <2>2. QED
    BY <1>3, <1>4, <1>5, <1>6, <1>7, <1>8, <2>1
<1>9. CASE KindOf(q) = "notice"
  <2>1. ASSUME NEW i \in Server, going[i].at = "live", MayWrite(i), ~going[i].failed, ~Settled(q)
        PROVE  q \in Inbox(i)
    <3>1. InboxOK(i)
      BY DEF Kept, KeptInv
    <3>2. QED
      BY <1>2, <1>9, <2>1, <3>1 DEF InboxOK, Settled
  <2>2. QED
    BY <1>3, <1>4, <1>5, <1>6, <1>7, <1>9, <2>1
<1>10. QED
  BY <1>8, <1>9

-----------------------------------------------------------------------------

\* The requests of a Session and the Runs of its Instances agree: a request is
\* of at most one Run, which is of the Instance that has it, it has no effect
\* before that Instance writes it (Send and Notice of the host) or starts its Run
\* (startRun), and until it ends there no answer says that it did not run.
THEOREM ServedInvariance == ServingAssumption => (ServingSpec => []Inv)
<1> SUFFICES ASSUME ServingAssumption PROVE ServingSpec => []Inv
  OBVIOUS
<1>1. ServingInit => Inv
  BY InitServed
<1>2. Inv /\ [ServingNext]_servingVars => Inv'
  BY NextServed
<1>3. QED
  BY <1>1, <1>2, PTL DEF ServingSpec

\* A request has its effect once, however often its client sends it again because
\* its answer says that it did not run (Gotato-Not-Run of writeFailure,
\* handler.go, and forwarded, message.go): an answer marked not run is of a
\* request without effect and without a stream, and one that reports the effect
\* is of a request that had it.  For any number of Instances and of requests,
\* crashes, cut forwards, lapsed rows and failed store calls.
THEOREM RequestsOnce == ServingAssumption => (ServingSpec => []RequestsRunOnce)
<1>1. Inv => RequestsRunOnce
  BY DEF Inv, ServedInv, RequestOK, RequestsRunOnce
<1>2. QED
  BY <1>1, ServedInvariance, PTL

\* The Record and the inboxes of the Runs agree: a message in an inbox is in the
\* Record, not settled, and of that Run alone (Queues of a live Session, restart
\* and detach), one that is not settled is in an inbox or lost with its writer,
\* and a Run that may write has every notice that waits (PendingNotices).
THEOREM KeptInvariance == ServingAssumption => (ServingSpec => [](Inv /\ Kept))
<1> SUFFICES ASSUME ServingAssumption PROVE ServingSpec => [](Inv /\ Kept)
  OBVIOUS
<1>1. ServingInit => Inv /\ Kept
  BY InitServed, InitKept
<1>2. Inv /\ Kept /\ [ServingNext]_servingVars => (Inv /\ Kept)'
  BY NextServed, NextKept
<1>3. QED
  BY <1>1, <1>2, PTL DEF ServingSpec

\* What the clients of a Session are promised: a request has its effect once and
\* its answer says so, a message that was accepted is committed or reported
\* dropped, once, or a Run has it, unless its writer is lost (Send, messages.go),
\* and a notice stays in the Record until a Run that may write has it (Notice,
\* notices.go).  For any Instances, requests and loads.
THEOREM RequestsAreServed == ServingAssumption => (ServingSpec => []RequestsServed)
<1>1. Inv /\ Kept => RequestsServed
  <2>1. Inv => RequestsRunOnce
    BY DEF Inv, ServedInv, RequestOK, RequestsRunOnce
  <2>2. QED
    BY <2>1, KeptIsKept DEF RequestsServed
<1>2. QED
  BY <1>1, KeptInvariance, PTL
=============================================================================
