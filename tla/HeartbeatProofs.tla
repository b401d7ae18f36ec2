-------------------------- MODULE HeartbeatProofs --------------------------
(***************************************************************************)
(* What the Liveness row of an Instance promises, for any TTL, any margin, *)
(* any callers and any number of names and of failed Beats.                *)
(*                                                                         *)
(* Renewals may overlap everywhere here: the code has no lock that keeps   *)
(* them apart.  What an overlap cannot do is proved of every behaviour:    *)
(* only a late answer of a name given up fools the guard (a run shows that *)
(* it does), an expired row does not come back, and Close ends the row of  *)
(* the name in use.  That Close leaves no other row either is proved as    *)
(* long as no row expires (InTime).                                        *)
(***************************************************************************)
EXTENDS Heartbeat, TLAPS

\* What the Row, and a thread, are.
Row == [started : BOOLEAN, closed : BOOLEAN, expired : BOOLEAN,
        lastSent : (-TTL)..MaxTime, instance : 1..names]

Thread == [pc : ThreadPc, name : 1..names, new : 1..names,
           sent : 0..MaxTime, ans : {"ok", "expired", "error"}]

\* From Live's look at the Row, the ticker's firing or MarkDraining to what is
\* done with the answer.
Active(t) == th[t].pc \notin {"idle", "done"}

-----------------------------------------------------------------------------
(* What holds of every behaviour.                                          *)

\* Who may be active, by what the Row says.
Phases ==
  /\ row.closed <=> closing # "open"
  /\ row.closed => ~row.started /\ row.expired /\ ticker # "on"
  /\ ticker = "on" => row.started
  /\ Active("tick") => row.started \/ closing = "stopping"
  /\ closing = "stopping" => ticker = "stopped"
  /\ Active("mark") => row.started
  /\ \A t \in Threads : th[t].pc = "done" => t = "mark"
  /\ \A t \in Threads : th[t].pc = "returned" => t \in Callers

\* A thread that has a name the Row does not have yet.
Taking(t) == th[t].pc \in {"first", "registered", "undo"}

\* Names only grow: a renewal has the Row's name or an older one, and a name that
\* is being taken is nobody else's.
NamesApart ==
  \A t \in Threads :
    /\ th[t].name <= row.instance
    /\ Taking(t) =>
         /\ th[t].name < th[t].new /\ th[t].new # row.instance
         /\ \A s \in Threads : th[s].name # th[t].new
         /\ \A s \in Threads : s # t /\ Taking(s) => th[s].new # th[t].new
    /\ th[t].pc = "retire" => th[t].name < row.instance

\* A name that was not handed out, or not used yet, has no row.
FreshNames ==
  /\ \A n \in Names : n > names => rows[n] = Never
  /\ \A t \in Threads : th[t].pc = "first" => rows[th[t].new] = Never

\* Nothing was sent in the future, and no row lives longer than a Beat of now.
Clock ==
  /\ row.lastSent = -TTL \/ row.lastSent >= 0
  /\ \A t \in Threads : th[t].sent <= now
  /\ \A n \in Names : rows[n] <= now + TTL

\* What a good answer is worth, even a late one: the row lives until TTL after the
\* Beat was sent, or was removed since.
Answers ==
  \A t \in Threads :
    /\ th[t].pc = "answered" /\ th[t].ans = "ok" =>
         rows[th[t].name] >= th[t].sent + TTL \/ rows[th[t].name] = Removed
    /\ th[t].pc = "registered" => rows[th[t].new] >= th[t].sent + TTL

\* The row of the name in use is removed once the Row is closed, and only then.
KeptInv == rows[row.instance] = Removed => row.closed

\* The invariant of a Row, however its renewals overlap.
Overlapping == NamesApart /\ FreshNames /\ Clock /\ Answers /\ KeptInv

\* Somebody is there who ends the row of the name in use.
CloseInv ==
  faults = 0 /\ Alive(row.instance) =>
    \/ row.started \/ closing \in {"stopping", "removing"}
    \/ \E t \in Callers : \/ th[t].pc \in {"answered", "returned"} /\ th[t].ans = "ok"
                          \/ th[t].pc = "retire"
-----------------------------------------------------------------------------
(* Types.                                                                  *)

\* A step of a thread.
ThreadStep(t) ==
  \/ Live(t) \/ ReadName(t) \/ Send(t) \/ Beat(t) \/ Note(t) \/ NewName(t) \/ Register(t)
  \/ Adopt(t) \/ Forget(t) \/ Start(t) \/ BeatFails(t) \/ RegisterFails(t)

\* Every step is of a thread, of the clock, of a timer or of Close.
LEMMA Cases ==
  ASSUME [Next]_vars
  PROVE  \/ \E t \in Threads : ThreadStep(t)
         \/ Advance \/ Tick \/ MarkDraining \/ Close \/ CloseStopped \/ CloseRemoves
         \/ UNCHANGED vars
BY DEF Next, Renewal, ThreadStep

\* What a renewal that is over leaves of its thread.
LEMMA Returned ==
  ASSUME TypeOK, NEW t \in Threads, NEW ans \in {"ok", "expired", "error"}, Return(t, ans)
  PROVE  /\ th' \in [Threads -> Thread]
         /\ \A s \in Threads : s # t => th'[s] = th[s]
         /\ th'[t].pc = IF t \in Callers THEN "returned" ELSE IF t = "mark" THEN "done" ELSE "idle"
         /\ th'[t].ans = IF t \in Callers THEN ans ELSE "ok"
         /\ th'[t].sent = 0 /\ th'[t].name = 1 /\ th'[t].new = 1
<1>1. th \in [Threads -> Thread] /\ Idle \in Thread
  BY HeartbeatAssumption DEF TypeOK, Thread, Idle, ThreadPc, Names
<1>2. CASE t \in Callers
  <2>1. th' = [th EXCEPT ![t] = [Idle EXCEPT !.pc = "returned", !.ans = ans]]
    BY <1>2, HeartbeatAssumption DEF Return
  <2>2. [Idle EXCEPT !.pc = "returned", !.ans = ans] \in Thread
    BY <1>1 DEF Thread, Idle, ThreadPc
  <2>3. QED
    BY <1>1, <1>2, <2>1, <2>2 DEF Idle
<1>3. CASE t = "mark"
  <2>1. th' = [th EXCEPT ![t] = [Idle EXCEPT !.pc = "done"]]
    BY <1>3, HeartbeatAssumption DEF Return
  <2>2. [Idle EXCEPT !.pc = "done"] \in Thread
    BY <1>1 DEF Thread, Idle, ThreadPc
  <2>3. QED
    BY <1>1, <1>3, <2>1, <2>2, HeartbeatAssumption DEF Idle
<1>4. CASE t = "tick"
  <2>1. th' = [th EXCEPT ![t] = Idle]
    BY <1>4, HeartbeatAssumption DEF Return
  <2>3. QED
    BY <1>1, <1>4, <2>1, HeartbeatAssumption DEF Idle
<1>5. QED
  BY <1>2, <1>3, <1>4 DEF Threads

\* The Row begins well-formed.
LEMMA TypeInit == Init => TypeOK
BY HeartbeatAssumption DEF Init, TypeOK, Idle, ThreadPc, Names, Never, Removed

\* The store's rows keep their type.
LEMMA RowsTypes ==
  ASSUME TypeOK, NEW n \in Names
  PROVE  /\ Renewed(n) \in [Names -> {Never, Removed} \cup (1..(MaxTime + TTL))]
         /\ Ended(n) \in [Names -> {Never, Removed} \cup (1..(MaxTime + TTL))]
<1>1. now + TTL \in 1..(MaxTime + TTL)
  BY HeartbeatAssumption DEF TypeOK
<1>2. QED
  BY <1>1 DEF TypeOK, Renewed, Ended, Never, Removed

\* A thread that moves, and one that hears an answer.
LEMMA MovedTypes ==
  ASSUME TypeOK, NEW t \in Threads, NEW p \in ThreadPc, NEW a \in {"ok", "expired", "error"}
  PROVE  /\ [th EXCEPT ![t].pc = p] \in [Threads -> Thread]
         /\ [th EXCEPT ![t].pc = p, ![t].ans = a] \in [Threads -> Thread]
         /\ [th EXCEPT ![t].pc = p, ![t].sent = now] \in [Threads -> Thread]
<1>1. th[t] \in Thread /\ th \in [Threads -> Thread] /\ now \in 0..MaxTime
  BY DEF TypeOK, Thread
<1>2. /\ [th[t] EXCEPT !.pc = p] \in Thread
      /\ [th[t] EXCEPT !.pc = p, !.ans = a] \in Thread
      /\ [th[t] EXCEPT !.pc = p, !.sent = now] \in Thread
  BY <1>1 DEF Thread
<1>3. QED
  BY <1>1, <1>2

\* What the store's rows are.
RowsType == [Names -> {Never, Removed} \cup (1..(MaxTime + TTL))]

\* Every step keeps the types.
LEMMA TypeNext == TypeOK /\ [Next]_vars => TypeOK'
<1> SUFFICES ASSUME TypeOK, [Next]_vars PROVE TypeOK'
  OBVIOUS
<1> USE HeartbeatAssumption
<1>0. /\ th \in [Threads -> Thread] /\ row \in Row /\ names \in Names /\ rows \in RowsType
      /\ ticker \in {"none", "on", "stopped"} /\ faults \in 0..MaxFaults
      /\ closing \in {"open", "stopping", "removing", "closed"} /\ now \in 0..MaxTime
      /\ Idle \in Thread
      /\ \A t \in Threads : th[t].name \in Names /\ th[t].new \in Names
      /\ row.instance \in Names
  BY DEF TypeOK, Thread, Row, Names, Idle, ThreadPc, RowsType
<1>a. ASSUME now' \in 0..MaxTime, rows' \in RowsType, row' \in Row, names' = names,
             th' \in [Threads -> Thread], ticker' \in {"none", "on", "stopped"},
             closing' \in {"open", "stopping", "removing", "closed"}, faults' \in 0..MaxFaults
      PROVE  TypeOK'
  BY <1>0, <1>a DEF TypeOK, Row, Thread, RowsType, Names
<1>b. {"tick", "mark"} \subseteq Threads
  BY DEF Threads
<1>1. ASSUME NEW t \in Threads, ThreadStep(t) PROVE TypeOK'
  <2>1. CASE Live(t)
    <3>1. th' \in [Threads -> Thread]
      BY <2>1, MovedTypes DEF Live, Goto, ThreadPc
    <3>2. QED
      BY <1>0, <1>a, <2>1, <3>1 DEF Live
  <2>2. CASE ReadName(t)
    <3>1. [Idle EXCEPT !.pc = "named", !.name = row.instance] \in Thread
      BY <1>0 DEF Thread, Idle, ThreadPc, Row
    <3>2. th' \in [Threads -> Thread]
      BY <1>0, <2>2, <3>1 DEF ReadName
    <3>3. QED
      BY <1>0, <1>a, <2>2, <3>2 DEF ReadName
  <2>3. CASE Send(t)
    <3>1. th' \in [Threads -> Thread]
      BY <2>3, MovedTypes DEF Send, ThreadPc
    <3>2. QED
      BY <1>0, <1>a, <2>3, <3>1 DEF Send
  <2>4. CASE Beat(t)
    <3>0. \/ th' = [th EXCEPT ![t].pc = "answered", ![t].ans = "expired"]
          \/ th' = [th EXCEPT ![t].pc = "answered", ![t].ans = "ok"]
      BY <2>4 DEF Beat
    <3>a. /\ [th EXCEPT ![t].pc = "answered", ![t].ans = "expired"] \in [Threads -> Thread]
          /\ [th EXCEPT ![t].pc = "answered", ![t].ans = "ok"] \in [Threads -> Thread]
      BY MovedTypes DEF ThreadPc
    <3>1. th' \in [Threads -> Thread]
      BY <3>0, <3>a
    <3>2. rows' \in RowsType
      BY <1>0, <2>4, RowsTypes DEF Beat, RowsType
    <3>3. QED
      BY <1>0, <1>a, <2>4, <3>1, <3>2 DEF Beat
  <2>5. CASE Note(t)
    <3> DEFINE e == row.expired \/ th[t].ans = "expired"
               l == IF th[t].ans = "ok" /\ th[t].sent > row.lastSent
                    THEN th[t].sent ELSE row.lastSent
    <3>1. e \in BOOLEAN /\ l \in (-TTL)..MaxTime
      BY <1>0 DEF Row, Thread
    <3>2. row' = [row EXCEPT !.expired = e, !.lastSent = l]
      BY <2>5 DEF Note
    <3> HIDE DEF e, l
    <3>3. row' \in Row
      BY <1>0, <3>1, <3>2 DEF Row
    <3>4. th' \in [Threads -> Thread]
      <4>1. CASE Goto(t, "register")
        BY <4>1, MovedTypes DEF Goto, ThreadPc
      <4>2. CASE Return(t, th[t].ans)
        <5>1. th[t].ans \in {"ok", "expired", "error"}
          BY <1>0 DEF Thread
        <5>2. QED
          BY <4>2, <5>1, Returned
      <4>3. QED
        BY <2>5, <4>1, <4>2 DEF Note
    <3>5. QED
      BY <1>0, <1>a, <2>5, <3>3, <3>4 DEF Note
  <2>6. CASE NewName(t)
    <3>1. names' = names + 1 /\ names' \in Names /\ row' = row
      BY <1>0, <2>6 DEF NewName, Names
    <3>2. 1..names \subseteq 1..names' /\ names' \in 1..names'
      BY <1>0, <3>1 DEF Names
    <3>3. \A s \in Threads : th[s] \in Thread'
      BY <1>0, <3>2 DEF Thread
    <3>4. [th[t] EXCEPT !.pc = "first", !.sent = now, !.new = names'] \in Thread'
      BY <1>0, <3>2, <3>3 DEF Thread, ThreadPc
    <3>5. th' = [th EXCEPT ![t] = [th[t] EXCEPT !.pc = "first", !.sent = now, !.new = names']]
      BY <1>0, <2>6, <3>1 DEF NewName
    <3>6. th' \in [Threads -> Thread']
      BY <1>0, <3>3, <3>4, <3>5
    <3>7. row' \in Row'
      BY <1>0, <3>1, <3>2 DEF Row
    <3>8. QED
      BY <1>0, <2>6, <3>1, <3>6, <3>7 DEF NewName, TypeOK, Row, Thread, RowsType
  <2>7. CASE Register(t)
    <3>1. th' \in [Threads -> Thread]
      BY <2>7, MovedTypes DEF Register, Goto, ThreadPc
    <3>2. rows' \in RowsType
      BY <1>0, <2>7, RowsTypes DEF Register, RowsType
    <3>3. QED
      BY <1>0, <1>a, <2>7, <3>1, <3>2 DEF Register
  <2>8. CASE Adopt(t)
    <3>0. \/ th' = [th EXCEPT ![t].pc = "undo"]
          \/ th' = [th EXCEPT ![t].pc = "retire"]
      BY <2>8 DEF Adopt, Goto
    <3>a. /\ [th EXCEPT ![t].pc = "undo"] \in [Threads -> Thread]
          /\ [th EXCEPT ![t].pc = "retire"] \in [Threads -> Thread]
      BY MovedTypes DEF ThreadPc
    <3>1. th' \in [Threads -> Thread]
      BY <3>0, <3>a
    <3>2. th[t].new \in 1..names /\ th[t].sent \in (-TTL)..MaxTime
      BY <1>0 DEF Thread
    <3>3. [row EXCEPT !.instance = th[t].new, !.expired = FALSE, !.lastSent = th[t].sent] \in Row
      BY <1>0, <3>2 DEF Row
    <3>4. QED
      BY <1>0, <1>a, <2>8, <3>1, <3>3 DEF Adopt
  <2>9. CASE Forget(t)
    <3>1. rows' \in RowsType
      BY <1>0, <2>9, RowsTypes DEF RowsType, Forget
    <3>2. th' \in [Threads -> Thread]
      BY <2>9, Returned DEF Forget
    <3>3. faults' \in 0..MaxFaults
      BY <1>0, <2>9 DEF Forget
    <3>4. QED
      BY <1>0, <1>a, <2>9, <3>1, <3>2, <3>3 DEF Forget
  <2>10. CASE Start(t)
    <3>1. rows' \in RowsType
      BY <1>0, <2>10, RowsTypes DEF RowsType, Start
    <3>2. th' \in [Threads -> Thread]
      BY <1>0, <2>10 DEF Start
    <3>3. [row EXCEPT !.started = TRUE] \in Row
      BY <1>0 DEF Row
    <3>4. row' \in Row /\ ticker' \in {"none", "on", "stopped"}
      BY <1>0, <2>10, <3>3 DEF Start
    <3>5. faults' \in 0..MaxFaults
      BY <1>0, <2>10 DEF Start
    <3>6. QED
      BY <1>0, <1>a, <2>10, <3>1, <3>2, <3>4, <3>5 DEF Start
  <2>11. CASE BeatFails(t)
    <3>1. th' \in [Threads -> Thread]
      BY <2>11, MovedTypes DEF BeatFails, ThreadPc
    <3>2. rows' \in RowsType
      BY <1>0, <2>11, RowsTypes DEF BeatFails, RowsType
    <3>3. QED
      BY <1>0, <1>a, <2>11, <3>1, <3>2 DEF BeatFails
  <2>12. CASE RegisterFails(t)
    <3>1. rows' \in RowsType
      BY <1>0, <2>12, RowsTypes DEF RowsType, RegisterFails
    <3>2. th' \in [Threads -> Thread]
      BY <2>12, Returned DEF RegisterFails
    <3>3. QED
      BY <1>0, <1>a, <2>12, <3>1, <3>2 DEF RegisterFails
  <2>13. QED
    BY <1>1, <2>1, <2>2, <2>3, <2>4, <2>5, <2>6, <2>7, <2>8, <2>9, <2>10, <2>11, <2>12
    DEF ThreadStep
<1>2. CASE Advance
  BY <1>0, <1>a, <1>2 DEF Advance
<1>3. CASE Tick
  <2>1. th' \in [Threads -> Thread]
    BY <1>b, <1>3, MovedTypes DEF Tick, Goto, ThreadPc
  <2>2. QED
    BY <1>0, <1>a, <1>3, <2>1 DEF Tick
<1>4. CASE MarkDraining
  <2>1. th' \in [Threads -> Thread]
    BY <1>b, <1>4, MovedTypes DEF MarkDraining, Goto, ThreadPc
  <2>2. QED
    BY <1>0, <1>a, <1>4, <2>1 DEF MarkDraining
<1>5. CASE Close
  <2>1. [row EXCEPT !.started = FALSE, !.closed = TRUE, !.expired = TRUE] \in Row
    BY <1>0 DEF Row
  <2>2. QED
    BY <1>0, <1>a, <1>5, <2>1 DEF Close
<1>6. CASE CloseStopped
  BY <1>0, <1>a, <1>6 DEF CloseStopped
<1>7. CASE CloseRemoves
  <2>1. rows' \in RowsType
    BY <1>0, <1>7, RowsTypes DEF CloseRemoves, RowsType
  <2>2. QED
    BY <1>0, <1>a, <1>7, <2>1 DEF CloseRemoves
<1>8. CASE UNCHANGED vars
  BY <1>8 DEF TypeOK, vars
<1>9. QED
  BY <1>1, <1>2, <1>3, <1>4, <1>5, <1>6, <1>7, <1>8, Cases

\* Every variable of the heartbeat keeps its type, and every name the Row or a
\* renewal has was handed out (host/internal/heartbeat).
THEOREM HeartbeatTypeCorrect == Spec => []TypeOK
<1>1. QED
  BY TypeInit, TypeNext, PTL DEF Spec

-----------------------------------------------------------------------------
(* Who may renew.                                                          *)

\* At first nobody renews.
LEMMA PhasesInit == Init => Phases
BY HeartbeatAssumption DEF Init, Phases, Idle, Active, Threads

\* Every step keeps who may renew.
LEMMA PhasesNext == TypeOK /\ Phases /\ [Next]_vars => Phases'
<1> SUFFICES ASSUME TypeOK, Phases, [Next]_vars PROVE Phases'
  OBVIOUS
<1> USE HeartbeatAssumption
<1>0. /\ th \in [Threads -> Thread] /\ row \in Row
      /\ "tick" \in Threads /\ "mark" \in Threads /\ "tick" # "mark"
      /\ "tick" \notin Callers /\ "mark" \notin Callers
  BY DEF TypeOK, Thread, Row, Threads
<1>1. ASSUME NEW t \in Threads, ThreadStep(t) PROVE Phases'
  <2>1. CASE Live(t)
    BY <1>0, <2>1 DEF Phases, Active, Live, At, Goto, Thread
  <2>2. CASE ReadName(t) \/ Send(t) \/ Beat(t) \/ NewName(t) \/ Register(t) \/ BeatFails(t)
    <3>1. /\ Active(t) /\ Active(t)' /\ th'[t].pc # "returned" /\ th'[t].pc # "done"
          /\ \A s \in Threads : s # t => th'[s] = th[s]
      <4>1. CASE ReadName(t)
        BY <1>0, <4>1 DEF ReadName, At, Active, Idle, Thread
      <4>2. CASE Send(t) \/ NewName(t)
        BY <1>0, <4>2 DEF Send, NewName, At, Active, Thread
      <4>3. CASE Beat(t) \/ BeatFails(t)
        BY <1>0, <4>3 DEF Beat, BeatFails, At, Active, Thread
      <4>4. CASE Register(t)
        BY <1>0, <4>4 DEF Register, At, Goto, Active, Thread
      <4>5. QED
        BY <2>2, <4>1, <4>2, <4>3, <4>4
    <3>2. UNCHANGED <<row, ticker, closing>>
      BY <2>2 DEF ReadName, Send, Beat, NewName, Register, BeatFails
    <3>3. QED
      BY <1>0, <3>1, <3>2 DEF Phases, Active
  <2>3. CASE Note(t)
    <3>1. /\ Active(t) /\ \A s \in Threads : s # t => th'[s] = th[s]
          /\ th'[t].pc \in {"register", "returned", "done", "idle"}
          /\ th'[t].pc = "returned" => t \in Callers
          /\ th'[t].pc = "done" => t = "mark"
      <4>1. CASE Goto(t, "register")
        BY <1>0, <2>3, <4>1 DEF Note, At, Goto, Active, Thread
      <4>2. CASE Return(t, th[t].ans)
        <5>1. th[t].ans \in {"ok", "expired", "error"}
          BY <1>0 DEF Thread
        <5>2. QED
          BY <2>3, <4>2, <5>1, Returned DEF Note, At, Active
      <4>3. QED
        BY <2>3, <4>1, <4>2 DEF Note
    <3>2. /\ UNCHANGED <<ticker, closing>> /\ row'.closed = row.closed
          /\ row'.started = row.started /\ (row.expired => row'.expired)
      BY <1>0, <2>3 DEF Note, Row
    <3>3. QED
      BY <1>0, <3>1, <3>2 DEF Phases, Active
  <2>4. CASE Adopt(t)
    <3>1. /\ Active(t) /\ \A s \in Threads : s # t => th'[s] = th[s]
          /\ Active(t)' /\ th'[t].pc # "returned" /\ th'[t].pc # "done"
      BY <1>0, <2>4 DEF Adopt, At, Goto, Active, Thread
    <3>2. /\ UNCHANGED <<ticker, closing>> /\ row'.closed = row.closed
          /\ row'.started = row.started /\ (row.closed /\ row.expired => row'.expired)
      BY <1>0, <2>4 DEF Adopt, Row
    <3>3. QED
      BY <1>0, <3>1, <3>2 DEF Phases, Active
  <2>5. CASE Forget(t) \/ RegisterFails(t)
    <3>1. \E a \in {"ok", "expired", "error"} : Return(t, a)
      BY <2>5 DEF Forget, RegisterFails
    <3>2. /\ Active(t) /\ UNCHANGED <<row, ticker, closing>>
      BY <2>5 DEF Forget, RegisterFails, At, Active
    <3>3. QED
      BY <1>0, <3>1, <3>2, Returned DEF Phases, Active
  <2>6. CASE Start(t)
    <3>1. t \in Callers /\ th'[t].pc = "idle" /\ \A s \in Threads : s # t => th'[s] = th[s]
      BY <1>0, <2>6 DEF Start, At, Phases, Idle
    <3>2. \/ UNCHANGED <<row, ticker, closing>>
          \/ /\ ~row.closed /\ row'.started /\ ~row'.closed /\ ticker' = "on"
             /\ UNCHANGED closing
      BY <1>0, <2>6 DEF Start, Row
    <3>3. QED
      BY <1>0, <3>1, <3>2 DEF Phases, Active
  <2>7. QED
    BY <1>1, <2>1, <2>2, <2>3, <2>4, <2>5, <2>6 DEF ThreadStep
<1>2. CASE Tick
  BY <1>0, <1>2 DEF Phases, Active, Tick, At, Goto, Thread
<1>3. CASE MarkDraining
  BY <1>0, <1>3 DEF Phases, Active, MarkDraining, At, Goto, Thread
<1>4. CASE Close
  <2>1. /\ row'.closed /\ ~row'.started /\ row'.expired /\ th' = th /\ ~row.closed
        /\ closing' \in {"stopping", "closed"} /\ ~Active("mark")
        /\ row.started => closing' = "stopping" /\ ticker' = "stopped"
        /\ ~row.started => closing' = "closed" /\ ticker' = ticker
    BY <1>0, <1>4 DEF Close, Row, Active, Phases
  <2>2. QED
    BY <1>0, <2>1 DEF Phases, Active
<1>5. CASE CloseStopped
  BY <1>0, <1>5 DEF Phases, Active, CloseStopped, At
<1>6. CASE CloseRemoves
  BY <1>0, <1>6 DEF Phases, Active, CloseRemoves
<1>7. CASE Advance \/ UNCHANGED vars
  BY <1>7 DEF Phases, Active, Advance, vars
<1>8. QED
  BY <1>1, <1>2, <1>3, <1>4, <1>5, <1>6, <1>7, Cases

-----------------------------------------------------------------------------
(* What the steps of a renewal do.                                         *)

\* A renewal gets under way: Live, the name and the time it is sent.
SetsOut(t) ==
  /\ UNCHANGED <<now, rows, row, names, closing, faults>>
  /\ th[t].pc \in {"idle", "renew", "named"} /\ th'[t].pc \in {"renew", "named", "beat"}
  /\ th'[t].name \in {th[t].name, row.instance} /\ th'[t].sent \in {th[t].sent, 0, now}

\* Its Beat is answered.
Hears(t) ==
  /\ UNCHANGED <<now, row, names, closing>>
  /\ th[t].pc = "beat" /\ th'[t].pc = "answered"
  /\ th'[t].name = th[t].name /\ th'[t].sent = th[t].sent
  /\ \/ rows' = rows /\ th'[t].ans # "ok"
     \/ rows' = Renewed(th[t].name) /\ ~Expired(th[t].name)
  /\ faults' = 0 => faults = 0 /\ (rows' = rows \/ th'[t].ans = "ok")

\* The Row takes note of the answer.
Notes(t) ==
  /\ UNCHANGED <<now, rows, names, closing, faults>>
  /\ th[t].pc = "answered" /\ th'[t].pc \in {"register", "returned", "idle", "done"}
  /\ th'[t].name \in {th[t].name, 1} /\ th'[t].sent \in {th[t].sent, 0}
  /\ t \in Callers /\ th[t].ans = "ok" => th'[t].pc = "returned" /\ th'[t].ans = "ok"
  /\ row'.instance = row.instance /\ row'.closed = row.closed /\ row'.started = row.started
  /\ row'.expired <=> row.expired \/ th[t].ans = "expired"
  /\ row'.lastSent = IF th[t].ans = "ok" /\ th[t].sent > row.lastSent
                     THEN th[t].sent ELSE row.lastSent

\* A name is handed out.
TakesName(t) ==
  /\ UNCHANGED <<now, rows, row, closing, faults>>
  /\ names' = names + 1 /\ names < MaxNames
  /\ th[t].pc = "register" /\ th'[t].pc = "first" /\ th'[t].name = th[t].name
  /\ th'[t].sent = now /\ th'[t].new = names + 1

\* It is registered.
Registers(t) ==
  /\ UNCHANGED <<now, row, names, closing, faults>>
  /\ rows' = Renewed(th[t].new)
  /\ th[t].pc = "first" /\ th'[t].pc = "registered" /\ th'[t].name = th[t].name
  /\ th'[t].sent = th[t].sent /\ th'[t].new = th[t].new

\* It is the Row's, or not.
Adopts(t) ==
  /\ UNCHANGED <<now, rows, names, closing, faults>>
  /\ th[t].pc = "registered" /\ th'[t].name = th[t].name
  /\ th'[t].sent = th[t].sent /\ th'[t].new = th[t].new
  /\ \/ th'[t].pc = "undo" /\ row' = row
     \/ /\ th'[t].pc = "retire" /\ ~row.closed /\ row.instance = th[t].name
        /\ row'.instance = th[t].new /\ row'.lastSent = th[t].sent /\ ~row'.closed
        /\ row'.started = row.started

\* A renewal that took a name, or failed to, ends.
Ends(t) ==
  /\ UNCHANGED <<now, row, names, closing>>
  /\ faults' = 0 => faults = 0
  /\ th'[t].pc \in {"returned", "idle", "done"} /\ th'[t].name = 1 /\ th'[t].sent = 0
  /\ \/ th[t].pc = "first" /\ rows' \in {rows, Renewed(th[t].new)}
     \/ th[t].pc = "undo" /\ rows' \in {rows, Ended(th[t].new)}
     \/ th[t].pc = "retire" /\ rows' \in {rows, Ended(th[t].name)}
  /\ t \in Callers /\ th[t].pc = "retire" => th'[t].pc = "returned" /\ th'[t].ans = "ok"

\* Live ends.
Starts(t) ==
  /\ UNCHANGED <<now, names, closing>>
  /\ faults' = 0 => faults = 0
  /\ th[t].pc = "returned" /\ th'[t].pc = "idle" /\ th'[t].name = 1 /\ th'[t].sent = 0
  /\ row'.instance = row.instance /\ row'.closed = row.closed /\ row'.expired = row.expired
  /\ row'.lastSent = row.lastSent /\ (row.started => row'.started)
  /\ rows' = rows \/ (row.closed /\ rows' = Ended(row.instance))
  /\ th[t].ans = "ok" /\ faults' = 0 => row'.started \/ rows' = Ended(row.instance)

\* A renewal takes one of these steps, and no other renewal moves in it.
LEMMA Shapes ==
  ASSUME TypeOK, NEW t \in Threads, ThreadStep(t)
  PROVE  /\ \A s \in Threads : s # t => th'[s] = th[s]
         /\ \/ SetsOut(t) \/ Hears(t) \/ Notes(t) \/ TakesName(t)
            \/ Registers(t) \/ Adopts(t) \/ Ends(t) \/ Starts(t)
<1> USE HeartbeatAssumption
<1>0. /\ th \in [Threads -> Thread] /\ row \in Row /\ th[t] \in Thread
      /\ th[t].ans \in {"ok", "expired", "error"} /\ faults \in Nat /\ names \in Nat
  BY DEF TypeOK, Thread, Row, Names
<1>1. CASE Live(t) \/ ReadName(t) \/ Send(t)
  <2>1. CASE Live(t)
    BY <1>0, <2>1 DEF Live, At, Goto, SetsOut, Thread
  <2>2. CASE ReadName(t)
    BY <1>0, <2>2 DEF ReadName, At, Idle, SetsOut, Thread
  <2>3. CASE Send(t)
    BY <1>0, <2>3 DEF Send, At, SetsOut, Thread
  <2>4. QED
    BY <1>1, <2>1, <2>2, <2>3
<1>2. CASE Beat(t)
  BY <1>0, <1>2 DEF Beat, At, Hears, Thread
<1>3. CASE BeatFails(t)
  BY <1>0, <1>3 DEF BeatFails, At, Hears, Thread
<1>4. CASE Note(t)
  <2>1. /\ row'.instance = row.instance /\ row'.closed = row.closed
        /\ row'.started = row.started
        /\ row'.expired <=> row.expired \/ th[t].ans = "expired"
    BY <1>0, <1>4 DEF Note, Row
  <2>2. row'.lastSent = IF th[t].ans = "ok" /\ th[t].sent > row.lastSent
                        THEN th[t].sent ELSE row.lastSent
    BY <1>0, <1>4 DEF Note, Row
  <2>3. CASE Goto(t, "register") /\ th[t].ans = "expired"
    BY <1>0, <1>4, <2>1, <2>2, <2>3 DEF Note, At, Goto, Notes, Thread
  <2>4. CASE Return(t, th[t].ans)
    BY <1>0, <1>4, <2>1, <2>2, <2>4, Returned DEF Note, At, Notes
  <2>5. QED
    BY <1>4, <2>3, <2>4 DEF Note
<1>5. CASE NewName(t)
  BY <1>0, <1>5 DEF NewName, At, TakesName, Thread
<1>6. CASE Register(t)
  BY <1>0, <1>6 DEF Register, At, Goto, Registers, Thread
<1>7. CASE Adopt(t)
  <2>1. CASE Goto(t, "undo") /\ row' = row
    BY <1>0, <1>7, <2>1 DEF Adopt, At, Goto, Adopts, Thread
  <2>2. CASE /\ Goto(t, "retire") /\ ~row.closed /\ row.instance = th[t].name
             /\ row' = [row EXCEPT !.instance = th[t].new, !.expired = FALSE,
                                   !.lastSent = th[t].sent]
    BY <1>0, <1>7, <2>2 DEF Adopt, At, Goto, Adopts, Thread, Row
  <2>3. QED
    BY <1>7, <2>1, <2>2 DEF Adopt
<1>8. CASE Forget(t)
  <2>1. Return(t, "ok") /\ th[t].pc \in {"undo", "retire"} /\ (faults' = 0 => faults = 0)
    BY <1>0, <1>8 DEF Forget
  <2>2. rows' \in {rows, Ended(IF At(t, "undo") THEN th[t].new ELSE th[t].name)}
    BY <1>8 DEF Forget
  <2>3. QED
    BY <1>0, <1>8, <2>1, <2>2, Returned DEF Forget, At, Ends
<1>9. CASE RegisterFails(t)
  <2>1. Return(t, "error") /\ th[t].pc = "first" /\ faults' # 0
    BY <1>0, <1>9 DEF RegisterFails, At
  <2>2. QED
    BY <1>0, <1>9, <2>1, Returned DEF RegisterFails, Ends
<1>10. CASE Start(t)
  <2>1. /\ th[t].pc = "returned" /\ th'[t] = Idle /\ \A s \in Threads : s # t => th'[s] = th[s]
        /\ UNCHANGED <<now, names, closing>> /\ (faults' = 0 => faults = 0)
    BY <1>0, <1>10 DEF Start, At
  <2>2. \/ row' = row \/ row' = [row EXCEPT !.started = TRUE]
    BY <1>10 DEF Start
  <2>3. rows' = rows \/ (row.closed /\ rows' = Ended(row.instance))
    BY <1>10 DEF Start
  <2>4. th[t].ans = "ok" /\ faults' = 0 => row'.started \/ rows' = Ended(row.instance)
    BY <1>0, <1>10 DEF Start, Row
  <2>5. /\ row'.instance = row.instance /\ row'.closed = row.closed
        /\ row'.expired = row.expired /\ row'.lastSent = row.lastSent
        /\ row.started => row'.started
    BY <1>0, <2>2 DEF Row
  <2>6. QED
    BY <2>1, <2>3, <2>4, <2>5 DEF Starts, Idle
<1>11. QED
  BY <1>1, <1>2, <1>3, <1>4, <1>5, <1>6, <1>7, <1>8, <1>9, <1>10 DEF ThreadStep

\* Every other step leaves the renewals that are under way alone.
LEMMA OtherShapes ==
  ASSUME TypeOK, Phases,
         Advance \/ Tick \/ MarkDraining \/ Close \/ CloseStopped \/ CloseRemoves \/ UNCHANGED vars
  PROVE  /\ \A s \in Threads :
              \/ th'[s] = th[s]
              \/ /\ th[s].pc = "idle" /\ th'[s].pc = "renew" /\ s \notin Callers
                 /\ th'[s].name = th[s].name /\ th'[s].sent = th[s].sent
         /\ now <= now' /\ now' \in Nat /\ names' = names
         /\ row'.instance = row.instance /\ row'.lastSent = row.lastSent
         /\ row.closed => row'.closed
         /\ row'.expired = row.expired \/ row'.expired = TRUE
         /\ faults' = 0 => faults = 0
         /\ rows' = rows \/ (row.closed /\ rows' = Ended(row.instance))
         /\ closing \in {"stopping", "removing"} /\ faults' = 0
              => closing' \in {"stopping", "removing"} \/ rows' = Ended(row.instance)
         /\ row.started => row'.started \/ closing' = "stopping"
<1> USE HeartbeatAssumption
<1>0. /\ th \in [Threads -> Thread] /\ row \in Row /\ now \in Nat /\ faults \in Nat
      /\ "tick" \in Threads /\ "mark" \in Threads
  BY DEF TypeOK, Thread, Row, Threads
<1>1. CASE Advance
  BY <1>0, <1>1 DEF Advance
<1>2. CASE Tick
  BY <1>0, <1>2 DEF Tick, At, Goto, Thread
<1>3. CASE MarkDraining
  BY <1>0, <1>3 DEF MarkDraining, At, Goto, Thread
<1>4. CASE Close
  BY <1>0, <1>4 DEF Close, Row
<1>5. CASE CloseStopped \/ UNCHANGED vars
  BY <1>0, <1>5 DEF CloseStopped, vars
<1>6. CASE CloseRemoves
  <2>1. row.closed
    BY <1>6 DEF CloseRemoves, Phases
  <2>2. QED
    BY <1>0, <1>6, <2>1 DEF CloseRemoves
<1>7. QED
  BY <1>1, <1>2, <1>3, <1>4, <1>5, <1>6

-----------------------------------------------------------------------------
(* Renewals that overlap.                                                  *)

\* What the types say of the values below.
LEMMA Values ==
  ASSUME TypeOK
  PROVE  /\ rows \in [Names -> Int] /\ now \in Nat /\ names \in Nat /\ faults \in Nat
         /\ TTL \in Nat /\ TTL > 0
         /\ row.instance \in 1..names /\ row.instance \in Names /\ row.lastSent \in Int
         /\ \A t \in Threads :
              /\ th[t].name \in 1..names /\ th[t].name \in Names
              /\ th[t].new \in 1..names /\ th[t].new \in Names /\ th[t].sent \in Nat
         /\ 1 \in Names
<1> USE HeartbeatAssumption
<1>1. {Never, Removed} \cup (1..(MaxTime + TTL)) \subseteq Int
  BY DEF Never, Removed
<1>2. rows \in [Names -> Int]
  BY <1>1 DEF TypeOK
<1>3. names \in Names /\ 1..names \subseteq Names /\ 1 \in Names
  BY DEF TypeOK, Names
<1>4. \A t \in Threads : th[t] \in Thread
  BY DEF TypeOK, Thread
<1>5. row \in Row
  BY DEF TypeOK, Row
<1>6. QED
  BY <1>2, <1>3, <1>4, <1>5 DEF TypeOK, Thread, Row, Names

\* What a Beat and the end of a row leave of the rows.
LEMMA RowsAfter ==
  ASSUME TypeOK, NEW n \in Names
  PROVE  /\ Renewed(n)[n] = now + TTL
         /\ Ended(n)[n] \in {Never, Removed} /\ (rows[n] # Never => Ended(n)[n] = Removed)
         /\ (rows[n] = Never => Ended(n)[n] = Never)
         /\ \A m \in Names : m # n => Renewed(n)[m] = rows[m] /\ Ended(n)[m] = rows[m]
BY Values DEF Renewed, Ended

\* Names are kept apart by a step of a renewal.
LEMMA NamesStep ==
  ASSUME TypeOK, NamesApart, NEW t \in Threads, ThreadStep(t)
  PROVE  NamesApart'
<1>0. /\ \A s \in Threads : s # t => th'[s] = th[s]
      /\ \A s \in Threads : th[s].name \in Nat /\ th[s].new \in Nat
      /\ \A s \in Threads : 1 <= th[s].name /\ th[s].name <= names /\ th[s].new <= names
      /\ row.instance \in Nat /\ 1 <= row.instance /\ row.instance <= names /\ names \in Nat
  BY Shapes, Values
\* The Row keeps its name, and the thread takes none.
<1>1. ASSUME row'.instance = row.instance,
             th'[t].pc \notin {"first", "registered", "undo", "retire"},
             th'[t].name \in {th[t].name, row.instance, 1}
      PROVE  NamesApart'
  <2>1. \A s \in Threads : Taking(s)' => s # t /\ Taking(s) /\ th'[s].new = th[s].new
                                         /\ th'[s].name = th[s].name
    BY <1>0, <1>1 DEF Taking
  <2>2. \A s \in Threads : Taking(s) => th[s].new # 1
    BY <1>0 DEF NamesApart
  <2>3. \A s \in Threads : th'[s].name \in {th[s].name, row.instance, 1}
    BY <1>0, <1>1
  <2>4. \A s \in Threads : th'[s].name <= row.instance
    BY <1>0, <2>3 DEF NamesApart
  <2>5. \A s \in Threads : th'[s].pc = "retire" => th[s].pc = "retire" /\ th'[s].name = th[s].name
    BY <1>0, <1>1
  <2>6. ASSUME NEW s \in Threads, Taking(s)', NEW u \in Threads
        PROVE  /\ th'[u].name # th'[s].new
               /\ u # s /\ Taking(u)' => th'[u].new # th'[s].new
    BY <2>1, <2>2, <2>3, <2>6 DEF NamesApart
  <2>7. ASSUME NEW s \in Threads, Taking(s)'
        PROVE  th'[s].name < th'[s].new /\ th'[s].new # row'.instance
    BY <1>1, <2>1, <2>7 DEF NamesApart
  <2>8. ASSUME NEW s \in Threads, th'[s].pc = "retire" PROVE th'[s].name < row'.instance
    BY <1>1, <2>5, <2>8 DEF NamesApart
  <2>9. QED
    BY <1>1, <2>4, <2>6, <2>7, <2>8 DEF NamesApart
<1>2. CASE SetsOut(t) \/ Hears(t) \/ Notes(t) \/ Ends(t) \/ Starts(t)
  BY <1>1, <1>2 DEF SetsOut, Hears, Notes, Ends, Starts
<1>3. CASE TakesName(t)
  <2>1. /\ Taking(t)' /\ th'[t].new = names + 1 /\ row' = row /\ ~Taking(t)
        /\ \A s \in Threads : th'[s].name = th[s].name
        /\ \A s \in Threads : s # t => Taking(s)' = Taking(s) /\ th'[s].new = th[s].new
        /\ \A s \in Threads : th'[s].pc = "retire" => th[s].pc = "retire"
    BY <1>0, <1>3 DEF TakesName, Taking
  <2>2. \A s \in Threads : th[s].name # names + 1 /\ th[s].new # names + 1
    BY <1>0
  <2>3. th[t].name < names + 1 /\ row.instance # names + 1
    BY <1>0
  <2>4. ASSUME NEW s \in Threads, Taking(s)', NEW u \in Threads
        PROVE  /\ th'[u].name # th'[s].new
               /\ u # s /\ Taking(u)' => th'[u].new # th'[s].new
    BY <2>1, <2>2, <2>4 DEF NamesApart
  <2>5. ASSUME NEW s \in Threads, Taking(s)'
        PROVE  th'[s].name < th'[s].new /\ th'[s].new # row'.instance
    BY <2>1, <2>3, <2>5 DEF NamesApart
  <2>6. QED
    BY <2>1, <2>4, <2>5 DEF NamesApart
<1>4. CASE Registers(t) \/ Adopts(t)
  <2>1. /\ \A s \in Threads : th'[s].name = th[s].name /\ th'[s].new = th[s].new
        /\ Taking(t) /\ \A s \in Threads : Taking(s)' => Taking(s)
    BY <1>0, <1>4 DEF Registers, Adopts, Taking
  <2>2. CASE row' = row /\ th'[t].pc # "retire"
    <3>1. \A s \in Threads : th'[s].pc = "retire" => th[s].pc = "retire"
      BY <1>0, <2>2
    <3>2. QED
      BY <2>1, <2>2, <3>1 DEF NamesApart
  <2>3. CASE /\ th'[t].pc = "retire" /\ row.instance = th[t].name /\ row'.instance = th[t].new
    <3>1. ~Taking(t)' /\ \A s \in Threads : Taking(s)' => s # t
      BY <2>3 DEF Taking
    <3>2. row.instance < row'.instance /\ row'.instance \in Nat
      BY <1>0, <2>1, <2>3 DEF NamesApart
    <3>3. \A s \in Threads : th'[s].name < row'.instance
      BY <1>0, <2>1, <3>2 DEF NamesApart
    <3>4. \A s \in Threads : Taking(s)' => th'[s].new # row'.instance
      BY <2>1, <2>3, <3>1 DEF NamesApart
    <3>5. \A s \in Threads : th'[s].name <= row'.instance
      BY <1>0, <2>1, <3>2, <3>3
    <3>6. QED
      BY <2>1, <3>3, <3>4, <3>5 DEF NamesApart
  <2>4. QED
    BY <1>4, <2>2, <2>3 DEF Registers, Adopts
<1>5. QED
  BY <1>2, <1>3, <1>4, Shapes

\* What a step of a renewal may do to the rows: a Beat of its own name that did not
\* expire, the first of a fresh one, or the end of one that is not in use.
LEMMA RowsStep ==
  ASSUME TypeOK, NamesApart, NEW t \in Threads, ThreadStep(t)
  PROVE  \/ rows' = rows
         \/ /\ rows' = Renewed(th[t].name) /\ ~Expired(th[t].name)
            /\ th[t].pc = "beat" /\ th'[t].pc = "answered"
         \/ rows' = Renewed(th[t].new) /\ th[t].pc = "first"
         \/ rows' = Ended(th[t].new) /\ th[t].pc = "undo" /\ th[t].new # row.instance
         \/ rows' = Ended(th[t].name) /\ th[t].pc = "retire" /\ th[t].name # row.instance
         \/ rows' = Ended(row.instance) /\ row.closed
<1>1. th[t].name \in Nat /\ row.instance \in Nat
  BY Values
<1>2. /\ th[t].pc = "retire" => th[t].name # row.instance
      /\ th[t].pc = "undo" => th[t].new # row.instance
  BY <1>1 DEF NamesApart, Taking
<1>3. QED
  BY <1>2, Shapes DEF SetsOut, Hears, Notes, TakesName, Registers, Adopts, Ends, Starts

\* Fresh names have no row after a step of a renewal.
LEMMA FreshStep ==
  ASSUME TypeOK, NamesApart, FreshNames, NEW t \in Threads, ThreadStep(t)
  PROVE  FreshNames'
<1>0. /\ \A s \in Threads : s # t => th'[s] = th[s]
      /\ names' = names \/ (TakesName(t) /\ names' = names + 1 /\ names < MaxNames)
      /\ names \in Nat /\ row.instance \in 1..names /\ names' \in Nat /\ names <= names'
  BY Shapes, Values
     DEF SetsOut, Hears, Notes, TakesName, Registers, Adopts, Ends, Starts
<1>1. ASSUME NEW n \in Names, n # th[t].name, n # th[t].new, n # row.instance
      PROVE  rows'[n] = rows[n]
  BY <1>1, RowsStep, RowsAfter, Values
<1>2. ASSUME NEW n \in Names, n > names' PROVE rows'[n] = Never
  <2>1. n \in Nat /\ n > names
    BY <1>0, <1>2 DEF Names
  <2>2. n # th[t].name /\ n # th[t].new /\ n # row.instance
    BY <2>1, Values
  <2>3. QED
    BY <1>1, <2>1, <2>2 DEF FreshNames
<1>3. ASSUME NEW s \in Threads, th'[s].pc = "first" PROVE rows'[th'[s].new] = Never
  <2>1. CASE s = t
    <3>1. TakesName(t)
      BY <1>3, <2>1, Shapes
         DEF SetsOut, Hears, Notes, Registers, Adopts, Ends, Starts
    <3>2. rows' = rows /\ th'[t].new = names + 1 /\ names < MaxNames
      BY <3>1 DEF TakesName
    <3>3. names + 1 \in Names /\ names + 1 > names
      BY <1>0, <3>2, HeartbeatAssumption DEF Names
    <3>4. QED
      BY <2>1, <3>2, <3>3 DEF FreshNames
  <2>2. CASE s # t
    <3>1. th'[s] = th[s] /\ th[s].pc = "first" /\ Taking(s)
      BY <1>0, <1>3, <2>2 DEF Taking
    <3>2. /\ rows[th[s].new] = Never /\ th[s].new \in Names
          /\ th[s].new # th[t].name /\ th[s].new # row.instance
          /\ Taking(t) => th[s].new # th[t].new
      BY <2>2, <3>1, Values DEF FreshNames, NamesApart
    <3>3. CASE rows' = Renewed(th[t].new) /\ th[t].pc = "first"
      BY <3>1, <3>2, <3>3, RowsAfter, Values DEF Taking
    <3>4. CASE rows' = Ended(th[t].new) /\ th[t].pc = "undo"
      BY <3>1, <3>2, <3>4, RowsAfter, Values DEF Taking
    <3>5. QED
      BY <3>1, <3>2, <3>3, <3>4, RowsStep, RowsAfter, Values
  <2>3. QED
    BY <2>1, <2>2
<1>4. QED
  BY <1>2, <1>3 DEF FreshNames

\* No step of a renewal is ahead of the clock.
LEMMA ClockStep ==
  ASSUME TypeOK, NamesApart, Clock, NEW t \in Threads, ThreadStep(t)
  PROVE  Clock'
<1>0. /\ \A s \in Threads : s # t => th'[s] = th[s]
      /\ now' = now /\ now \in Nat /\ TTL \in Nat
      /\ th'[t].sent \in {th[t].sent, 0, now}
      /\ row'.lastSent \in {row.lastSent, th[t].sent}
  BY Shapes, Values DEF SetsOut, Hears, Notes, TakesName, Registers, Adopts, Ends, Starts
<1>1. \A s \in Threads : th[s].sent \in Nat /\ th[s].sent <= now
  BY Values DEF Clock
<1>2. \A s \in Threads : th'[s].sent <= now'
  BY <1>0, <1>1
<1>3. row'.lastSent = -TTL \/ row'.lastSent >= 0
  BY <1>0, <1>1 DEF Clock
<1>4. ASSUME NEW n \in Names PROVE rows'[n] <= now' + TTL
  <2>1. \/ rows'[n] = rows[n] \/ rows'[n] = now + TTL \/ rows'[n] \in {Never, Removed}
    BY RowsStep, RowsAfter, Values
  <2>2. QED
    BY <1>0, <2>1, Values DEF Clock, Never, Removed
<1>5. QED
  BY <1>2, <1>3, <1>4 DEF Clock

\* A good answer keeps its worth while renewals go on.
LEMMA AnswersStep ==
  ASSUME TypeOK, NamesApart, FreshNames, Clock, Answers, NEW t \in Threads, ThreadStep(t)
  PROVE  Answers'
<1>0. /\ \A s \in Threads : s # t => th'[s] = th[s]
      /\ now \in Nat /\ TTL \in Nat /\ TTL > 0
      /\ \A s \in Threads : th[s].sent \in Nat /\ th[s].sent <= now
      /\ \A n \in Names : rows[n] \in Int /\ rows[n] <= now + TTL
  BY Shapes, Values DEF Clock
\* A row that lives long enough goes on doing so, or is ended.
<1>1. ASSUME NEW n \in Names, NEW x \in Nat, x <= now, rows[n] >= x + TTL \/ rows[n] = Removed
      PROVE  rows'[n] >= x + TTL \/ rows'[n] = Removed
  <2>1. \/ rows'[n] = rows[n] \/ rows'[n] = now + TTL
        \/ rows'[n] \in {Never, Removed} /\ (rows[n] # Never => rows'[n] = Removed)
    BY RowsStep, RowsAfter, Values
  <2>2. rows[n] # Never
    BY <1>0, <1>1 DEF Never, Removed
  <2>3. QED
    BY <1>0, <1>1, <2>1, <2>2
<1>2. ASSUME NEW s \in Threads, th'[s].pc = "answered", th'[s].ans = "ok"
      PROVE  rows'[th'[s].name] >= th'[s].sent + TTL \/ rows'[th'[s].name] = Removed
  <2>1. CASE s # t
    <3>1. th'[s] = th[s] /\ th[s].name \in Names
      BY <1>0, <2>1, Values
    <3>2. QED
      BY <1>0, <1>1, <1>2, <3>1 DEF Answers
  <2>2. CASE s = t
    <3>1. Hears(t)
      BY <1>2, <2>2, Shapes DEF SetsOut, Notes, TakesName, Registers, Adopts, Ends, Starts
    <3>2. rows' = Renewed(th[t].name) /\ th'[t].name = th[t].name /\ th'[t].sent = th[t].sent
      BY <1>2, <2>2, <3>1 DEF Hears
    <3>3. rows'[th'[t].name] = now + TTL
      BY <3>2, RowsAfter, Values
    <3>4. QED
      BY <1>0, <2>2, <3>2, <3>3
  <2>3. QED
    BY <2>1, <2>2
<1>3. ASSUME NEW s \in Threads, th'[s].pc = "registered"
      PROVE  rows'[th'[s].new] >= th'[s].sent + TTL
  <2>1. CASE s # t
    <3>1. th'[s] = th[s] /\ th[s].new \in Names /\ Taking(s) /\ th[s].pc = "registered"
      BY <1>0, <1>3, <2>1, Values DEF Taking
    <3>2. /\ th[s].new # th[t].name /\ th[s].new # row.instance
          /\ Taking(t) => th[s].new # th[t].new
      BY <2>1, <3>1 DEF NamesApart
    <3>3. rows'[th[s].new] = rows[th[s].new]
      BY <3>1, <3>2, RowsStep, RowsAfter, Values DEF Taking
    <3>4. QED
      BY <3>1, <3>3 DEF Answers
  <2>2. CASE s = t
    <3>1. Registers(t)
      BY <1>3, <2>2, Shapes DEF SetsOut, Hears, Notes, TakesName, Adopts, Ends, Starts
    <3>2. rows' = Renewed(th[t].new) /\ th'[t].new = th[t].new /\ th'[t].sent = th[t].sent
      BY <3>1 DEF Registers
    <3>3. rows'[th'[t].new] = now + TTL
      BY <3>2, RowsAfter, Values
    <3>4. QED
      BY <1>0, <2>2, <3>2, <3>3
  <2>3. QED
    BY <2>1, <2>2
<1>4. QED
  BY <1>2, <1>3 DEF Answers

\* The row in use is not removed by a renewal while the Row is open.
LEMMA KeptStep ==
  ASSUME TypeOK, NamesApart, Clock, Answers, KeptInv, NEW t \in Threads, ThreadStep(t)
  PROVE  KeptInv'
<1>0. /\ row.closed => row'.closed
      /\ row'.instance = row.instance \/ (Adopts(t) /\ row'.instance = th[t].new)
      /\ TTL \in Nat /\ TTL > 0 /\ now \in Nat /\ th[t].sent \in Nat
      /\ row.instance \in Names /\ th[t].new \in Names /\ th[t].name \in Names
      /\ \A n \in Names : rows[n] \in Int
  BY Shapes, Values DEF SetsOut, Hears, Notes, TakesName, Registers, Adopts, Ends, Starts
<1>1. CASE row'.instance = row.instance
  <2>1. \/ rows'[row.instance] = rows[row.instance] \/ rows'[row.instance] = now + TTL
        \/ row.closed
    BY <1>0, RowsStep, RowsAfter
  <2>2. QED
    BY <1>0, <1>1, <2>1 DEF KeptInv, Removed
<1>2. CASE Adopts(t) /\ row'.instance = th[t].new
  <2>1. rows' = rows /\ th[t].pc = "registered"
    BY <1>2 DEF Adopts
  <2>2. rows[th[t].new] >= th[t].sent + TTL
    BY <2>1 DEF Answers
  <2>3. QED
    BY <1>0, <1>2, <2>1, <2>2 DEF KeptInv, Removed
<1>3. QED
  BY <1>0, <1>1, <1>2

\* Every step keeps the invariant, however renewals overlap.
LEMMA OverlappingNext ==
  ASSUME TypeOK, Phases, Overlapping, [Next]_vars
  PROVE  Overlapping'
<1>1. CASE \E t \in Threads : ThreadStep(t)
  BY <1>1, NamesStep, FreshStep, ClockStep, AnswersStep, KeptStep DEF Overlapping
<1>2. CASE Advance \/ Tick \/ MarkDraining \/ Close \/ CloseStopped \/ CloseRemoves \/ UNCHANGED vars
  <2>1. /\ \A s \in Threads :
             \/ th'[s] = th[s]
             \/ /\ th[s].pc = "idle" /\ th'[s].pc = "renew"
                /\ th'[s].name = th[s].name /\ th'[s].sent = th[s].sent
        /\ now <= now' /\ now' \in Nat /\ names' = names
        /\ row'.instance = row.instance /\ row'.lastSent = row.lastSent
        /\ row.closed => row'.closed
        /\ rows' = rows \/ (row.closed /\ rows' = Ended(row.instance))
    BY <1>2, OtherShapes
  <2>2. /\ \A n \in Names : rows[n] \in Int /\ (n # row.instance => rows'[n] = rows[n])
        /\ row.instance \in Names /\ now \in Nat /\ TTL \in Nat /\ TTL > 0
        /\ rows'[row.instance] \in {rows[row.instance], Never, Removed}
        /\ rows'[row.instance] = rows[row.instance] \/ row.closed
        /\ rows[row.instance] # Never \/ rows'[row.instance] = Never
        /\ rows[row.instance] # Never =>
             rows'[row.instance] \in {rows[row.instance], Removed}
    BY <2>1, RowsAfter, Values
  <2>3. \A s \in Threads :
          /\ th'[s].name = th[s].name /\ th'[s].sent = th[s].sent
          /\ Taking(s)' => Taking(s) /\ th'[s] = th[s]
          /\ th'[s].pc \in {"answered", "registered", "retire", "first"} => th'[s] = th[s]
    BY <2>1 DEF Taking
  <2>4. NamesApart'
    BY <2>1, <2>3 DEF NamesApart, Overlapping
  <2>5. FreshNames'
    <3>1. ASSUME NEW n \in Names, rows[n] = Never PROVE rows'[n] = Never
      BY <2>2, <3>1
    <3>2. \A s \in Threads : th[s].new \in Names
      BY Values
    <3>3. QED
      BY <2>1, <2>3, <3>1, <3>2 DEF FreshNames, Overlapping
  <2>6. Clock'
    <3>1. \A s \in Threads : th[s].sent \in Nat /\ th[s].sent <= now
      BY Values DEF Overlapping, Clock
    <3>2. \A n \in Names : rows'[n] \in {rows[n], Never, Removed} /\ rows[n] <= now + TTL
      BY <2>2 DEF Overlapping, Clock
    <3>3. \A n \in Names : rows'[n] <= now' + TTL
      BY <2>1, <2>2, <3>2 DEF Never, Removed
    <3>4. \A s \in Threads : th'[s].sent <= now'
      BY <2>1, <2>2, <2>3, <3>1
    <3>5. QED
      BY <2>1, <3>3, <3>4 DEF Clock, Overlapping
  <2>7. Answers'
    <3>1. \A s \in Threads : th[s].name \in Names /\ th[s].new \in Names /\ th[s].sent \in Nat
      BY Values
    <3>2. ASSUME NEW s \in Threads, th'[s].pc = "registered"
          PROVE  rows'[th'[s].new] >= th'[s].sent + TTL
      <4>1. th'[s] = th[s] /\ Taking(s)
        BY <2>3, <3>2 DEF Taking
      <4>2. th[s].new # row.instance
        BY <4>1 DEF Overlapping, NamesApart
      <4>3. QED
        BY <2>2, <3>1, <3>2, <4>1, <4>2 DEF Overlapping, Answers
    <3>3. ASSUME NEW s \in Threads, th'[s].pc = "answered", th'[s].ans = "ok"
          PROVE  rows'[th'[s].name] >= th'[s].sent + TTL \/ rows'[th'[s].name] = Removed
      <4>1. th'[s] = th[s]
        BY <2>3, <3>3
      <4>2. rows[th[s].name] >= th[s].sent + TTL \/ rows[th[s].name] = Removed
        BY <3>3, <4>1 DEF Overlapping, Answers
      <4>3. rows[th[s].name] # Never
        BY <2>2, <3>1, <4>2 DEF Never, Removed
      <4>4. rows'[th[s].name] \in {rows[th[s].name], Removed}
        BY <2>2, <3>1, <4>3
      <4>5. QED
        BY <4>1, <4>2, <4>4
    <3>4. QED
      BY <3>2, <3>3 DEF Answers
  <2>8. KeptInv'
    BY <2>1, <2>2 DEF KeptInv, Overlapping
  <2>9. QED
    BY <2>4, <2>5, <2>6, <2>7, <2>8 DEF Overlapping
<1>3. QED
  BY <1>1, <1>2, Cases

\* At first no name has a row.
LEMMA OverlappingInit == Init => Overlapping /\ CloseInv
BY HeartbeatAssumption
DEF Init, Overlapping, NamesApart, Taking, FreshNames, Clock, Answers, KeptInv, CloseInv,
    Idle, Threads, Names, Never, Removed, Alive

\* Whatever overlaps: names only grow and are never shared, a good answer is worth
\* what it says or its row was removed, and the row in use is removed only once the
\* Row is closed (renew, reregister, Live and Close of heartbeat.go).
THEOREM RowsUnderOverlap == Spec => [](TypeOK /\ Phases /\ Overlapping)
<1>1. TypeOK /\ Phases /\ Overlapping /\ [Next]_vars => (TypeOK /\ Phases /\ Overlapping)'
  BY TypeNext, PhasesNext, OverlappingNext
<1>2. QED
  BY <1>1, TypeInit, PhasesInit, OverlappingInit, PTL DEF Spec

\* A step that is not a stray answer leaves a true belief true.
LEMMA BeliefStep ==
  ASSUME TypeOK, Phases, Overlapping, [Next]_vars, Believed, ~StrayNote
  PROVE  Believed'
<1>0. /\ TTL \in Nat /\ TTL > 0 /\ now \in Nat /\ row.instance \in Names /\ row.lastSent \in Int
      /\ \A n \in Names : rows[n] \in Int
      /\ row.closed => row.expired
  BY Values DEF Phases
<1>a. row.lastSent <= now \/ row.expired \/ row.lastSent < 0
  <2>1. rows[row.instance] <= now + TTL
    BY <1>0 DEF Overlapping, Clock
  <2>2. QED
    BY <1>0, <2>1 DEF Believed
<1>1. ASSUME NEW t \in Threads, ThreadStep(t) PROVE Believed'
  <2>0. /\ th[t].name \in Names /\ th[t].new \in Names /\ th[t].sent \in Nat
        /\ th[t].sent <= now
    BY Values DEF Overlapping, Clock
  <2>1. CASE row' = row \/ Starts(t)
    <3>1. /\ row'.instance = row.instance /\ row'.lastSent = row.lastSent
          /\ row'.expired = row.expired
      BY <2>1 DEF Starts
    <3>2. SUFFICES ASSUME ~row.expired, row.lastSent >= 0
                   PROVE  rows'[row.instance] >= row.lastSent + TTL
      BY <3>1 DEF Believed
    <3>3. ~row.closed
      BY <1>0, <3>2
    <3>4. rows'[row.instance] = rows[row.instance] \/ rows'[row.instance] = now + TTL
      BY <1>0, <1>1, <2>0, <3>3, RowsStep, RowsAfter DEF Overlapping
    <3>5. QED
      BY <1>0, <1>a, <3>2, <3>4 DEF Believed
  <2>2. CASE Notes(t)
    <3>1. Note(t)
      <4>1. th[t].pc = "answered"
        BY <2>2 DEF Notes
      <4>2. QED
        BY <1>1, <4>1 DEF ThreadStep, Live, ReadName, Send, Beat, NewName, Register, Adopt,
                          Forget, Start, BeatFails, RegisterFails, At
    <3>2. SUFFICES ASSUME ~row'.expired, row'.lastSent >= 0
                   PROVE  rows'[row'.instance] >= row'.lastSent + TTL
      BY DEF Believed
    <3>3. /\ ~row.expired /\ rows' = rows /\ row'.instance = row.instance
          /\ th[t].pc = "answered"
      BY <2>2, <3>2 DEF Notes
    <3>4. CASE row'.lastSent = row.lastSent
      BY <3>2, <3>3, <3>4 DEF Believed
    <3>5. CASE th[t].ans = "ok" /\ row'.lastSent = th[t].sent
      <4>1. th[t].name = row.instance
        BY <1>1, <3>1, <3>5 DEF StrayNote
      <4>2. rows[row.instance] >= th[t].sent + TTL \/ rows[row.instance] = Removed
        BY <3>3, <3>5, <4>1 DEF Overlapping, Answers
      <4>3. rows[row.instance] # Removed
        BY <1>0, <3>3 DEF Overlapping, KeptInv
      <4>4. QED
        BY <3>3, <3>5, <4>2, <4>3
    <3>6. QED
      BY <2>2, <3>4, <3>5 DEF Notes
  <2>3. CASE Adopts(t) /\ row' # row
    <3>1. /\ rows' = rows /\ row'.instance = th[t].new /\ row'.lastSent = th[t].sent
          /\ th[t].pc = "registered"
      BY <2>3 DEF Adopts
    <3>2. QED
      BY <3>1 DEF Overlapping, Answers, Believed
  <2>4. QED
    BY <1>1, <2>1, <2>2, <2>3, Shapes DEF SetsOut, Hears, TakesName, Registers, Ends
<1>2. CASE Advance \/ Tick \/ MarkDraining \/ Close \/ CloseStopped \/ CloseRemoves \/ UNCHANGED vars
  <2>1. /\ row'.instance = row.instance /\ row'.lastSent = row.lastSent
        /\ row'.expired = row.expired \/ row'.expired = TRUE
        /\ rows' = rows \/ (row.closed /\ rows' = Ended(row.instance))
        /\ row.closed => row'.closed
    BY <1>2, OtherShapes
  <2>2. CASE row.closed
    <3>1. row.expired
      BY <1>0, <2>2
    <3>2. row'.expired
      BY <2>1, <3>1
    <3>3. QED
      BY <3>2 DEF Believed
  <2>3. CASE ~row.closed
    BY <2>1, <2>3 DEF Believed
  <2>4. QED
    BY <2>2, <2>3
<1>3. QED
  BY <1>1, <1>2, Cases

\* What the Row believes is enough for the guard: a write it lets pass comes before
\* the row could expire.
LEMMA BeliefIsSafe ==
  ASSUME TypeOK, Clock, Believed
  PROVE  GuardMeansAlive
<1> USE HeartbeatAssumption
<1>1. SUFFICES ASSUME ~row.expired, ~Stale PROVE Alive(row.instance)
  BY DEF GuardMeansAlive, GuardPasses
<1>2. row.lastSent \in Int /\ now \in Nat /\ rows[row.instance] \in Int
  BY Values
<1>3. row.lastSent >= 0
  BY <1>1, <1>2 DEF Stale, Clock
<1>4. QED
  BY <1>1, <1>2, <1>3 DEF Stale, Believed, Alive

\* However renewals overlap, the belief of the guard is broken by nothing but the
\* late answer of a Beat of a name given up (renew, heartbeat.go:218).
THEOREM GuardIsFooledByStraysOnly == Spec => OnlyStraysFoolTheGuard
<1>1. TypeOK /\ Phases /\ Overlapping /\ [Next]_vars => [Believed => Believed' \/ StrayNote]_vars
  BY BeliefStep
<1>2. QED
  BY <1>1, RowsUnderOverlap, PTL DEF Spec, OnlyStraysFoolTheGuard

\* A Row under its first name is guarded, however its renewals overlap and fail: a
\* write passes only while its row is alive (Guard of heartbeat.go).
THEOREM FirstNameIsGuarded == Spec => [](row.instance = 1 => GuardMeansAlive)
<1> DEFINE First == row.instance = 1 => Believed
<1>1. Init => First
  BY HeartbeatAssumption DEF Init, Believed
<1>2. TypeOK /\ Phases /\ Overlapping /\ First /\ [Next]_vars => First'
  <2> SUFFICES ASSUME TypeOK, Phases, Overlapping, First, [Next]_vars, row'.instance = 1
               PROVE  Believed'
    OBVIOUS
  <2>1. /\ \A t \in Threads : th[t].name \in Nat /\ th[t].name >= 1 /\ th[t].new \in Nat
        /\ row.instance \in Nat
    BY Values
  <2>2. row.instance = 1
    <3>1. ASSUME NEW t \in Threads, ThreadStep(t) PROVE row.instance = 1
      <4>1. row'.instance = row.instance \/ (th[t].pc = "registered" /\ row'.instance = th[t].new)
        BY <3>1, Shapes DEF SetsOut, Hears, Notes, TakesName, Registers, Adopts, Ends, Starts
      <4>2. th[t].pc = "registered" => th[t].name < th[t].new
        BY DEF Overlapping, NamesApart, Taking
      <4>3. QED
        BY <2>1, <4>1, <4>2
    <3>2. CASE Advance \/ Tick \/ MarkDraining \/ Close \/ CloseStopped \/ CloseRemoves \/ UNCHANGED vars
      BY <3>2, OtherShapes
    <3>3. QED
      BY <3>1, <3>2, Cases
  <2>3. \A t \in Threads : th[t].name = row.instance
    BY <2>1, <2>2 DEF Overlapping, NamesApart
  <2>4. ~StrayNote
    BY <2>3 DEF StrayNote
  <2>5. QED
    BY <2>2, <2>4, BeliefStep
<1>3. TypeOK /\ Overlapping /\ First => (row.instance = 1 => GuardMeansAlive)
  BY BeliefIsSafe DEF Overlapping
<1>4. QED
  BY <1>1, <1>2, <1>3, RowsUnderOverlap, PTL DEF Spec

\* However renewals overlap, no expired row is alive again: a Beat brings back only
\* a removed row, of a closed Row or of a name given up (Beat of store/memory.go as
\* renew calls it).
THEOREM ExpiredRowsStayDead == Spec => OnlyRemovedRowsComeBack
<1>1. TypeOK /\ Phases /\ Overlapping /\ [Next]_vars =>
        [\A n \in Names : rows[n] # Never /\ ~Alive(n) /\ Alive(n)' =>
           rows[n] = Removed /\ (row.closed \/ n # row.instance)]_vars
  <2> SUFFICES ASSUME TypeOK, Phases, Overlapping, [Next]_vars, NEW n \in Names,
                      rows[n] # Never, ~Alive(n), Alive(n)'
               PROVE  rows[n] = Removed /\ (row.closed \/ n # row.instance)
    OBVIOUS
  <2>1. rows[n] \in Int /\ now \in Nat /\ TTL \in Nat /\ TTL > 0 /\ row.instance \in Names
    BY Values
  <2>2. ASSUME NEW t \in Threads, ThreadStep(t)
        PROVE  rows[n] = Removed
    <3>1. now' = now
      BY <2>2, Shapes DEF SetsOut, Hears, Notes, TakesName, Registers, Adopts, Ends, Starts
    <3>2. th[t].name \in Names /\ th[t].new \in Names
      BY Values
    <3>3. CASE rows' = Renewed(th[t].name) /\ ~Expired(th[t].name)
      <4>1. n = th[t].name \/ rows'[n] = rows[n]
        BY <3>2, <3>3, RowsAfter
      <4>2. ~Expired(n)
        BY <3>1, <3>3, <4>1 DEF Alive
      <4>3. rows[n] <= 0
        BY <2>1, <4>2 DEF Alive, Expired
      <4>4. rows[n] \in {Never, Removed} \cup (1..(MaxTime + TTL))
        BY DEF TypeOK
      <4>5. QED
        BY <2>1, <4>3, <4>4 DEF Never, Removed
    <3>4. CASE rows' = Renewed(th[t].new) /\ th[t].pc = "first"
      <4>1. n # th[t].new
        BY <3>4 DEF Overlapping, FreshNames
      <4>2. QED
        BY <3>1, <3>2, <3>4, <4>1, RowsAfter DEF Alive
    <3>5. CASE rows' = rows
      BY <3>1, <3>5 DEF Alive
    <3>6. ASSUME NEW m \in Names, rows' = Ended(m) PROVE FALSE
      <4>1. rows'[n] = rows[n] \/ rows'[n] \in {Never, Removed}
        BY <3>6, RowsAfter
      <4>2. QED
        BY <3>1, <4>1 DEF Alive, Never, Removed
    <3>7. QED
      BY <2>1, <2>2, <3>2, <3>3, <3>4, <3>5, <3>6, RowsStep DEF Overlapping
  <2>3. CASE Advance \/ Tick \/ MarkDraining \/ Close \/ CloseStopped \/ CloseRemoves \/ UNCHANGED vars
    <3>1. /\ now <= now' /\ now' \in Nat /\ (rows' = rows \/ rows' = Ended(row.instance))
      BY <2>3, OtherShapes
    <3>2. rows'[n] \in {rows[n], Never, Removed}
      BY <2>1, <3>1, RowsAfter
    <3>3. QED
      BY <2>1, <3>1, <3>2 DEF Alive, Never, Removed
  <2>4. rows[n] = Removed
    BY <2>2, <2>3, Cases
  <2>5. QED
    BY <2>4 DEF Overlapping, KeptInv
<1>2. QED
  BY <1>1, RowsUnderOverlap, PTL DEF Spec, OnlyRemovedRowsComeBack

\* Whoever is to end the row in use is there after every step.
LEMMA CloseNext ==
  ASSUME TypeOK, Phases, Overlapping, CloseInv, [Next]_vars
  PROVE  CloseInv'
<1> DEFINE Ender(u) == \/ th[u].pc \in {"answered", "returned"} /\ th[u].ans = "ok"
                       \/ th[u].pc = "retire"
<1>0. /\ Callers \subseteq Threads /\ row.instance \in Names /\ now \in Nat
      /\ \A n \in Names : rows[n] \in Int
  BY Values DEF Threads
<1>1. ASSUME faults' = 0, Alive(row.instance)', ~row'.started,
             closing' \notin {"stopping", "removing"},
             \A u \in Callers : ~Ender(u)'
      PROVE  FALSE
  <2>1. ASSUME NEW t \in Threads, ThreadStep(t) PROVE FALSE
    <3>0. /\ \A s \in Threads : s # t => th'[s] = th[s]
          /\ th[t].name \in Names /\ th[t].new \in Names
      BY <2>1, Shapes, Values
    <3>a. /\ closing' = closing /\ faults = 0 /\ now' = now /\ ~row.started
      BY <1>1, <2>1, Shapes
         DEF SetsOut, Hears, Notes, TakesName, Registers, Adopts, Ends, Starts
    \* A renewal of the ticker or of MarkDraining is of a Row that has started.
    <3>b. Active(t) => t \in Callers
      BY <1>1, <3>a DEF Phases, Threads
    <3>1. CASE Hears(t)
      <4>1. t \in Callers
        BY <3>1, <3>b DEF Hears, Active
      <4>2. th'[t].ans # "ok"
        BY <1>1, <3>1, <4>1 DEF Hears
      <4>3. rows' = rows /\ row' = row
        BY <1>1, <3>1, <4>2 DEF Hears
      <4>4. PICK u \in Callers : Ender(u)
        BY <1>1, <3>a, <4>3 DEF CloseInv, Alive
      <4>5. u # t
        BY <3>1, <4>4 DEF Hears
      <4>6. QED
        BY <1>0, <1>1, <3>0, <4>4, <4>5
    <3>2. CASE Adopts(t) /\ row' # row
      <4>1. th'[t].pc = "retire" /\ t \in Callers
        BY <3>2, <3>b DEF Adopts, Active
      <4>2. QED
        BY <1>1, <4>1
    <3>3. ASSUME row'.instance = row.instance, Alive(row.instance), Ender(t) /\ t \in Callers => Ender(t)'
          PROVE  FALSE
      <4>1. PICK u \in Callers : Ender(u)
        BY <1>1, <3>3, <3>a DEF CloseInv
      <4>2. QED
        BY <1>0, <1>1, <3>0, <3>3, <4>1
    <3>4. CASE SetsOut(t) \/ TakesName(t) \/ (Adopts(t) /\ row' = row)
      BY <1>1, <3>3, <3>4, <3>a DEF SetsOut, TakesName, Adopts, Alive
    <3>5. CASE Notes(t)
      BY <1>1, <3>3, <3>5, <3>a DEF Notes, Alive
    <3>6. CASE Registers(t) \/ Ends(t)
      <4>1. row' = row
        BY <3>6 DEF Registers, Ends
      <4>2. /\ th[t].pc \in {"first", "undo"} => th[t].new # row.instance
            /\ th[t].pc = "retire" => th[t].name # row.instance
        BY Values DEF Overlapping, NamesApart, Taking
      <4>3. rows'[row.instance] = rows[row.instance]
        BY <1>0, <3>0, <3>6, <4>2, RowsAfter DEF Registers, Ends
      <4>4. Ender(t) /\ t \in Callers => Ender(t)'
        BY <3>6 DEF Registers, Ends
      <4>5. QED
        BY <1>1, <3>3, <3>a, <4>1, <4>3, <4>4 DEF Alive
    <3>7. CASE Starts(t)
      <4>1. row'.instance = row.instance
        BY <3>7 DEF Starts
      <4>2. rows' # Ended(row.instance)
        BY <1>0, <1>1, <4>1, RowsAfter DEF Alive, Never, Removed
      <4>3. rows' = rows /\ th[t].ans # "ok" /\ th[t].pc = "returned"
        BY <1>1, <3>7, <4>2 DEF Starts
      <4>4. QED
        BY <1>1, <3>3, <3>a, <4>1, <4>3 DEF Alive
    <3>8. QED
      BY <2>1, <3>1, <3>2, <3>4, <3>5, <3>6, <3>7, Shapes
  <2>2. CASE Advance \/ Tick \/ MarkDraining \/ Close \/ CloseStopped \/ CloseRemoves \/ UNCHANGED vars
    <3>1. /\ \A s \in Threads :
               \/ th'[s] = th[s]
               \/ th[s].pc = "idle" /\ th'[s].pc = "renew" /\ s \notin Callers
          /\ now <= now' /\ now' \in Nat /\ row'.instance = row.instance
          /\ faults = 0 /\ (rows' = rows \/ rows' = Ended(row.instance))
          /\ closing \in {"stopping", "removing"} => rows' = Ended(row.instance)
          /\ ~row.started
      BY <1>1, <2>2, OtherShapes
    <3>2. rows' # Ended(row.instance)
      BY <1>0, <1>1, <3>1, RowsAfter DEF Alive, Never, Removed
    <3>3. Alive(row.instance)
      BY <1>0, <1>1, <3>1, <3>2 DEF Alive
    <3>4. PICK u \in Callers : Ender(u)
      BY <3>1, <3>2, <3>3 DEF CloseInv
    <3>5. th'[u] = th[u]
      BY <1>0, <3>1
    <3>6. QED
      BY <1>1, <3>4, <3>5
  <2>3. QED
    BY <2>1, <2>2, Cases
<1>2. QED
  BY <1>1 DEF CloseInv

\* However callers of Live, a tick and MarkDraining overlap, expire, take names and
\* meet Close, it leaves no row of the name in use (Live and Close of heartbeat.go).
THEOREM CloseIsClean == Spec => []CloseEndsItsRow
<1>1. TypeOK /\ Phases /\ Overlapping /\ CloseInv /\ [Next]_vars => CloseInv'
  BY CloseNext
<1>2. Phases /\ CloseInv => CloseEndsItsRow
  <2> SUFFICES ASSUME Phases, CloseInv, closing = "closed", faults = 0,
                      \A t \in Threads : th[t].pc \in {"idle", "done"}, Alive(row.instance)
               PROVE  FALSE
    BY DEF CloseEndsItsRow
  <2>1. ~row.started /\ Callers \subseteq Threads
    BY DEF Phases, Threads
  <2>2. QED
    BY <2>1 DEF CloseInv
<1>3. QED
  BY <1>1, <1>2, OverlappingInit, RowsUnderOverlap, PTL DEF Spec

-----------------------------------------------------------------------------
(* Renewals that overlap, within the life of a row.                        *)

\* Every Beat comes in time, so that no row expires.
InTime == \A n \in Names : ~Expired(n)

\* The Row keeps its first name, and without faults its row is alive only while
\* somebody is there who ends it.
OneNameInv ==
  /\ row.instance = 1
  /\ \A t \in Threads :
       /\ th[t].name = 1 /\ th[t].ans # "expired"
       /\ th[t].pc \notin {"register", "first", "registered", "undo", "retire"}
       /\ faults = 0 => th[t].ans = "ok"
  /\ \A n \in Names : n # 1 => rows[n] = Never
  /\ faults = 0 /\ Alive(1) =>
       \/ row.started \/ closing \in {"stopping", "removing"}
       \/ \E t \in Callers : th[t].pc \in {"answered", "returned"}

\* A step of a thread while every Beat comes in time.
LEMMA OneNameStep ==
  ASSUME TypeOK, TypeOK', Phases, OneNameInv, InTime, NEW t \in Threads, ThreadStep(t)
  PROVE  OneNameInv'
<1> USE HeartbeatAssumption
<1>0. /\ th \in [Threads -> Thread] /\ row \in Row /\ Callers \subseteq Threads
      /\ 1 \in Names /\ rows \in [Names -> Int] /\ now \in Nat /\ TTL \in Nat
      /\ faults \in Nat /\ faults' \in Nat
  <2>1. {Never, Removed} \cup (1..(MaxTime + TTL)) \subseteq Int
    BY DEF Never, Removed
  <2>2. QED
    BY SMTT(30), <2>1 DEF TypeOK, Thread, Row, Threads, Names
<1>1. /\ th[t].name = 1 /\ th[t].ans \in {"ok", "error"} /\ row.instance = 1
      /\ th[t].pc \notin {"register", "first", "registered", "undo", "retire"}
      /\ faults = 0 => th[t].ans = "ok"
  BY <1>0 DEF OneNameInv, Thread
\* A step that neither touches the rows nor answers or ends a renewal.
<1>2. ASSUME \A s \in Threads : s # t => th'[s] = th[s],
             th'[t].name = 1, th'[t].ans = th[t].ans \/ th'[t].ans = "ok",
             th'[t].pc \notin {"register", "first", "registered", "undo", "retire"},
             th[t].pc \notin {"answered", "returned"},
             UNCHANGED <<now, rows, row, closing, faults>>
      PROVE  OneNameInv'
  BY <1>0, <1>1, <1>2 DEF OneNameInv, Alive
<1>3. CASE Live(t)
  BY <1>0, <1>1, <1>2, <1>3 DEF Live, At, Goto, Thread
<1>4. CASE ReadName(t)
  BY <1>0, <1>1, <1>2, <1>4 DEF ReadName, At, Idle, Thread
<1>5. CASE Send(t)
  BY <1>0, <1>1, <1>2, <1>5 DEF Send, At, Thread
<1>6. CASE Beat(t) \/ BeatFails(t)
  <2>1. ~Expired(1)
    BY <1>0 DEF InTime
  <2>2. /\ \A s \in Threads : s # t => th'[s] = th[s]
        /\ th'[t].name = 1 /\ th'[t].pc = "answered" /\ th'[t].ans \in {"ok", "error"}
        /\ faults' = 0 => faults = 0 /\ th'[t].ans = "ok"
        /\ th[t].pc = "beat" /\ UNCHANGED <<now, row, closing>>
        /\ rows' = rows \/ rows' = Renewed(1)
    <3>1. CASE Beat(t)
      BY <1>0, <1>1, <2>1, <3>1 DEF Beat, At, Thread
    <3>2. CASE BeatFails(t)
      BY <1>0, <1>1, <3>2 DEF BeatFails, At, Thread
    <3>3. QED
      BY <1>6, <3>1, <3>2
  <2>3. \A n \in Names : n # 1 => rows'[n] = rows[n]
    BY <1>0, <2>2 DEF Renewed
  <2>4. row.started \/ closing = "stopping" \/ t \in Callers
    BY <2>2 DEF Phases, Active, Threads
  <2>5. QED
    BY <1>0, <1>1, <2>2, <2>3, <2>4 DEF OneNameInv
<1>7. CASE Note(t)
  <2>1. Return(t, th[t].ans) /\ th[t].pc = "answered"
    BY <1>1, <1>7 DEF Note, At
  <2>2. /\ \A s \in Threads : s # t => th'[s] = th[s]
        /\ th'[t].name = 1 /\ th'[t].ans \in {th[t].ans, "ok"}
        /\ th'[t].pc \in {"returned", "done", "idle"}
        /\ t \in Callers => th'[t].pc = "returned"
    BY <1>1, <2>1, Returned
  <2>3. /\ UNCHANGED <<now, rows, closing, faults>> /\ row'.instance = row.instance
        /\ row'.started = row.started
    BY <1>0, <1>7 DEF Note, Row
  <2>4. row.started \/ closing = "stopping" \/ t \in Callers
    BY <2>1 DEF Phases, Active, Threads
  <2>5. QED
    BY <1>0, <1>1, <2>2, <2>3, <2>4 DEF OneNameInv, Alive
<1>8. CASE Start(t)
  <2>1. /\ \A s \in Threads : s # t => th'[s] = th[s]
        /\ th'[t].name = 1 /\ th'[t].ans = "ok" /\ th'[t].pc = "idle"
        /\ UNCHANGED <<now, closing>> /\ (faults' = 0 => faults = 0)
    BY <1>0, <1>8 DEF Start, Idle
  <2>2. /\ row'.instance = 1
        /\ \A n \in Names : n # 1 => rows'[n] = rows[n]
    BY <1>0, <1>1, <1>8 DEF Start, Row, Ended
  <2>3. faults' = 0 /\ Alive(1)' => row'.started
    <3>1. SUFFICES ASSUME faults' = 0, Alive(1)' PROVE row'.started
      OBVIOUS
    <3>2. th[t].ans = "ok"
      BY <1>1, <2>1, <3>1
    <3>3. ~(row.closed /\ rows' = Ended(1))
      BY <1>0, <3>1 DEF Alive, Ended, Never, Removed
    <3>4. QED
      BY <1>0, <1>1, <1>8, <2>1, <3>1, <3>2, <3>3 DEF Start, Row
  <2>4. QED
    BY <1>0, <1>1, <2>1, <2>2, <2>3 DEF OneNameInv
<1>9. CASE NewName(t) \/ Register(t) \/ Adopt(t) \/ Forget(t) \/ RegisterFails(t)
  BY <1>1, <1>9 DEF NewName, Register, Adopt, Forget, RegisterFails, At
<1>10. QED
  BY <1>3, <1>4, <1>5, <1>6, <1>7, <1>8, <1>9 DEF ThreadStep

\* And every other step.
LEMMA OneNameNext ==
  ASSUME TypeOK, TypeOK', Phases, OneNameInv, InTime, [Next]_vars
  PROVE  OneNameInv'
<1> USE HeartbeatAssumption
<1>0. /\ th \in [Threads -> Thread] /\ row \in Row /\ Callers \subseteq Threads
      /\ "tick" \in Threads /\ "mark" \in Threads /\ {"tick", "mark"} \cap Callers = {}
      /\ 1 \in Names /\ rows \in [Names -> Int] /\ now \in Nat
      /\ faults \in Nat /\ faults' \in Nat
  <2>1. {Never, Removed} \cup (1..(MaxTime + TTL)) \subseteq Int
    BY DEF Never, Removed
  <2>2. QED
    BY <2>1 DEF TypeOK, Thread, Row, Threads, Names
<1>1. CASE Tick \/ MarkDraining
  <2>1. /\ UNCHANGED <<now, rows, row, closing, faults>>
        /\ \A s \in Threads :
             /\ th'[s].name = th[s].name /\ th'[s].ans = th[s].ans
             /\ th'[s].pc = th[s].pc \/ th'[s].pc = "renew"
        /\ \A s \in Callers : th'[s] = th[s]
    BY <1>0, <1>1 DEF Tick, MarkDraining, At, Goto, Thread
  <2>2. QED
    BY <1>0, <2>1 DEF OneNameInv, Alive
<1>2. CASE Advance
  <2>1. Alive(1)' => Alive(1)
    BY <1>0, <1>2 DEF Advance, Alive
  <2>2. QED
    BY <1>2, <2>1 DEF Advance, OneNameInv
<1>3. CASE Close
  <2>1. /\ UNCHANGED <<now, rows, th, faults>> /\ row'.instance = row.instance
        /\ row.started => closing' = "stopping"
        /\ closing = "open"
    BY <1>0, <1>3 DEF Close, Row
  <2>2. QED
    BY <2>1 DEF OneNameInv, Alive
<1>4. CASE CloseStopped
  BY <1>4 DEF CloseStopped, OneNameInv, Alive
<1>5. CASE CloseRemoves
  <2>1. /\ UNCHANGED <<now, row, th>> /\ (faults' = 0 => faults = 0 /\ rows' = Ended(1))
        /\ rows' = rows \/ rows' = Ended(1)
    BY <1>0, <1>5 DEF CloseRemoves, OneNameInv
  <2>2. \A n \in Names : n # 1 => rows'[n] = rows[n]
    BY <1>0, <2>1 DEF Ended
  <2>3. faults' = 0 => ~Alive(1)'
    BY <1>0, <2>1 DEF Alive, Ended, Never, Removed
  <2>4. QED
    BY <2>1, <2>2, <2>3 DEF OneNameInv
<1>6. CASE UNCHANGED vars
  BY <1>6 DEF vars, OneNameInv, Alive
<1>7. QED
  BY <1>1, <1>2, <1>3, <1>4, <1>5, <1>6, Cases, OneNameStep

\* However many first callers of Live, a tick and MarkDraining meet Close, it
\* leaves no row behind as long as no row expires (heartbeat.go Live, Close).
THEOREM CloseInTimeIsClean == Spec /\ []InTime => []ClosedLeavesNoRow
<1>1. Init => OneNameInv
  BY HeartbeatAssumption DEF Init, OneNameInv, Idle, Alive, Never, Threads, Names
<1>2. TypeOK /\ Phases /\ OneNameInv => ClosedLeavesNoRow
  <2> SUFFICES ASSUME TypeOK, Phases, OneNameInv, closing = "closed", faults = 0,
                      \A t \in Threads : th[t].pc \in {"idle", "done"},
                      NEW n \in Names, Alive(n)
               PROVE  FALSE
    BY DEF ClosedLeavesNoRow
  <2>1. n = 1
    BY DEF OneNameInv, Alive, Never
  <2>2. ~row.started /\ Callers \subseteq Threads
    BY DEF Phases, Threads
  <2>3. QED
    BY <2>1, <2>2 DEF OneNameInv
<1>3. TypeOK /\ Phases /\ OneNameInv /\ InTime /\ [Next]_vars => (TypeOK /\ Phases /\ OneNameInv)'
  BY TypeNext, PhasesNext, OneNameNext
<1>4. QED
  BY <1>1, <1>2, <1>3, TypeInit, PhasesInit, PTL DEF Spec

\* So within one life of a row, however long, Close leaves none (the instance of
\* the run that has two callers, the ticker and MarkDraining).
THEOREM CloseInOneLifeIsClean == MaxTime < TTL => (Spec => []ClosedLeavesNoRow)
<1> SUFFICES ASSUME MaxTime < TTL PROVE Spec => []ClosedLeavesNoRow
  OBVIOUS
<1> USE HeartbeatAssumption
<1> DEFINE Lives == \A n \in Names : rows[n] <= 0 \/ rows[n] >= TTL
<1>1. Init => Lives
  BY DEF Init, Never
<1>2. TypeOK /\ Lives /\ [Next]_vars => Lives'
  <2> SUFFICES ASSUME TypeOK, Lives, [Next]_vars PROVE Lives'
    OBVIOUS
  <2>1. rows \in [Names -> Int] /\ now \in Nat /\ TTL \in Nat
    <3>1. {Never, Removed} \cup (1..(MaxTime + TTL)) \subseteq Int
      BY DEF Never, Removed
    <3>2. QED
      BY <3>1 DEF TypeOK
  <2>2. \/ rows' = rows
        \/ \E n \in Names : rows' = Renewed(n) \/ rows' = Ended(n)
    <3>1. ASSUME NEW t \in Threads, ThreadStep(t)
          PROVE  \/ rows' = rows
                 \/ \E n \in {th[t].name, th[t].new, row.instance} :
                      rows' = Renewed(n) \/ rows' = Ended(n)
      BY <3>1 DEF ThreadStep, Live, ReadName, Send, Beat, Note, NewName, Register, Adopt, Forget,
                  Start, BeatFails, RegisterFails
    <3>2. ASSUME NEW t \in Threads PROVE {th[t].name, th[t].new, row.instance} \subseteq Names
      <4>1. th[t] \in Thread /\ row \in Row /\ names \in Names
        BY DEF TypeOK, Thread, Row
      <4>2. 1..names \subseteq Names
        BY <4>1 DEF Names
      <4>3. th[t].name \in 1..names /\ th[t].new \in 1..names /\ row.instance \in 1..names
        BY <4>1 DEF Thread, Row
      <4>4. QED
        BY <4>2, <4>3
    <3>3. CASE \E t \in Threads : ThreadStep(t)
      BY <3>1, <3>2, <3>3
    <3>4. CASE CloseRemoves
      <4>1. "tick" \in Threads
        BY DEF Threads
      <4>2. QED
        BY <3>2, <3>4, <4>1 DEF CloseRemoves
    <3>5. CASE Advance \/ Tick \/ MarkDraining \/ Close \/ CloseStopped \/ UNCHANGED vars
      BY <3>5 DEF Advance, Tick, MarkDraining, Close, CloseStopped, vars
    <3>6. QED
      BY <3>3, <3>4, <3>5, Cases
  <2>3. QED
    BY <2>1, <2>2 DEF Renewed, Ended, Never, Removed
<1>3. TypeOK /\ Lives => InTime
  <2> SUFFICES ASSUME TypeOK, Lives, NEW n \in Names PROVE ~Expired(n)
    BY DEF InTime
  <2>1. now \in 0..MaxTime /\ rows[n] \in Int
    <3>1. {Never, Removed} \cup (1..(MaxTime + TTL)) \subseteq Int
      BY DEF Never, Removed
    <3>2. QED
      BY <3>1 DEF TypeOK
  <2>2. QED
    BY <2>1 DEF Expired
<1>4. Spec => []InTime
  BY <1>1, <1>2, <1>3, TypeInit, TypeNext, PTL DEF Spec
<1>5. QED
  BY <1>4, CloseInTimeIsClean, PTL

=============================================================================
