----------------------------- MODULE Heartbeat -----------------------------
(***************************************************************************)
(* One Instance's Liveness row: the renewals that keep it alive, the new   *)
(* name when it expired, the guard every write asks, and Close             *)
(* (host/internal/heartbeat), over the store's Beat (store/memory.go).     *)
(*                                                                         *)
(* A renewal unlocks the Row while it calls the store, so whatever runs    *)
(* between the unlock and the next lock is a step of its own here.  The    *)
(* store and the Instance read one clock, as the memory and the file store *)
(* do.  What a row carries (the draining mark, the address) is left out:   *)
(* nothing here reads it.                                                  *)
(***************************************************************************)
EXTENDS Integers

CONSTANTS
  Callers,    \* the goroutines that call Live before their first write
  Draining,   \* whether MarkDraining is called
  TTL,        \* how long a row lives after a Beat
  Margin,     \* how much earlier the guard stops (TTL/5 in the code)
  MaxTime,    \* bound: the clock
  MaxNames,   \* bound: the names the Row takes
  MaxFaults   \* bound: the Beats that fail

ASSUME HeartbeatAssumption ==
  /\ {"tick", "mark"} \cap Callers = {}
  /\ Draining \in BOOLEAN
  /\ Margin \in Nat \ {0}
  /\ TTL \in Nat
  /\ Margin < TTL
  /\ MaxTime \in Nat
  /\ MaxNames \in Nat \ {0}
  /\ MaxFaults \in Nat

VARIABLES
  now,       \* the clock
  rows,      \* the store's rows: when each expires, Never or Removed
  row,       \* the Row's fields, as its mutex guards them
  names,     \* the number of names taken
  th,        \* the renewals under way
  ticker,    \* "none", "on" or "stopped"
  closing,   \* Close: "open", "stopping", "removing" or "closed"
  faults     \* the Beats that failed

vars == <<now, rows, row, names, th, ticker, closing, faults>>

Never   == 0    \* no Beat of the name has landed
Removed == -1   \* the row was ended with a ttl of 0

Threads == Callers \cup {"tick", "mark"}

Names == 1..MaxNames

-----------------------------------------------------------------------------
(* The store.                                                              *)

Alive(n) == rows[n] > 0 /\ now < rows[n]

\* Wrong: a store that forgets an expired row, so a Beat starts it again.
ExpiredForgotten(n) == FALSE

\* Beat's ErrExpired: the row is there, and its time is over.
Expired(n) == rows[n] > 0 /\ now >= rows[n]

Renewed(n) == [rows EXCEPT ![n] = now + TTL]

\* Beat with a ttl of 0.
Ended(n) == [rows EXCEPT ![n] = IF rows[n] = Never THEN Never ELSE Removed]

-----------------------------------------------------------------------------
(* The Row.                                                                *)

\* Wrong: a guard that adds the margin.
StaleWithMargin == now - row.lastSent > TTL + Margin

\* The last renewal is older than the TTL less a margin.
Stale == now - row.lastSent > TTL - Margin

\* Guard, of a Writer of the Row's own name.
GuardPasses == ~row.expired /\ ~Stale

\* Lapsed: the Instance cannot show that its row is alive.
Lapsed == row.started /\ ~row.closed /\ (row.expired \/ Stale)

Idle == [pc |-> "idle", name |-> 1, new |-> 1, sent |-> 0, ans |-> "ok"]

At(t, pc) == th[t].pc = pc

Goto(t, pc) == th' = [th EXCEPT ![t].pc = pc]

\* A renewal is over: Live looks at what it returned, the others ignore it.
\* Only the first Drain marks the row, so MarkDraining renews once.
Return(t, ans) ==
  th' = [th EXCEPT ![t] =
           CASE t \in Callers -> [Idle EXCEPT !.pc = "returned", !.ans = ans]
             [] t = "mark"    -> [Idle EXCEPT !.pc = "done"]
             [] t = "tick"    -> Idle]

-----------------------------------------------------------------------------
(* renew and reregister, by any thread.                                    *)

\* Live, of a Row that has not started.
Live(t) ==
  /\ t \in Callers
  /\ At(t, "idle")
  /\ ~row.started
  /\ ~row.closed
  /\ Goto(t, "renew")
  /\ UNCHANGED <<now, rows, row, names, ticker, closing, faults>>

\* The ticker fires.  When is left open: a tick may be late by any amount.
Tick ==
  /\ ticker = "on"
  /\ At("tick", "idle")
  /\ Goto("tick", "renew")
  /\ UNCHANGED <<now, rows, row, names, ticker, closing, faults>>

\* MarkDraining, which renews the row when it has one.  A Runner is drained
\* before it is closed.
MarkDraining ==
  /\ Draining
  /\ At("mark", "idle")
  /\ row.started
  /\ Goto("mark", "renew")
  /\ UNCHANGED <<now, rows, row, names, ticker, closing, faults>>

\* The name, under the lock.
ReadName(t) ==
  /\ At(t, "renew")
  /\ th' = [th EXCEPT ![t] = [Idle EXCEPT !.pc = "named", !.name = row.instance]]
  /\ UNCHANGED <<now, rows, row, names, ticker, closing, faults>>

\* The time it is sent, before the Beat.
Send(t) ==
  /\ At(t, "named")
  /\ th' = [th EXCEPT ![t].pc = "beat", ![t].sent = now]
  /\ UNCHANGED <<now, rows, row, names, ticker, closing, faults>>

\* The Beat reaches the store, and its answer comes back.
Beat(t) ==
  /\ At(t, "beat")
  /\ IF Expired(th[t].name)
     THEN /\ th' = [th EXCEPT ![t].pc = "answered", ![t].ans = "expired"]
          /\ UNCHANGED rows
     ELSE /\ th' = [th EXCEPT ![t].pc = "answered", ![t].ans = "ok"]
          /\ rows' = Renewed(th[t].name)
  /\ UNCHANGED <<now, row, names, ticker, closing, faults>>

\* The call fails, with the Beat done or not.
BeatFails(t) ==
  /\ At(t, "beat")
  /\ faults < MaxFaults
  /\ faults' = faults + 1
  /\ \/ UNCHANGED rows
     \/ /\ ~Expired(th[t].name)
        /\ rows' = Renewed(th[t].name)
  /\ th' = [th EXCEPT ![t].pc = "answered", ![t].ans = "error"]
  /\ UNCHANGED <<now, row, names, ticker, closing>>

\* Wrong: the guard counts from the answer.
NoteAnswered(t) ==
  /\ At(t, "answered")
  /\ row' = [row EXCEPT
               !.expired = row.expired \/ th[t].ans = "expired",
               !.lastSent = IF th[t].ans = "ok" THEN now ELSE row.lastSent]
  /\ IF th[t].ans = "expired" /\ ~row.closed
     THEN Goto(t, "register")
     ELSE Return(t, th[t].ans)
  /\ UNCHANGED <<now, rows, names, ticker, closing, faults>>

\* The lock again: an expired row ends the name, a renewed one is counted
\* from when the Beat was sent.
Note(t) ==
  /\ At(t, "answered")
  /\ row' = [row EXCEPT
               !.expired = row.expired \/ th[t].ans = "expired",
               !.lastSent = IF th[t].ans = "ok" /\ th[t].sent > row.lastSent
                            THEN th[t].sent ELSE row.lastSent]
  /\ IF th[t].ans = "expired" /\ ~row.closed
     THEN Goto(t, "register")
     ELSE Return(t, th[t].ans)
  /\ UNCHANGED <<now, rows, names, ticker, closing, faults>>

\* Wrong: the name is another one than the one handed out.
NewNameAhead(t) ==
  /\ At(t, "register")
  /\ names < MaxNames
  /\ names' = names + 1
  /\ th' = [th EXCEPT ![t].pc = "first", ![t].sent = now, ![t].new = names + 2]
  /\ UNCHANGED <<now, rows, row, ticker, closing, faults>>

\* reregister: a new name, and the time its Beat is sent.
NewName(t) ==
  /\ At(t, "register")
  /\ names < MaxNames
  /\ names' = names + 1
  /\ th' = [th EXCEPT ![t].pc = "first", ![t].sent = now, ![t].new = names + 1]
  /\ UNCHANGED <<now, rows, row, ticker, closing, faults>>

\* The new name's first Beat.
Register(t) ==
  /\ At(t, "first")
  /\ rows' = Renewed(th[t].new)
  /\ Goto(t, "registered")
  /\ UNCHANGED <<now, row, names, ticker, closing, faults>>

\* It fails, done or not: the name is given up, and the Row stays expired.
RegisterFails(t) ==
  /\ At(t, "first")
  /\ faults < MaxFaults
  /\ faults' = faults + 1
  /\ rows' \in {rows, Renewed(th[t].new)}
  /\ Return(t, "error")
  /\ UNCHANGED <<now, row, names, ticker, closing>>

\* Wrong: the new name is taken, and the Row still counts as expired.
AdoptStaysExpired(t) ==
  /\ At(t, "registered")
  /\ IF row.closed \/ row.instance # th[t].name
     THEN /\ Goto(t, "undo")
          /\ UNCHANGED row
     ELSE /\ Goto(t, "retire")
          /\ row' = [row EXCEPT !.instance = th[t].new, !.lastSent = th[t].sent]
  /\ UNCHANGED <<now, rows, names, ticker, closing, faults>>

\* Wrong: the new name counts from when the Row takes it.
AdoptAnswered(t) ==
  /\ At(t, "registered")
  /\ IF row.closed \/ row.instance # th[t].name
     THEN /\ Goto(t, "undo")
          /\ UNCHANGED row
     ELSE /\ Goto(t, "retire")
          /\ row' = [row EXCEPT !.instance = th[t].new, !.expired = FALSE, !.lastSent = now]
  /\ UNCHANGED <<now, rows, names, ticker, closing, faults>>

\* The lock again: the Row takes the name, unless it was closed meanwhile or
\* another renewal took one first.
Adopt(t) ==
  /\ At(t, "registered")
  /\ IF row.closed \/ row.instance # th[t].name
     THEN /\ Goto(t, "undo")
          /\ UNCHANGED row
     ELSE /\ Goto(t, "retire")
          /\ row' = [row EXCEPT !.instance = th[t].new, !.expired = FALSE,
                                !.lastSent = th[t].sent]
  /\ UNCHANGED <<now, rows, names, ticker, closing, faults>>

\* The row of a name that is not used is removed, best effort: the new one
\* nobody took, or the old one.
Forget(t) ==
  /\ th[t].pc \in {"undo", "retire"}
  /\ LET n == IF At(t, "undo") THEN th[t].new ELSE th[t].name IN
     \/ /\ rows' = Ended(n)
        /\ UNCHANGED faults
     \/ /\ faults < MaxFaults
        /\ faults' = faults + 1
        /\ rows' \in {rows, Ended(n)}
  /\ Return(t, "ok")
  /\ UNCHANGED <<now, row, names, ticker, closing>>

\* Wrong: a Live that does not look whether the Row was closed meanwhile.
StartClosed(t) ==
  /\ At(t, "returned")
  /\ th' = [th EXCEPT ![t] = Idle]
  /\ IF th[t].ans = "ok" /\ ~row.started /\ ~row.closed
     THEN /\ row' = [row EXCEPT !.started = TRUE]
          /\ ticker' = "on"
     ELSE UNCHANGED <<row, ticker>>
  /\ UNCHANGED <<now, rows, names, closing, faults>>

\* Live's last part: the renewals start, unless the renewal failed or another
\* caller started them.  A Row that was closed meanwhile ends its row, under
\* the lock.
Start(t) ==
  /\ At(t, "returned")
  /\ th' = [th EXCEPT ![t] = Idle]
  /\ \/ /\ th[t].ans = "ok"
        /\ row.closed
        /\ \/ /\ rows' = Ended(row.instance)
              /\ UNCHANGED faults
           \/ /\ faults < MaxFaults
              /\ faults' = faults + 1
              /\ rows' \in {rows, Ended(row.instance)}
        /\ UNCHANGED <<row, ticker>>
     \/ /\ th[t].ans = "ok"
        /\ ~row.closed
        /\ ~row.started
        /\ row' = [row EXCEPT !.started = TRUE]
        /\ ticker' = "on"
        /\ UNCHANGED <<rows, faults>>
     \/ /\ th[t].ans # "ok" \/ (row.started /\ ~row.closed)
        /\ UNCHANGED <<rows, row, ticker, faults>>
  /\ UNCHANGED <<now, names, closing>>

-----------------------------------------------------------------------------
(* Close, once the drain is over.                                          *)

Close ==
  /\ closing = "open"
  /\ th["mark"].pc \in {"idle", "done"}
  /\ row' = [row EXCEPT !.started = FALSE, !.closed = TRUE, !.expired = TRUE]
  /\ IF row.started
     THEN closing' = "stopping" /\ ticker' = "stopped"
     ELSE closing' = "closed" /\ UNCHANGED ticker
  /\ UNCHANGED <<now, rows, names, th, faults>>

\* Stop returns once a tick that is running has.
CloseStopped ==
  /\ closing = "stopping"
  /\ At("tick", "idle")
  /\ closing' = "removing"
  /\ UNCHANGED <<now, rows, row, names, th, ticker, faults>>

CloseRemoves ==
  /\ closing = "removing"
  /\ closing' = "closed"
  /\ \/ /\ rows' = Ended(row.instance)
        /\ UNCHANGED faults
     \/ /\ faults < MaxFaults
        /\ faults' = faults + 1
        /\ rows' \in {rows, Ended(row.instance)}
  /\ UNCHANGED <<now, row, names, th, ticker>>

-----------------------------------------------------------------------------

Advance ==
  /\ now < MaxTime
  /\ now' = now + 1
  /\ UNCHANGED <<rows, row, names, th, ticker, closing, faults>>

Init ==
  /\ now = 0
  /\ rows = [n \in Names |-> Never]
  /\ row = [started |-> FALSE, closed |-> FALSE, lastSent |-> -TTL,
            expired |-> FALSE, instance |-> 1]
  /\ names = 1
  /\ th = [t \in Threads |-> Idle]
  /\ ticker = "none"
  /\ closing = "open"
  /\ faults = 0

\* A renewal goes on.
Renewal(t) ==
  \/ ReadName(t) \/ Send(t) \/ Beat(t) \/ Note(t)
  \/ NewName(t) \/ Register(t) \/ Adopt(t) \/ Forget(t) \/ Start(t)

Next ==
  \/ Advance
  \/ \E t \in Threads : Live(t) \/ Renewal(t) \/ BeatFails(t) \/ RegisterFails(t)
  \/ Tick \/ MarkDraining
  \/ Close \/ CloseStopped \/ CloseRemoves

Spec == Init /\ [][Next]_vars

\* A goroutine that may go on does, and the timer fires again.
Fairness ==
  /\ \A t \in Threads : WF_vars(Renewal(t))
  /\ WF_vars(Tick)
  /\ WF_vars(CloseStopped \/ CloseRemoves)

FairSpec == Spec /\ Fairness

-----------------------------------------------------------------------------
(* Properties.                                                             *)

ThreadPc == {"idle", "renew", "named", "beat", "answered", "register", "first",
             "registered", "undo", "retire", "returned", "done"}

\* Every variable has its type, and the Row has a name that was handed out.
TypeOK ==
  /\ now \in 0..MaxTime
  /\ rows \in [Names -> {Never, Removed} \cup (1..(MaxTime + TTL))]
  /\ row \in [started : BOOLEAN, closed : BOOLEAN, expired : BOOLEAN,
              lastSent : (-TTL)..MaxTime, instance : 1..names]
  /\ names \in Names
  /\ th \in [Threads -> [pc : ThreadPc, name : 1..names, new : 1..names,
                         sent : 0..MaxTime, ans : {"ok", "expired", "error"}]]
  /\ ticker \in {"none", "on", "stopped"}
  /\ closing \in {"open", "stopping", "removing", "closed"}
  /\ faults \in 0..MaxFaults

\* "a paused or cut-off Instance stops before the store could have let another
\* Instance take its Sessions" (Guard): while the guard lets a write pass, the
\* row of the Row's name is alive in the store.
GuardMeansAlive == GuardPasses => Alive(row.instance)

\* "A row that has expired never comes back" (specs/host.md): once a name's row
\* was alive and is not, no step makes it alive again.  It is what
\* SessionClaims takes for granted of the rows.
DeadRowsStayDead ==
  [][\A n \in Names : rows[n] # Never /\ ~Alive(n) => ~Alive(n)']_vars

\* Close leaves no row behind, when no call to the store failed, however it
\* meets the first Live and a tick.
ClosedLeavesNoRow ==
  /\ closing = "closed"
  /\ faults = 0
  /\ \A t \in Threads : th[t].pc \in {"idle", "done"}
  => \A n \in Names : ~Alive(n)

\* What the Row believes: the row of its name lives at least until TTL after
\* the last Beat it counted.  It is stronger than GuardMeansAlive.
Believed == ~row.expired /\ row.lastSent >= 0 => rows[row.instance] >= row.lastSent + TTL

\* A Beat of a name that was given up is counted for the one in use.
StrayNote ==
  \E t \in Threads : Note(t) /\ th[t].ans = "ok" /\ th[t].name # row.instance

\* However renewals overlap, expire, fail and take names, one thing alone makes
\* the guard's belief false: the late answer of a Beat of a name given up, which
\* renew counts without comparing the names (heartbeat.go:218).
OnlyStraysFoolTheGuard == [][Believed => Believed' \/ StrayNote]_vars

\* However renewals overlap, an expired row is never alive again: a Beat brings
\* back only a row that was removed, of a Row that is closed or of a name that
\* was given up.
OnlyRemovedRowsComeBack ==
  [][\A n \in Names : rows[n] # Never /\ ~Alive(n) /\ Alive(n)' =>
       rows[n] = Removed /\ (row.closed \/ n # row.instance)]_vars

\* However callers of Live, a tick and MarkDraining overlap and meet Close, and
\* whatever expired before: when all is over and no call to the store failed, no
\* row of the Row's name is left.
CloseEndsItsRow ==
  /\ closing = "closed"
  /\ faults = 0
  /\ \A t \in Threads : th[t].pc \in {"idle", "done"}
  => ~Alive(row.instance)

\* "The Row recovers by itself when the store answers again" (Lapsed): a lapse
\* ends, with a renewal, a new name or Close.
Recovers == Lapsed ~> ~Lapsed

=============================================================================
