--------------------------- MODULE HostRunsProofs ---------------------------
(***************************************************************************)
(* What the Runs of a Session keep, for any calls, any limit and any mix   *)
(* of stops, cancellations, failures and drains.                           *)
(*                                                                         *)
(* Every step is one of five kinds (Cases): of an admitted Run or an Edit, *)
(* of a Send, of a stop, of the drain or a context, or none.  CallStep     *)
(* says for the first what place the call moves to, what its handle is     *)
(* there, and which borders only certain actions cross.  The invariants    *)
(* follow from that: Base (types, what a place says of its handle, who is  *)
(* in the queue of the lock and in the table), the counts of the table,    *)
(* the drain, the stops under way, and the messages.                       *)
(***************************************************************************)
EXTENDS HostRuns, Integers, FiniteSetTheorems, SequenceTheorems, WellFoundedInduction, TLAPS

\* What a handle, a stop under way and the state are.
Handle ==
  [stopped : BOOLEAN, settled : BOOLEAN, stopNext : BOOLEAN, abort : BOOLEAN,
   drained : BOOLEAN, live : BOOLEAN, over : BOOLEAN, ready : BOOLEAN,
   wait : BOOLEAN, gen : Nat, queue : Seq(Send), next : Seq(Send), follow : Seq(Send),
   canceled : BOOLEAN, aborted : BOOLEAN, completed : BOOLEAN, counted : BOOLEAN]

\* A stop under way: the handle and the Run of it that it was aimed at.
Stop == [at : Call, gen : Nat, abort : BOOLEAN]

\* What became of a message.
Fate == {"none", "queued", "committed", "dropped"}

\* Every variable has its type; TypeOK of HostRuns adds the bounds of the counters.
Types ==
  /\ pc \in [Call -> Pc]
  /\ held \in BOOLEAN
  /\ waiters \in Seq(Call)
  /\ inflight \in Int /\ locked \in Int
  /\ table \in Seq(Call)
  /\ draining \in BOOLEAN /\ drained \in BOOLEAN
  /\ toStop \subseteq Call
  /\ h \in [Call -> Handle]
  /\ acts \subseteq Stop
  /\ send \in [Send -> [at : SUBSET Call, gen : Nat, waited : BOOLEAN]]
  /\ accepted \in Seq(Send)
  /\ fate \in [Send -> Fate]
  /\ ctxEnded \subseteq Call
  /\ left \in [wait : BOOLEAN, queue : Nat, calls : SUBSET Call, stops : Nat,
               cancels : Nat, fails : Nat, drains : Nat]

\* A nonempty set of naturals has a least element (SelectInSeq picks it).
LEMMA Least ==
  ASSUME NEW T \in SUBSET Nat, T # {}
  PROVE  Min(T) \in T /\ \A y \in T : Min(T) <= y
<1>1. PICK x \in T : \A y \in T : ~ (<<y, x>> \in OpToRel(<, Nat))
  BY NatLessThanWellFounded, WFMin
<1>2. \A y \in T : x <= y
  <2> SUFFICES ASSUME NEW y \in T, y < x PROVE FALSE
    OBVIOUS
  <2>1. <<y, x>> \in Nat \X Nat /\ <<y, x>>[1] = y /\ <<y, x>>[2] = x
    OBVIOUS
  <2>2. <<y, x>> \in OpToRel(<, Nat)
    BY <2>1 DEF OpToRel
  <2>3. QED
    BY <1>1, <2>2
<1>3. QED
  BY <1>2 DEF Min

\* What the removal of an element leaves.
LEMMA RemoveFacts ==
  ASSUME NEW S, NEW s \in Seq(S), NEW n \in DOMAIN s,
         \A j, k \in DOMAIN s : s[j] = s[k] => j = k
  PROVE  LET t == RemoveFirst(s, s[n])
         IN  /\ t \in Seq(S)
             /\ \A j, k \in DOMAIN t : t[j] = t[k] => j = k
             /\ \A d \in S : (\E k \in DOMAIN t : t[k] = d) <=>
                             (d # s[n] /\ \E k \in DOMAIN s : s[k] = d)
<1> DEFINE c == s[n]
           I == {i \in 1..Len(s) : s[i] = c}
           t == RemoveFirst(s, c)
           L == Len(s)
<1>1. I \in SUBSET Nat /\ I # {} /\ L \in Nat /\ DOMAIN s = 1..L
  OBVIOUS
<1>2. Min(I) = n
  <2>1. Min(I) \in I
    BY <1>1, Least
  <2>2. QED
    BY <1>1, <2>1
<1>3. SelectInSeq(s, LAMBDA d : d = c) = n
  BY <1>1, <1>2 DEF SelectInSeq
<1>4. t = SubSeq(s, 1, n - 1) \o SubSeq(s, n + 1, L)
  BY <1>1, <1>3 DEF RemoveFirst, RemoveAt
<1>5. /\ t \in Seq(S) /\ Len(t) = L - 1 /\ DOMAIN t = 1..(L - 1)
      /\ \A k \in 1..(L - 1) : t[k] = IF k < n THEN s[k] ELSE s[k + 1]
  <2> DEFINE a == SubSeq(s, 1, n - 1)
             b == SubSeq(s, n + 1, L)
  <2>1. a \in Seq(S) /\ Len(a) = n - 1 /\ \A k \in 1..(n - 1) : a[k] = s[k]
    BY <1>1
  <2>2. b \in Seq(S) /\ Len(b) = L - n /\ \A k \in 1..(L - n) : b[k] = s[n + k]
    BY SMTT(30), <1>1
  <2>3. t = a \o b
    BY <1>4
  <2> HIDE DEF a, b, t
  <2>4. /\ t \in Seq(S) /\ Len(t) = Len(a) + Len(b) /\ DOMAIN t = 1..(Len(a) + Len(b))
        /\ \A k \in 1..(Len(a) + Len(b)) : t[k] = IF k <= Len(a) THEN a[k] ELSE b[k - Len(a)]
    <3>1. /\ t \in Seq(S) /\ Len(t) = Len(a) + Len(b)
          /\ \A k \in 1..(Len(a) + Len(b)) : t[k] = IF k <= Len(a) THEN a[k] ELSE b[k - Len(a)]
      <4>1. a \in Seq(S) /\ b \in Seq(S)
        BY <2>1, <2>2
      <4>2. /\ a \o b \in Seq(S) /\ Len(a \o b) = Len(a) + Len(b)
            /\ \A k \in 1..(Len(a) + Len(b)) :
                 (a \o b)[k] = IF k <= Len(a) THEN a[k] ELSE b[k - Len(a)]
        BY <4>1, ConcatProperties, ZenonT(40)
      <4>3. QED
        BY <2>3, <4>2, Zenon
    <3>2. QED
      BY <3>1
  <2>5. Len(a) + Len(b) = L - 1 /\ n \in 1..L
    BY <1>1, <2>1, <2>2
  <2>6. ASSUME NEW k \in 1..(L - 1)
        PROVE  t[k] = IF k < n THEN s[k] ELSE s[k + 1]
    <3>1. CASE k < n
      BY <1>1, <2>1, <2>4, <2>5, <3>1
    <3>2. CASE ~(k < n)
      <4>1. t[k] = b[k - (n - 1)] /\ k - (n - 1) \in 1..(L - n)
        BY SMTT(30), <1>1, <2>1, <2>4, <2>5, <3>2
      <4>2. b[k - (n - 1)] = s[n + (k - (n - 1))]
        BY <2>2, <4>1
      <4>3. n + (k - (n - 1)) = k + 1
        BY <2>5
      <4>4. QED
        BY <3>2, <4>1, <4>2, <4>3
    <3>3. QED
      BY <3>1, <3>2
  <2>7. QED
    BY <2>4, <2>5, <2>6
<1> HIDE DEF t, L, I
<1>6. \A j, k \in DOMAIN t : t[j] = t[k] => j = k
  <2>1. \A k \in 1..(L - 1) : k \in DOMAIN s /\ k + 1 \in DOMAIN s
    BY <1>1
  <2>2. SUFFICES ASSUME NEW j \in 1..(L - 1), NEW k \in 1..(L - 1), t[j] = t[k]
                 PROVE  j = k
    BY <1>5
  <2>3. CASE j < n /\ k < n
    BY <1>1, <1>5, <2>1, <2>2, <2>3
  <2>4. CASE j < n /\ ~(k < n)
    <3>1. s[j] = s[k + 1]
      BY <1>5, <2>2, <2>4
    <3>2. QED
      BY <1>1, <2>1, <2>4, <3>1
  <2>5. CASE ~(j < n) /\ k < n
    <3>1. s[j + 1] = s[k]
      BY <1>5, <2>2, <2>5
    <3>2. QED
      BY <1>1, <2>1, <2>5, <3>1
  <2>6. CASE ~(j < n) /\ ~(k < n)
    <3>1. s[j + 1] = s[k + 1]
      BY <1>5, <2>2, <2>6
    <3>2. j + 1 = k + 1
      BY <2>1, <3>1
    <3>3. QED
      BY <3>2
  <2>7. QED
    BY <2>3, <2>4, <2>5, <2>6
<1>7. ASSUME NEW k \in DOMAIN t
      PROVE  t[k] # c /\ \E j \in DOMAIN s : s[j] = t[k]
  <2>1. k < n => t[k] = s[k] /\ k \in DOMAIN s
    BY <1>1, <1>5
  <2>2. ~(k < n) => t[k] = s[k + 1] /\ k + 1 \in DOMAIN s
    BY <1>1, <1>5
  <2>3. QED
    BY <1>1, <2>1, <2>2
<1>8. ASSUME NEW k \in DOMAIN s, s[k] # c
      PROVE  \E j \in DOMAIN t : t[j] = s[k]
  <2>1. k < n => k \in DOMAIN t /\ t[k] = s[k]
    BY <1>1, <1>5
  <2>2. k > n => (k - 1) \in DOMAIN t /\ t[k - 1] = s[k]
    BY <1>1, <1>5
  <2>3. QED
    BY <1>1, <1>8, <2>1, <2>2
<1>9. QED
  BY <1>5, <1>6, <1>7, <1>8 DEF t

\* The first element with a property is an element.
LEMMA PlaceFacts ==
  ASSUME Types
  PROVE  /\ LiveAt # 0 => LiveAt \in DOMAIN table /\ h[table[LiveAt]].live
         /\ table # <<>> => \E k \in DOMAIN table : Chosen = table[k]
<1> DEFINE I == {i \in 1..Len(table) : h[table[i]].live}
           J == {i \in 1..Len(table) : Started(table[i])}
<1>1. /\ table \in Seq(Call) /\ DOMAIN table = 1..Len(table) /\ Len(table) \in Nat
      /\ I \in SUBSET Nat /\ J \in SUBSET Nat
  BY DEF Types
<1>2. LiveAt = IF I # {} THEN Min(I) ELSE 0
  BY DEF LiveAt, SelectInSeq
<1>3. SelectInSeq(table, Started) = IF J # {} THEN Min(J) ELSE 0
  BY DEF SelectInSeq
<1>4. I # {} => Min(I) \in I
  BY <1>1, Least
<1>5. J # {} => Min(J) \in J
  BY <1>1, Least
<1>6. LiveAt # 0 => LiveAt \in DOMAIN table /\ h[table[LiveAt]].live
  BY <1>1, <1>2, <1>4
<1>7. ASSUME table # <<>>
      PROVE  \E k \in DOMAIN table : Chosen = table[k]
  <2>1. 1 \in DOMAIN table /\ Head(table) = table[1]
    BY <1>1, <1>7
  <2>2. CASE J = {}
    BY <1>3, <2>1, <2>2 DEF Chosen
  <2>3. CASE J # {}
    <3>1. SelectInSeq(table, Started) \in DOMAIN table /\ SelectInSeq(table, Started) # 0
      BY <1>1, <1>3, <1>5, <2>3
    <3>2. QED
      BY <3>1 DEF Chosen
  <2>4. QED
    BY <2>2, <2>3
<1>8. QED
  BY <1>6, <1>7

-----------------------------------------------------------------------------
\* The places before an admission.
Before == {"find", "awaitReady", "send", "stuck", "ending", "awaitOver", "admit", "check"}

\* The places of a call that only takes the Session lock.
EditPc == {"check", "admitted", "counted", "waiting", "granted", "failed", "opening",
           "unlock", "uncount", "done"}

\* A Run that has work left.
BusyPc == {"admitted", "counted", "waiting", "granted", "failed", "opening", "built",
           "attached", "running", "settling", "ended", "settled", "unlock", "uncount", "next"}

\* The live Session is built and not withdrawn.
BuiltPc == {"built", "attached", "running", "settling", "ended", "settled"}

\* What the place p of call c says of its handle x.
Local(c, p, x) ==
  /\ c \in Edit => p \in EditPc /\ x.next = <<>> /\ x.follow = <<>>
  /\ c \notin Edit => p # "check"
  /\ p \in Before => ~x.stopNext
  /\ c \notin Edit /\ p \in BusyPc => x.counted
  /\ p \in BuiltPc => x.abort
  /\ x.live => p \in BuiltPc \ {"built"}
  /\ x.queue # <<>> => p \in BuiltPc
  /\ x.next # <<>> => p \in {"unlock", "uncount", "next"}
  /\ x.follow # <<>> => p \in {"admitted", "counted", "waiting", "granted", "failed",
                                "opening", "built", "attached", "running"}
  /\ p \in {"built", "attached", "running"} => Len(x.follow) <= 1

\* Who goes on with the Session lock, who is counted by sessionLock, and who is
\* in the table.
OwnerPc == {"granted", "opening", "built", "attached", "running", "settling", "ended",
            "settled", "unlock"}
LockPc == OwnerPc \cup {"counted", "waiting", "failed", "uncount"}
TablePc == BusyPc \cup {"drainwait", "finish", "remove"}

\* Call c moves to b; a release also moves the first waiter.
Moved(c, b) ==
  \/ pc' = [pc EXCEPT ![c] = b]
  \/ /\ Granted(c) \/ Unlock(c)
     /\ waiters # <<>>
     /\ pc' = [pc EXCEPT ![c] = b, ![Head(waiters)] = "granted"]

\* The steps that cross the borders of these sets.
Crosses(c, b) ==
  /\ pc[c] = "waiting" => LeaveQueue(c)
  /\ b = "waiting" => AcquireBusy(c)
  /\ (pc[c] \in OwnerPc <=> b \in OwnerPc) \/ AcquireFree(c) \/ Granted(c) \/ Unlock(c)
  /\ (pc[c] \in LockPc <=> b \in LockPc) \/ Locked(c) \/ LockFailed(c) \/ Uncount(c)
  /\ c \notin Edit => (pc[c] \in TablePc <=> b \in TablePc) \/ Admit(c) \/ Unregister(c)
  /\ c \notin Edit => (b \in BusyPc => pc[c] \in BusyPc) \/ Admit(c)
  /\ b \in Before => pc[c] \in Before

\* A step of a Run or an Edit moves its call to a place its handle fits, and crosses
\* the borders of these sets only as it should.
LEMMA CallStep ==
  ASSUME Types, NEW c \in Call, Local(c, pc[c], h[c]), RunStep(c) \/ (c \in Edit /\ EditStep(c))
  PROVE  \E b \in Pc, v \in Handle :
           Local(c, b, v) /\ Crosses(c, b) /\ Moved(c, b) /\ h' = [h EXCEPT ![c] = v]
<1> DEFINE Goal == \E b \in Pc, v \in Handle :
                     Local(c, b, v) /\ Crosses(c, b) /\ Moved(c, b) /\ h' = [h EXCEPT ![c] = v]
<1>1. /\ h \in [Call -> Handle] /\ h[c] \in Handle /\ pc \in [Call -> Pc]
      /\ left.queue \in Nat
  BY DEF Types
<1>2. ASSUME NEW b \in Pc, NEW v \in Handle,
             Local(c, b, v), Crosses(c, b), Moved(c, b), h' = [h EXCEPT ![c] = v]
      PROVE  Goal
  BY <1>2
<1>3. <<>> \in Seq(Send)
  OBVIOUS
<1>0. ASSUME NEW b \in Pc, Local(c, b, h[c]), Crosses(c, b), Moved(c, b), h' = h
      PROVE  Goal
  <2>1. h' = [h EXCEPT ![c] = h[c]]
    BY <1>0, <1>1
  <2>2. QED
    BY <1>0, <1>1, <1>2, <2>1
<1> HIDE DEF Goal
<1>4. ASSUME Locked(c)
      PROVE  Goal
  <2> DEFINE b == "counted"
  <2>1. Moved(c, b) /\ h' = h
    BY <1>4 DEF Locked, Moved, Goto
  <2>2. b \in Pc /\ Local(c, b, h[c])
    BY <1>1, <1>4 DEF Locked, Local, Handle, Pc, Before, EditPc, BusyPc, BuiltPc
  <2>3. pc[c] = "admitted"
    BY <1>4 DEF Locked
  <2>4. Crosses(c, b)
    BY <1>1, <1>4, <2>3 DEF Crosses, OwnerPc, LockPc, TablePc, BusyPc, Before, EditPc, Local
  <2>5. QED
    BY <1>0, <2>1, <2>2, <2>4
<1>5. ASSUME AcquireFree(c)
      PROVE  Goal
  <2> DEFINE b == "opening"
  <2>1. Moved(c, b) /\ h' = h
    BY <1>5 DEF AcquireFree, Moved, Goto
  <2>2. b \in Pc /\ Local(c, b, h[c])
    BY <1>1, <1>5 DEF AcquireFree, Local, Handle, Pc, Before, EditPc, BusyPc, BuiltPc
  <2>3. pc[c] = "counted"
    BY <1>5 DEF AcquireFree
  <2>4. Crosses(c, b)
    BY <1>1, <1>5, <2>3 DEF Crosses, OwnerPc, LockPc, TablePc, BusyPc, Before, EditPc, Local
  <2>5. QED
    BY <1>0, <2>1, <2>2, <2>4
<1>6. ASSUME AcquireBusy(c)
      PROVE  Goal
  <2> DEFINE b == IF left.wait \/ ForceWait(c) THEN "waiting" ELSE "failed"
  <2>1. Moved(c, b) /\ h' = h
    BY <1>6 DEF AcquireBusy, Moved, Goto
  <2>2. b \in Pc /\ Local(c, b, h[c])
    BY <1>1, <1>6 DEF AcquireBusy, Local, Handle, Pc, Before, EditPc, BusyPc, BuiltPc
  <2>3. pc[c] = "counted"
    BY <1>6 DEF AcquireBusy
  <2>4. Crosses(c, b)
    BY <1>1, <1>6, <2>3 DEF Crosses, OwnerPc, LockPc, TablePc, BusyPc, Before, EditPc, Local
  <2>5. QED
    BY <1>0, <2>1, <2>2, <2>4
<1>7. ASSUME LeaveQueue(c)
      PROVE  Goal
  <2> DEFINE b == "failed"
  <2>1. Moved(c, b) /\ h' = h
    BY <1>7 DEF LeaveQueue, Moved, Goto
  <2>2. b \in Pc /\ Local(c, b, h[c])
    BY <1>1, <1>7 DEF LeaveQueue, Local, Handle, Pc, Before, EditPc, BusyPc, BuiltPc
  <2>3. pc[c] = "waiting"
    BY <1>7 DEF LeaveQueue
  <2>4. Crosses(c, b)
    BY <1>1, <1>7, <2>3 DEF Crosses, OwnerPc, LockPc, TablePc, BusyPc, Before, EditPc, Local
  <2>5. QED
    BY <1>0, <2>1, <2>2, <2>4
<1>8. ASSUME Granted(c)
      PROVE  Goal
  <2> DEFINE b == IF RunCtxDone(c) THEN "failed" ELSE "opening"
  <2>1. Moved(c, b) /\ h' = h
    BY <1>8 DEF Granted, Moved, Goto, ReleaseLock
  <2>2. b \in Pc /\ Local(c, b, h[c])
    BY <1>1, <1>8 DEF Granted, Local, Handle, Pc, Before, EditPc, BusyPc, BuiltPc
  <2>3. pc[c] = "granted"
    BY <1>8 DEF Granted
  <2>4. Crosses(c, b)
    BY <1>1, <1>8, <2>3 DEF Crosses, OwnerPc, LockPc, TablePc, BusyPc, Before, EditPc, Local
  <2>5. QED
    BY <1>0, <2>1, <2>2, <2>4
<1>9. ASSUME Unlock(c)
      PROVE  Goal
  <2> DEFINE b == "uncount"
  <2>1. Moved(c, b) /\ h' = h
    BY <1>9 DEF Unlock, Moved, Goto, ReleaseLock
  <2>2. b \in Pc /\ Local(c, b, h[c])
    BY <1>1, <1>9 DEF Unlock, Local, Handle, Pc, Before, EditPc, BusyPc, BuiltPc
  <2>3. pc[c] = "unlock"
    BY <1>9 DEF Unlock
  <2>4. Crosses(c, b)
    BY <1>1, <1>9, <2>3 DEF Crosses, OwnerPc, LockPc, TablePc, BusyPc, Before, EditPc, Local
  <2>5. QED
    BY <1>0, <2>1, <2>2, <2>4
<1>10. ASSUME LastBoundary(c)
      PROVE  Goal
  <2> DEFINE b == "settling"
  <2>1. Moved(c, b) /\ h' = h
    BY <1>10 DEF LastBoundary, Moved, Goto
  <2>2. b \in Pc /\ Local(c, b, h[c])
    BY <1>1, <1>10 DEF LastBoundary, Pending, Local, Handle, Pc, Before, EditPc, BusyPc, BuiltPc
  <2>3. pc[c] = "running"
    BY <1>10 DEF LastBoundary
  <2>4. Crosses(c, b)
    BY <1>1, <1>10, <2>3 DEF Crosses, OwnerPc, LockPc, TablePc, BusyPc, Before, EditPc, Local
  <2>5. QED
    BY <1>0, <2>1, <2>2, <2>4
<1>11. ASSUME Uncount(c)
      PROVE  Goal
  <2> DEFINE b == IF c \in Edit THEN "done" ELSE "next"
  <2>1. Moved(c, b) /\ h' = h
    BY <1>11 DEF Uncount, Moved, Goto
  <2>2. b \in Pc /\ Local(c, b, h[c])
    BY <1>1, <1>11 DEF Uncount, Local, Handle, Pc, Before, EditPc, BusyPc, BuiltPc
  <2>3. pc[c] = "uncount"
    BY <1>11 DEF Uncount
  <2>4. Crosses(c, b)
    BY <1>1, <1>11, <2>3 DEF Crosses, OwnerPc, LockPc, TablePc, BusyPc, Before, EditPc, Local
  <2>5. QED
    BY <1>0, <2>1, <2>2, <2>4
<1>12. ASSUME DrainWaitEnds(c)
      PROVE  Goal
  <2> DEFINE b == "finish"
  <2>1. Moved(c, b) /\ h' = h
    BY <1>12 DEF DrainWaitEnds, Moved, Goto
  <2>2. b \in Pc /\ Local(c, b, h[c])
    BY <1>1, <1>12 DEF DrainWaitEnds, Local, Handle, Pc, Before, EditPc, BusyPc, BuiltPc
  <2>3. pc[c] = "drainwait"
    BY <1>12 DEF DrainWaitEnds
  <2>4. Crosses(c, b)
    BY <1>1, <1>12, <2>3 DEF Crosses, OwnerPc, LockPc, TablePc, BusyPc, Before, EditPc, Local
  <2>5. QED
    BY <1>0, <2>1, <2>2, <2>4
<1>13. ASSUME CheckDraining(c)
      PROVE  Goal
  <2> DEFINE b == IF draining THEN "done" ELSE "admitted"
  <2>1. Moved(c, b) /\ h' = h
    BY <1>13 DEF CheckDraining, Moved, Goto
  <2>2. b \in Pc /\ Local(c, b, h[c])
    BY <1>1, <1>13 DEF CheckDraining, Local, Handle, Pc, Before, EditPc, BusyPc, BuiltPc
  <2>3. pc[c] = "check"
    BY <1>13 DEF CheckDraining
  <2>4. Crosses(c, b)
    BY <1>1, <1>13, <2>3 DEF Crosses, OwnerPc, LockPc, TablePc, BusyPc, Before, EditPc, Local
  <2>5. QED
    BY <1>0, <2>1, <2>2, <2>4
<1>14. ASSUME EditSession(c)
      PROVE  Goal
  <2> DEFINE b == "unlock"
  <2>1. Moved(c, b) /\ h' = h
    BY <1>14 DEF EditSession, Moved, Goto
  <2>2. b \in Pc /\ Local(c, b, h[c])
    BY <1>1, <1>14 DEF EditSession, Local, Handle, Pc, Before, EditPc, BusyPc, BuiltPc
  <2>3. pc[c] = "opening"
    BY <1>14 DEF EditSession
  <2>4. Crosses(c, b)
    BY <1>1, <1>14, <2>3 DEF Crosses, OwnerPc, LockPc, TablePc, BusyPc, Before, EditPc, Local
  <2>5. QED
    BY <1>0, <2>1, <2>2, <2>4
<1>15. ASSUME LockFailed(c)
      PROVE  Goal
  <2> DEFINE b == IF c \in Edit THEN "done" ELSE "next"
             v == [h[c] EXCEPT !.follow = <<>>]
  <2>1. v \in Handle
    BY <1>1, <1>3 DEF Handle
  <2>2. h' = [h EXCEPT ![c] = v]
    BY <1>1, <1>15 DEF LockFailed, DropFollow
  <2>3. Moved(c, b)
    BY <1>15 DEF LockFailed, Moved, Goto
  <2>4. b \in Pc /\ Local(c, b, v)
    BY <1>1, <1>15 DEF LockFailed, DropFollow, Local, Handle, Pc, Before, EditPc, BusyPc, BuiltPc
  <2>5. pc[c] = "failed"
    BY <1>15 DEF LockFailed
  <2>6. Crosses(c, b)
    BY <1>1, <1>15, <2>5 DEF Crosses, OwnerPc, LockPc, TablePc, BusyPc, Before, EditPc, Local
  <2>7. QED
    BY <1>2, <2>1, <2>2, <2>3, <2>4, <2>6
<1>16. ASSUME OpenFails(c)
      PROVE  Goal
  <2> DEFINE b == "unlock"
             v == [h[c] EXCEPT !.follow = <<>>]
  <2>1. v \in Handle
    BY <1>1, <1>3 DEF Handle
  <2>2. h' = [h EXCEPT ![c] = v]
    BY <1>1, <1>16 DEF OpenFails, DropFollow
  <2>3. Moved(c, b)
    BY <1>16 DEF OpenFails, Moved, Goto
  <2>4. b \in Pc /\ Local(c, b, v)
    BY <1>1, <1>16 DEF OpenFails, DropFollow, Local, Handle, Pc, Before, EditPc, BusyPc, BuiltPc
  <2>5. pc[c] = "opening"
    BY <1>16 DEF OpenFails
  <2>6. Crosses(c, b)
    BY <1>1, <1>16, <2>5 DEF Crosses, OwnerPc, LockPc, TablePc, BusyPc, Before, EditPc, Local
  <2>7. QED
    BY <1>2, <2>1, <2>2, <2>3, <2>4, <2>6
<1>17. ASSUME AttachLive(c)
      PROVE  Goal
  <2> DEFINE b == "attached"
             v == [h[c] EXCEPT !.live = TRUE, !.ready = TRUE]
  <2>1. v \in Handle
    BY <1>1, <1>3 DEF Handle
  <2>2. h' = [h EXCEPT ![c] = v]
    BY <1>1, <1>17 DEF AttachLive
  <2>3. Moved(c, b)
    BY <1>17 DEF AttachLive, Moved, Goto
  <2>4. b \in Pc /\ Local(c, b, v)
    BY <1>1, <1>17 DEF AttachLive, Local, Handle, Pc, Before, EditPc, BusyPc, BuiltPc
  <2>5. pc[c] = "built"
    BY <1>17 DEF AttachLive
  <2>6. Crosses(c, b)
    BY <1>1, <1>17, <2>5 DEF Crosses, OwnerPc, LockPc, TablePc, BusyPc, Before, EditPc, Local
  <2>7. QED
    BY <1>2, <2>1, <2>2, <2>3, <2>4, <2>6
<1>18. ASSUME RunStarts(c)
      PROVE  Goal
  <2> DEFINE b == "running"
             v == [h[c] EXCEPT !.aborted = h[c].stopped]
  <2>1. v \in Handle
    BY <1>1, <1>3 DEF Handle
  <2>2. h' = [h EXCEPT ![c] = v]
    BY <1>1, <1>18 DEF RunStarts
  <2>3. Moved(c, b)
    BY <1>18 DEF RunStarts, Moved, Goto
  <2>4. b \in Pc /\ Local(c, b, v)
    BY <1>1, <1>18 DEF RunStarts, Local, Handle, Pc, Before, EditPc, BusyPc, BuiltPc
  <2>5. pc[c] = "attached"
    BY <1>18 DEF RunStarts
  <2>6. Crosses(c, b)
    BY <1>1, <1>18, <2>5 DEF Crosses, OwnerPc, LockPc, TablePc, BusyPc, Before, EditPc, Local
  <2>7. QED
    BY <1>2, <2>1, <2>2, <2>3, <2>4, <2>6
<1>19. ASSUME Settle(c)
      PROVE  Goal
  <2> DEFINE b == "settled"
             v == [h[c] EXCEPT !.settled = TRUE]
  <2>1. v \in Handle
    BY <1>1, <1>3 DEF Handle
  <2>2. h' = [h EXCEPT ![c] = v]
    BY <1>1, <1>19 DEF Settle
  <2>3. Moved(c, b)
    BY <1>19 DEF Settle, Moved, Goto
  <2>4. b \in Pc /\ Local(c, b, v)
    BY <1>1, <1>19 DEF Settle, Local, Handle, Pc, Before, EditPc, BusyPc, BuiltPc
  <2>5. pc[c] = "ended"
    BY <1>19 DEF Settle
  <2>6. Crosses(c, b)
    BY <1>1, <1>19, <2>5 DEF Crosses, OwnerPc, LockPc, TablePc, BusyPc, Before, EditPc, Local
  <2>7. QED
    BY <1>2, <2>1, <2>2, <2>3, <2>4, <2>6
<1>20. ASSUME FollowOn(c)
      PROVE  Goal
  <2> DEFINE b == "admitted"
             v == Rearm(h[c])
  <2>1. v \in Handle
    BY ZenonT(30), <1>1, <1>3 DEF Handle, Rearm
  <2>2. h' = [h EXCEPT ![c] = v]
    BY <1>1, <1>20 DEF FollowOn, Rearm
  <2>3. Moved(c, b)
    BY <1>20 DEF FollowOn, Moved, Goto
  <2>4. b \in Pc /\ Local(c, b, v)
    BY <1>1, <1>20 DEF FollowOn, Rearm, Local, Handle, Pc, Before, EditPc, BusyPc, BuiltPc
  <2>5. pc[c] = "next"
    BY <1>20 DEF FollowOn
  <2>6. Crosses(c, b)
    BY <1>1, <1>20, <2>5 DEF Crosses, OwnerPc, LockPc, TablePc, BusyPc, Before, EditPc, Local
  <2>7. QED
    BY <1>2, <2>1, <2>2, <2>3, <2>4, <2>6
<1>21. ASSUME Finish(c)
      PROVE  Goal
  <2> DEFINE b == "remove"
             v == [h[c] EXCEPT !.ready = TRUE]
  <2>1. v \in Handle
    BY <1>1, <1>3 DEF Handle
  <2>2. h' = [h EXCEPT ![c] = v]
    BY <1>1, <1>21 DEF Finish
  <2>3. Moved(c, b)
    BY <1>21 DEF Finish, Moved, Goto
  <2>4. b \in Pc /\ Local(c, b, v)
    BY <1>1, <1>21 DEF Finish, Local, Handle, Pc, Before, EditPc, BusyPc, BuiltPc
  <2>5. pc[c] = "finish"
    BY <1>21 DEF Finish
  <2>6. Crosses(c, b)
    BY <1>1, <1>21, <2>5 DEF Crosses, OwnerPc, LockPc, TablePc, BusyPc, Before, EditPc, Local
  <2>7. QED
    BY <1>2, <2>1, <2>2, <2>3, <2>4, <2>6
<1>22. ASSUME Unregister(c)
      PROVE  Goal
  <2> DEFINE b == "release"
             v == [h[c] EXCEPT !.over = TRUE]
  <2>1. v \in Handle
    BY <1>1, <1>3 DEF Handle
  <2>2. h' = [h EXCEPT ![c] = v]
    BY <1>1, <1>22 DEF Unregister
  <2>3. Moved(c, b)
    BY <1>22 DEF Unregister, Moved, Goto
  <2>4. b \in Pc /\ Local(c, b, v)
    BY <1>1, <1>22 DEF Unregister, Local, Handle, Pc, Before, EditPc, BusyPc, BuiltPc
  <2>5. pc[c] = "remove"
    BY <1>22 DEF Unregister
  <2>6. Crosses(c, b)
    BY <1>1, <1>22, <2>5 DEF Crosses, OwnerPc, LockPc, TablePc, BusyPc, Before, EditPc, Local
  <2>7. QED
    BY <1>2, <2>1, <2>2, <2>3, <2>4, <2>6
<1>23. ASSUME Done(c)
      PROVE  Goal
  <2> DEFINE b == "done"
             v == [h[c] EXCEPT !.counted = FALSE]
  <2>1. v \in Handle
    BY <1>1, <1>3 DEF Handle
  <2>2. h' = [h EXCEPT ![c] = v]
    BY <1>1, <1>23 DEF Done
  <2>3. Moved(c, b)
    BY <1>23 DEF Done, Moved, Goto
  <2>4. b \in Pc /\ Local(c, b, v)
    BY <1>1, <1>23 DEF Done, Local, Handle, Pc, Before, EditPc, BusyPc, BuiltPc
  <2>5. pc[c] = "release"
    BY <1>23 DEF Done
  <2>6. Crosses(c, b)
    BY <1>1, <1>23, <2>5 DEF Crosses, OwnerPc, LockPc, TablePc, BusyPc, Before, EditPc, Local
  <2>7. QED
    BY <1>2, <2>1, <2>2, <2>3, <2>4, <2>6
<1>24. ASSUME Admit(c)
      PROVE  Goal
  <2> DEFINE b == IF AdmitOk THEN "admitted" ELSE "done"
             v == IF AdmitOk THEN NewHandle(c \in Send /\ send[c].waited) ELSE h[c]
  <2>0. (c \in Send /\ send[c].waited) \in BOOLEAN
    BY DEF Types
  <2>1. v \in Handle
    BY <1>1, <1>3, <2>0 DEF Handle, NewHandle
  <2>2. h' = [h EXCEPT ![c] = v]
    BY <1>1, <1>24 DEF Admit
  <2>3. Moved(c, b)
    BY <1>24 DEF Admit, Moved, Goto
  <2>4. b \in Pc /\ Local(c, b, v)
    BY <1>1, <1>24, <2>0 DEF Admit, NewHandle, Local, Handle, Pc, Before, EditPc, BusyPc, BuiltPc
  <2>5. pc[c] = "admit"
    BY <1>24 DEF Admit
  <2>6. Crosses(c, b)
    BY <1>1, <1>24, <2>5 DEF Crosses, OwnerPc, LockPc, TablePc, BusyPc, Before, EditPc, Local
  <2>7. QED
    BY <1>2, <2>1, <2>2, <2>3, <2>4, <2>6
<1>25. ASSUME StartRun(c)
      PROVE  Goal
  <2> DEFINE rest  == IF h[c].follow = <<>> THEN <<>> ELSE Tail(h[c].follow)
             first == SubSeq(h[c].follow, 1, Len(h[c].follow) - Len(rest))
             fit   == IF Len(rest) <= left.queue THEN rest ELSE SubSeq(rest, 1, left.queue)
             v == [h[c] EXCEPT !.queue = fit, !.follow = first, !.abort = TRUE,
                               !.aborted = FALSE, !.completed = FALSE]
  <2>1. h[c].follow \in Seq(Send)
    BY <1>1 DEF Handle
  <2>2. rest \in Seq(Send) /\ (h[c].follow # <<>> => Len(rest) = Len(h[c].follow) - 1)
    BY <2>1
  <2>3. first \in Seq(Send) /\ Len(first) <= 1
    BY <2>1, <2>2
  <2>4. fit \in Seq(Send)
    BY <1>1, <2>2
  <2>5. h' = [h EXCEPT ![c] = v] /\ pc[c] = "opening" /\ c \notin Edit
    BY <1>1, <1>25 DEF StartRun
  <2> HIDE DEF rest, first, fit
  <2>6. v \in Handle
    BY <1>1, <2>3, <2>4 DEF Handle
  <2>7. Moved(c, "built")
    BY <1>25 DEF StartRun, Moved, Goto
  <2>8. "built" \in Pc /\ Local(c, "built", v)
    BY <1>1, <2>3, <2>4, <2>5 DEF Local, Handle, Pc, Before, EditPc, BusyPc, BuiltPc
  <2>9. Crosses(c, "built")
    BY <2>5 DEF Crosses, OwnerPc, LockPc, TablePc, BusyPc, Before, EditPc, Local
  <2>10. QED
    BY <1>2, <2>5, <2>6, <2>7, <2>8, <2>9
<1>26. ASSUME Commit(c)
      PROVE  Goal
  <2> DEFINE v == IF h[c].follow # <<>> THEN [h[c] EXCEPT !.follow = <<>>]
                  ELSE [h[c] EXCEPT !.queue = Tail(h[c].queue)]
  <2>1. pc[c] = "running" /\ (h[c].follow = <<>> => h[c].queue # <<>>) /\ pc' = pc
    BY <1>26 DEF Commit
  <2>2. h[c].follow = <<>> => Tail(h[c].queue) \in Seq(Send)
    BY <1>1, <2>1 DEF Handle
  <2>3. h' = [h EXCEPT ![c] = v]
    BY <1>1, <1>26 DEF Commit
  <2>4. v \in Handle
    BY <1>1, <1>3, <2>2 DEF Handle
  <2>5. Moved(c, "running")
    BY <1>1, <2>1 DEF Moved
  <2>6. "running" \in Pc /\ Local(c, "running", v)
    BY <1>1, <2>1, <2>2 DEF Local, Handle, Pc, Before, EditPc, BusyPc, BuiltPc
  <2>7. Crosses(c, "running")
    BY <2>1 DEF Crosses, OwnerPc, LockPc, TablePc, BusyPc, Before, EditPc, Local
  <2>8. QED
    BY <1>2, <2>3, <2>4, <2>5, <2>6, <2>7
<1>27. ASSUME PromptReturns(c)
      PROVE  Goal
  <2>1. Moved(c, "ended")
    BY <1>27 DEF PromptReturns, Moved, Goto
  <2>2. ASSUME pc[c] = "settling",
               h' = [h EXCEPT ![c].completed = TRUE]
        PROVE  Goal
    <3> DEFINE v == [h[c] EXCEPT !.completed = TRUE]
    <3>1. v \in Handle /\ h' = [h EXCEPT ![c] = v]
      BY <1>1, <1>3, <2>2 DEF Handle
    <3>2. "ended" \in Pc /\ Local(c, "ended", v)
      BY <1>1, <2>2 DEF Local, Handle, Pc, Before, EditPc, BusyPc, BuiltPc
    <3>3. Crosses(c, "ended")
      BY <2>2 DEF Crosses, OwnerPc, LockPc, TablePc, BusyPc, Before, EditPc, Local
    <3>4. QED
      BY <1>2, <2>1, <3>1, <3>2, <3>3
  <2>3. ASSUME pc[c] \in {"attached", "running"},
               h' = [h EXCEPT ![c].follow = <<>>]
        PROVE  Goal
    <3> DEFINE v == [h[c] EXCEPT !.follow = <<>>]
    <3>1. v \in Handle /\ h' = [h EXCEPT ![c] = v]
      BY <1>1, <1>3, <2>3 DEF Handle
    <3>2. "ended" \in Pc /\ Local(c, "ended", v)
      BY <1>1, <2>3 DEF Local, Handle, Pc, Before, EditPc, BusyPc, BuiltPc
    <3>3. Crosses(c, "ended")
      BY <2>3 DEF Crosses, OwnerPc, LockPc, TablePc, BusyPc, Before, EditPc, Local
    <3>4. QED
      BY <1>2, <2>1, <3>1, <3>2, <3>3
  <2>4. ASSUME pc[c] \in {"running", "settling"},
               h' = [h EXCEPT ![c].follow = <<>>, ![c].queue = <<>>]
        PROVE  Goal
    <3> DEFINE v == [h[c] EXCEPT !.follow = <<>>, !.queue = <<>>]
    <3>1. v \in Handle /\ h' = [h EXCEPT ![c] = v]
      BY <1>1, <1>3, <2>4 DEF Handle
    <3>2. "ended" \in Pc /\ Local(c, "ended", v)
      BY <1>1, <2>4 DEF Local, Handle, Pc, Before, EditPc, BusyPc, BuiltPc
    <3>3. Crosses(c, "ended")
      BY <2>4 DEF Crosses, OwnerPc, LockPc, TablePc, BusyPc, Before, EditPc, Local
    <3>4. QED
      BY <1>2, <2>1, <3>1, <3>2, <3>3
  <2>5. QED
    BY <1>27, <2>2, <2>3, <2>4 DEF PromptReturns
<1>28. ASSUME DetachLive(c)
      PROVE  Goal
  <2>1. Moved(c, "unlock")
    BY <1>28 DEF DetachLive, Moved, Goto
  <2>2. ASSUME pc[c] = "settled",
               h' = [h EXCEPT ![c].live = FALSE, ![c].queue = <<>>]
        PROVE  Goal
    <3> DEFINE v == [h[c] EXCEPT !.live = FALSE, !.queue = <<>>]
    <3>1. v \in Handle /\ h' = [h EXCEPT ![c] = v]
      BY <1>1, <1>3, <2>2 DEF Handle
    <3>2. "unlock" \in Pc /\ Local(c, "unlock", v)
      BY <1>1, <2>2 DEF Local, Handle, Pc, Before, EditPc, BusyPc, BuiltPc
    <3>3. Crosses(c, "unlock")
      BY <2>2 DEF Crosses, OwnerPc, LockPc, TablePc, BusyPc, Before, EditPc, Local
    <3>4. QED
      BY <1>2, <2>1, <3>1, <3>2, <3>3
  <2>3. ASSUME pc[c] = "settled",
               h' = [h EXCEPT ![c].live = FALSE, ![c].queue = <<>>,
                             ![c].next = h[c].queue, ![c].ready = FALSE, ![c].gen = @ + 1]
        PROVE  Goal
    <3> DEFINE v == [h[c] EXCEPT !.live = FALSE, !.queue = <<>>, !.next = h[c].queue, !.ready = FALSE, !.gen = @ + 1]
    <3>1. v \in Handle /\ h' = [h EXCEPT ![c] = v]
      <4>1. h[c].queue \in Seq(Send) /\ h[c].gen + 1 \in Nat
        BY <1>1 DEF Handle
      <4>2. v \in Handle
        BY <1>1, <1>3, <4>1 DEF Handle
      <4>3. QED
        BY <1>1, <2>3, <4>2
    <3>2. "unlock" \in Pc /\ Local(c, "unlock", v)
      BY <1>1, <2>3 DEF Local, Handle, Pc, Before, EditPc, BusyPc, BuiltPc
    <3>3. Crosses(c, "unlock")
      BY <2>3 DEF Crosses, OwnerPc, LockPc, TablePc, BusyPc, Before, EditPc, Local
    <3>4. QED
      BY <1>2, <2>1, <3>1, <3>2, <3>3
  <2>4. QED
    BY <1>28, <2>2, <2>3 DEF DetachLive
<1>29. ASSUME NothingFollows(c)
      PROVE  Goal
  <2>1. pc[c] = "next"
    BY <1>29 DEF NothingFollows
  <2>2. CASE pc' = [pc EXCEPT ![c] = "drainwait"] /\ h' = [h EXCEPT ![c].counted = FALSE]
    <3> DEFINE v == [h[c] EXCEPT !.counted = FALSE]
    <3>1. v \in Handle /\ h' = [h EXCEPT ![c] = v]
      BY <1>1, <2>2 DEF Handle
    <3>2. "drainwait" \in Pc /\ Local(c, "drainwait", v)
      BY <1>1, <1>29, <2>1 DEF NothingFollows, Local, Handle, Pc, Before, EditPc, BusyPc, BuiltPc
    <3>3. Crosses(c, "drainwait")
      BY <2>1 DEF Crosses, OwnerPc, LockPc, TablePc, BusyPc, Before, EditPc, Local
    <3>4. QED
      BY <1>2, <2>2, <3>1, <3>2, <3>3 DEF Moved
  <2>3. CASE pc' = [pc EXCEPT ![c] = "finish"] /\ h' = h
    <3>1. "finish" \in Pc /\ Local(c, "finish", h[c])
      BY <1>1, <1>29, <2>1 DEF NothingFollows, Local, Handle, Pc, Before, EditPc, BusyPc, BuiltPc
    <3>2. Crosses(c, "finish")
      BY <2>1 DEF Crosses, OwnerPc, LockPc, TablePc, BusyPc, Before, EditPc, Local
    <3>3. QED
      BY <1>0, <2>3, <3>1, <3>2 DEF Moved
  <2>4. QED
    BY <1>29, <2>2, <2>3 DEF NothingFollows, Goto
<1>30. QED
  BY <1>4, <1>5, <1>6, <1>7, <1>8, <1>9, <1>10, <1>11, <1>12, <1>13, <1>14, <1>15, <1>16, <1>17, <1>18, <1>19, <1>20, <1>21, <1>22, <1>23, <1>24, <1>25, <1>26, <1>27, <1>28, <1>29
     DEF RunStep, EditStep, Goal

-----------------------------------------------------------------------------
(* The other kinds of steps.                                               *)

\* Every call's handle is what its place says.
LocalInv == \A c \in Call : Local(c, pc[c], h[c])

\* Sequences without repetitions.
In(c, s) == \E k \in DOMAIN s : s[k] = c
Distinct(s) == \A j, k \in DOMAIN s : s[j] = s[k] => j = k

\* The queue of the Session lock holds each call that waits, once.
QueueInv ==
  /\ Distinct(waiters)
  /\ \A c \in Call : In(c, waiters) <=> pc[c] = "waiting"

\* The table holds each Run from its admission to its removal, once.
TableInv ==
  /\ Distinct(table)
  /\ \A c \in Call : In(c, table) <=> c \notin Edit /\ pc[c] \in TablePc
  /\ \A c \in toStop : c \notin Edit /\ pc[c] \notin Before

\* A stop touches these fields only.
Flagged(x, y) ==
  /\ y \in Handle
  /\ y.queue = x.queue /\ y.next = x.next /\ y.follow = x.follow /\ y.live = x.live
  /\ y.abort = x.abort /\ y.counted = x.counted /\ y.gen = x.gen /\ y.settled = x.settled
  /\ x.stopNext => y.stopNext

\* The state is what it is declared to be at the start.
LEMMA TypesInit == Init => Types
<1> SUFFICES ASSUME Init PROVE Types
  OBVIOUS
<1>1. left \in [wait : BOOLEAN, queue : Nat, calls : SUBSET Call, stops : Nat,
               cancels : Nat, fails : Nat, drains : Nat]
  BY HostAssumption DEF Init
<1>2. pc \in [Call -> Pc]
  BY DEF Init, Pc
<1>3. h \in [Call -> Handle]
  <2>0. <<>> \in Seq(Send)
    OBVIOUS
  <2>1. NewHandle(FALSE) \in Handle
    BY <2>0 DEF NewHandle, Handle
  <2>2. QED
    BY <2>1 DEF Init
<1>4. /\ send \in [Send -> [at : SUBSET Call, gen : Nat, waited : BOOLEAN]]
      /\ fate \in [Send -> Fate]
  BY DEF Init, Fate
<1>5. /\ waiters \in Seq(Call) /\ table \in Seq(Call) /\ accepted \in Seq(Send)
  BY DEF Init
<1>6. inflight \in Int /\ locked \in Int
  BY DEF Init
<1>7. held \in BOOLEAN /\ draining \in BOOLEAN /\ drained \in BOOLEAN
  BY DEF Init
<1>8. toStop \subseteq Call /\ acts \subseteq Stop /\ ctxEnded \subseteq Call
  BY DEF Init
<1>9. QED
  BY <1>1, <1>2, <1>3, <1>4, <1>5, <1>6, <1>7, <1>8 DEF Types

\* What is sent to a handle's live Session waits in its queue.
LEMMA QueueHandle ==
  ASSUME NEW x \in Handle, NEW q \in Seq(Send) PROVE [x EXCEPT !.queue = q] \in Handle
BY DEF Handle

\* A step of a Send moves that call among the places before an admission, or ends
\* it; it may append its message to the queue of a live Session.
LEMMA SendMoves ==
  ASSUME Types, NEW m \in Send, SendStep(m)
  PROVE  /\ pc[m] \in Before
         /\ \E b \in (Before \cup {"done"}) \ {"check"} : pc' = [pc EXCEPT ![m] = b]
         /\ \/ h' = h /\ UNCHANGED <<accepted, fate>>
            \/ /\ pc[m] = "send"
               /\ pc' = [pc EXCEPT ![m] = "done"]
               /\ accepted' = Append(accepted, m)
               /\ fate' = [fate EXCEPT ![m] = "queued"]
               /\ \E c \in Call : /\ h[c].live
                                  /\ h' = [h EXCEPT ![c] = [h[c] EXCEPT !.queue = Append(h[c].queue, m)]]
<1>1. CASE FindLiveRun(m)
  BY <1>1 DEF FindLiveRun, SendAt, Goto, Before
<1>2. CASE AwaitReady(m) \/ AwaitLiveChange(m) \/ AwaitOver(m) \/ SendGivesUp(m)
  BY <1>2 DEF AwaitReady, AwaitLiveChange, AwaitOver, SendGivesUp, Goto, Before, messageState
<1>3. CASE EndingRun(m)
  BY <1>3 DEF EndingRun, SendAt, Goto, Before
<1>4. CASE SendMessage(m)
  <2>1. send[m].at \subseteq Call
    BY DEF Types
  <2>2. QED
    BY <1>4, <2>1 DEF SendMessage, Goto, Before, Types
<1>5. QED
  BY <1>1, <1>2, <1>3, <1>4 DEF SendStep

\* A stop: AbortSession, one of stopAll, or the call it makes afterwards.
StopStep == AbortSession \/ (\E a \in acts : Act(a)) \/ (\E c \in Call : StopForDrain(c))

\* A stop touches the flags of one handle.
LEMMA StopMoves ==
  ASSUME Types, TableInv, StopStep
  PROVE  \E c \in Call, v \in Handle :
           /\ Flagged(h[c], v)
           /\ pc[c] \in Before => v.stopNext = h[c].stopNext
           /\ h' = [h EXCEPT ![c] = v]
<1> DEFINE Goal == \E c \in Call, v \in Handle :
           /\ Flagged(h[c], v)
           /\ pc[c] \in Before => v.stopNext = h[c].stopNext
           /\ h' = [h EXCEPT ![c] = v]
<1>0. h \in [Call -> Handle]
  BY DEF Types
<1>1. ASSUME NEW c \in Call, NEW v \in Handle, Flagged(h[c], v),
             pc[c] \in Before => v.stopNext = h[c].stopNext, h' = [h EXCEPT ![c] = v]
      PROVE  Goal
  BY <1>1
<1> HIDE DEF Goal
<1>2. ASSUME NEW c \in Call, pc[c] \notin Before, h' = [h EXCEPT ![c] = StopHandle(h[c], c)]
      PROVE  Goal
  <2>1. /\ StopHandle(h[c], c) \in Handle
        /\ Flagged(h[c], StopHandle(h[c], c))
    BY ZenonT(30), <1>0 DEF Handle, StopHandle, Flagged
  <2>2. QED
    BY <1>1, <1>2, <2>1
<1>3. ASSUME AbortSession
      PROVE  Goal
  <2>1. PICK k \in DOMAIN table : Chosen = table[k]
    BY <1>3, PlaceFacts DEF AbortSession
  <2>2. Chosen \in Call
    BY <2>1 DEF Types
  <2>3. pc[Chosen] \in TablePc
    BY <2>1, <2>2 DEF TableInv, In
  <2>4. pc[Chosen] \notin Before
    BY <2>3 DEF TablePc, BusyPc, Before
  <2>5. h' = [h EXCEPT ![Chosen] = StopHandle(h[Chosen], Chosen)]
    BY <1>0, <1>3, <2>2 DEF AbortSession
  <2> HIDE DEF Chosen
  <2>6. QED
    BY <1>2, <2>2, <2>4, <2>5
<1>4. ASSUME NEW a \in acts, Act(a)
      PROVE  Goal
  <2>1. a.at \in Call /\ h[a.at] \in Handle
    BY <1>0 DEF Types, Stop
  <2> DEFINE x == h[a.at]
             p == x.aborted \/ (h[a.at].gen = a.gen /\ pc[a.at] \in {"running", "settling"})
             q == x.canceled \/ ((a.gen = 0) <=> ~Following(a.at))
             v == IF a.abort THEN [x EXCEPT !.aborted = p] ELSE [x EXCEPT !.canceled = q]
  <2>2. p \in BOOLEAN /\ q \in BOOLEAN
    OBVIOUS
  <2>3. h' = [h EXCEPT ![a.at] = v]
    <3>1. CASE a.abort
      BY <1>0, <1>4, <2>1, <3>1 DEF Act
    <3>2. CASE ~a.abort
      BY <1>0, <1>4, <2>1, <3>2 DEF Act
    <3>3. QED
      BY <3>1, <3>2
  <2> HIDE DEF p, q
  <2>4. v \in Handle /\ Flagged(h[a.at], v) /\ v.stopNext = h[a.at].stopNext
    BY <2>1, <2>2 DEF Handle, Flagged
  <2>5. QED
    BY <1>1, <2>1, <2>3, <2>4
<1>5. ASSUME NEW c \in Call, StopForDrain(c)
      PROVE  Goal
  <2> DEFINE x == [h[c] EXCEPT !.drained = TRUE]
  <2>0. x \in Handle /\ Flagged(h[c], x)
    BY ZenonT(30), <1>0 DEF Handle, Flagged
  <2>2. h' = [h EXCEPT ![c] = StopHandle(x, c)]
    BY <1>0, <1>5 DEF StopForDrain
  <2> HIDE DEF x
  <2>a. StopHandle(x, c) \in Handle /\ Flagged(x, StopHandle(x, c))
    BY <2>0 DEF Handle, StopHandle, Flagged
  <2>1. Flagged(h[c], StopHandle(x, c))
    BY <2>0, <2>a DEF Flagged
  <2>3. pc[c] \notin Before
    BY <1>5 DEF StopForDrain, TableInv
  <2>4. QED
    BY <1>1, <2>a, <2>1, <2>2, <2>3
<1>6. QED
  BY <1>3, <1>4, <1>5 DEF StopStep, Goal

\* The drain itself, and contexts that end.
OtherStep == CloseDrained \/ DrainTimesOut \/ DrainReturns \/ Drain \/ \E c \in Call : CtxEnds(c)

\* Every step is of one of these kinds.
LEMMA Cases ==
  ASSUME [Next]_vars
  PROVE  \/ \E c \in Call : RunStep(c) \/ (c \in Edit /\ EditStep(c))
         \/ \E m \in Send : SendStep(m)
         \/ StopStep
         \/ OtherStep
         \/ UNCHANGED vars
BY DEF Next, Goes, Step, DrainStep, StopStep, OtherStep

-----------------------------------------------------------------------------
(* Places and handles.                                                     *)

\* Which steps of a call touch what the calls share.
LEMMA CallFrames ==
  ASSUME NEW c \in Call, RunStep(c) \/ (c \in Edit /\ EditStep(c))
  PROVE  /\ \/ UNCHANGED lockState
            \/ AcquireFree(c) \/ AcquireBusy(c) \/ LeaveQueue(c) \/ Granted(c) \/ Unlock(c)
         /\ UNCHANGED table \/ Admit(c) \/ Unregister(c)
         /\ UNCHANGED locked \/ Locked(c) \/ LockFailed(c) \/ Uncount(c)
         /\ UNCHANGED inflight \/ Admit(c) \/ NothingFollows(c) \/ Done(c)
         /\ UNCHANGED <<drainState, acts, ctxEnded, send, accepted>>
BY DEF lockState, tableState, drainState, messageState, RunStep, EditStep, Admit, Locked,
       AcquireFree, AcquireBusy, LeaveQueue, Granted, LockFailed, OpenFails, StartRun,
       AttachLive, RunStarts, Commit, LastBoundary, PromptReturns, Settle, DetachLive,
       Unlock, Uncount, FollowOn, NothingFollows, DrainWaitEnds, Finish, Unregister, Done,
       CheckDraining, EditSession, DropFollow

\* What a Send, a stop and the rest leave alone.
LEMMA OtherFrames ==
  /\ \A m \in Send : SendStep(m) =>
       UNCHANGED <<lockState, tableState, drainState, acts, ctxEnded, left>>
  /\ StopStep =>
       UNCHANGED <<pc, lockState, tableState, draining, drained, drainer, messageState, ctxEnded>>
  /\ OtherStep =>
       UNCHANGED <<pc, lockState, tableState, h, acts, messageState>>
  /\ UNCHANGED vars =>
       UNCHANGED <<pc, lockState, tableState, drainState, h, acts, messageState, ctxEnded, left>>
<1> USE DEF lockState, tableState, drainState, messageState
<1>1. ASSUME NEW m \in Send, SendStep(m)
      PROVE  UNCHANGED <<lockState, tableState, drainState, acts, ctxEnded, left>>
  BY <1>1 DEF SendStep, FindLiveRun, AwaitReady, SendMessage, AwaitLiveChange, EndingRun,
              AwaitOver, SendGivesUp
<1>2. StopStep =>
        UNCHANGED <<pc, lockState, tableState, draining, drained, drainer, messageState, ctxEnded>>
  BY DEF StopStep, AbortSession, Act, StopForDrain
<1>3. OtherStep => UNCHANGED <<pc, lockState, tableState, h, acts, messageState>>
  BY DEF OtherStep, CloseDrained, DrainTimesOut, DrainReturns, Drain, CtxEnds
<1>4. UNCHANGED vars =>
       UNCHANGED <<pc, lockState, tableState, drainState, h, acts, messageState, ctxEnded, left>>
  BY DEF vars
<1>5. QED
  BY <1>1, <1>2, <1>3, <1>4

\* The base of every invariant below.
Base == Types /\ LocalInv /\ QueueInv /\ TableInv

\* Whoever waits first is a call that waits.
LEMMA FirstWaits ==
  ASSUME Types, QueueInv, waiters # <<>>
  PROVE  Head(waiters) \in Call /\ pc[Head(waiters)] = "waiting" /\ Tail(waiters) \in Seq(Call)
<1>1. waiters \in Seq(Call) /\ 1 \in DOMAIN waiters /\ Head(waiters) = waiters[1]
  BY DEF Types
<1>2. QED
  BY <1>1 DEF QueueInv, In

\* Places and handles stay places and handles, and a call's handle stays what its
\* place says.
LEMMA PlacesNext ==
  ASSUME Base, [Next]_vars
  PROVE  pc' \in [Call -> Pc] /\ h' \in [Call -> Handle] /\ LocalInv'
<1>1. pc \in [Call -> Pc] /\ h \in [Call -> Handle]
  BY DEF Base, Types
<1>2. ASSUME NEW c \in Call, RunStep(c) \/ (c \in Edit /\ EditStep(c))
      PROVE  pc' \in [Call -> Pc] /\ h' \in [Call -> Handle] /\ LocalInv'
  <2>1. PICK b \in Pc, v \in Handle :
           Local(c, b, v) /\ Crosses(c, b) /\ Moved(c, b) /\ h' = [h EXCEPT ![c] = v]
    BY <1>2, CallStep DEF Base, LocalInv
  <2>2. CASE pc' = [pc EXCEPT ![c] = b]
    BY <1>1, <2>1, <2>2 DEF Base, LocalInv
  <2>3. CASE /\ Granted(c) \/ Unlock(c)
             /\ waiters # <<>>
             /\ pc' = [pc EXCEPT ![c] = b, ![Head(waiters)] = "granted"]
    <3> DEFINE w == Head(waiters)
    <3>1. w \in Call /\ pc[w] = "waiting" /\ pc[c] # "waiting"
      BY <2>3, FirstWaits DEF Base, Granted, Unlock
    <3> HIDE DEF w
    <3>2. pc' = [pc EXCEPT ![c] = b, ![w] = "granted"]
      BY <2>3 DEF w
    <3>3. Local(w, "granted", h[w])
      BY <3>1 DEF Base, LocalInv, Local, EditPc, Before, BusyPc, BuiltPc
    <3>4. w # c /\ "granted" \in Pc
      BY <3>1 DEF Pc
    <3>5. pc' \in [Call -> Pc] /\ pc'[c] = b /\ pc'[w] = "granted"
      BY <1>1, <3>1, <3>2, <3>4
    <3>6. \A d \in Call : d # c /\ d # w => pc'[d] = pc[d]
      BY <1>1, <3>2
    <3>7. h' \in [Call -> Handle] /\ h'[c] = v /\ \A d \in Call : d # c => h'[d] = h[d]
      BY <1>1, <2>1
    <3>8. ASSUME NEW d \in Call
          PROVE  Local(d, pc'[d], h'[d])
      BY <2>1, <3>3, <3>4, <3>5, <3>6, <3>7 DEF Base, LocalInv
    <3>9. QED
      BY <3>5, <3>7, <3>8 DEF LocalInv
  <2>4. QED
    BY <2>1, <2>2, <2>3 DEF Moved
<1>3. ASSUME NEW m \in Send, SendStep(m)
      PROVE  pc' \in [Call -> Pc] /\ h' \in [Call -> Handle] /\ LocalInv'
  <2>1. m \in Call /\ m \notin Edit
    BY HostAssumption DEF Call, Send
  <2>2. pc[m] \in Before
    BY <1>3, SendMoves DEF Base
  <2>3. PICK b \in (Before \cup {"done"}) \ {"check"} : pc' = [pc EXCEPT ![m] = b]
    BY <1>3, SendMoves DEF Base
  <2>4. pc' \in [Call -> Pc]
    BY <1>1, <2>3 DEF Before, Pc
  <2>5. ASSUME NEW x \in Handle, Local(m, pc[m], x)
        PROVE  Local(m, b, x)
    BY <2>1, <2>2, <2>5 DEF Local, EditPc, Before, BusyPc, BuiltPc
  <2>6. CASE h' = h
    BY <1>1, <2>1, <2>3, <2>4, <2>5, <2>6 DEF Base, LocalInv
  <2>7. ASSUME NEW c \in Call, h[c].live,
               h' = [h EXCEPT ![c] = [h[c] EXCEPT !.queue = Append(h[c].queue, m)]]
        PROVE  pc' \in [Call -> Pc] /\ h' \in [Call -> Handle] /\ LocalInv'
    <3> DEFINE q == Append(h[c].queue, m)
               v == [h[c] EXCEPT !.queue = q]
    <3>1. q \in Seq(Send)
      BY <1>1 DEF Handle
    <3> HIDE DEF q
    <3>2. v \in Handle
      <4>1. h[c] \in Handle
        BY <1>1
      <4>2. QED
        BY <3>1, <4>1, QueueHandle
    <3>3. pc[c] \in BuiltPc /\ c # m
      BY <2>2, <2>7 DEF Base, LocalInv, Local, BuiltPc, Before
    <3>4. Local(c, pc[c], v)
      BY <1>1, <3>1, <3>3 DEF Base, LocalInv, Local, Handle
    <3>5. h' = [h EXCEPT ![c] = v]
      BY <2>7 DEF q
    <3> HIDE DEF v
    <3>6. h' \in [Call -> Handle] /\ h'[c] = v /\ \A d \in Call : d # c => h'[d] = h[d]
      BY <1>1, <3>2, <3>5
    <3>7. pc'[m] = b /\ \A d \in Call : d # m => pc'[d] = pc[d]
      BY <1>1, <2>1, <2>3
    <3>8. ASSUME NEW d \in Call
          PROVE  Local(d, pc'[d], h'[d])
      BY <1>1, <2>1, <2>5, <3>3, <3>4, <3>6, <3>7 DEF Base, LocalInv
    <3>9. QED
      BY <2>4, <3>6, <3>8 DEF LocalInv
  <2>8. QED
    BY <1>3, <2>6, <2>7, SendMoves DEF Base
<1>4. ASSUME StopStep
      PROVE  pc' \in [Call -> Pc] /\ h' \in [Call -> Handle] /\ LocalInv'
  <2>1. pc' = pc
    BY <1>4, OtherFrames
  <2>2. PICK c \in Call, v \in Handle :
           /\ Flagged(h[c], v)
           /\ pc[c] \in Before => v.stopNext = h[c].stopNext
           /\ h' = [h EXCEPT ![c] = v]
    BY <1>4, StopMoves DEF Base
  <2>3. Local(c, pc[c], v)
    BY <2>2 DEF Base, LocalInv, Local, Flagged
  <2>4. QED
    BY <1>1, <2>1, <2>2, <2>3 DEF Base, LocalInv
<1>5. CASE OtherStep \/ UNCHANGED vars
  BY <1>1, <1>5, OtherFrames DEF Base, LocalInv
<1>6. QED
  BY <1>2, <1>3, <1>4, <1>5, Cases

-----------------------------------------------------------------------------
(* The queue of the lock.                                                  *)

\* What joins, and what stays, at the end and at the head of a sequence without
\* repetitions.
LEMMA AppendFacts ==
  ASSUME NEW S, NEW s \in Seq(S), NEW e \in S, Distinct(s), ~In(e, s)
  PROVE  /\ Distinct(Append(s, e))
         /\ \A d : In(d, Append(s, e)) <=> d = e \/ In(d, s)
<1> DEFINE t == Append(s, e)
<1>1. /\ DOMAIN s = 1..Len(s) /\ Len(s) \in Nat /\ DOMAIN t = 1..(Len(s) + 1)
      /\ t[Len(s) + 1] = e /\ \A k \in 1..Len(s) : t[k] = s[k]
  OBVIOUS
<1> HIDE DEF t
<1>2. Distinct(t)
  <2> SUFFICES ASSUME NEW j \in DOMAIN t, NEW k \in DOMAIN t, t[j] = t[k]
               PROVE  j = k
    BY DEF Distinct
  <2>1. j \in 1..Len(s) \/ j = Len(s) + 1
    BY <1>1
  <2>2. k \in 1..Len(s) \/ k = Len(s) + 1
    BY <1>1
  <2>3. QED
    BY <1>1, <2>1, <2>2 DEF Distinct, In
<1>3. ASSUME NEW d
      PROVE  In(d, t) <=> d = e \/ In(d, s)
  <2>1. ASSUME In(d, t)
        PROVE  d = e \/ In(d, s)
    <3>1. PICK k \in DOMAIN t : t[k] = d
      BY <2>1 DEF In
    <3>2. k \in 1..Len(s) \/ k = Len(s) + 1
      BY <1>1
    <3>3. QED
      BY <1>1, <3>1, <3>2 DEF In
  <2>2. ASSUME In(d, s)
        PROVE  In(d, t)
    <3>1. PICK k \in 1..Len(s) : s[k] = d
      BY <1>1, <2>2 DEF In
    <3>2. k \in DOMAIN t /\ t[k] = d
      BY <1>1, <3>1
    <3>3. QED
      BY <3>2 DEF In
  <2>3. In(e, t)
    <3>1. Len(s) + 1 \in DOMAIN t
      BY <1>1
    <3>2. QED
      BY <1>1, <3>1 DEF In
  <2>4. QED
    BY <2>1, <2>2, <2>3
<1>4. QED
  BY <1>2, <1>3 DEF t

\* The same for the one at the head, who leaves.
LEMMA TailFacts ==
  ASSUME NEW S, NEW s \in Seq(S), s # <<>>, Distinct(s)
  PROVE  /\ Distinct(Tail(s))
         /\ \A d : In(d, Tail(s)) <=> d # Head(s) /\ In(d, s)
<1> DEFINE t == Tail(s)
<1>1. /\ DOMAIN s = 1..Len(s) /\ Len(s) \in Nat \ {0} /\ DOMAIN t = 1..(Len(s) - 1)
      /\ Head(s) = s[1] /\ \A k \in 1..(Len(s) - 1) : t[k] = s[k + 1]
  OBVIOUS
<1> HIDE DEF t
<1>2. \A k \in DOMAIN t : k + 1 \in DOMAIN s /\ k + 1 # 1 /\ t[k] = s[k + 1]
  BY <1>1
<1>3. Distinct(t)
  <2> SUFFICES ASSUME NEW j \in DOMAIN t, NEW k \in DOMAIN t, t[j] = t[k]
               PROVE  j = k
    BY DEF Distinct
  <2>1. j + 1 = k + 1
    BY <1>2 DEF Distinct
  <2>2. QED
    BY <1>1, <2>1
<1>4. ASSUME NEW d
      PROVE  In(d, t) <=> d # Head(s) /\ In(d, s)
  <2>0. 1 \in DOMAIN s
    BY <1>1
  <2>1. ASSUME In(d, t)
        PROVE  d # Head(s) /\ In(d, s)
    BY <1>1, <1>2, <2>0, <2>1 DEF In, Distinct
  <2>2. ASSUME d # Head(s), In(d, s)
        PROVE  In(d, t)
    <3>1. PICK k \in 1..Len(s) : s[k] = d
      BY <1>1, <2>2 DEF In
    <3>2. k - 1 \in DOMAIN t /\ t[k - 1] = d
      BY <1>1, <2>2, <3>1
    <3>3. QED
      BY <3>2 DEF In
  <2>3. QED
    BY <2>1, <2>2
<1>5. QED
  BY <1>3, <1>4 DEF t

\* The removal of an element that is there leaves the others.
LEMMA GoneFacts ==
  ASSUME NEW S, NEW s \in Seq(S), NEW e \in S, Distinct(s), In(e, s)
  PROVE  /\ RemoveFirst(s, e) \in Seq(S)
         /\ Distinct(RemoveFirst(s, e))
         /\ \A d \in S : In(d, RemoveFirst(s, e)) <=> d # e /\ In(d, s)
<1>1. PICK n \in DOMAIN s : s[n] = e
  BY DEF In
<1> DEFINE t == RemoveFirst(s, s[n])
<1>2. \A j, k \in DOMAIN s : s[j] = s[k] => j = k
  BY DEF Distinct
<1>3. /\ t \in Seq(S)
      /\ \A j, k \in DOMAIN t : t[j] = t[k] => j = k
      /\ \A d \in S : (\E k \in DOMAIN t : t[k] = d) <=>
                      (d # s[n] /\ \E k \in DOMAIN s : s[k] = d)
  BY <1>2, RemoveFacts
<1>4. t = RemoveFirst(s, e)
  BY <1>1
<1> HIDE DEF t
<1>5. QED
  BY <1>1, <1>3, <1>4 DEF Distinct, In

\* What a step of a call does to the queue of the lock.
LEMMA QueueSteps ==
  ASSUME Base, NEW c \in Call, RunStep(c) \/ (c \in Edit /\ EditStep(c)),
         NEW b \in Pc, Crosses(c, b), Moved(c, b)
  PROVE  \/ /\ waiters' = waiters /\ pc' = [pc EXCEPT ![c] = b]
            /\ pc[c] # "waiting" /\ b # "waiting"
         \/ /\ waiters' = Append(waiters, c) /\ pc' = [pc EXCEPT ![c] = "waiting"]
            /\ pc[c] = "counted"
         \/ /\ waiters' = RemoveFirst(waiters, c) /\ pc' = [pc EXCEPT ![c] = "failed"]
            /\ pc[c] = "waiting"
         \/ /\ waiters # <<>> /\ waiters' = Tail(waiters)
            /\ pc[c] \in {"granted", "unlock"} /\ b \in {"failed", "uncount"}
            /\ pc' = [pc EXCEPT ![c] = b, ![Head(waiters)] = "granted"]
<1>0. pc \in [Call -> Pc]
  BY DEF Base, Types
<1>1. CASE AcquireBusy(c)
  <2>1. pc[c] = "counted" /\ ~Granted(c) /\ ~Unlock(c)
    BY <1>1 DEF AcquireBusy, Granted, Unlock
  <2>2. pc' = [pc EXCEPT ![c] = b]
    BY <2>1 DEF Moved
  <2>3. pc'[c] = b
    BY <1>0, <2>2
  <2>4. CASE left.wait \/ ForceWait(c)
    BY <1>1, <2>1, <2>4 DEF AcquireBusy, Goto
  <2>5. CASE ~(left.wait \/ ForceWait(c))
    <3>1. pc' = [pc EXCEPT ![c] = "failed"] /\ waiters' = waiters
      BY <1>1, <2>5 DEF AcquireBusy, Goto
    <3>2. b = "failed"
      BY <1>0, <2>3, <3>1
    <3>3. QED
      BY <2>1, <2>2, <3>1, <3>2
  <2>6. QED
    BY <2>4, <2>5
<1>2. CASE LeaveQueue(c)
  BY <1>2 DEF LeaveQueue, Goto
<1>3. CASE Granted(c) \/ Unlock(c)
  <2>1. pc[c] \in {"granted", "unlock"} /\ pc[c] # "waiting" /\ b # "waiting"
    BY <1>3 DEF Granted, Unlock, Crosses, AcquireBusy
  <2>2. CASE waiters # <<>> /\ waiters' = Tail(waiters) /\ held' = held
    <3>1. PICK after \in {"failed", "uncount"} :
             pc' = [pc EXCEPT ![c] = after, ![Head(waiters)] = "granted"]
      <4>1. CASE Granted(c) /\ RunCtxDone(c)
        BY <2>2, <4>1 DEF Granted, ReleaseLock
      <4>2. CASE Unlock(c)
        BY <2>2, <4>2 DEF Unlock, ReleaseLock
      <4>3. CASE Granted(c) /\ ~RunCtxDone(c)
        <5>1. waiters' = waiters
          BY <4>3 DEF Granted, lockState
        <5>2. Len(Tail(waiters)) = Len(waiters) - 1 /\ Len(waiters) \in Nat
          BY <2>2 DEF Base, Types
        <5>3. QED
          BY <2>2, <5>1, <5>2
      <4>4. QED
        BY <1>3, <4>1, <4>2, <4>3
    <3>2. Head(waiters) \in Call /\ pc[Head(waiters)] = "waiting"
      BY <2>2, FirstWaits DEF Base
    <3>3. pc'[Head(waiters)] = "granted" /\ pc'[c] = after /\ Head(waiters) # c
      BY <1>0, <2>1, <3>1, <3>2
    <3>4. pc'[c] = b
      BY <1>0, <2>1, <3>2, <3>3 DEF Moved
    <3>5. QED
      BY <2>1, <2>2, <3>1, <3>3, <3>4
  <2>3. CASE waiters' = waiters
    <3>1. ASSUME waiters # <<>>, pc' = [pc EXCEPT ![c] = b, ![Head(waiters)] = "granted"]
          PROVE  pc' = [pc EXCEPT ![c] = b]
      <4>1. Head(waiters) \in Call /\ pc[Head(waiters)] = "waiting"
        BY <3>1, FirstWaits DEF Base
      <4>2. pc'[Head(waiters)] = "granted" /\ Head(waiters) # c
        BY <1>0, <2>1, <3>1, <4>1
      <4>3. Len(Tail(waiters)) = Len(waiters) - 1 /\ Len(waiters) \in Nat
        BY <3>1 DEF Base, Types
      <4>4. waiters' # Tail(waiters)
        BY <2>3, <4>3
      <4>5. PICK after : pc' = [pc EXCEPT ![c] = after]
        BY <1>3, <3>1, <4>4 DEF Granted, Unlock, ReleaseLock, Goto
      <4>6. pc'[Head(waiters)] = "waiting"
        BY <1>0, <4>1, <4>2, <4>5
      <4>7. QED
        BY <4>2, <4>6
    <3>2. QED
      BY <2>1, <2>3, <3>1 DEF Moved
  <2>4. QED
    BY <1>3, <2>2, <2>3 DEF Granted, Unlock, ReleaseLock, lockState
<1>4. CASE ~AcquireBusy(c) /\ ~LeaveQueue(c) /\ ~Granted(c) /\ ~Unlock(c)
  <2>1. waiters' = waiters
    BY <1>4, CallFrames DEF lockState, AcquireFree
  <2>2. QED
    BY <1>4, <2>1 DEF Crosses, Moved
<1>5. QED
  BY <1>1, <1>2, <1>3, <1>4

\* The queue of the lock stays what it is, whoever moves.
LEMMA QueueNext ==
  ASSUME Base, [Next]_vars
  PROVE  QueueInv' /\ waiters' \in Seq(Call)
<1>1. pc \in [Call -> Pc] /\ waiters \in Seq(Call)
  BY DEF Base, Types
<1>2. Distinct(waiters) /\ \A d \in Call : In(d, waiters) <=> pc[d] = "waiting"
  BY DEF Base, QueueInv
<1>3. ASSUME NEW c \in Call, RunStep(c) \/ (c \in Edit /\ EditStep(c))
      PROVE  QueueInv' /\ waiters' \in Seq(Call)
  <2>1. PICK b \in Pc : Crosses(c, b) /\ Moved(c, b)
    BY <1>3, CallStep DEF Base, LocalInv
  <2>2. CASE /\ waiters' = waiters /\ pc' = [pc EXCEPT ![c] = b]
             /\ pc[c] # "waiting" /\ b # "waiting"
    BY <1>1, <1>2, <2>2 DEF QueueInv, In, Distinct
  <2>3. CASE /\ waiters' = Append(waiters, c) /\ pc' = [pc EXCEPT ![c] = "waiting"]
             /\ pc[c] = "counted"
    <3>1. ~In(c, waiters)
      BY <1>2, <2>3
    <3>2. Distinct(waiters') /\ \A d \in Call : In(d, waiters') <=> d = c \/ In(d, waiters)
      BY <1>1, <1>2, <2>3, <3>1, AppendFacts
    <3>3. \A d \in Call : pc'[d] = "waiting" <=> d = c \/ pc[d] = "waiting"
      BY <1>1, <2>3
    <3>4. QED
      BY <1>1, <1>2, <2>3, <3>2, <3>3 DEF QueueInv, In, Distinct
  <2>4. CASE /\ waiters' = RemoveFirst(waiters, c) /\ pc' = [pc EXCEPT ![c] = "failed"]
             /\ pc[c] = "waiting"
    <3>1. In(c, waiters)
      BY <1>2, <2>4
    <3>2. waiters' \in Seq(Call) /\ Distinct(waiters')
          /\ \A d \in Call : In(d, waiters') <=> d # c /\ In(d, waiters)
      BY <1>1, <1>2, <2>4, <3>1, GoneFacts
    <3>3. \A d \in Call : pc'[d] = "waiting" <=> d # c /\ pc[d] = "waiting"
      BY <1>1, <2>4
    <3>4. QED
      BY <1>2, <3>2, <3>3 DEF QueueInv, In, Distinct
  <2>5. CASE /\ waiters # <<>> /\ waiters' = Tail(waiters)
             /\ pc[c] \in {"granted", "unlock"} /\ b \in {"failed", "uncount"}
             /\ pc' = [pc EXCEPT ![c] = b, ![Head(waiters)] = "granted"]
    <3>1. Head(waiters) \in Call /\ waiters' \in Seq(Call)
      BY <2>5, FirstWaits DEF Base
    <3>2. Distinct(waiters') /\ \A d \in Call : In(d, waiters') <=> d # Head(waiters) /\ In(d, waiters)
      BY <1>1, <1>2, <2>5, TailFacts
    <3>3. \A d \in Call : pc'[d] = "waiting" <=> d # Head(waiters) /\ pc[d] = "waiting"
      BY <1>1, <2>5, <3>1
    <3>4. QED
      BY <1>2, <3>1, <3>2, <3>3 DEF QueueInv, In, Distinct
  <2>6. QED
    BY <1>3, <2>1, <2>2, <2>3, <2>4, <2>5, QueueSteps
<1>4. ASSUME NEW m \in Send, SendStep(m)
      PROVE  QueueInv' /\ waiters' \in Seq(Call)
  <2>1. PICK b \in (Before \cup {"done"}) \ {"check"} : pc' = [pc EXCEPT ![m] = b]
    BY <1>4, SendMoves DEF Base
  <2>2. pc[m] # "waiting" /\ b # "waiting" /\ waiters' = waiters
    BY <1>4, SendMoves, OtherFrames DEF Base, Before, lockState
  <2>3. QED
    BY <1>1, <1>2, <2>1, <2>2 DEF QueueInv, In, Distinct
<1>5. CASE StopStep \/ OtherStep \/ UNCHANGED vars
  <2>1. pc' = pc /\ waiters' = waiters
    BY <1>5, OtherFrames DEF lockState
  <2>2. QED
    BY <1>1, <1>2, <2>1 DEF QueueInv, In, Distinct
<1>6. QED
  BY <1>3, <1>4, <1>5, Cases

-----------------------------------------------------------------------------
(* The table, and the types.                                               *)

\* A step of a call moves it, and at most one waiter, to whom it hands the lock.
LEMMA Moves ==
  ASSUME Base, NEW c \in Call, NEW b \in Pc, Moved(c, b)
  PROVE  /\ pc'[c] = b
         /\ \A d \in Call \ {c} : pc'[d] = pc[d] \/ (pc[d] = "waiting" /\ pc'[d] = "granted")
<1>1. pc \in [Call -> Pc]
  BY DEF Base, Types
<1>2. CASE pc' = [pc EXCEPT ![c] = b]
  BY <1>1, <1>2
<1>3. CASE /\ Granted(c) \/ Unlock(c)
           /\ waiters # <<>>
           /\ pc' = [pc EXCEPT ![c] = b, ![Head(waiters)] = "granted"]
  <2> DEFINE w == Head(waiters)
  <2>1. w \in Call /\ pc[w] = "waiting" /\ pc[c] # "waiting"
    BY <1>3, FirstWaits DEF Base, Granted, Unlock
  <2>2. pc' = [pc EXCEPT ![c] = b, ![w] = "granted"]
    BY <1>3
  <2> HIDE DEF w
  <2>3. QED
    BY <1>1, <2>1, <2>2
<1>4. QED
  BY <1>2, <1>3 DEF Moved

\* A step of a call changes who is in the table only with the table.
LEMMA TableSteps ==
  ASSUME Base, NEW c \in Call, RunStep(c) \/ (c \in Edit /\ EditStep(c))
  PROVE  /\ \A d \in Call \ {c} : d \notin Edit => (pc'[d] \in TablePc <=> pc[d] \in TablePc)
         /\ \A d \in Call : pc'[d] \in Before => pc[d] \in Before
         /\ \/ /\ table' = table
               /\ c \notin Edit => (pc'[c] \in TablePc <=> pc[c] \in TablePc)
            \/ /\ table' = Append(table, c) /\ c \notin Edit
               /\ pc[c] \notin TablePc /\ pc'[c] \in TablePc
            \/ /\ table' = RemoveFirst(table, c) /\ c \notin Edit
               /\ pc[c] \in TablePc /\ pc'[c] \notin TablePc
<1>1. pc \in [Call -> Pc]
  BY DEF Base, Types
<1>2. PICK b \in Pc, v \in Handle : Local(c, b, v) /\ Crosses(c, b) /\ Moved(c, b)
  BY CallStep DEF Base, LocalInv
<1>3. /\ pc'[c] = b
      /\ \A d \in Call \ {c} : pc'[d] = pc[d] \/ (pc[d] = "waiting" /\ pc'[d] = "granted")
  BY <1>2, Moves
<1>4. \A d \in Call \ {c} : d \notin Edit => (pc'[d] \in TablePc <=> pc[d] \in TablePc)
  BY <1>3 DEF TablePc, BusyPc
<1>5. \A d \in Call : pc'[d] \in Before => pc[d] \in Before
  BY <1>2, <1>3 DEF Before, Crosses
<1>6. CASE Admit(c)
  <2>1. pc[c] = "admit" /\ c \notin Edit
    BY <1>6 DEF Admit, Base, LocalInv, Local, EditPc
  <2>2. CASE AdmitOk
    <3>1. pc' = [pc EXCEPT ![c] = "admitted"] /\ table' = Append(table, c)
      BY <1>6, <2>2 DEF Admit, Goto
    <3>2. QED
      BY <1>1, <1>4, <1>5, <2>1, <3>1 DEF TablePc, BusyPc
  <2>3. CASE ~AdmitOk
    <3>1. pc' = [pc EXCEPT ![c] = "done"] /\ table' = table
      BY <1>6, <2>3 DEF Admit, Goto
    <3>2. QED
      BY <1>1, <1>4, <1>5, <2>1, <3>1 DEF TablePc, BusyPc
  <2>4. QED
    BY <2>2, <2>3
<1>7. CASE Unregister(c)
  <2>1. pc[c] = "remove" /\ c \notin Edit
    BY <1>7 DEF Unregister, Base, LocalInv, Local, EditPc
  <2>2. pc' = [pc EXCEPT ![c] = "release"] /\ table' = RemoveFirst(table, c)
    BY <1>7 DEF Unregister, Goto
  <2>3. QED
    BY <1>1, <1>4, <1>5, <2>1, <2>2 DEF TablePc, BusyPc
<1>8. CASE ~Admit(c) /\ ~Unregister(c)
  <2>1. table' = table
    BY <1>8, CallFrames
  <2>2. QED
    BY <1>2, <1>3, <1>4, <1>5, <1>8, <2>1 DEF Crosses
<1>9. QED
  BY <1>6, <1>7, <1>8

\* The table stays the Runs between admission and removal, whoever moves.
LEMMA TableNext ==
  ASSUME Base, [Next]_vars
  PROVE  TableInv' /\ table' \in Seq(Call)
<1>1. pc \in [Call -> Pc] /\ table \in Seq(Call)
  BY DEF Base, Types
<1>2. /\ Distinct(table)
      /\ \A d \in Call : In(d, table) <=> d \notin Edit /\ pc[d] \in TablePc
      /\ \A d \in toStop : d \in Call /\ d \notin Edit /\ pc[d] \notin Before
  BY DEF Base, TableInv, Types
<1>3. ASSUME NEW c \in Call, RunStep(c) \/ (c \in Edit /\ EditStep(c))
      PROVE  TableInv' /\ table' \in Seq(Call)
  <2>1. toStop' = toStop
    BY <1>3, CallFrames DEF drainState
  <2>2. \A d \in toStop' : d \notin Edit /\ pc'[d] \notin Before
    BY <1>2, <1>3, <2>1, TableSteps
  <2>3. \A d \in Call \ {c} : d \notin Edit => (pc'[d] \in TablePc <=> pc[d] \in TablePc)
    BY <1>3, TableSteps
  <2>4. CASE /\ table' = table
             /\ c \notin Edit => (pc'[c] \in TablePc <=> pc[c] \in TablePc)
    BY <1>1, <1>2, <2>2, <2>3, <2>4 DEF TableInv, In, Distinct
  <2>5. CASE /\ table' = Append(table, c) /\ c \notin Edit
             /\ pc[c] \notin TablePc /\ pc'[c] \in TablePc
    <3>1. Distinct(table') /\ \A d \in Call : In(d, table') <=> d = c \/ In(d, table)
      BY <1>1, <1>2, <2>5, AppendFacts
    <3>2. \A d \in Call : In(d, table') <=> d \notin Edit /\ pc'[d] \in TablePc
      BY <1>2, <2>3, <2>5, <3>1
    <3>3. QED
      BY <1>1, <2>2, <2>5, <3>1, <3>2 DEF TableInv, In, Distinct
  <2>6. CASE /\ table' = RemoveFirst(table, c) /\ c \notin Edit
             /\ pc[c] \in TablePc /\ pc'[c] \notin TablePc
    <3>1. /\ table' \in Seq(Call) /\ Distinct(table')
          /\ \A d \in Call : In(d, table') <=> d # c /\ In(d, table)
      BY <1>1, <1>2, <2>6, GoneFacts
    <3>2. \A d \in Call : In(d, table') <=> d \notin Edit /\ pc'[d] \in TablePc
      BY <1>2, <2>3, <2>6, <3>1
    <3>3. QED
      BY <2>2, <3>1, <3>2 DEF TableInv, In, Distinct
  <2>7. QED
    BY <1>3, <2>4, <2>5, <2>6, TableSteps
<1>4. ASSUME NEW m \in Send, SendStep(m)
      PROVE  TableInv' /\ table' \in Seq(Call)
  <2>1. PICK b \in (Before \cup {"done"}) \ {"check"} : pc' = [pc EXCEPT ![m] = b]
    BY <1>4, SendMoves DEF Base
  <2>2. pc[m] \in Before /\ table' = table /\ toStop' = toStop
    BY <1>4, SendMoves, OtherFrames DEF Base, tableState, drainState
  <2>3. pc[m] \notin TablePc /\ b \notin TablePc
    BY <2>2 DEF Before, TablePc, BusyPc
  <2>4. \A d \in Call : pc'[d] \in TablePc <=> pc[d] \in TablePc
    BY <1>1, <2>1, <2>3
  <2>5. \A d \in Call : pc'[d] \in Before => pc[d] \in Before
    BY <1>1, <2>1, <2>2
  <2>6. QED
    BY <1>1, <1>2, <2>2, <2>4, <2>5 DEF TableInv, In, Distinct
<1>5. CASE StopStep \/ OtherStep \/ UNCHANGED vars
  <2>1. pc' = pc /\ table' = table
    BY <1>5, OtherFrames DEF tableState
  <2>2. \A d \in toStop' : d \in toStop \/ In(d, table)
    BY <1>5, <2>1 DEF StopStep, AbortSession, Act, StopForDrain, OtherStep, CloseDrained,
       DrainTimesOut, DrainReturns, Drain, CtxEnds, drainState, vars, ToSet, In
  <2>3. \A d \in toStop' : d \notin Edit /\ pc'[d] \notin Before
    <3>1. \A d : In(d, table) => d \in Call
      BY <1>1 DEF In
    <3>2. QED
      BY <1>2, <2>1, <2>2, <3>1 DEF TablePc, BusyPc, Before
  <2>4. QED
    BY <1>1, <1>2, <2>1, <2>3 DEF TableInv, In, Distinct
<1>6. QED
  BY <1>3, <1>4, <1>5, Cases

\* The rest of the types.
LEMMA TypesNext ==
  ASSUME Base, [Next]_vars
  PROVE  Types'
<1> USE DEF lockState, tableState, drainState, messageState
<1>0. Types
  BY DEF Base
<1>1. pc' \in [Call -> Pc] /\ h' \in [Call -> Handle]
  BY PlacesNext
<1>2. waiters' \in Seq(Call)
  BY QueueNext
<1>3. table' \in Seq(Call)
  BY TableNext
<1>4. ASSUME NEW c \in Call, RunStep(c) \/ (c \in Edit /\ EditStep(c))
      PROVE  Types'
  <2>1. /\ draining' \in BOOLEAN /\ drained' \in BOOLEAN /\ toStop' \subseteq Call
        /\ acts' \subseteq Stop /\ ctxEnded' \subseteq Call /\ accepted' \in Seq(Send)
        /\ send' \in [Send -> [at : SUBSET Call, gen : Nat, waited : BOOLEAN]]
    BY <1>0, <1>4, CallFrames DEF Types
  <2>2. held' \in BOOLEAN
    BY <1>0, <1>4, CallFrames DEF Types, AcquireFree, AcquireBusy, LeaveQueue, Granted, Unlock, ReleaseLock
  <2>3. inflight' \in Int
    BY SMTT(30), <1>0, <1>4, CallFrames DEF Types, Admit, NothingFollows, Done
  <2>4. locked' \in Int
    <3>1. locked' = locked \/ locked' = locked + 1 \/ locked' = locked - 1
      BY <1>4, CallFrames DEF Locked, LockFailed, Uncount
    <3>2. QED
      BY <1>0, <3>1 DEF Types
  <2>5. fate' \in [Send -> Fate]
    BY ZenonT(30), <1>0, <1>4 DEF Types, Fate, Dropped, RunStep, EditStep, Admit, Locked,
       AcquireFree, AcquireBusy, LeaveQueue, Granted, LockFailed, OpenFails, StartRun,
       AttachLive, RunStarts, Commit, LastBoundary, PromptReturns, Settle, DetachLive,
       Unlock, Uncount, FollowOn, NothingFollows, DrainWaitEnds, Finish, Unregister, Done,
       CheckDraining, EditSession, DropFollow
  <2>6. left' \in [wait : BOOLEAN, queue : Nat, calls : SUBSET Call, stops : Nat,
               cancels : Nat, fails : Nat, drains : Nat]
    <3>1. UNCHANGED left \/ Fail
      BY <1>4 DEF RunStep, EditStep, Admit, Locked,
       AcquireFree, AcquireBusy, LeaveQueue, Granted, LockFailed, OpenFails, StartRun,
       AttachLive, RunStarts, Commit, LastBoundary, PromptReturns, Settle, DetachLive,
       Unlock, Uncount, FollowOn, NothingFollows, DrainWaitEnds, Finish, Unregister, Done,
       CheckDraining, EditSession, DropFollow
    <3>2. Fail => left.fails - 1 \in Nat /\ left' = [left EXCEPT !.fails = left.fails - 1]
      BY <1>0 DEF Types, Fail
    <3>3. QED
      BY <1>0, <3>1, <3>2 DEF Types
  <2>7. QED
    BY <1>1, <1>2, <1>3, <2>1, <2>2, <2>3, <2>4, <2>5, <2>6 DEF Types
<1>5. ASSUME NEW m \in Send, SendStep(m)
      PROVE  Types'
  <2>1. /\ UNCHANGED <<held, inflight, locked, draining, drained, toStop, acts, ctxEnded, left>>
    BY <1>5, OtherFrames
  <2>2. accepted' \in Seq(Send) /\ fate' \in [Send -> Fate]
    <3>1. CASE UNCHANGED <<accepted, fate>>
      BY <1>0, <3>1 DEF Types
    <3>2. CASE accepted' = Append(accepted, m) /\ fate' = [fate EXCEPT ![m] = "queued"]
      BY <1>0, <3>2 DEF Types, Fate
    <3>3. QED
      BY <1>0, <1>5, <3>1, <3>2, SendMoves
  <2>3. send' \in [Send -> [at : SUBSET Call, gen : Nat, waited : BOOLEAN]]
    <3>1. ASSUME NEW where, NEW at \in SUBSET Call, at = {} \/ \E c \in Call : at = {c},
                 SendAt(m, where, at)
          PROVE  send' \in [Send -> [at : SUBSET Call, gen : Nat, waited : BOOLEAN]]
      <4> DEFINE g == IF at = {} THEN 0 ELSE h[CHOOSE c \in at : TRUE].gen
      <4>1. g \in Nat
        BY <1>0, <3>1 DEF Types, Handle
      <4> HIDE DEF g
      <4>2. send' = [send EXCEPT ![m].at = at, ![m].gen = g]
        BY <3>1 DEF SendAt, g
      <4>3. QED
        BY ZenonT(30), <1>0, <4>1, <4>2 DEF Types
    <3>2. \A k \in DOMAIN table : table[k] \in Call
      BY <1>0 DEF Types
    <3>3. table # <<>> => Head(table) \in Call
      BY <1>0 DEF Types
    <3>4. CASE FindLiveRun(m)
      <4>1. LiveAt # 0 => table[LiveAt] \in Call
        BY <1>0, <3>2, PlaceFacts
      <4>2. CASE LiveAt # 0
        BY <3>1, <3>4, <4>1, <4>2 DEF FindLiveRun
      <4>3. CASE LiveAt = 0 /\ table # <<>>
        BY <3>1, <3>3, <3>4, <4>3 DEF FindLiveRun
      <4>4. CASE LiveAt = 0 /\ table = <<>>
        <5>1. SendAt(m, "ending", {})
          BY <3>4, <4>4 DEF FindLiveRun
        <5>2. QED
          BY <3>1, <5>1
      <4>5. QED
        BY <4>2, <4>3, <4>4
    <3>5. CASE EndingRun(m)
      <4>1. CASE UNCHANGED send
        BY <1>0, <4>1 DEF Types
      <4>2. CASE send' = [send EXCEPT ![m].waited = TRUE]
        BY <1>0, <4>2 DEF Types
      <4>3. CASE table # <<>> /\ SendAt(m, "awaitOver", {Head(table)})
        BY <3>1, <3>3, <4>3
      <4>4. QED
        BY <3>5, <4>1, <4>2, <4>3 DEF EndingRun
    <3>6. CASE AwaitOver(m)
      BY <1>0, <3>6 DEF AwaitOver, Types
    <3>7. CASE AwaitReady(m) \/ SendMessage(m) \/ AwaitLiveChange(m) \/ SendGivesUp(m)
      BY <1>0, <3>7 DEF Types, AwaitReady, SendMessage, AwaitLiveChange, SendGivesUp
    <3>8. QED
      BY <1>5, <3>4, <3>5, <3>6, <3>7 DEF SendStep
  <2>4. QED
    BY <1>0, <1>1, <1>2, <1>3, <2>1, <2>2, <2>3 DEF Types
<1>6. ASSUME StopStep
      PROVE  Types'
  <2>1. UNCHANGED <<held, inflight, locked, draining, drained, send, accepted, fate, ctxEnded>>
    BY <1>6, OtherFrames
  <2>2. toStop' \subseteq Call
    BY <1>0, <1>6 DEF Types, StopStep, AbortSession, Act, StopForDrain
  <2>3. acts' \subseteq Stop
    <3>1. ASSUME NEW c \in Call
          PROVE  StopActs(c) \subseteq Stop
      <4>1. h[c].gen \in Nat /\ h[c].abort \in BOOLEAN
        BY <1>0 DEF Types, Handle
      <4>2. QED
        BY <1>0, <4>1 DEF Types, StopActs, Stop
    <3>2. AbortSession => Chosen \in Call
      BY <1>0, PlaceFacts DEF AbortSession, Types
    <3>3. QED
      BY ZenonT(30), <1>0, <1>6, <3>1, <3>2 DEF Types, StopStep, AbortSession, Act, StopForDrain
  <2>4. left' \in [wait : BOOLEAN, queue : Nat, calls : SUBSET Call, stops : Nat,
               cancels : Nat, fails : Nat, drains : Nat]
    <3>1. UNCHANGED left \/ AbortSession
      BY <1>6 DEF StopStep, Act, StopForDrain
    <3>2. AbortSession => left.stops - 1 \in Nat /\ left' = [left EXCEPT !.stops = left.stops - 1]
      BY <1>0 DEF Types, AbortSession
    <3>3. QED
      BY <1>0, <3>1, <3>2 DEF Types
  <2>5. QED
    BY <1>0, <1>1, <1>2, <1>3, <2>1, <2>2, <2>3, <2>4 DEF Types
<1>7. ASSUME OtherStep
      PROVE  Types'
  <2>1. UNCHANGED <<held, inflight, locked, acts, send, accepted, fate>>
    BY <1>7, OtherFrames
  <2>2. draining' \in BOOLEAN /\ drained' \in BOOLEAN
    BY <1>0, <1>7 DEF Types, OtherStep, CloseDrained, DrainTimesOut, DrainReturns, Drain, CtxEnds
  <2>3. toStop' \subseteq Call /\ ctxEnded' \subseteq Call
    BY <1>0, <1>7 DEF Types, OtherStep, CloseDrained, DrainTimesOut, DrainReturns, Drain, CtxEnds, ToSet
  <2>4. left' \in [wait : BOOLEAN, queue : Nat, calls : SUBSET Call, stops : Nat,
               cancels : Nat, fails : Nat, drains : Nat]
    <3>1. UNCHANGED left \/ \E c \in Call : CtxEnds(c)
      BY <1>7 DEF OtherStep, CloseDrained, DrainTimesOut, DrainReturns, Drain
    <3>2. ASSUME NEW c \in Call, CtxEnds(c)
          PROVE  left.cancels - 1 \in Nat /\ left' = [left EXCEPT !.cancels = left.cancels - 1]
      BY <1>0, <3>2 DEF Types, CtxEnds
    <3>3. QED
      BY <1>0, <3>1, <3>2 DEF Types
  <2>5. QED
    BY <1>0, <1>1, <1>2, <1>3, <2>1, <2>2, <2>3, <2>4 DEF Types
<1>8. ASSUME UNCHANGED vars
      PROVE  Types'
  BY <1>0, <1>8 DEF Types, vars
<1>9. QED
  BY <1>4, <1>5, <1>6, <1>7, <1>8, Cases

\* Nobody has called, or only just.
LEMMA BaseInit == Init => Base
<1> SUFFICES ASSUME Init PROVE Base
  OBVIOUS
<1>1. Types
  BY TypesInit
<1>2. LocalInv
  <2> SUFFICES ASSUME NEW c \in Call
               PROVE  Local(c, pc[c], h[c])
    BY DEF LocalInv
  <2>1. h[c] = NewHandle(FALSE) /\ pc[c] = IF c \notin left.calls THEN "done" ELSE
                          IF c \in Run THEN "admit" ELSE IF c \in Send THEN "find" ELSE "check"
    BY DEF Init
  <2>2. QED
    BY <2>1, HostAssumption DEF Call, NewHandle, Local, Before, EditPc, BusyPc, BuiltPc
<1>3. QueueInv
  BY DEF Init, QueueInv, In, Distinct
<1>4. TableInv
  BY DEF Init, TableInv, In, Distinct, TablePc, BusyPc
<1>5. QED
  BY <1>1, <1>2, <1>3, <1>4 DEF Base

\* Base is inductive.
LEMMA BaseNext == Base /\ [Next]_vars => Base'
BY PlacesNext, QueueNext, TableNext, TypesNext DEF Base

-----------------------------------------------------------------------------
(* The Session lock.                                                       *)

\* Every step keeps at most one owner, who is there exactly while the lock is
\* held: a release hands the lock on before anyone can find it free, and a waiter
\* leaves only a lock that somebody has.
LEMMA LockStep == Locks!LockOK /\ [Locks!Next]_(Locks!lockVars) => Locks!LockOK'
<1> SUFFICES ASSUME Locks!LockOK, [Locks!Next]_(Locks!lockVars)
             PROVE  Locks!LockOK'
  OBVIOUS
<1> USE DEF Locks!LockOK, Locks!MutualExclusion, Locks!NoLostHandoff
<1>1. ASSUME NEW c \in Call, Locks!Acquire(c)
      PROVE  Locks!LockOK'
  BY <1>1 DEF Locks!Acquire
<1>2. ASSUME NEW c \in Call, Locks!Wait(c)
      PROVE  Locks!LockOK'
  BY <1>2 DEF Locks!Wait
<1>3. ASSUME NEW c \in Call, Locks!Leave(c)
      PROVE  Locks!LockOK'
  <2>1. waiters # <<>>
    BY <1>3 DEF Locks!Leave, Locks!Waiting
  <2> QED
    BY <1>3, <2>1 DEF Locks!Leave
<1>4. ASSUME NEW c \in Call, Locks!Release(c)
      PROVE  Locks!LockOK'
  <2>1. Owners = {c} /\ held
    BY <1>4 DEF Locks!Release
  <2>2. CASE waiters # <<>>
    <3>1. Owners' = {Head(waiters)} /\ held'
      BY <1>4, <2>1, <2>2 DEF Locks!Release
    <3> QED
      BY <3>1
  <2>3. CASE waiters = <<>>
    <3>1. Owners' = {} /\ ~held' /\ waiters' = <<>>
      BY <1>4, <2>1, <2>3 DEF Locks!Release
    <3> QED
      BY <3>1
  <2> QED
    BY <2>2, <2>3
<1>5. CASE UNCHANGED Locks!lockVars
  BY <1>5 DEF Locks!lockVars
<1> QED
  BY <1>1, <1>2, <1>3, <1>4, <1>5 DEF Locks!Next

\* At most one caller goes on with the lock of a Session, and a lock that is held
\* or waited for has an owner that will give it on (host/locks.go acquire, release),
\* for any callers and any order of waits, handoffs and cancellations: of the calls
\* nothing is used but that they take and leave the lock as SessionLocks says.
THEOREM LockIsSafe == Locks!Spec => []Locks!LockOK
<1>1. Locks!Init => Locks!LockOK
  BY DEF Locks!Init, Locks!LockOK, Locks!MutualExclusion, Locks!NoLostHandoff
<1> QED
  BY <1>1, LockStep, PTL DEF Locks!Spec

\* The lock's module removes a waiter as the calls do.
LEMMA SameRemoval ==
  ASSUME NEW c
  PROVE  Locks!RemoveFirst(waiters, c) = RemoveFirst(waiters, c)
BY DEF RemoveFirst, RemoveAt, SelectInSeq, Min,
       Locks!RemoveFirst, Locks!RemoveAt, Locks!SelectInSeq, Locks!Min

\* Every step of a call is a step of the Session's lock, or leaves it alone.
LEMMA LockSteps ==
  ASSUME Base, [Next]_vars
  PROVE  [Locks!Next]_(Locks!lockVars)
<1>1. pc \in [Call -> Pc] /\ Owners = {d \in Call : pc[d] \in OwnerPc}
      /\ Owners' = {d \in Call : pc'[d] \in OwnerPc}
  BY DEF Base, Types, Owners, OwnerPc
<1>2. ASSUME UNCHANGED lockState, \A d \in Call : pc'[d] \in OwnerPc <=> pc[d] \in OwnerPc
      PROVE  UNCHANGED (Locks!lockVars)
  BY <1>1, <1>2 DEF Locks!lockVars, lockState
<1>3. ASSUME NEW c \in Call, RunStep(c) \/ (c \in Edit /\ EditStep(c))
      PROVE  [Locks!Next]_(Locks!lockVars)
  <2>1. PICK b \in Pc : Crosses(c, b) /\ Moved(c, b)
    BY <1>3, CallStep DEF Base, LocalInv
  <2>2. CASE AcquireFree(c)
    <3>1. pc' = [pc EXCEPT ![c] = "opening"] /\ pc[c] = "counted"
      BY <2>2 DEF AcquireFree, Goto
    <3>2. c \notin Owners /\ Owners' = Owners \cup {c}
      BY <1>1, <3>1 DEF OwnerPc
    <3>3. Locks!Acquire(c)
      BY <2>2, <3>2 DEF AcquireFree, Locks!Acquire
    <3>4. QED
      BY <3>3 DEF Locks!Next
  <2>3. CASE AcquireBusy(c)
    <3>1. pc[c] = "counted" /\ held' = held
      BY <2>3 DEF AcquireBusy
    <3>2. CASE left.wait \/ ForceWait(c)
      <4>1. pc' = [pc EXCEPT ![c] = "waiting"] /\ waiters' = Append(waiters, c)
        BY <2>3, <3>2 DEF AcquireBusy, Goto
      <4>2. Owners' = Owners /\ c \notin Owners
        BY <1>1, <3>1, <4>1 DEF OwnerPc
      <4>3. c \notin Locks!Waiting
        BY <3>1 DEF Base, QueueInv, In, Locks!Waiting
      <4>4. Locks!Wait(c)
        BY <2>3, <3>1, <4>1, <4>2, <4>3 DEF AcquireBusy, Locks!Wait
      <4>5. QED
        BY <4>4 DEF Locks!Next
    <3>3. CASE ~(left.wait \/ ForceWait(c))
      <4>1. pc' = [pc EXCEPT ![c] = "failed"] /\ waiters' = waiters
        BY <2>3, <3>3 DEF AcquireBusy, Goto
      <4>2. \A d \in Call : pc'[d] \in OwnerPc <=> pc[d] \in OwnerPc
        BY <1>1, <3>1, <4>1 DEF OwnerPc
      <4>3. QED
        BY <1>2, <3>1, <4>1, <4>2 DEF lockState
    <3>4. QED
      BY <3>2, <3>3
  <2>4. CASE LeaveQueue(c)
    <3>1. pc' = [pc EXCEPT ![c] = "failed"] /\ pc[c] = "waiting"
      BY <2>4 DEF LeaveQueue, Goto
    <3>2. Owners' = Owners
      BY <1>1, <3>1 DEF OwnerPc
    <3>3. c \in Locks!Waiting
      BY <3>1 DEF Base, QueueInv, In, Locks!Waiting
    <3>4. Locks!Leave(c)
      BY <2>4, <3>2, <3>3, SameRemoval DEF LeaveQueue, Locks!Leave, Locks!Without
    <3>5. QED
      BY <3>4 DEF Locks!Next
  <2>5. ASSUME NEW after \in {"failed", "uncount"}, ReleaseLock(c, after), pc[c] \in {"granted", "unlock"}
        PROVE  [Locks!Next]_(Locks!lockVars)
    <3>1. c \in Owners
      BY <1>1, <2>5 DEF OwnerPc
    <3>2. CASE waiters # <<>>
      <4> DEFINE w == Head(waiters)
      <4>1. w \in Call /\ pc[w] = "waiting"
        BY <3>2, FirstWaits DEF Base
      <4>2. pc' = [pc EXCEPT ![c] = after, ![w] = "granted"]
        BY <2>5, <3>2 DEF ReleaseLock
      <4> HIDE DEF w
      <4>3. Owners' = (Owners \ {c}) \cup {w}
        BY <1>1, <2>5, <4>1, <4>2 DEF OwnerPc
      <4>4. Locks!Release(c)
        BY <2>5, <3>1, <3>2, <4>3 DEF ReleaseLock, Locks!Release, w
      <4>5. QED
        BY <4>4 DEF Locks!Next
    <3>3. CASE waiters = <<>>
      <4>1. pc' = [pc EXCEPT ![c] = after]
        BY <2>5, <3>3 DEF ReleaseLock, Goto
      <4>2. Owners' = Owners \ {c}
        BY <1>1, <2>5, <4>1 DEF OwnerPc
      <4>3. Locks!Release(c)
        BY <2>5, <3>1, <3>3, <4>2 DEF ReleaseLock, Locks!Release
      <4>4. QED
        BY <4>3 DEF Locks!Next
    <3>4. QED
      BY <3>2, <3>3
  <2>6. CASE Granted(c)
    <3>1. CASE RunCtxDone(c)
      BY <2>5, <2>6, <3>1 DEF Granted
    <3>2. CASE ~RunCtxDone(c)
      <4>1. pc' = [pc EXCEPT ![c] = "opening"] /\ pc[c] = "granted" /\ UNCHANGED lockState
        BY <2>6, <3>2 DEF Granted, Goto
      <4>2. \A d \in Call : pc'[d] \in OwnerPc <=> pc[d] \in OwnerPc
        BY <1>1, <4>1 DEF OwnerPc
      <4>3. QED
        BY <1>2, <4>1, <4>2
    <3>3. QED
      BY <3>1, <3>2
  <2>7. CASE Unlock(c)
    BY <2>5, <2>7 DEF Unlock
  <2>8. CASE ~AcquireFree(c) /\ ~AcquireBusy(c) /\ ~LeaveQueue(c) /\ ~Granted(c) /\ ~Unlock(c)
    <3>1. UNCHANGED lockState
      BY <1>3, <2>8, CallFrames
    <3>2. pc' = [pc EXCEPT ![c] = b] /\ (pc[c] \in OwnerPc <=> b \in OwnerPc)
      BY <2>1, <2>8 DEF Moved, Crosses
    <3>3. QED
      BY <1>1, <1>2, <3>1, <3>2
  <2>9. QED
    BY <2>2, <2>3, <2>4, <2>6, <2>7, <2>8
<1>4. ASSUME NEW m \in Send, SendStep(m)
      PROVE  UNCHANGED (Locks!lockVars)
  <2>1. PICK b \in (Before \cup {"done"}) \ {"check"} : pc' = [pc EXCEPT ![m] = b]
    BY <1>4, SendMoves DEF Base
  <2>2. pc[m] \notin OwnerPc /\ b \notin OwnerPc
    BY <1>4, SendMoves DEF Base, Before, OwnerPc
  <2>3. QED
    BY <1>1, <1>2, <1>4, <2>1, <2>2, OtherFrames
<1>5. CASE StopStep \/ OtherStep \/ UNCHANGED vars
  BY <1>2, <1>5, OtherFrames
<1>6. QED
  BY <1>3, <1>4, <1>5, Cases

\* What the places of the calls say, the queue of the Session lock and the table
\* are right at all times (host/internal/runs, host/locks.go).
THEOREM BaseHolds == Spec => []Base
<1>1. QED
  BY BaseInit, BaseNext, PTL DEF Spec

\* Every step of the calls is a step of the Session's lock, or none: Runs that wait,
\* are handed the lock, give up as they are handed it and give it on implement
\* SessionLocks (host/locks.go acquire, release).
THEOREM CallsKeepTheLock == Spec => KeepsLock
<1>1. Init => Locks!Init
  BY DEF Init, Locks!Init, Owners
<1>2. QED
  BY <1>1, BaseHolds, LockSteps, PTL DEF Spec, KeepsLock, Locks!Spec

\* So at most one call goes on with the Session, and a lock that is held or waited
\* for is somebody's to give on, however Runs, stops and the drain interleave.
THEOREM OneUseAtATime == Spec => []Locks!LockOK
BY CallsKeepTheLock, LockIsSafe, PTL DEF KeepsLock

-----------------------------------------------------------------------------
(* The counts of the table, and the drain.                                 *)

\* The Runs an admission counts, and the calls sessionLock counts.
CountPc == TablePc \cup {"release"}
Admitted == {c \in Call : c \notin Edit /\ pc[c] \in CountPc /\ h[c].counted}
UnderLock == {c \in Call : pc[c] \in LockPc}

\* The counters count them.
CountInv == inflight = Cardinality(Admitted) /\ locked = Cardinality(UnderLock)

\* A drained Instance has no Run with work left.
DrainInv == drained => draining /\ \A c \in Call : c \notin Edit => pc[c] \notin BusyPc

\* One more and one less.
LEMMA CountOne ==
  ASSUME NEW T \in SUBSET Call, NEW c \in Call
  PROVE  /\ IsFiniteSet(T) /\ Cardinality(T) \in 0 .. Cardinality(Call) /\ Cardinality(Call) \in Nat
         /\ Cardinality(T) = 0 <=> T = {}
         /\ c \notin T => Cardinality(T \cup {c}) = Cardinality(T) + 1
         /\ c \in T => Cardinality(T \ {c}) = Cardinality(T) - 1
<1>1. IsFiniteSet(Call)
  BY HostAssumption
<1>2. IsFiniteSet(T) /\ Cardinality(T) <= Cardinality(Call)
  BY <1>1, FS_Subset
<1>3. Cardinality(T) \in Nat /\ Cardinality(Call) \in Nat
  BY <1>1, <1>2, FS_CardinalityType
<1>4. Cardinality(T) = 0 <=> T = {}
  BY <1>2, FS_EmptySet
<1>5. c \notin T => Cardinality(T \cup {c}) = Cardinality(T) + 1
  BY <1>2, FS_AddElement
<1>6. c \in T => Cardinality(T \ {c}) = Cardinality(T) - 1
  BY <1>2, FS_RemoveElement
<1>7. QED
  BY <1>2, <1>3, <1>4, <1>5, <1>6

\* Which steps of a call touch its counter, its stops and its generation.
LEMMA HandleFrames ==
  ASSUME Types, NEW c \in Call, RunStep(c) \/ (c \in Edit /\ EditStep(c)), ~Admit(c)
  PROVE  /\ ~NothingFollows(c) /\ ~Done(c) => h'[c].counted = h[c].counted
         /\ ~FollowOn(c) => h'[c].stopNext = h[c].stopNext /\ h'[c].stopped = h[c].stopped
         /\ ~DetachLive(c) => h'[c].gen = h[c].gen
         /\ ~StartRun(c) /\ ~RunStarts(c) => h'[c].aborted = h[c].aborted
<1>1. h \in [Call -> Handle] /\ h[c] \in Handle
  BY DEF Types
<1>2. CASE h' = h
  BY <1>2
<1>3. CASE DropFollow(c) \/ AttachLive(c) \/ Settle(c) \/ Finish(c) \/ Unregister(c)
  BY <1>1, <1>3 DEF Handle, DropFollow, AttachLive, Settle, Finish, Unregister
<1>4. CASE StartRun(c)
  BY ZenonT(30), <1>1, <1>4 DEF Handle, StartRun
<1>5. CASE Commit(c)
  BY <1>1, <1>5 DEF Handle, Commit
<1>6. CASE PromptReturns(c)
  BY <1>1, <1>6 DEF Handle, PromptReturns
<1>7. CASE DetachLive(c)
  BY <1>1, <1>7 DEF Handle, DetachLive
<1>8. CASE FollowOn(c)
  BY <1>1, <1>8 DEF Handle, FollowOn, Rearm
<1>9. CASE RunStarts(c)
  BY <1>1, <1>9 DEF Handle, RunStarts
<1>10. CASE NothingFollows(c)
  BY <1>1, <1>10 DEF Handle, NothingFollows
<1>11. CASE Done(c)
  BY <1>1, <1>11 DEF Handle, Done
<1>12. QED
  BY <1>2, <1>3, <1>4, <1>5, <1>6, <1>7, <1>8, <1>9, <1>10, <1>11 DEF RunStep, EditStep,
     Locked, AcquireFree, AcquireBusy, LeaveQueue, Granted, LockFailed, OpenFails,
     LastBoundary, Unlock, Uncount, DrainWaitEnds, CheckDraining, EditSession

\* Which steps of a call change whether its admission counts.
LEMMA CountSteps ==
  ASSUME Base, NEW c \in Call, RunStep(c) \/ (c \in Edit /\ EditStep(c)),
         ~Admit(c), ~NothingFollows(c), ~Done(c), c \notin Edit
  PROVE  (pc'[c] \in CountPc <=> pc[c] \in CountPc) /\ h'[c].counted = h[c].counted
<1>1. pc \in [Call -> Pc] /\ h \in [Call -> Handle] /\ h[c] \in Handle
  BY DEF Base, Types
<1>2. PICK b \in Pc, v \in Handle : 
        Local(c, b, v) /\ Crosses(c, b) /\ Moved(c, b) /\ h' = [h EXCEPT ![c] = v]
  BY CallStep DEF Base, LocalInv
<1>3. pc'[c] \in TablePc \/ pc[c] \in TablePc
  BY <1>1 DEF TablePc, BusyPc, RunStep, EditStep, Locked, Goto, ReleaseLock,
       AcquireFree, AcquireBusy, LeaveQueue, Granted, LockFailed, OpenFails, StartRun,
       AttachLive, RunStarts, Commit, LastBoundary, PromptReturns, Settle, DetachLive,
       Unlock, Uncount, FollowOn, DrainWaitEnds, Finish, Unregister
<1>4. (pc'[c] \in TablePc <=> pc[c] \in TablePc) \/ Unregister(c)
  BY <1>2, Moves DEF Crosses
<1>5. Unregister(c) => pc[c] \in CountPc /\ pc'[c] \in CountPc
  BY <1>1 DEF Unregister, Goto, CountPc, TablePc
<1>6. h'[c].counted = h[c].counted
  BY HandleFrames DEF Base
<1>7. QED
  BY <1>3, <1>4, <1>5, <1>6 DEF CountPc

\* The counts of the table stay the calls they are of.
LEMMA CountNext ==
  ASSUME Base, CountInv, [Next]_vars
  PROVE  CountInv'
<1>0. pc \in [Call -> Pc] /\ h \in [Call -> Handle]
  BY DEF Base, Types
<1>1. /\ Admitted \in SUBSET Call /\ UnderLock \in SUBSET Call
      /\ Admitted' = {d \in Call : d \notin Edit /\ pc'[d] \in CountPc /\ h'[d].counted}
      /\ UnderLock' = {d \in Call : pc'[d] \in LockPc}
  BY DEF Admitted, UnderLock
<1>2. ASSUME NEW c \in Call, RunStep(c) \/ (c \in Edit /\ EditStep(c))
      PROVE  CountInv'
  <2>1. PICK b \in Pc, v \in Handle :
           Local(c, b, v) /\ Crosses(c, b) /\ Moved(c, b) /\ h' = [h EXCEPT ![c] = v]
    BY <1>2, CallStep DEF Base, LocalInv
  <2>2. /\ pc'[c] = b
        /\ \A d \in Call \ {c} : pc'[d] = pc[d] \/ (pc[d] = "waiting" /\ pc'[d] = "granted")
    BY <2>1, Moves
  <2>3. h'[c] = v /\ \A d \in Call \ {c} : h'[d] = h[d]
    BY <1>0, <2>1
  <2>4. \A d \in Call \ {c} : (d \in UnderLock' <=> d \in UnderLock) /\ (d \in Admitted' <=> d \in Admitted)
    BY <1>1, <2>2, <2>3 DEF Admitted, UnderLock, LockPc, OwnerPc, CountPc, TablePc, BusyPc
  <2>5. locked' = Cardinality(UnderLock')
    <3>1. CASE Locked(c)
      <4>1. pc[c] = "admitted" /\ pc' = [pc EXCEPT ![c] = "counted"] /\ locked' = locked + 1
        BY <3>1 DEF Locked, Goto
      <4>2. c \notin UnderLock /\ c \in UnderLock'
        BY <1>0, <4>1 DEF UnderLock, LockPc, OwnerPc
      <4>3. UnderLock' = UnderLock \cup {c}
        BY <1>1, <2>4, <4>2
      <4>4. QED
        BY <1>1, <4>1, <4>2, <4>3, CountOne DEF CountInv
    <3>2. CASE LockFailed(c) \/ Uncount(c)
      <4>1. pc[c] \in {"failed", "uncount"} /\ locked' = locked - 1
            /\ pc' = [pc EXCEPT ![c] = IF c \in Edit THEN "done" ELSE "next"]
        BY <3>2 DEF LockFailed, Uncount, Goto
      <4>2. c \in UnderLock /\ c \notin UnderLock'
        BY <1>0, <4>1 DEF UnderLock, LockPc, OwnerPc
      <4>3. UnderLock' = UnderLock \ {c}
        BY <1>1, <2>4, <4>2
      <4>4. QED
        BY <1>1, <4>1, <4>2, <4>3, CountOne DEF CountInv
    <3>3. CASE ~Locked(c) /\ ~LockFailed(c) /\ ~Uncount(c)
      <4>1. locked' = locked
        BY <1>2, <3>3, CallFrames
      <4>2. c \in UnderLock' <=> c \in UnderLock
        BY <2>1, <2>2, <3>3 DEF Crosses, UnderLock
      <4>3. UnderLock' = UnderLock
        BY <1>1, <2>4, <4>2
      <4>4. QED
        BY <4>1, <4>3 DEF CountInv
    <3>4. QED
      BY <3>1, <3>2, <3>3
  <2>6. inflight' = Cardinality(Admitted')
    <3>0. ASSUME inflight' = inflight, c \in Admitted' <=> c \in Admitted
          PROVE  inflight' = Cardinality(Admitted')
      <4>1. Admitted' = Admitted
        BY <1>1, <2>4, <3>0
      <4>2. QED
        BY <3>0, <4>1 DEF CountInv
    <3>1. ASSUME inflight' = inflight - 1, c \in Admitted, c \notin Admitted'
          PROVE  inflight' = Cardinality(Admitted')
      <4>1. Admitted' = Admitted \ {c}
        BY <1>1, <2>4, <3>1
      <4>2. QED
        BY <1>1, <3>1, <4>1, CountOne DEF CountInv
    <3>2. CASE Admit(c)
      <4>1. pc[c] = "admit" /\ c \notin Edit
        BY <3>2 DEF Admit, Base, LocalInv, Local, EditPc
      <4>2. c \notin Admitted
        BY <4>1 DEF Admitted, CountPc, TablePc, BusyPc
      <4>3. CASE AdmitOk
        <5>1. /\ inflight' = inflight + 1 /\ pc' = [pc EXCEPT ![c] = "admitted"]
              /\ h' = [h EXCEPT ![c] = NewHandle(c \in Send /\ send[c].waited)]
          BY <3>2, <4>3 DEF Admit, Goto
        <5>2. h'[c].counted /\ pc'[c] = "admitted"
          BY <1>0, <5>1 DEF NewHandle
        <5>3. c \in Admitted'
          BY <1>1, <4>1, <5>2 DEF CountPc, TablePc, BusyPc
        <5>4. Admitted' = Admitted \cup {c}
          BY <1>1, <2>4, <5>3
        <5>5. QED
          BY <1>1, <4>2, <5>1, <5>4, CountOne DEF CountInv
      <4>4. CASE ~AdmitOk
        <5>1. inflight' = inflight /\ pc' = [pc EXCEPT ![c] = "done"]
          BY <3>2, <4>4 DEF Admit, Goto
        <5>2. c \notin Admitted'
          BY <1>0, <1>1, <5>1 DEF CountPc, TablePc, BusyPc
        <5>3. QED
          BY <3>0, <4>2, <5>1, <5>2
      <4>5. QED
        BY <4>3, <4>4
    <3>3. CASE NothingFollows(c)
      <4>1. pc[c] = "next" /\ c \notin Edit
        BY <3>3 DEF NothingFollows, Base, LocalInv, Local, EditPc
      <4>2. h[c].counted
        BY <4>1 DEF Base, LocalInv, Local, BusyPc
      <4>3. c \in Admitted
        BY <4>1, <4>2 DEF Admitted, CountPc, TablePc, BusyPc
      <4>4. CASE h[c].drained /\ ~h[c].completed /\ ~Following(c)
        <5>1. inflight' = inflight - 1 /\ h' = [h EXCEPT ![c].counted = FALSE]
          BY <3>3, <4>4 DEF NothingFollows
        <5>2. ~h'[c].counted
          BY <1>0, <5>1 DEF Handle
        <5>3. QED
          BY <1>1, <3>1, <4>3, <5>1, <5>2
      <4>5. CASE ~(h[c].drained /\ ~h[c].completed /\ ~Following(c))
        <5>1. inflight' = inflight /\ h' = h /\ pc' = [pc EXCEPT ![c] = "finish"]
          BY <3>3, <4>5 DEF NothingFollows, Goto
        <5>2. c \in Admitted'
          BY <1>0, <1>1, <4>1, <4>2, <5>1 DEF CountPc, TablePc
        <5>3. QED
          BY <3>0, <4>3, <5>1, <5>2
      <4>6. QED
        BY <4>4, <4>5
    <3>4. CASE Done(c)
      <4>1. pc[c] = "release" /\ c \notin Edit /\ pc' = [pc EXCEPT ![c] = "done"]
        BY <3>4 DEF Done, Base, LocalInv, Local, EditPc, Goto
      <4>2. c \in Admitted <=> h[c].counted
        BY <4>1 DEF Admitted, CountPc
      <4>3. c \notin Admitted'
        BY <1>0, <1>1, <4>1 DEF CountPc, TablePc, BusyPc
      <4>4. CASE h[c].counted
        BY <3>1, <3>4, <4>2, <4>3, <4>4 DEF Done
      <4>5. CASE ~h[c].counted
        BY <3>0, <3>4, <4>2, <4>3, <4>5 DEF Done
      <4>6. QED
        BY <4>4, <4>5
    <3>5. CASE ~Admit(c) /\ ~NothingFollows(c) /\ ~Done(c)
      <4>1. inflight' = inflight
        BY <1>2, <3>5, CallFrames
      <4>2. c \in Edit => c \notin Admitted /\ c \notin Admitted'
        BY <1>1 DEF Admitted
      <4>3. c \notin Edit => (c \in Admitted' <=> c \in Admitted)
        BY <1>1, <1>2, <3>5, CountSteps DEF Admitted
      <4>4. QED
        BY <3>0, <4>1, <4>2, <4>3
    <3>6. QED
      BY <3>2, <3>3, <3>4, <3>5
  <2>7. QED
    BY <2>5, <2>6 DEF CountInv
<1>3. ASSUME UNCHANGED <<inflight, locked>>,
             \A d \in Call : pc'[d] \in LockPc <=> pc[d] \in LockPc,
             \A d \in Call : pc'[d] \in CountPc <=> pc[d] \in CountPc,
             \A d \in Call : h'[d].counted = h[d].counted
      PROVE  CountInv'
  <2>1. UnderLock' = UnderLock
    BY <1>1, <1>3 DEF UnderLock
  <2>2. ASSUME NEW d \in Call
        PROVE  d \in Admitted' <=> d \in Admitted
    <3>1. h'[d].counted <=> h[d].counted
      BY <1>3
    <3>2. QED
      BY <1>1, <1>3, <3>1 DEF Admitted
  <2>3. Admitted' = Admitted
    BY <1>1, <2>2
  <2>4. QED
    BY <1>3, <2>1, <2>3 DEF CountInv
<1>4. ASSUME NEW m \in Send, SendStep(m)
      PROVE  CountInv'
  <2>1. PICK b \in (Before \cup {"done"}) \ {"check"} : pc' = [pc EXCEPT ![m] = b]
    BY <1>4, SendMoves DEF Base
  <2>2. pc[m] \notin LockPc \cup CountPc /\ b \notin LockPc \cup CountPc
    BY <1>4, SendMoves DEF Base, Before, LockPc, OwnerPc, CountPc, TablePc, BusyPc
  <2>3. \A d \in Call : h'[d].counted = h[d].counted
    <3>1. CASE h' = h
      BY <3>1
    <3>2. ASSUME NEW c \in Call, h' = [h EXCEPT ![c] = [h[c] EXCEPT !.queue = Append(h[c].queue, m)]]
          PROVE  \A d \in Call : h'[d].counted = h[d].counted
      BY <1>0, <3>2 DEF Handle
    <3>3. QED
      BY <1>4, <3>1, <3>2, SendMoves DEF Base
  <2>4. QED
    BY <1>0, <1>3, <1>4, <2>1, <2>2, <2>3, OtherFrames DEF tableState
<1>5. ASSUME StopStep
      PROVE  CountInv'
  <2>1. PICK c \in Call, v \in Handle : Flagged(h[c], v) /\ h' = [h EXCEPT ![c] = v]
    BY <1>5, StopMoves DEF Base
  <2>2. \A d \in Call : h'[d].counted = h[d].counted
    BY <1>0, <2>1 DEF Flagged
  <2>3. QED
    BY <1>3, <1>5, <2>2, OtherFrames DEF tableState
<1>6. CASE OtherStep \/ UNCHANGED vars
  BY <1>3, <1>6, OtherFrames DEF tableState
<1>7. QED
  BY <1>2, <1>4, <1>5, <1>6, Cases

\* Once it is drained, an Instance stays without work.
LEMMA DrainNext ==
  ASSUME Base, CountInv, DrainInv, [Next]_vars
  PROVE  DrainInv'
<1>0. pc \in [Call -> Pc] /\ draining \in BOOLEAN /\ drained \in BOOLEAN
  BY DEF Base, Types
<1>1. ASSUME NEW c \in Call, RunStep(c) \/ (c \in Edit /\ EditStep(c)), drained'
      PROVE  draining' /\ \A d \in Call : d \notin Edit => pc'[d] \notin BusyPc
  <2>1. draining' = draining /\ drained' = drained
    BY <1>1, CallFrames DEF drainState
  <2>2. draining /\ \A d \in Call : d \notin Edit => pc[d] \notin BusyPc
    BY <1>1, <2>1 DEF DrainInv
  <2>3. PICK b \in Pc : Crosses(c, b) /\ Moved(c, b)
    BY <1>1, CallStep DEF Base, LocalInv
  <2>4. /\ pc'[c] = b
        /\ \A d \in Call \ {c} : pc'[d] = pc[d] \/ (pc[d] = "waiting" /\ pc'[d] = "granted")
    BY <2>3, Moves
  <2>5. Admit(c) => pc'[c] = "done"
    BY <1>0, <2>2 DEF Admit, AdmitOk, Goto
  <2>6. c \notin Edit => b \notin BusyPc
    BY <2>2, <2>3, <2>4, <2>5 DEF Crosses, BusyPc
  <2>7. QED
    BY <2>1, <2>2, <2>4, <2>6 DEF BusyPc
<1>2. ASSUME NEW m \in Send, SendStep(m), drained'
      PROVE  draining' /\ \A d \in Call : d \notin Edit => pc'[d] \notin BusyPc
  <2>1. PICK b \in (Before \cup {"done"}) \ {"check"} : pc' = [pc EXCEPT ![m] = b]
    BY <1>2, SendMoves DEF Base
  <2>2. draining' = draining /\ drained' = drained
    BY <1>2, OtherFrames DEF drainState
  <2>3. b \notin BusyPc
    BY DEF Before, BusyPc
  <2>4. QED
    BY <1>0, <1>2, <2>1, <2>2, <2>3 DEF DrainInv
<1>3. CASE StopStep \/ UNCHANGED vars
  <2>1. pc' = pc /\ drained' = drained /\ draining' = draining
    BY <1>3, OtherFrames DEF drainState
  <2>2. QED
    BY <2>1 DEF DrainInv
<1>4. CASE OtherStep /\ ~CloseDrained
  <2>1. pc' = pc /\ drained' = drained /\ (draining => draining')
    BY <1>4 DEF OtherStep, DrainTimesOut, DrainReturns, Drain, CtxEnds, drainState
  <2>2. QED
    BY <2>1 DEF DrainInv
<1>5. CASE CloseDrained
  <2>1. draining /\ inflight = 0 /\ pc' = pc /\ draining' = draining
    BY <1>5 DEF CloseDrained, NothingCounted
  <2>2. Admitted = {}
    BY <2>1, CountOne DEF CountInv, Admitted
  <2>3. ASSUME NEW d \in Call, d \notin Edit, pc[d] \in BusyPc
        PROVE  FALSE
    <3>1. h[d].counted
      BY <2>3 DEF Base, LocalInv, Local
    <3>2. QED
      BY <2>2, <2>3, <3>1 DEF Admitted, CountPc, TablePc
  <2>4. QED
    BY <2>1, <2>3 DEF DrainInv
<1>6. QED
  BY <1>1, <1>2, <1>3, <1>4, <1>5, Cases DEF DrainInv

-----------------------------------------------------------------------------
(* What follows from the counts; stops.                                    *)

\* Base, the counts and the drain.
HostInv == Base /\ CountInv /\ DrainInv

\* The counts of the table are of the calls they are meant for, and a drained
\* Instance has no Run with work left (host/internal/runs).
THEOREM HostInvHolds == Spec => []HostInv
<1>1. Init => CountInv
  <2> SUFFICES ASSUME Init PROVE CountInv
    OBVIOUS
  <2>1. Admitted = {} /\ UnderLock = {}
    BY DEF Init, Admitted, UnderLock, CountPc, TablePc, BusyPc, LockPc, OwnerPc
  <2>2. QED
    BY <2>1, FS_EmptySet DEF Init, CountInv
<1>2. Init => DrainInv
  BY DEF Init, DrainInv
<1>3. HostInv /\ [Next]_vars => HostInv'
  BY BaseNext, CountNext, DrainNext DEF HostInv
<1>4. QED
  BY <1>1, <1>2, <1>3, BaseInit, PTL DEF Spec, HostInv

\* The state is well-formed: the counters are between 0 and the number of calls,
\* the table holds no change of the Session, and only messages wait
\* (host/internal/runs Table, host/runhandle.go).
THEOREM HostTypeCorrect == Spec => []TypeOK
<1>1. HostInv => TypeOK
  <2> SUFFICES ASSUME HostInv PROVE TypeOK
    OBVIOUS
  <2>1. Types /\ TableInv /\ CountInv
    BY DEF HostInv, Base
  <2>2. pc \in [Call -> Pc] /\ held \in BOOLEAN
    BY <2>1 DEF Types
  <2>3. ToSet(waiters) \subseteq Call
    BY <2>1 DEF Types, ToSet
  <2>4. ToSet(table) \subseteq Call \ Edit
    BY <2>1 DEF Types, ToSet, TableInv, In
  <2>5. inflight \in 0 .. Cardinality(Call) /\ locked \in 0 .. Cardinality(Call)
    <3>1. ASSUME NEW T \in SUBSET Call
          PROVE  Cardinality(T) \in 0 .. Cardinality(Call)
      <4>1. IsFiniteSet(Call)
        BY HostAssumption
      <4>2. IsFiniteSet(T) /\ Cardinality(T) <= Cardinality(Call)
        BY <4>1, FS_Subset
      <4>3. Cardinality(T) \in Nat /\ Cardinality(Call) \in Nat
        BY <4>1, <4>2, FS_CardinalityType
      <4>4. QED
        BY <4>2, <4>3
    <3>2. QED
      BY <2>1, <3>1 DEF CountInv, Admitted, UnderLock
  <2>6. fate \in [Send -> {"none", "queued", "committed", "dropped"}]
    BY <2>1 DEF Types, Fate
  <2>7. ASSUME NEW c \in Call
        PROVE  ToSet(Pending(c)) \subseteq Send
    <3>1. h[c].follow \in Seq(Send) /\ h[c].next \in Seq(Send) /\ h[c].queue \in Seq(Send)
      BY <2>1 DEF Types, Handle
    <3>2. Pending(c) \in Seq(Send)
      BY <3>1 DEF Pending
    <3>3. QED
      BY <3>2 DEF ToSet
  <2>8. QED
    BY <2>2, <2>3, <2>4, <2>5, <2>6, <2>7 DEF TypeOK
<1>2. QED
  BY <1>1, HostInvHolds, PTL

\* Work left is a place.
LEMMA WorkingIsBusy ==
  ASSUME NEW c \in Call
  PROVE  Working(c) <=> pc[c] \in BusyPc
BY DEF Working, Owners, BusyPc

\* Once the drain's channel is closed no admitted Run has work left, whatever was
\* stopped, followed or refused on the way (host/internal/runs Drain, host/drain.go).
THEOREM DrainSettlesRuns == Spec => []DrainedMeansSettled
<1>1. HostInv => DrainedMeansSettled
  BY WorkingIsBusy DEF HostInv, DrainInv, DrainedMeansSettled
<1>2. QED
  BY <1>1, HostInvHolds, PTL

\* The drain does not end over a change of the Session that sessionLock has counted
\* (host/locks.go sessionLock, runs Locked).
THEOREM DrainWaits == Spec => DrainWaitsForChanges
<1> DEFINE Closing == (drained' /\ ~drained) => \A c \in Edit : Working(c) => pc[c] = "admitted"
<1>1. ASSUME HostInv, [Next]_vars
      PROVE  [Closing]_vars
  <2>1. CASE CloseDrained
    <3>1. locked = 0
      BY <2>1 DEF CloseDrained, NothingCounted
    <3>2. UnderLock = {}
      BY <1>1, <3>1, CountOne DEF HostInv, CountInv, UnderLock
    <3>3. ASSUME NEW c \in Edit, Working(c)
          PROVE  pc[c] = "admitted"
      <4>1. c \in Call
        BY DEF Call
      <4>2. pc[c] \in BusyPc /\ pc[c] \notin LockPc
        BY <3>2, <3>3, <4>1, WorkingIsBusy DEF UnderLock
      <4>3. pc[c] \in EditPc
        BY <1>1, <4>1 DEF HostInv, Base, LocalInv, Local
      <4>4. QED
        BY <4>2, <4>3 DEF BusyPc, EditPc, LockPc, OwnerPc
    <3>4. QED
      BY <3>3
  <2>2. CASE ~CloseDrained
    <3>1. drained' = drained
      <4>1. ASSUME NEW c \in Call, RunStep(c) \/ (c \in Edit /\ EditStep(c))
            PROVE  drained' = drained
        BY <4>1, CallFrames DEF drainState
      <4>2. OtherStep => drained' = drained
        BY <2>2 DEF OtherStep, DrainTimesOut, DrainReturns, Drain, CtxEnds, drainState
      <4>3. QED
        BY <1>1, <4>1, <4>2, Cases, OtherFrames DEF drainState
    <3>2. QED
      BY <3>1
  <2>3. QED
    BY <2>1, <2>2
<1>2. QED
  BY <1>1, HostInvHolds, PTL DEF Spec, DrainWaitsForChanges

\* A Run that runs, was stopped and is not aborted has a stop under way that will
\* abort it: one that found the Session to abort, and this Run.
StopInv ==
  \A c \in Call :
    (pc[c] = "running" /\ h[c].stopped /\ ~h[c].aborted)
      => \E a \in acts : a.at = c /\ a.abort /\ a.gen = h[c].gen

\* Every step keeps it: a stop that marks a running Run found it abortable, and an
\* act that goes for another Run leaves the one that is for this one.
LEMMA StopInvNext ==
  ASSUME Base, StopInv, [Next]_vars
  PROVE  StopInv'
<1>0. pc \in [Call -> Pc] /\ h \in [Call -> Handle]
  BY DEF Base, Types
<1>1. ASSUME acts' = acts, NEW d \in Call,
             pc'[d] = "running" => pc[d] = "running",
             h'[d].stopped = h[d].stopped, h'[d].aborted = h[d].aborted, h'[d].gen = h[d].gen
      PROVE  (pc'[d] = "running" /\ h'[d].stopped /\ ~h'[d].aborted)
               => \E a \in acts' : a.at = d /\ a.abort /\ a.gen = h'[d].gen
  BY ZenonT(30), <1>1 DEF StopInv
<1>2. ASSUME NEW c \in Call, RunStep(c) \/ (c \in Edit /\ EditStep(c)), NEW d \in Call
      PROVE  (pc'[d] = "running" /\ h'[d].stopped /\ ~h'[d].aborted)
               => \E a \in acts' : a.at = d /\ a.abort /\ a.gen = h'[d].gen
  <2>1. PICK b \in Pc, v \in Handle : Moved(c, b) /\ h' = [h EXCEPT ![c] = v]
    BY <1>2, CallStep DEF Base, LocalInv
  <2>2. acts' = acts
    BY <1>2, CallFrames
  <2>3. CASE d # c
    <3>1. h'[d] = h[d]
      BY <1>0, <2>1, <2>3
    <3>2. pc'[d] = "running" => pc[d] = "running"
      BY <2>1, <2>3, Moves
    <3>3. QED
      BY <1>1, <2>2, <3>1, <3>2
  <2>4. CASE d = c /\ RunStarts(c)
    BY <1>0, <2>4 DEF RunStarts, Handle
  <2>5. CASE d = c /\ Commit(c)
    <3>1. pc' = pc /\ ~FollowOn(c) /\ ~DetachLive(c) /\ ~StartRun(c) /\ ~RunStarts(c) /\ ~Admit(c)
      BY <2>5 DEF Commit, FollowOn, DetachLive, StartRun, RunStarts, Admit
    <3>2. QED
      BY <1>1, <1>2, <2>2, <2>5, <3>1, HandleFrames DEF Base
  <2>6. CASE d = c /\ ~RunStarts(c) /\ ~Commit(c)
    <3>1. pc'[c] # "running"
      BY <1>0, <1>2, <2>6, FirstWaits DEF Base, RunStep, EditStep, Admit, Locked, Goto, ReleaseLock,
       AcquireFree, AcquireBusy, LeaveQueue, Granted, LockFailed, OpenFails, StartRun,
       AttachLive, LastBoundary, PromptReturns, Settle, DetachLive,
       Unlock, Uncount, FollowOn, NothingFollows, DrainWaitEnds, Finish, Unregister, Done,
       CheckDraining, EditSession
    <3>2. QED
      BY <2>6, <3>1
  <2>7. QED
    BY <2>3, <2>4, <2>5, <2>6
<1>3. ASSUME NEW m \in Send, SendStep(m), NEW d \in Call
      PROVE  (pc'[d] = "running" /\ h'[d].stopped /\ ~h'[d].aborted)
               => \E a \in acts' : a.at = d /\ a.abort /\ a.gen = h'[d].gen
  <2>1. PICK b \in (Before \cup {"done"}) \ {"check"} : pc' = [pc EXCEPT ![m] = b]
    BY <1>3, SendMoves DEF Base
  <2>2. pc'[d] = "running" => pc[d] = "running"
    BY <1>0, <2>1 DEF Before
  <2>3. h'[d].stopped = h[d].stopped /\ h'[d].aborted = h[d].aborted /\ h'[d].gen = h[d].gen
    <3>1. CASE h' = h
      BY <3>1
    <3>2. ASSUME NEW c \in Call, h' = [h EXCEPT ![c] = [h[c] EXCEPT !.queue = Append(h[c].queue, m)]]
          PROVE  h'[d].stopped = h[d].stopped /\ h'[d].aborted = h[d].aborted /\ h'[d].gen = h[d].gen
      BY <1>0, <3>2 DEF Handle
    <3>3. QED
      BY <1>3, <3>1, <3>2, SendMoves DEF Base
  <2>4. QED
    BY <1>1, <1>3, <2>2, <2>3, OtherFrames
<1>4. ASSUME NEW c \in Call, NEW x \in Handle, x.settled = h[c].settled, x.gen = h[c].gen,
             x.stopped = h[c].stopped, x.aborted = h[c].aborted,
             h' = [h EXCEPT ![c] = StopHandle(x, c)], acts' = StopActs(c), pc' = pc,
             NEW d \in Call
      PROVE  (pc'[d] = "running" /\ h'[d].stopped /\ ~h'[d].aborted)
               => \E a \in acts' : a.at = d /\ a.abort /\ a.gen = h'[d].gen
  <2>1. \A a \in acts : a \in acts'
    BY <1>4 DEF StopActs
  <2>2. CASE d # c
    BY <1>0, <1>4, <2>1, <2>2 DEF StopInv
  <2>3. CASE d = c /\ h[c].settled
    <3>1. h'[c].stopped = h[c].stopped /\ h'[c].aborted = h[c].aborted /\ h'[c].gen = h[c].gen
      BY <1>0, <1>4, <2>3 DEF StopHandle, Handle
    <3>2. QED
      BY <1>4, <2>1, <2>3, <3>1 DEF StopInv
  <2>4. CASE d = c /\ ~h[c].settled
    <3>1. h'[c].aborted = h[c].aborted /\ h'[c].gen = h[c].gen
      BY <1>0, <1>4, <2>4 DEF StopHandle, Handle
    <3>2. [at |-> c, gen |-> h[c].gen, abort |-> h[c].abort] \in acts'
      BY <1>4, <2>4 DEF StopActs
    <3>3. pc[c] = "running" => h[c].abort
      BY DEF Base, LocalInv, Local, BuiltPc
    <3>4. QED
      BY <1>4, <2>4, <3>1, <3>2, <3>3
  <2>5. QED
    BY <2>2, <2>3, <2>4
<1>5. ASSUME AbortSession, NEW d \in Call
      PROVE  (pc'[d] = "running" /\ h'[d].stopped /\ ~h'[d].aborted)
               => \E a \in acts' : a.at = d /\ a.abort /\ a.gen = h'[d].gen
  <2>1. Chosen \in Call
    BY <1>5, PlaceFacts DEF AbortSession, Base, Types
  <2>2. h' = [h EXCEPT ![Chosen] = StopHandle(h[Chosen], Chosen)] /\ acts' = StopActs(Chosen) /\ pc' = pc
    BY <1>0, <1>5, <2>1 DEF AbortSession
  <2>3. h[Chosen] \in Handle
    BY <1>0, <2>1
  <2>4. QED
    BY <1>4, <2>1, <2>2, <2>3
<1>6. ASSUME NEW c \in Call, StopForDrain(c), NEW d \in Call
      PROVE  (pc'[d] = "running" /\ h'[d].stopped /\ ~h'[d].aborted)
               => \E a \in acts' : a.at = d /\ a.abort /\ a.gen = h'[d].gen
  <2> DEFINE x == [h[c] EXCEPT !.drained = TRUE]
  <2>1. /\ x \in Handle /\ x.settled = h[c].settled /\ x.gen = h[c].gen
        /\ x.stopped = h[c].stopped /\ x.aborted = h[c].aborted
    BY ZenonT(30), <1>0 DEF Handle
  <2>2. h' = [h EXCEPT ![c] = StopHandle(x, c)] /\ acts' = StopActs(c) /\ pc' = pc
    BY <1>0, <1>6 DEF StopForDrain
  <2> HIDE DEF x
  <2>3. QED
    BY <1>4, <2>1, <2>2
<1>7. ASSUME NEW a \in acts, Act(a), NEW d \in Call
      PROVE  (pc'[d] = "running" /\ h'[d].stopped /\ ~h'[d].aborted)
               => \E e \in acts' : e.at = d /\ e.abort /\ e.gen = h'[d].gen
  <2>0. a.at \in Call /\ h[a.at] \in Handle /\ a.abort \in BOOLEAN
    BY <1>0 DEF Base, Types, Stop
  <2>1. SUFFICES ASSUME pc'[d] = "running", h'[d].stopped, ~h'[d].aborted
                 PROVE  \E e \in acts' : e.at = d /\ e.abort /\ e.gen = h'[d].gen
    OBVIOUS
  <2>2. pc' = pc /\ acts' = acts \ {a}
    BY <1>7 DEF Act
  <2>3. /\ h'[d].stopped = h[d].stopped /\ h'[d].gen = h[d].gen
        /\ h[d].aborted => h'[d].aborted
        /\ a.at = d /\ a.abort /\ h[d].gen = a.gen /\ pc[d] = "running" => h'[d].aborted
    <3>1. CASE a.abort
      <4>1. h' = [h EXCEPT ![a.at].aborted =
                   @ \/ (h[a.at].gen = a.gen /\ pc[a.at] \in {"running", "settling"})]
        BY <1>7, <3>1 DEF Act
      <4>2. QED
        BY <1>0, <2>0, <4>1 DEF Handle
    <3>2. CASE ~a.abort
      <4>1. h' = [h EXCEPT ![a.at].canceled = @ \/ ((a.gen = 0) <=> ~Following(a.at))]
        BY <1>7, <3>2 DEF Act
      <4>2. QED
        BY <1>0, <2>0, <3>2, <4>1 DEF Handle
    <3>3. QED
      BY <2>0, <3>1, <3>2
  <2>4. PICK e \in acts : e.at = d /\ e.abort /\ e.gen = h[d].gen
    BY <2>1, <2>2, <2>3 DEF StopInv
  <2>5. e # a
    BY <2>1, <2>2, <2>3, <2>4
  <2>6. QED
    BY <2>2, <2>3, <2>4, <2>5
<1>8. CASE OtherStep \/ UNCHANGED vars
  <2>1. pc' = pc /\ h' = h /\ acts' = acts
    BY <1>8, OtherFrames
  <2>2. QED
    BY <2>1 DEF StopInv
<1>9. CASE StopStep
  BY <1>5, <1>6, <1>7, <1>9 DEF StopStep, StopInv
<1>10. QED
  BY <1>2, <1>3, <1>8, <1>9, Cases DEF StopInv

\* A stop that has returned has reached the Run it was for
\* (host/runhandle.go stop, abortIfStopped).
THEOREM StopsAreApplied == Spec => []StopsReachTheirRun
<1>1. Init => StopInv
  BY DEF Init, StopInv
<1>2. Base /\ StopInv /\ [Next]_vars => StopInv'
  BY StopInvNext
<1>3. Base /\ StopInv => StopsReachTheirRun
  BY DEF StopInv, StopsReachTheirRun, Base, Types, Handle
<1>4. QED
  BY <1>1, <1>2, <1>3, BaseHolds, PTL DEF Spec

-----------------------------------------------------------------------------
(* Messages: what a step of a call leaves.                                 *)

\* Q is what is left of P without its first lo elements and some of its last.
Window(P, Q, lo) ==
  /\ Q \in Seq(Send) /\ lo \in Nat /\ lo + Len(Q) <= Len(P)
  /\ \A j \in 1 .. Len(Q) : Q[j] = P[lo + j]

\* The messages outside the window are committed or dropped, and no other.
Settles(f, g, P, Q, lo) ==
  \A m \in Send :
    IF \E k \in DOMAIN P : P[k] = m /\ ~(lo < k /\ k <= lo + Len(Q))
    THEN g[m] \in {"committed", "dropped"}
    ELSE g[m] = f[m]

\* Q is left of P, and the rest is settled.
Leaves(P, Q) == \E lo \in Nat : Window(P, Q, lo) /\ Settles(fate, fate', P, Q, lo)

\* Nothing goes.
LEMMA LeaveAll ==
  ASSUME NEW P \in Seq(Send), fate' = fate
  PROVE  Leaves(P, P)
<1>1. Window(P, P, 0)
  BY DEF Window
<1>2. Settles(fate, fate', P, P, 0)
  <2>1. DOMAIN P = 1 .. Len(P) /\ Len(P) \in Nat
    OBVIOUS
  <2>2. \A k \in DOMAIN P : 0 < k /\ k <= 0 + Len(P)
    BY <2>1
  <2>3. QED
    BY <2>2 DEF Settles
<1>3. QED
  BY <1>1, <1>2 DEF Leaves

\* All are dropped.
LEMMA LeaveNone ==
  ASSUME Types, NEW P \in Seq(Send), fate' = Dropped(P)
  PROVE  Leaves(P, <<>>)
<1>1. Window(P, <<>>, 0)
  BY DEF Window
<1>2. Settles(fate, fate', P, <<>>, 0)
  <2>1. Len(<<>>) = 0 /\ DOMAIN P = 1 .. Len(P) /\ Len(P) \in Nat
    OBVIOUS
  <2>2. \A k \in DOMAIN P : ~(0 < k /\ k <= 0 + 0)
    BY <2>1
  <2>3. DOMAIN fate = Send
    BY DEF Types
  <2>4. QED
    BY <2>1, <2>2, <2>3 DEF Settles, Dropped, ToSet
<1>3. QED
  BY <1>1, <1>2 DEF Leaves

\* The first part goes, and the rest stays.
LEMMA LeaveRest ==
  ASSUME Types, NEW F \in Seq(Send), NEW U \in Seq(Send),
         \A m \in Send : IF m \in ToSet(F) THEN fate'[m] \in {"committed", "dropped"}
                                          ELSE fate'[m] = fate[m]
  PROVE  Leaves(F \o U, U)
<1> DEFINE P == F \o U
<1>1. /\ P \in Seq(Send) /\ Len(P) = Len(F) + Len(U) /\ Len(F) \in Nat /\ Len(U) \in Nat
      /\ DOMAIN P = 1 .. (Len(F) + Len(U)) /\ DOMAIN F = 1 .. Len(F)
      /\ \A k \in 1 .. Len(F) : P[k] = F[k]
      /\ \A k \in 1 .. Len(U) : P[Len(F) + k] = U[k]
  OBVIOUS
<1> HIDE DEF P
<1>2. Window(P, U, Len(F))
  BY <1>1 DEF Window
<1>3. \A k \in DOMAIN P : ~(Len(F) < k /\ k <= Len(F) + Len(U)) <=> k \in DOMAIN F
  BY <1>1
<1>4. \A m : (\E k \in DOMAIN P : P[k] = m /\ ~(Len(F) < k /\ k <= Len(F) + Len(U)))
               <=> m \in ToSet(F)
  <2>1. \A k \in DOMAIN F : k \in DOMAIN P
    BY <1>1
  <2>2. QED
    BY <1>1, <1>3, <2>1 DEF ToSet
<1>5. Settles(fate, fate', P, U, Len(F))
  BY <1>4 DEF Settles
<1>6. QED
  BY <1>1, <1>2, <1>5 DEF Leaves, P

\* The first n stay, and the rest is dropped.
LEMMA LeaveFirst ==
  ASSUME Types, NEW P \in Seq(Send), NEW Q \in Seq(Send), Len(Q) <= Len(P),
         \A j \in 1 .. Len(Q) : Q[j] = P[j],
         NEW D, ToSet(D) = {P[k] : k \in (Len(Q) + 1) .. Len(P)}, fate' = Dropped(D)
  PROVE  Leaves(P, Q)
<1>1. Len(Q) \in Nat /\ Len(P) \in Nat /\ DOMAIN P = 1 .. Len(P) /\ DOMAIN fate = Send
  BY DEF Types
<1>2. Window(P, Q, 0)
  BY <1>1 DEF Window
<1>3. \A k \in DOMAIN P : ~(0 < k /\ k <= 0 + Len(Q)) <=> k \in (Len(Q) + 1) .. Len(P)
  BY <1>1
<1>4. (Len(Q) + 1) .. Len(P) \subseteq DOMAIN P
  BY <1>1
<1>5. \A m : (\E k \in DOMAIN P : P[k] = m /\ ~(0 < k /\ k <= 0 + Len(Q))) <=> m \in ToSet(D)
  BY <1>3, <1>4
<1>6. Settles(fate, fate', P, Q, 0)
  BY <1>1, <1>5 DEF Settles, Dropped
<1>7. QED
  BY <1>2, <1>6 DEF Leaves

\* A handle's messages: those of the three places, two of which are empty at most
\* places of its call.
LEMMA PendingIs ==
  ASSUME NEW F \in Seq(Send), NEW N \in Seq(Send), NEW U \in Seq(Send)
  PROVE  /\ F \o N \o U \in Seq(Send)
         /\ N = <<>> => F \o N \o U = F \o U
         /\ N = <<>> /\ U = <<>> => F \o N \o U = F
         /\ F = <<>> /\ N = <<>> => F \o N \o U = U
         /\ F = <<>> /\ U = <<>> => F \o N \o U = N
<1>1. F \o N \in Seq(Send) /\ F \o N \o U \in Seq(Send)
  OBVIOUS
<1>2. F \o <<>> = F /\ <<>> \o N = N /\ <<>> \o U = U /\ N \o <<>> = N
  BY ConcatEmptySeq
<1>3. QED
  BY <1>1, <1>2

\* A step of a call leaves, of the messages of its handle, some in a row; it commits
\* or drops the others, and touches no other message.
LEMMA MessageStep ==
  ASSUME Base, NEW c \in Call, RunStep(c) \/ (c \in Edit /\ EditStep(c))
  PROVE  Leaves(Pending(c), Pending(c)')
<1> DEFINE F == h[c].follow
           N == h[c].next
           U == h[c].queue
           P == F \o N \o U
<1>0. h \in [Call -> Handle] /\ h[c] \in Handle /\ Types /\ DOMAIN fate = Send /\ left.queue \in Nat
  BY DEF Base, Types
<1>1. F \in Seq(Send) /\ N \in Seq(Send) /\ U \in Seq(Send) /\ <<>> \in Seq(Send)
  BY <1>0 DEF Handle
<1>2. Pending(c) = P
  BY DEF Pending
<1>3. P \in Seq(Send)
  BY <1>1, PendingIs
<1>4. /\ U # <<>> => pc[c] \in BuiltPc
      /\ N # <<>> => pc[c] \in {"unlock", "uncount", "next"}
      /\ F # <<>> => pc[c] \in {"admitted", "counted", "waiting", "granted", "failed",
                                "opening", "built", "attached", "running"}
      /\ pc[c] \in {"built", "attached", "running"} => Len(F) <= 1
  BY DEF Base, LocalInv, Local
<1> HIDE DEF P, F, N, U
<1>5. ASSUME Pending(c)' = P, fate' = fate
      PROVE  Leaves(P, Pending(c)')
  BY <1>3, <1>5, LeaveAll
<1>6. ASSUME h' = h, fate' = fate
      PROVE  Leaves(P, Pending(c)')
  <2>1. Pending(c)' = P
    BY <1>2, <1>6 DEF Pending
  <2>2. QED
    BY <1>5, <1>6, <2>1
<1>7. ASSUME h'[c].follow = F, h'[c].next = N, h'[c].queue = U, fate' = fate
      PROVE  Leaves(P, Pending(c)')
  <2>1. Pending(c)' = P
    BY <1>7 DEF Pending, P
  <2>2. QED
    BY <1>5, <1>7, <2>1
<1>8. CASE LockFailed(c) \/ OpenFails(c)
  <2>1. pc[c] \in {"failed", "opening"} /\ DropFollow(c)
    BY <1>8 DEF LockFailed, OpenFails
  <2>2. N = <<>> /\ U = <<>>
    BY <1>4, <2>1 DEF BuiltPc
  <2>3. P = F
    BY <1>1, <2>2, PendingIs DEF P
  <2>4. h'[c].follow = <<>> /\ h'[c].next = <<>> /\ h'[c].queue = <<>> /\ fate' = Dropped(F)
    BY <1>0, <2>1, <2>2 DEF DropFollow, Handle, F, N, U
  <2>5. Pending(c)' = <<>>
    BY <1>1, <2>4, PendingIs DEF Pending
  <2>6. QED
    BY <1>0, <1>2, <1>3, <2>3, <2>4, <2>5, LeaveNone
<1>9. CASE StartRun(c)
  <2> DEFINE rest  == IF F = <<>> THEN <<>> ELSE Tail(F)
             first == SubSeq(F, 1, Len(F) - Len(rest))
             fit   == IF Len(rest) <= left.queue THEN rest ELSE SubSeq(rest, 1, left.queue)
             D     == SubSeq(rest, Len(fit) + 1, Len(rest))
  <2>1. pc[c] = "opening" /\ fate' = Dropped(D)
    BY <1>9 DEF StartRun, F
  <2>2. h' = [h EXCEPT ![c].queue = fit, ![c].follow = first, ![c].abort = TRUE,
                       ![c].aborted = FALSE, ![c].completed = FALSE]
    BY <1>9 DEF StartRun, F
  <2>3. N = <<>> /\ U = <<>>
    BY <1>4, <2>1 DEF BuiltPc
  <2>4. P = F
    BY <1>1, <2>3, PendingIs DEF P
  <2>5. h'[c].follow = first /\ h'[c].next = <<>> /\ h'[c].queue = fit
    <3> HIDE DEF rest, first, fit
    <3>1. QED
      BY <1>0, <2>2, <2>3 DEF Handle, N
  <2>6. CASE F = <<>>
    <3>1. rest = <<>> /\ first = <<>> /\ fit = <<>> /\ D = <<>>
      BY <1>0, <2>6
    <3>2. Pending(c)' = <<>>
      BY <1>1, <2>5, <3>1, PendingIs DEF Pending
    <3>3. QED
      BY <1>0, <1>1, <1>2, <2>1, <2>4, <2>6, <3>1, <3>2, LeaveNone
  <2>7. CASE F # <<>>
    <3>1. /\ rest \in Seq(Send) /\ Len(F) \in Nat \ {0} /\ Len(rest) = Len(F) - 1
          /\ \A k \in 1 .. Len(rest) : rest[k] = F[k + 1]
      BY <1>1, <2>7
    <3>2. Len(first) = 1 /\ first \in Seq(Send) /\ first[1] = F[1]
      BY <1>1, <2>7, <3>1
    <3> HIDE DEF rest, first
    <3>3. /\ fit \in Seq(Send) /\ Len(fit) \in Nat /\ Len(fit) <= Len(rest)
          /\ \A k \in 1 .. Len(fit) : fit[k] = rest[k]
      BY <1>0, <3>1
    <3> HIDE DEF fit
    <3> DEFINE Q == first \o fit
    <3>4. /\ Q \in Seq(Send) /\ Len(Q) = Len(fit) + 1 /\ Q[1] = first[1]
          /\ \A k \in 1 .. Len(fit) : Q[k + 1] = fit[k]
      <4>1. /\ Q \in Seq(Send) /\ Len(Q) = 1 + Len(fit)
            /\ \A i \in 1 .. 1 + Len(fit) : Q[i] = IF i <= 1 THEN first[i] ELSE fit[i - 1]
        <5>1. /\ Q \in Seq(Send) /\ Len(Q) = Len(first) + Len(fit)
              /\ \A i \in 1 .. Len(first) + Len(fit) :
                   Q[i] = IF i <= Len(first) THEN first[i] ELSE fit[i - Len(first)]
          BY <3>2, <3>3, ConcatProperties
        <5> HIDE DEF Q
        <5>2. QED
          BY <3>2, <5>1
      <4> HIDE DEF Q
      <4>2. ASSUME NEW k \in 1 .. Len(fit)
            PROVE  Q[k + 1] = fit[k]
        <5>1. k + 1 \in 1 .. 1 + Len(fit) /\ ~(k + 1 <= 1) /\ (k + 1) - 1 = k
          BY <3>3
        <5>2. QED
          BY <4>1, <5>1
      <4>3. QED
        BY <3>3, <4>1, <4>2
    <3>5. Pending(c)' = Q
      BY <1>1, <2>5, <3>2, <3>3, PendingIs DEF Pending
    <3>6. ToSet(D) = {F[k] : k \in (Len(Q) + 1) .. Len(F)}
      <4>1. /\ Len(D) = Len(rest) - Len(fit) /\ DOMAIN D = 1 .. (Len(rest) - Len(fit))
            /\ \A k \in 1 .. (Len(rest) - Len(fit)) : D[k] = rest[Len(fit) + k]
        BY <3>1, <3>3
      <4> HIDE DEF D, Q
      <4>2. ASSUME NEW k \in DOMAIN D
            PROVE  \E j \in (Len(Q) + 1) .. Len(F) : D[k] = F[j]
        <5>1. Len(Q) + k \in (Len(Q) + 1) .. Len(F) /\ Len(fit) + k \in 1 .. Len(rest)
          BY <3>1, <3>3, <3>4, <4>1
        <5>2. D[k] = F[(Len(fit) + k) + 1]
          BY <3>1, <4>1, <5>1
        <5>3. (Len(fit) + k) + 1 = Len(Q) + k
          BY <3>3, <3>4, <4>1
        <5>4. QED
          BY <5>1, <5>2, <5>3
      <4>3. ASSUME NEW j \in (Len(Q) + 1) .. Len(F)
            PROVE  \E k \in DOMAIN D : D[k] = F[j]
        <5>1. j - Len(Q) \in DOMAIN D /\ j - 1 \in 1 .. Len(rest)
          BY <3>1, <3>3, <3>4, <4>1
        <5>2. D[j - Len(Q)] = rest[Len(fit) + (j - Len(Q))]
          BY <4>1, <5>1
        <5>3. Len(fit) + (j - Len(Q)) = j - 1 /\ (j - 1) + 1 = j
          BY <3>3, <3>4
        <5>4. D[j - Len(Q)] = F[j]
          BY <3>1, <5>1, <5>2, <5>3
        <5>5. QED
          BY <5>1, <5>4
      <4>4. QED
        BY <4>2, <4>3 DEF ToSet
    <3>7. Len(Q) <= Len(F) /\ \A j \in 1 .. Len(Q) : Q[j] = F[j]
      <4> HIDE DEF Q, D
      <4>1. Len(Q) <= Len(F)
        BY <3>1, <3>3, <3>4
      <4>2. ASSUME NEW j \in 1 .. Len(Q), j # 1
            PROVE  Q[j] = F[j]
        <5>1. j - 1 \in 1 .. Len(fit) /\ j - 1 \in 1 .. Len(rest) /\ (j - 1) + 1 = j
          BY <3>1, <3>3, <3>4, <4>2
        <5>2. Q[j] = fit[j - 1] /\ fit[j - 1] = rest[j - 1] /\ rest[j - 1] = F[j]
          BY <3>1, <3>3, <3>4, <5>1
        <5>3. QED
          BY <5>2
      <4>3. QED
        BY <3>2, <3>4, <4>1, <4>2
    <3> HIDE DEF Q, D
    <3>8. Leaves(F, Q)
      BY <1>0, <1>1, <2>1, <3>4, <3>6, <3>7, LeaveFirst
    <3>9. QED
      BY <1>2, <2>4, <3>5, <3>8
  <2>8. QED
    BY <2>6, <2>7
<1>10. CASE Commit(c)
  <2>1. pc[c] = "running"
    BY <1>10 DEF Commit
  <2>2. N = <<>> /\ Len(F) <= 1
    BY <1>4, <2>1
  <2>3. CASE F # <<>>
    <3>a. Len(F) \in Nat \ {0} /\ DOMAIN F = 1 .. Len(F) /\ F[1] = Head(F)
      BY <1>1, <2>3
    <3>b. Len(F) = 1
      BY <2>2, <3>a
    <3>0. DOMAIN F = {1} /\ F[1] = Head(F)
      BY <3>a, <3>b
    <3>1. ToSet(F) = {Head(F)} /\ Head(F) \in Send
      <4>1. F[1] \in Send
        BY <1>1, <3>a, HeadTailProperties, <2>3
      <4>2. QED
        BY <3>0, <4>1 DEF ToSet
    <3>2. h' = [h EXCEPT ![c].follow = <<>>] /\ fate' = [fate EXCEPT ![Head(F)] = "committed"]
      BY <1>10, <2>3 DEF Commit, F
    <3>3. h'[c].follow = <<>> /\ h'[c].next = <<>> /\ h'[c].queue = U
      BY <1>0, <2>2, <3>2 DEF Handle, N, U
    <3>4. Pending(c)' = U /\ P = F \o U
      BY <1>1, <2>2, <3>3, PendingIs DEF Pending, P
    <3>5. Leaves(F \o U, U)
      BY <1>0, <1>1, <3>1, <3>2, LeaveRest
    <3>6. QED
      BY <1>2, <3>4, <3>5
  <2>4. CASE F = <<>>
    <3>1. /\ U # <<>> /\ h' = [h EXCEPT ![c].queue = Tail(U)]
          /\ fate' = [fate EXCEPT ![Head(U)] = "committed"]
      BY <1>0, <1>10, <2>4 DEF Commit, F, U
    <3>2. <<Head(U)>> \in Seq(Send) /\ Tail(U) \in Seq(Send) /\ U = <<Head(U)>> \o Tail(U)
          /\ ToSet(<<Head(U)>>) = {Head(U)} /\ Head(U) \in Send
      BY <1>1, <3>1 DEF ToSet
    <3>3. h'[c].follow = <<>> /\ h'[c].next = <<>> /\ h'[c].queue = Tail(U)
      BY <1>0, <2>2, <2>4, <3>1 DEF Handle, N, F
    <3>4. Pending(c)' = Tail(U) /\ P = U
      BY <1>1, <2>2, <2>4, <3>2, <3>3, PendingIs DEF Pending, P
    <3>5. Leaves(<<Head(U)>> \o Tail(U), Tail(U))
      BY <1>0, <3>1, <3>2, LeaveRest
    <3>6. QED
      BY <1>2, <3>2, <3>4, <3>5
  <2>5. QED
    BY <2>3, <2>4
<1>11. CASE PromptReturns(c)
  <2>1. pc[c] \in {"attached", "running", "settling"}
    BY <1>11 DEF PromptReturns
  <2>2. N = <<>>
    BY <1>4, <2>1
  <2>3. CASE h' = [h EXCEPT ![c].completed = TRUE] /\ fate' = fate
    <3>1. h'[c].follow = F /\ h'[c].next = N /\ h'[c].queue = U
      BY <1>0, <2>3 DEF Handle, F, N, U
    <3>2. QED
      BY <1>2, <1>7, <2>3, <3>1
  <2>4. CASE h' = [h EXCEPT ![c].follow = <<>>] /\ fate' = Dropped(F)
    <3>1. h'[c].follow = <<>> /\ h'[c].next = <<>> /\ h'[c].queue = U
      BY <1>0, <2>2, <2>4 DEF Handle, N, U
    <3>2. Pending(c)' = U /\ P = F \o U
      BY <1>1, <2>2, <3>1, PendingIs DEF Pending, P
    <3>3. Leaves(F \o U, U)
      BY <1>0, <1>1, <2>4, LeaveRest DEF Dropped
    <3>4. QED
      BY <1>2, <3>2, <3>3
  <2>5. CASE h' = [h EXCEPT ![c].follow = <<>>, ![c].queue = <<>>] /\ fate' = Dropped(F \o U)
    <3>1. h'[c].follow = <<>> /\ h'[c].next = <<>> /\ h'[c].queue = <<>>
      BY <1>0, <2>2, <2>5 DEF Handle, N, U
    <3>2. Pending(c)' = <<>> /\ P = F \o U
      BY <1>1, <2>2, <3>1, PendingIs DEF Pending, P
    <3>3. QED
      BY <1>0, <1>2, <1>3, <2>5, <3>2, LeaveNone
  <2>6. QED
    BY <1>11, <2>3, <2>4, <2>5 DEF PromptReturns, F, U
<1>12. CASE DetachLive(c)
  <2>1. pc[c] = "settled"
    BY <1>12 DEF DetachLive
  <2>2. N = <<>> /\ F = <<>>
    BY <1>4, <2>1
  <2>3. P = U
    BY <1>1, <2>2, PendingIs DEF P
  <2>4. CASE fate' = Dropped(U) /\ h' = [h EXCEPT ![c].live = FALSE, ![c].queue = <<>>]
    <3>1. h'[c].follow = <<>> /\ h'[c].next = <<>> /\ h'[c].queue = <<>>
      BY <1>0, <2>2, <2>4 DEF Handle, N, F
    <3>2. Pending(c)' = <<>>
      BY <1>1, <3>1, PendingIs DEF Pending
    <3>3. QED
      BY <1>0, <1>1, <1>2, <2>3, <2>4, <3>2, LeaveNone
  <2>5. CASE fate' = fate /\ h' = [h EXCEPT ![c].live = FALSE, ![c].queue = <<>>,
                          ![c].next = h[c].queue, ![c].ready = FALSE, ![c].gen = @ + 1]
    <3>1. h'[c].follow = <<>> /\ h'[c].next = U /\ h'[c].queue = <<>>
      BY <1>0, <2>2, <2>5 DEF Handle, F, U
    <3>2. Pending(c)' = U
      BY <1>1, <3>1, PendingIs DEF Pending
    <3>3. QED
      BY <1>2, <1>5, <2>3, <2>5, <3>2
  <2>6. QED
    BY <1>12, <2>4, <2>5 DEF DetachLive, U
<1>13. CASE FollowOn(c)
  <2>1. pc[c] = "next" /\ fate' = fate /\ h' = [h EXCEPT ![c] = Rearm(h[c])]
    BY <1>0, <1>13 DEF FollowOn, messageState
  <2>2. U = <<>> /\ F = <<>>
    BY <1>4, <2>1 DEF BuiltPc
  <2>3. h'[c].follow = N /\ h'[c].next = <<>> /\ h'[c].queue = <<>>
    BY <1>0, <2>1, <2>2 DEF Handle, Rearm, N, U
  <2>4. Pending(c)' = N /\ P = N
    BY <1>1, <2>2, <2>3, PendingIs DEF Pending, P
  <2>5. QED
    BY <1>2, <1>5, <2>1, <2>4
<1>14. CASE Admit(c)
  <2>1. pc[c] = "admit" /\ fate' = fate
    BY <1>14 DEF Admit, messageState
  <2>2. U = <<>> /\ F = <<>> /\ N = <<>>
    BY <1>4, <2>1 DEF BuiltPc
  <2>3. CASE AdmitOk
    <3>1. h' = [h EXCEPT ![c] = NewHandle(c \in Send /\ send[c].waited)]
      BY <1>14, <2>3 DEF Admit
    <3>2. h'[c].follow = F /\ h'[c].next = N /\ h'[c].queue = U
      BY <1>0, <2>2, <3>1 DEF NewHandle
    <3>3. QED
      BY <1>2, <1>7, <2>1, <3>2
  <2>4. CASE ~AdmitOk
    BY <1>2, <1>6, <1>14, <2>1, <2>4 DEF Admit
  <2>5. QED
    BY <2>3, <2>4
<1>15. CASE AttachLive(c) \/ RunStarts(c) \/ Settle(c) \/ Finish(c) \/ Unregister(c) \/ Done(c)
  <2>1. fate' = fate
    BY <1>15 DEF AttachLive, RunStarts, Settle, Finish, Unregister, Done, messageState
  <2>2. h'[c].follow = F /\ h'[c].next = N /\ h'[c].queue = U
    BY <1>0, <1>15 DEF AttachLive, RunStarts, Settle, Finish, Unregister, Done, Handle, F, N, U
  <2>3. QED
    BY <1>2, <1>7, <2>1, <2>2
<1>16. CASE NothingFollows(c)
  <2>1. fate' = fate
    BY <1>16 DEF NothingFollows, messageState
  <2>2. h'[c].follow = F /\ h'[c].next = N /\ h'[c].queue = U
    BY <1>0, <1>16 DEF NothingFollows, Handle, F, N, U
  <2>3. QED
    BY <1>2, <1>7, <2>1, <2>2
<1>17. QED
  BY <1>2, <1>6, <1>8, <1>9, <1>10, <1>11, <1>12, <1>13, <1>14, <1>15, <1>16
     DEF RunStep, EditStep, Locked, AcquireFree, AcquireBusy, LeaveQueue, Granted,
         LastBoundary, Unlock, Uncount, DrainWaitEnds, CheckDraining, EditSession, messageState

-----------------------------------------------------------------------------
(* Messages: once each, in order.                                          *)

\* P is what each handle has, f the fate of each message, s those accepted, in
\* order: a message is accepted once, waits in one place exactly while it is queued,
\* and behind those of its handle that were accepted before it.
Kept(P, f) ==
  /\ \A c \in Call : \A k \in DOMAIN P[c] : f[P[c][k]] = "queued"
  /\ \A c, d \in Call : \A k \in DOMAIN P[c], n \in DOMAIN P[d] : P[c][k] = P[d][n] => c = d /\ k = n
  /\ \A m \in Send : f[m] = "queued" => \E c \in Call : \E k \in DOMAIN P[c] : P[c][k] = m

\* The accepted messages are the ones that have a fate.
Accepted(f, s) ==
  /\ Distinct(s)
  /\ \A m \in Send : In(m, s) <=> f[m] # "none"

\* m was accepted before n.
Earlier(s, m, n) == \E i, j \in DOMAIN s : i < j /\ s[i] = m /\ s[j] = n

\* What waits with a handle waits in the order of s.
Ordered(P, s) ==
  \A c \in Call : \A k, n \in DOMAIN P[c] : k < n => Earlier(s, P[c][k], P[c][n])

\* A call commits or drops some of its messages and keeps those in between.
LEMMA KeepSome ==
  ASSUME NEW P \in [Call -> Seq(Send)], NEW Q \in [Call -> Seq(Send)],
         NEW f \in [Send -> Fate], NEW g \in [Send -> Fate], NEW s \in Seq(Send),
         NEW c \in Call, \A d \in Call \ {c} : Q[d] = P[d],
         NEW lo \in Nat, Window(P[c], Q[c], lo),
         Settles(f, g, P[c], Q[c], lo),
         Kept(P, f), Accepted(f, s), Ordered(P, s)
  PROVE  Kept(Q, g) /\ Accepted(g, s) /\ Ordered(Q, s)
<1>0. \A m \in Send :
        IF \E k \in DOMAIN P[c] : P[c][k] = m /\ ~(lo < k /\ k <= lo + Len(Q[c]))
        THEN g[m] \in {"committed", "dropped"}
        ELSE g[m] = f[m]
  BY DEF Settles
<1>1. \A d \in Call : \A k \in DOMAIN P[d] : P[d][k] \in Send
  <2> SUFFICES ASSUME NEW d \in Call PROVE \A k \in DOMAIN P[d] : P[d][k] \in Send
    OBVIOUS
  <2>1. P[d] \in Seq(Send)
    OBVIOUS
  <2>2. QED
    BY <2>1
<1>2. /\ DOMAIN P[c] = 1 .. Len(P[c]) /\ Len(P[c]) \in Nat
      /\ DOMAIN Q[c] = 1 .. Len(Q[c]) /\ Len(Q[c]) \in Nat
  <2>1. P[c] \in Seq(Send) /\ Q[c] \in Seq(Send)
    OBVIOUS
  <2>2. QED
    BY <2>1
<1>3. ASSUME NEW k \in DOMAIN Q[c]
      PROVE  /\ lo + k \in DOMAIN P[c] /\ Q[c][k] = P[c][lo + k]
             /\ lo < lo + k /\ lo + k <= lo + Len(Q[c])
  BY <1>2 DEF Window
<1>4. ASSUME NEW k \in DOMAIN P[c], lo < k, k <= lo + Len(Q[c])
      PROVE  k - lo \in DOMAIN Q[c] /\ Q[c][k - lo] = P[c][k]
  <2>1. k - lo \in DOMAIN Q[c] /\ lo + (k - lo) = k
    BY <1>2, <1>4
  <2>2. QED
    BY <1>3, <2>1
\* Each place of Q is one of P, and a message that has one keeps its fate.
<1>5. ASSUME NEW d \in Call, NEW k \in DOMAIN Q[d]
      PROVE  \E n \in DOMAIN P[d] : /\ Q[d][k] = P[d][n] /\ n = (IF d = c THEN lo + k ELSE k)
                                    /\ g[P[d][n]] = f[P[d][n]]
  <2>1. CASE d = c
    <3>1. lo + k \in DOMAIN P[c] /\ Q[c][k] = P[c][lo + k]
      BY <1>3, <2>1
    <3>2. \A n \in DOMAIN P[c] : P[c][n] = P[c][lo + k] => n = lo + k
      BY <3>1 DEF Kept
    <3>3. ~ \E n \in DOMAIN P[c] : P[c][n] = P[c][lo + k] /\ ~(lo < n /\ n <= lo + Len(Q[c]))
      BY <1>3, <2>1, <3>2
    <3>4. g[P[c][lo + k]] = f[P[c][lo + k]]
      BY <1>0, <1>1, <3>1, <3>3
    <3>5. QED
      BY <2>1, <3>1, <3>4
  <2>2. CASE d # c
    <3>1. Q[d] = P[d] /\ k \in DOMAIN P[d]
      BY <2>2
    <3>2. ~ \E n \in DOMAIN P[c] : P[c][n] = P[d][k]
      BY <2>2, <3>1 DEF Kept
    <3>3. g[P[d][k]] = f[P[d][k]]
      BY <1>0, <1>1, <3>1, <3>2
    <3>4. QED
      BY <2>2, <3>1, <3>3
  <2>3. QED
    BY <2>1, <2>2
<1>u. \A d, e \in Call : \A k \in DOMAIN P[d], n \in DOMAIN P[e] : P[d][k] = P[e][n] => d = e /\ k = n
  BY DEF Kept
<1>6. \A d \in Call : \A k \in DOMAIN Q[d] : g[Q[d][k]] = "queued"
  BY <1>5 DEF Kept
<1>7. ASSUME NEW d \in Call, NEW e \in Call, NEW k \in DOMAIN Q[d], NEW n \in DOMAIN Q[e],
             Q[d][k] = Q[e][n]
      PROVE  d = e /\ k = n
  <2>1. PICK i \in DOMAIN P[d] : Q[d][k] = P[d][i] /\ i = (IF d = c THEN lo + k ELSE k)
    BY <1>5
  <2>2. PICK j \in DOMAIN P[e] : Q[e][n] = P[e][j] /\ j = (IF e = c THEN lo + n ELSE n)
    BY <1>5
  <2>a. P[d][i] = P[e][j]
    BY <1>7, <2>1, <2>2
  <2>3. d = e /\ i = j
    BY <1>u, <2>a
  <2>4. d = c => lo + k = lo + n /\ k \in Nat /\ n \in Nat
    BY <1>2, <2>1, <2>2, <2>3
  <2>5. d # c => k = n
    BY <2>1, <2>2, <2>3
  <2>6. QED
    BY <2>3, <2>4, <2>5
<1>8. ASSUME NEW m \in Send, g[m] = "queued"
      PROVE  \E d \in Call : \E k \in DOMAIN Q[d] : Q[d][k] = m
  <2>1. /\ ~ \E k \in DOMAIN P[c] : P[c][k] = m /\ ~(lo < k /\ k <= lo + Len(Q[c]))
        /\ g[m] = f[m]
    BY <1>0, <1>8
  <2>2. PICK d \in Call : \E k \in DOMAIN P[d] : P[d][k] = m
    BY <1>8, <2>1 DEF Kept
  <2>3. PICK k \in DOMAIN P[d] : P[d][k] = m
    BY <2>2
  <2>4. CASE d = c
    BY <1>4, <2>1, <2>3, <2>4
  <2>5. CASE d # c
    BY <2>3, <2>5
  <2>6. QED
    BY <2>4, <2>5
<1>9. Kept(Q, g)
  BY <1>6, <1>7, <1>8 DEF Kept
<1>10. Accepted(g, s)
  <2>1. ASSUME NEW m \in Send
        PROVE  g[m] # "none" <=> f[m] # "none"
    <3>1. CASE \E k \in DOMAIN P[c] : P[c][k] = m /\ ~(lo < k /\ k <= lo + Len(Q[c]))
      <4>1. f[m] = "queued"
        BY <3>1 DEF Kept
      <4>2. g[m] \in {"committed", "dropped"}
        BY <1>0, <3>1
      <4>3. QED
        BY <4>1, <4>2
    <3>2. CASE ~ \E k \in DOMAIN P[c] : P[c][k] = m /\ ~(lo < k /\ k <= lo + Len(Q[c]))
      BY <1>0, <3>2
    <3>3. QED
      BY <3>1, <3>2
  <2>2. QED
    BY <2>1 DEF Accepted
<1>11. Ordered(Q, s)
  <2> SUFFICES ASSUME NEW d \in Call, NEW k \in DOMAIN Q[d], NEW n \in DOMAIN Q[d], k < n
               PROVE  Earlier(s, Q[d][k], Q[d][n])
    BY DEF Ordered
  <2>1. CASE d = c
    <3>1. lo + k \in DOMAIN P[c] /\ lo + n \in DOMAIN P[c] /\ lo + k < lo + n
          /\ Q[d][k] = P[c][lo + k] /\ Q[d][n] = P[c][lo + n]
      BY <1>2, <1>3, <2>1
    <3>2. QED
      BY <3>1 DEF Ordered
  <2>2. CASE d # c
    BY <2>2 DEF Ordered
  <2>3. QED
    BY <2>1, <2>2
<1>12. QED
  BY <1>9, <1>10, <1>11

\* A live Session takes a message no one took before.
LEMMA KeepOneMore ==
  ASSUME NEW P \in [Call -> Seq(Send)], NEW Q \in [Call -> Seq(Send)],
         NEW f \in [Send -> Fate], NEW s \in Seq(Send),
         NEW c \in Call, \A d \in Call \ {c} : Q[d] = P[d],
         NEW m \in Send, f[m] = "none", Q[c] = Append(P[c], m),
         Kept(P, f), Accepted(f, s), Ordered(P, s)
  PROVE  LET g == [f EXCEPT ![m] = "queued"]
             t == Append(s, m)
         IN  Kept(Q, g) /\ Accepted(g, t) /\ Ordered(Q, t)
<1> DEFINE g == [f EXCEPT ![m] = "queued"]
           t == Append(s, m)
           L == Len(P[c])
<1>0. P[c] \in Seq(Send)
  OBVIOUS
<1>1. /\ L \in Nat /\ DOMAIN P[c] = 1 .. L /\ DOMAIN Q[c] = 1 .. (L + 1)
      /\ Q[c][L + 1] = m /\ \A k \in 1 .. L : Q[c][k] = P[c][k]
  BY <1>0
<1>2. g[m] = "queued" /\ \A n \in Send : n # m => g[n] = f[n]
  OBVIOUS
<1>3. ~In(m, s)
  BY DEF Accepted
<1>4. Distinct(t) /\ \A n : In(n, t) <=> n = m \/ In(n, s)
  BY <1>3, AppendFacts DEF Accepted
<1>5. Accepted(g, t)
  BY <1>2, <1>4 DEF Accepted
<1>6. \A d \in Call : \A k \in DOMAIN P[d] : P[d][k] # m /\ P[d][k] \in Send
  <2> SUFFICES ASSUME NEW d \in Call, NEW k \in DOMAIN P[d] PROVE P[d][k] # m /\ P[d][k] \in Send
    OBVIOUS
  <2>1. P[d] \in Seq(Send)
    OBVIOUS
  <2>2. QED
    BY <2>1 DEF Kept
<1>7. ASSUME NEW d \in Call, NEW k \in DOMAIN Q[d]
      PROVE  \/ d = c /\ k = L + 1 /\ Q[d][k] = m
             \/ k \in DOMAIN P[d] /\ Q[d][k] = P[d][k]
  <2>1. CASE d = c
    <3>1. k = L + 1 \/ k \in 1 .. L
      BY <1>1, <2>1
    <3>2. QED
      BY <1>1, <2>1, <3>1
  <2>2. CASE d # c
    BY <2>2
  <2>3. QED
    BY <2>1, <2>2
<1>8. ASSUME NEW d \in Call, NEW k \in DOMAIN P[d]
      PROVE  k \in DOMAIN Q[d] /\ Q[d][k] = P[d][k]
  <2>1. CASE d = c
    BY <1>1, <2>1
  <2>2. CASE d # c
    BY <2>2
  <2>3. QED
    BY <2>1, <2>2
<1>u. \A d, e \in Call : \A k \in DOMAIN P[d], n \in DOMAIN P[e] : P[d][k] = P[e][n] => d = e /\ k = n
  BY DEF Kept
<1> HIDE DEF g, t, L
<1>9. Kept(Q, g)
  <2>1. \A d \in Call : \A k \in DOMAIN Q[d] : g[Q[d][k]] = "queued"
    BY <1>2, <1>6, <1>7 DEF Kept
  <2>2. ASSUME NEW d \in Call, NEW e \in Call, NEW k \in DOMAIN Q[d], NEW n \in DOMAIN Q[e],
               Q[d][k] = Q[e][n]
        PROVE  d = e /\ k = n
    <3>1. CASE Q[d][k] = m
      <4>1. d = c /\ k = L + 1
        BY <1>6, <1>7, <3>1
      <4>2. Q[e][n] = m
        BY <2>2, <3>1
      <4>3. e = c /\ n = L + 1
        BY <1>6, <1>7, <4>2
      <4>4. QED
        BY <4>1, <4>3
    <3>2. CASE Q[d][k] # m
      <4>1. k \in DOMAIN P[d] /\ Q[d][k] = P[d][k]
        BY <1>7, <3>2
      <4>2. n \in DOMAIN P[e] /\ Q[e][n] = P[e][n]
        BY <1>7, <2>2, <3>2
      <4>3. P[d][k] = P[e][n]
        BY <2>2, <4>1, <4>2
      <4>4. QED
        BY <1>u, <4>1, <4>2, <4>3
    <3>3. QED
      BY <3>1, <3>2
  <2>3. ASSUME NEW n \in Send, g[n] = "queued"
        PROVE  \E d \in Call : \E k \in DOMAIN Q[d] : Q[d][k] = n
    <3>1. CASE n = m
      <4>1. L + 1 \in DOMAIN Q[c]
        BY <1>1
      <4>2. QED
        BY <1>1, <3>1, <4>1
    <3>2. CASE n # m
      <4>1. PICK d \in Call : \E k \in DOMAIN P[d] : P[d][k] = n
        BY <1>2, <2>3, <3>2 DEF Kept
      <4>2. QED
        BY <1>8, <4>1
    <3>3. QED
      BY <3>1, <3>2
  <2>4. QED
    BY <2>1, <2>2, <2>3 DEF Kept
<1>10. Ordered(Q, t)
  <2>1. /\ DOMAIN s = 1 .. Len(s) /\ Len(s) \in Nat /\ DOMAIN t = 1 .. (Len(s) + 1)
        /\ t[Len(s) + 1] = m /\ \A i \in 1 .. Len(s) : t[i] = s[i]
    BY DEF t
  <2>2. SUFFICES ASSUME NEW d \in Call, NEW k \in DOMAIN Q[d], NEW n \in DOMAIN Q[d], k < n
                 PROVE  Earlier(t, Q[d][k], Q[d][n])
    BY DEF Ordered
  <2>3. CASE d = c /\ n = L + 1
    <3>1. k \in DOMAIN P[c] /\ Q[c][k] = P[c][k] /\ Q[c][n] = m
      BY <1>1, <2>2, <2>3
    <3>2. In(P[c][k], s)
      <4>1. f[P[c][k]] = "queued"
        BY <3>1 DEF Kept
      <4>2. QED
        BY <1>6, <3>1, <4>1 DEF Accepted
    <3>3. PICK i \in DOMAIN s : s[i] = P[c][k]
      BY <3>2 DEF In
    <3>4. i \in DOMAIN t /\ Len(s) + 1 \in DOMAIN t /\ i < Len(s) + 1 /\ t[i] = P[c][k]
      BY <2>1, <3>3
    <3>5. QED
      BY <2>1, <2>3, <3>1, <3>4 DEF Earlier
  <2>4. CASE ~(d = c /\ n = L + 1)
    <3>1. n \in DOMAIN P[d] /\ Q[d][n] = P[d][n]
      BY <1>7, <2>4
    <3>2. k \in DOMAIN P[d] /\ Q[d][k] = P[d][k]
      <4>1. d = c /\ k = L + 1 => n > L + 1 /\ n \in 1 .. (L + 1)
        BY <1>1, <2>2
      <4>2. ~(d = c /\ k = L + 1)
        BY <1>1, <4>1
      <4>3. QED
        BY <1>7, <4>2
    <3>3. Earlier(s, P[d][k], P[d][n])
      BY <2>2, <3>1, <3>2 DEF Ordered
    <3>4. PICK i \in DOMAIN s, j \in DOMAIN s : i < j /\ s[i] = P[d][k] /\ s[j] = P[d][n]
      BY <3>3 DEF Earlier
    <3>5. i \in DOMAIN t /\ j \in DOMAIN t /\ t[i] = s[i] /\ t[j] = s[j]
      BY <2>1
    <3>6. QED
      BY <3>1, <3>2, <3>4, <3>5 DEF Earlier
  <2>5. QED
    BY <2>3, <2>4
<1>11. QED
  BY <1>5, <1>9, <1>10 DEF g, t

\* What waits with each handle, and the invariant of the messages.
Waits == [c \in Call |-> Pending(c)]

MessageInv ==
  /\ Kept(Waits, fate) /\ Accepted(fate, accepted) /\ Ordered(Waits, accepted)
  /\ \A m \in Send : pc[m] \in Before => fate[m] = "none"

\* Every step keeps the messages.
LEMMA MessageNext ==
  ASSUME Base, MessageInv, [Next]_vars
  PROVE  MessageInv'
<1> DEFINE P == Waits
           Q == Waits'
<1>0. Types /\ Types' /\ h \in [Call -> Handle]
  BY TypesNext DEF Base, Types
<1>1. Send \subseteq Call /\ \A m \in Send : m \notin Edit
  BY HostAssumption DEF Call, Send
<1>2. P \in [Call -> Seq(Send)] /\ \A c \in Call : P[c] = Pending(c)
  <2>1. \A c \in Call : Pending(c) \in Seq(Send)
    <3> SUFFICES ASSUME NEW c \in Call PROVE Pending(c) \in Seq(Send)
      OBVIOUS
    <3>1. h[c].follow \in Seq(Send) /\ h[c].next \in Seq(Send) /\ h[c].queue \in Seq(Send)
      BY <1>0 DEF Handle
    <3>2. QED
      BY <3>1 DEF Pending
  <2>2. QED
    BY <2>1 DEF Waits
<1>3. Q \in [Call -> Seq(Send)] /\ \A c \in Call : Q[c] = Pending(c)'
  <2>1. \A c \in Call : Pending(c)' \in Seq(Send)
    <3> SUFFICES ASSUME NEW c \in Call PROVE Pending(c)' \in Seq(Send)
      OBVIOUS
    <3>1. h'[c].follow \in Seq(Send) /\ h'[c].next \in Seq(Send) /\ h'[c].queue \in Seq(Send)
      BY <1>0 DEF Types, Handle
    <3>2. QED
      BY <3>1 DEF Pending
  <2>2. QED
    BY <2>1 DEF Waits
<1>4. Kept(P, fate) /\ Accepted(fate, accepted) /\ Ordered(P, accepted)
      /\ \A m \in Send : pc[m] \in Before => fate[m] = "none"
  BY DEF MessageInv
<1>5. /\ fate \in [Send -> Fate] /\ fate' \in [Send -> Fate]
      /\ accepted \in Seq(Send) /\ accepted' \in Seq(Send)
  BY <1>0 DEF Types
<1>6. ASSUME Kept(Q, fate'), Accepted(fate', accepted'), Ordered(Q, accepted'),
             \A m \in Send : pc'[m] \in Before => fate'[m] = "none"
      PROVE  MessageInv'
  BY <1>6 DEF MessageInv, Kept, Accepted, Ordered, Earlier, In, Distinct
<1> HIDE DEF P, Q
<1>7. ASSUME NEW c \in Call, RunStep(c) \/ (c \in Edit /\ EditStep(c))
      PROVE  MessageInv'
  <2>1. PICK b \in Pc, v \in Handle : h' = [h EXCEPT ![c] = v]
    BY <1>7, CallStep DEF Base, LocalInv
  <2>2. ASSUME NEW d \in Call \ {c}
        PROVE  Q[d] = P[d]
    <3>1. h'[d] = h[d]
      BY <1>0, <2>1
    <3>2. QED
      BY <1>2, <1>3, <3>1 DEF Pending
  <2>3. PICK lo \in Nat : Window(P[c], Q[c], lo) /\ Settles(fate, fate', P[c], Q[c], lo)
    BY <1>2, <1>3, <1>7, MessageStep DEF Leaves
  <2>4. accepted' = accepted
    BY <1>7, CallFrames
  <2>5. \A m \in Send :
           IF \E k \in DOMAIN P[c] : P[c][k] = m /\ ~(lo < k /\ k <= lo + Len(Q[c]))
           THEN fate'[m] \in {"committed", "dropped"}
           ELSE fate'[m] = fate[m]
    BY <2>3 DEF Settles
  <2>6. Kept(Q, fate') /\ Accepted(fate', accepted) /\ Ordered(Q, accepted)
    <3>1. P \in [Call -> Seq(Send)] /\ Q \in [Call -> Seq(Send)] /\ \A d \in Call \ {c} : Q[d] = P[d]
      BY <1>2, <1>3, <2>2
    <3>2. Window(P[c], Q[c], lo) /\ Settles(fate, fate', P[c], Q[c], lo) /\ Kept(P, fate) /\ Accepted(fate, accepted) /\ Ordered(P, accepted)
      BY <1>4, <2>3
    <3>3. fate \in [Send -> Fate] /\ fate' \in [Send -> Fate] /\ accepted \in Seq(Send)
      BY <1>5
    <3>4. QED
      BY <3>1, <3>2, <3>3, KeepSome
  <2>7. ASSUME NEW m \in Send, pc'[m] \in Before
        PROVE  fate'[m] = "none"
    <3>1. pc[m] \in Before
      BY <1>1, <1>7, <2>7, TableSteps
    <3>2. fate[m] = "none"
      BY <1>4, <3>1
    <3>3. ~ \E k \in DOMAIN P[c] : P[c][k] = m
      BY <1>4, <3>2 DEF Kept
    <3>4. QED
      BY <2>5, <3>2, <3>3
  <2>8. QED
    BY <1>6, <2>4, <2>6, <2>7
<1>8. ASSUME \A d \in Call : Q[d] = P[d], UNCHANGED <<accepted, fate>>,
             \A m \in Send : pc'[m] \in Before => pc[m] \in Before
      PROVE  MessageInv'
  <2>1. Q = P
    BY <1>2, <1>3, <1>8
  <2>2. QED
    BY <1>4, <1>6, <1>8, <2>1
<1>9. ASSUME NEW m \in Send, SendStep(m)
      PROVE  MessageInv'
  <2>1. PICK b \in (Before \cup {"done"}) \ {"check"} : pc' = [pc EXCEPT ![m] = b]
    BY <1>0, <1>9, SendMoves
  <2>2. pc[m] \in Before /\ pc \in [Call -> Pc]
    BY <1>0, <1>9, SendMoves DEF Types
  <2>3. \A n \in Send : pc'[n] \in Before => pc[n] \in Before
    BY <1>1, <2>1, <2>2
  <2>4. CASE h' = h /\ UNCHANGED <<accepted, fate>>
    <3>1. \A d \in Call : Q[d] = P[d]
      BY <1>2, <1>3, <2>4 DEF Pending
    <3>2. QED
      BY <1>8, <2>3, <2>4, <3>1
  <2>5. ASSUME pc' = [pc EXCEPT ![m] = "done"], accepted' = Append(accepted, m),
               fate' = [fate EXCEPT ![m] = "queued"],
               NEW c \in Call,
               h' = [h EXCEPT ![c] = [h[c] EXCEPT !.queue = Append(h[c].queue, m)]]
        PROVE  MessageInv'
    <3>1. h'[c].follow = h[c].follow /\ h'[c].next = h[c].next /\ h'[c].queue = Append(h[c].queue, m)
      BY <1>0, <2>5 DEF Handle
    <3>2. \A d \in Call \ {c} : h'[d] = h[d]
      BY <1>0, <2>5
    <3>3. Q[c] = Append(P[c], m)
      <4> DEFINE F == h[c].follow
                 N == h[c].next
                 U == h[c].queue
      <4>1. F \in Seq(Send) /\ N \in Seq(Send) /\ U \in Seq(Send)
        BY <1>0 DEF Handle
      <4>2. P[c] = F \o N \o U /\ Q[c] = F \o N \o Append(U, m)
        BY <1>2, <1>3, <3>1 DEF Pending
      <4> HIDE DEF F, N, U
      <4> DEFINE G == F \o N
      <4>3. G \in Seq(Send)
        BY <4>1
      <4> HIDE DEF G
      <4>4. G \o Append(U, m) = Append(G \o U, m)
        <5>1. Append(U, m) = U \o <<m>> /\ <<m>> \in Seq(Send)
          BY <4>1
        <5>2. G \o (U \o <<m>>) = (G \o U) \o <<m>>
          BY <4>1, <4>3, <5>1, ConcatAssociative
        <5>3. (G \o U) \o <<m>> = Append(G \o U, m)
          BY <4>1, <4>3
        <5>4. QED
          BY <5>1, <5>2, <5>3
      <4>5. QED
        BY <4>2, <4>4 DEF G
    <3>4. \A d \in Call \ {c} : Q[d] = P[d]
      BY <1>2, <1>3, <3>2 DEF Pending
    <3>5. fate[m] = "none"
      BY <1>4, <2>2
    <3>6. Kept(Q, fate') /\ Accepted(fate', accepted') /\ Ordered(Q, accepted')
      BY <1>2, <1>3, <1>4, <1>5, <2>5, <3>3, <3>4, <3>5, KeepOneMore
    <3>7. \A n \in Send : pc'[n] \in Before => n # m /\ pc[n] \in Before
      BY <1>1, <2>2, <2>5 DEF Before
    <3>8. \A n \in Send : pc'[n] \in Before => fate'[n] = "none"
      BY <1>4, <1>5, <2>5, <3>7
    <3>9. QED
      BY <1>6, <3>6, <3>8
  <2>6. QED
    BY <1>0, <1>9, <2>4, <2>5, SendMoves
<1>10. ASSUME StopStep
       PROVE  MessageInv'
  <2>1. PICK c \in Call, v \in Handle : Flagged(h[c], v) /\ h' = [h EXCEPT ![c] = v]
    BY <1>10, StopMoves DEF Base
  <2>2. \A d \in Call : h'[d].follow = h[d].follow /\ h'[d].next = h[d].next /\ h'[d].queue = h[d].queue
    BY <1>0, <2>1 DEF Flagged
  <2>3. \A d \in Call : Q[d] = P[d]
    BY <1>2, <1>3, <2>2 DEF Pending
  <2>4. pc' = pc /\ UNCHANGED <<accepted, fate>>
    BY <1>10, OtherFrames DEF messageState
  <2>5. QED
    BY <1>8, <2>3, <2>4
<1>11. ASSUME OtherStep \/ UNCHANGED vars
       PROVE  MessageInv'
  <2>1. h' = h /\ pc' = pc /\ UNCHANGED <<accepted, fate>>
    BY <1>11, OtherFrames DEF messageState
  <2>2. \A d \in Call : Q[d] = P[d]
    BY <1>2, <1>3, <2>1 DEF Pending
  <2>3. QED
    BY <1>8, <2>1, <2>2
<1>12. QED
  BY <1>7, <1>9, <1>10, <1>11, Cases

\* No message was sent.
LEMMA MessageInit == Init => MessageInv
<1> SUFFICES ASSUME Init PROVE MessageInv
  OBVIOUS
<1>1. \A c \in Call : Waits[c] = <<>>
  <2> SUFFICES ASSUME NEW c \in Call PROVE Waits[c] = <<>>
    OBVIOUS
  <2>1. h[c] = NewHandle(FALSE)
    BY DEF Init
  <2>2. h[c].follow = <<>> /\ h[c].next = <<>> /\ h[c].queue = <<>>
    BY <2>1 DEF NewHandle
  <2>3. <<>> \in Seq(Send)
    OBVIOUS
  <2>4. Pending(c) = <<>>
    BY <2>2, <2>3, PendingIs DEF Pending
  <2>5. QED
    BY <2>4 DEF Waits
<1>2. DOMAIN <<>> = {}
  OBVIOUS
<1>3. accepted = <<>> /\ \A m \in Send : fate[m] = "none"
  BY DEF Init
<1>4. Kept(Waits, fate)
  BY <1>1, <1>2, <1>3 DEF Kept
<1>5. Accepted(fate, accepted)
  BY <1>2, <1>3 DEF Accepted, Distinct, In
<1>6. Ordered(Waits, accepted)
  BY <1>1, <1>2 DEF Ordered
<1>7. QED
  BY <1>3, <1>4, <1>5, <1>6 DEF MessageInv

\* A message is accepted once, waits in one place exactly while it is queued, and
\* behind what its handle had before it.
THEOREM MessageInvHolds == Spec => []MessageInv
<1>1. Base /\ MessageInv /\ [Next]_vars => MessageInv'
  BY MessageNext
<1>2. QED
  BY <1>1, MessageInit, BaseHolds, PTL DEF Spec

\* A message Send reported as queued is in exactly one place until it is committed
\* or reported dropped (host/messages.go Send, runhandle.go detachLive, followon.go).
THEOREM MessagesWaitOnce == Spec => []QueuedMessagesWaitOnce
<1>1. MessageInv => QueuedMessagesWaitOnce
  <2> SUFFICES ASSUME MessageInv, NEW m \in Send
               PROVE  Cardinality(Places(m)) = IF fate[m] = "queued" THEN 1 ELSE 0
    BY DEF QueuedMessagesWaitOnce
  <2>1. Kept(Waits, fate) /\ \A c \in Call : Waits[c] = Pending(c)
    BY DEF MessageInv, Waits
  <2>2. \A p : p \in Places(m) <=> \E c \in Call : \E k \in DOMAIN Waits[c] : p = <<c, k>> /\ Waits[c][k] = m
    BY <2>1 DEF Places
  <2>3. CASE fate[m] = "queued"
    <3>1. PICK c \in Call : \E k \in DOMAIN Waits[c] : Waits[c][k] = m
      BY <2>1, <2>3 DEF Kept
    <3>2. PICK k \in DOMAIN Waits[c] : Waits[c][k] = m
      BY <3>1
    <3>3. ASSUME NEW d \in Call, NEW n \in DOMAIN Waits[d], Waits[d][n] = m
          PROVE  d = c /\ n = k
      <4>1. \A a, b \in Call : \A i \in DOMAIN Waits[a], j \in DOMAIN Waits[b] :
              Waits[a][i] = Waits[b][j] => a = b /\ i = j
        BY <2>1 DEF Kept
      <4>2. Waits[d][n] = Waits[c][k]
        BY <3>2, <3>3
      <4>3. QED
        BY <4>1, <4>2
    <3>4. Places(m) = {<<c, k>>}
      BY <2>2, <3>2, <3>3
    <3>5. QED
      BY <2>3, <3>4, FS_Singleton
  <2>4. CASE fate[m] # "queued"
    <3>1. Places(m) = {}
      BY <2>1, <2>2, <2>4 DEF Kept
    <3>2. QED
      BY <2>4, <3>1, FS_EmptySet
  <2>5. QED
    BY <2>3, <2>4
<1>2. QED
  BY <1>1, MessageInvHolds, PTL

\* What waits with a handle is run in the order it was accepted
\* (runhandle.go detachLive, serve.go requeue).
THEOREM MessagesKeepTheirOrder == Spec => []LeftoversKeepTheirOrder
<1>1. MessageInv => LeftoversKeepTheirOrder
  BY DEF MessageInv, Ordered, Earlier, Waits, LeftoversKeepTheirOrder
<1>2. QED
  BY <1>1, MessageInvHolds, PTL
=============================================================================
