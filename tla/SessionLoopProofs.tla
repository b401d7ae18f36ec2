------------------------- MODULE SessionLoopProofs --------------------------
(***************************************************************************)
(* No message of a gotato Session is lost, and its Events tell its Runs,   *)
(* for any number of calls, messages, Runs, aborts and failures; and every *)
(* Tool call of a reply gets its result, for any plans of the calls.       *)
(***************************************************************************)
EXTENDS SessionLoop, ToolBatch, Integers, FiniteSetTheorems, FunctionTheorems, SequenceTheorems,
        WellFoundedInduction, TLAPS


-----------------------------------------------------------------------------
(* What the constants are, and the types.                                  *)

InTurn == {"prepare", "turn", "notices", "call", "reading", "tools", "stop", "control"}
BetweenRuns == {"reply", "select", "close", "sealed", "done"}
Place == InTurn \cup {"ending", "discard", "ended", "over"} \cup BetweenRuns

Status == {"none", "completed", "failed", "canceled"}

RunRec ==
  [id : Nat, inRun : BOOLEAN, stop : BOOLEAN, ending : BOOLEAN, keeps : BOOLEAN, open : BOOLEAN,
   abortBeforeStart : BOOLEAN, aborts : Nat, canceled : BOOLEAN, calls : Nat, cut : BOOLEAN,
   refused : BOOLEAN, truncated : Nat, reply : {"none", "answer", "tools", "truncated", "cut"},
   injected : BOOLEAN, status : Status]

Control == [m : Message, seq : Nat]

EventRec == [kind : {"started", "ended", "abort", "queued", "committed", "dropped"},
             of : Prompt \cup Message \cup {Nobody}, run : Nat]

CallerRec ==
  [at : {"out", "sends", "waits", "returned", "writes", "fills", "drops", "looks", "cancels"},
   told : Status \cup {"refused", "left", "accepted"}, ended : BOOLEAN, saw : Nat]

Types ==
  /\ at \in Place /\ prompt \in Prompt \cup {Nobody}
  /\ run \in RunRec
  /\ queue \in [items : Seq(Control), held : [Kinds -> Int], sealed : BOOLEAN, seq : Nat]
  /\ taken \in Seq(Control)
  /\ staged \in Seq(EventRec) /\ journal \in Seq(EventRec)
  /\ stopped \in BOOLEAN /\ closing \in BOOLEAN
  /\ caller \in [Prompt \cup Message -> CallerRec]
  /\ budget \in Load

-----------------------------------------------------------------------------
(* Messages.                                                               *)

\* The queue took it, whatever became of it since.
Live(m) == caller[m].at \in {"looks", "cancels"} \/ (caller[m].at = "returned" /\ caller[m].told = "accepted")

Distinct(s) == \A i, j \in DOMAIN s : i # j => s[i].m # s[j].m /\ s[i].seq # s[j].seq

Apart(s, t) == \A i \in DOMAIN s, j \in DOMAIN t : s[i].m # t[j].m /\ s[i].seq # t[j].seq

Numbered(s) == \A i \in DOMAIN s : s[i].seq <= queue.seq

QueueInv ==
  /\ Distinct(queue.items) /\ Distinct(taken) /\ Apart(queue.items, taken)
  /\ Numbered(queue.items) /\ Numbered(taken)
  /\ at \notin {"notices", "control", "sealed"} => taken = <<>>

\* In one of the places, if it is nowhere else.
InOne(m) ==
  \/ Queued(m) /\ ~Leased(m) /\ m \notin history /\ m \notin handed /\ ~Dropped(m)
  \/ Leased(m) /\ ~Queued(m) /\ m \notin history /\ m \notin handed /\ ~Dropped(m)
  \/ m \in history /\ ~Queued(m) /\ ~Leased(m) /\ m \notin handed /\ ~Dropped(m)
  \/ m \in handed /\ ~Queued(m) /\ ~Leased(m) /\ m \notin history /\ ~Dropped(m)
  \/ Dropped(m) /\ ~Queued(m) /\ ~Leased(m) /\ m \notin history /\ m \notin handed

MessageInv(m) ==
  /\ Queued(m) \/ Leased(m) \/ m \in history \/ m \in handed => Live(m)
  /\ caller[m].at # "returned" => caller[m].told = "none"
  /\ ~stopped /\ Live(m) => InOne(m)
  /\ ~stopped /\ ~Live(m) /\ caller[m].at # "returned" => ~Dropped(m)

-----------------------------------------------------------------------------
(* Runs.                                                                   *)

RunInv ==
  /\ run.inRun <=> at \notin BetweenRuns
  /\ at \in {"discard", "ended", "over"} => run.ending
  /\ run.keeps => budget.handoff
  /\ run.status = "canceled" => run.canceled
  /\ at = "reading" /\ run.cut => Interrupting
  /\ ~budget.handoff /\ at \notin InTurn \cup {"ending", "discard"} => ~Interrupting
  /\ run.stop => run.inRun
  /\ run.ending => at \notin InTurn \cup {"ending"}
  /\ prompt # Nobody <=> at \notin BetweenRuns \ {"reply"}

-----------------------------------------------------------------------------
(* Events.                                                                 *)

Has(kind, r) == \E j \in DOMAIN journal : journal[j].kind = kind /\ journal[j].run = r

Spanned ==
  /\ \A i \in DOMAIN journal : journal[i].run <= run.id
  /\ run.open => Has("started", run.id) /\ ~Has("ended", run.id)
  /\ run.aborts > 0 => run.open
  /\ IF at \in InTurn \cup {"ending", "discard", "ended"}
     THEN /\ run.id > 0
          /\ ~Has("ended", run.id)
          /\ ~run.open => staged # <<>> /\ staged[1].kind = "started"
          /\ \A i \in DOMAIN staged :
               /\ staged[i].run = run.id
               /\ staged[i].kind = IF i = 1 /\ ~run.open THEN "started" ELSE "dropped"
     ELSE staged = <<>> /\ ~run.open

SpanInv == RunEventsInSpan /\ (~stopped => Spanned)

Inv == Types /\ QueueInv /\ (\A m \in Message : MessageInv(m)) /\ RunInv /\ SpanInv

-----------------------------------------------------------------------------
(* A set of numbers in order.                                              *)

LEMMA Least ==
  ASSUME NEW T \in SUBSET Nat, T # {}
  PROVE  Min(T) \in T /\ \A y \in T : Min(T) <= y
<1>1. PICK x \in T : \A y \in T : ~ (<<y, x>> \in OpToRel(<, Nat))
  BY NatLessThanWellFounded, WFMin
<1>2. \A y \in T : x <= y
  <2> SUFFICES ASSUME NEW y \in T, y < x PROVE FALSE
    OBVIOUS
  <2>1. <<y, x>> \in Nat \X Nat /\ <<y, x>>[1] = y /\ <<y, x>>[2] = x
    OBVIOUS
  <2>2. <<y, x>> \in OpToRel(<, Nat)
    BY <2>1 DEF OpToRel
  <2>3. QED
    BY <1>1, <2>2
<1>3. QED
  BY <1>2 DEF Min

InOrder(K, s) ==
  /\ s \in [1 .. Cardinality(K) -> K]
  /\ \A i, j \in 1 .. Cardinality(K) : i < j => s[i] < s[j]

\* One element more, at the front.
LEMMA OrderWithLeast ==
  ASSUME NEW K \in SUBSET Nat, IsFiniteSet(K), K # {}, NEW t, InOrder(K \ {Min(K)}, t)
  PROVE  \E s : InOrder(K, s)
<1> DEFINE x == Min(K)
           n == Cardinality(K)
           s == [i \in 1 .. n |-> IF i = 1 THEN x ELSE t[i - 1]]
<1>1. x \in K /\ \A y \in K : x <= y
  BY Least
<1>2. n \in Nat /\ n > 0 /\ Cardinality(K \ {x}) = n - 1
  <2>1. n \in Nat /\ n # 0
    BY FS_CardinalityType, FS_EmptySet
  <2>2. Cardinality(K \ {x}) = n - 1
    BY <1>1, FS_RemoveElement
  <2>3. QED
    BY <2>1, <2>2
<1> HIDE DEF x, n
<1>3. /\ t \in [1 .. n - 1 -> K \ {x}]
      /\ \A i, j \in 1 .. n - 1 : i < j => t[i] < t[j]
  BY <1>2 DEF InOrder, x
<1>4. \A i \in 1 .. n : i # 1 => i - 1 \in 1 .. n - 1
  BY <1>2
<1>5. s \in [1 .. n -> K]
  BY <1>1, <1>3, <1>4
<1>6. ASSUME NEW i \in 1 .. n, NEW j \in 1 .. n, i < j PROVE s[i] < s[j]
  <2>1. j # 1 /\ j - 1 \in 1 .. n - 1 /\ t[j - 1] \in K /\ t[j - 1] # x /\ s[j] = t[j - 1]
    BY <1>2, <1>3, <1>4, <1>6
  <2>2. CASE i = 1
    <3>1. s[i] = x
      BY <2>2
    <3>2. x \in Nat /\ t[j - 1] \in Nat /\ x <= t[j - 1] /\ x # t[j - 1]
      BY <1>1, <2>1
    <3> HIDE DEF s
    <3>3. QED
      BY <2>1, <3>1, <3>2
  <2>3. CASE i # 1
    <3>1. i - 1 \in 1 .. n - 1 /\ i - 1 < j - 1 /\ s[i] = t[i - 1]
      BY <1>2, <1>4, <1>6, <2>3
    <3>2. QED
      <4> HIDE DEF s
      <4>1. t[i - 1] < t[j - 1]
        BY <1>3, <2>1, <3>1
      <4>2. QED
        BY <2>1, <3>1, <4>1
  <2>4. QED
    BY <2>2, <2>3
<1>7. QED
  BY <1>5, <1>6 DEF InOrder, n

\* By the least size of a set that has no order.
LEMMA SomeOrder ==
  ASSUME NEW K \in SUBSET Nat, IsFiniteSet(K)
  PROVE  \E s : InOrder(K, s)
<1> DEFINE Bad(n) == \E T \in SUBSET Nat : IsFiniteSet(T) /\ Cardinality(T) = n /\ ~ \E s : InOrder(T, s)
           Sizes == {n \in Nat : Bad(n)}
<1>1. SUFFICES Sizes = {}
  BY <1>1, FS_CardinalityType
<1>2. SUFFICES ASSUME Sizes # {} PROVE FALSE
  OBVIOUS
<1>3. Min(Sizes) \in Sizes /\ \A y \in Sizes : Min(Sizes) <= y
  BY <1>2, Least
<1>4. PICK T \in SUBSET Nat : /\ IsFiniteSet(T) /\ Cardinality(T) = Min(Sizes)
                              /\ ~ \E s : InOrder(T, s)
  BY <1>3
<1>5. CASE T = {}
  <2>1. Cardinality(T) = 0
    BY <1>5, FS_EmptySet
  <2>2. InOrder(T, [i \in 1 .. 0 |-> 0])
    BY <1>5, <2>1 DEF InOrder
  <2>3. QED
    BY <1>4, <2>2
<1>6. CASE T # {}
  <2>1. Min(T) \in T
    BY <1>6, Least
  <2>2. /\ T \ {Min(T)} \in SUBSET Nat /\ IsFiniteSet(T \ {Min(T)})
        /\ Cardinality(T \ {Min(T)}) = Min(Sizes) - 1
    BY <1>4, <2>1, FS_RemoveElement
  <2>3. Min(Sizes) \in Nat /\ Min(Sizes) - 1 \in Nat
    BY <1>3, <2>2, FS_CardinalityType
  <2>4. ASSUME Min(Sizes) - 1 \in Sizes PROVE FALSE
    <3> HIDE DEF Sizes
    <3>1. Min(Sizes) <= Min(Sizes) - 1
      BY <1>3, <2>4
    <3>2. QED
      BY <2>3, <3>1
  <2>5. \E t : InOrder(T \ {Min(T)}, t)
    BY <2>2, <2>3, <2>4
  <2>6. QED
    BY <1>4, <1>6, <2>5, OrderWithLeast
<1>7. QED
  BY <1>5, <1>6

\* What Ascending gives.
LEMMA AscendingIs ==
  ASSUME NEW K \in SUBSET Nat, IsFiniteSet(K)
  PROVE  /\ Cardinality(K) \in Nat
         /\ Ascending(K) \in [1 .. Cardinality(K) -> K]
         /\ \A i, j \in 1 .. Cardinality(K) : i < j => Ascending(K)[i] < Ascending(K)[j]
         /\ \A x \in K : \E i \in 1 .. Cardinality(K) : Ascending(K)[i] = x
<1> DEFINE n == Cardinality(K)
           S == {f \in [1 .. n -> K] : \A i, j \in 1 .. n : i # j => f[i] # f[j]}
<1>1. n \in Nat
  BY FS_CardinalityType
<1>2. SetToSeqs(K) = S
  BY DEF SetToSeqs
<1>3. PICK s : InOrder(K, s)
  BY SomeOrder
<1> HIDE DEF n
<1>4. s \in [1 .. n -> K] /\ \A i, j \in 1 .. n : i < j => s[i] < s[j]
  BY <1>3 DEF InOrder, n
<1>5. s \in S
  <2> SUFFICES ASSUME NEW i \in 1 .. n, NEW j \in 1 .. n, i # j PROVE s[i] # s[j]
    BY <1>4
  <2>1. s[i] \in Nat /\ s[j] \in Nat
    BY <1>4
  <2>2. i < j \/ j < i
    BY <1>1
  <2>3. QED
    BY <1>4, <2>1, <2>2
<1>6. DOMAIN s = 1 .. n
  BY <1>4
<1>7. \A i, j \in DOMAIN s : i < j => s[i] < s[j]
  BY <1>4, <1>6
<1>8. Ascending(K) = CHOOSE f \in S : \A i, j \in DOMAIN f : i < j => f[i] < f[j]
  BY <1>2 DEF Ascending
<1>9. Ascending(K) \in S /\ \A i, j \in DOMAIN Ascending(K) : i < j => Ascending(K)[i] < Ascending(K)[j]
  BY <1>5, <1>7, <1>8
<1>10. Ascending(K) \in Injection(1 .. n, K)
  BY <1>9 DEF Injection, IsInjective
<1>11. Cardinality(1 .. n) = Cardinality(K)
  BY <1>1, FS_Interval DEF n
<1>12. Ascending(K) \in Surjection(1 .. n, K)
  BY <1>10, <1>11, FS_Injection
<1>13. QED
  BY <1>1, <1>9, <1>12 DEF Surjection, n

\* What PickOut gives.
LEMMA PickOutIs ==
  ASSUME NEW S, NEW s \in Seq(S), NEW K \in SUBSET (DOMAIN s)
  PROVE  /\ PickOut(s, K) \in Seq(S)
         /\ \A n \in DOMAIN PickOut(s, K) : \E i \in K : PickOut(s, K)[n] = s[i]
         /\ \A i \in K : \E n \in DOMAIN PickOut(s, K) : PickOut(s, K)[n] = s[i]
         /\ \A n, k \in DOMAIN PickOut(s, K) : n # k =>
              \E i, j \in K : i # j /\ PickOut(s, K)[n] = s[i] /\ PickOut(s, K)[k] = s[j]
<1> DEFINE o == Ascending(K)
           c == Cardinality(K)
<1>1. K \in SUBSET Nat /\ K \subseteq 1 .. Len(s) /\ IsFiniteSet(K)
  <2>1. DOMAIN s = 1 .. Len(s) /\ Len(s) \in Nat
    OBVIOUS
  <2>2. IsFiniteSet(1 .. Len(s))
    BY <2>1, FS_Interval
  <2>3. QED
    BY <2>1, <2>2, FS_Subset
<1>2. c \in Nat /\ o \in [1 .. c -> K] /\ (\A i, j \in 1 .. c : i < j => o[i] < o[j])
      /\ \A x \in K : \E i \in 1 .. c : o[i] = x
  BY <1>1, AscendingIs
<1> HIDE DEF o, c
<1>3. PickOut(s, K) = [n \in 1 .. c |-> s[o[n]]]
  BY <1>2 DEF PickOut, o
<1>4. \A n \in 1 .. c : o[n] \in K /\ s[o[n]] \in S
  BY <1>2
<1>5. PickOut(s, K) \in Seq(S)
  BY <1>2, <1>3, <1>4
<1>6. \A n, k \in 1 .. c : n # k => o[n] # o[k]
  <2> SUFFICES ASSUME NEW n \in 1 .. c, NEW k \in 1 .. c, n # k PROVE o[n] # o[k]
    OBVIOUS
  <2>1. (n < k \/ k < n) /\ o[n] \in Nat /\ o[k] \in Nat
    BY <1>1, <1>2, <1>4
  <2>2. QED
    BY <1>2, <2>1
<1>7. DOMAIN PickOut(s, K) = 1 .. c /\ \A n \in 1 .. c : PickOut(s, K)[n] = s[o[n]]
  BY <1>3
<1>8. \A i \in K : \E n \in DOMAIN PickOut(s, K) : PickOut(s, K)[n] = s[i]
  BY <1>2, <1>7
<1>9. ASSUME NEW n \in 1 .. c, NEW k \in 1 .. c, n # k
      PROVE  \E i, j \in K : i # j /\ PickOut(s, K)[n] = s[i] /\ PickOut(s, K)[k] = s[j]
  BY <1>4, <1>6, <1>7, <1>9
<1>10. QED
  BY <1>4, <1>5, <1>7, <1>8, <1>9

Picks(t, s, K) ==
  /\ \A n \in DOMAIN t : \E i \in K : t[n] = s[i]
  /\ \A i \in K : \E n \in DOMAIN t : t[n] = s[i]
  /\ \A n, k \in DOMAIN t : n # k => \E i, j \in K : i # j /\ t[n] = s[i] /\ t[k] = s[j]

LEMMA PickOutPicks ==
  ASSUME NEW S, NEW s \in Seq(S), NEW K \in SUBSET (DOMAIN s)
  PROVE  Picks(PickOut(s, K), s, K)
<1> DEFINE t == PickOut(s, K)
<1>1. /\ \A n \in DOMAIN t : \E i \in K : t[n] = s[i]
      /\ \A i \in K : \E n \in DOMAIN t : t[n] = s[i]
      /\ \A n, k \in DOMAIN t : n # k => \E i, j \in K : i # j /\ t[n] = s[i] /\ t[k] = s[j]
  BY PickOutIs
<1> HIDE DEF t
<1>2. Picks(t, s, K)
  BY <1>1 DEF Picks
<1>3. QED
  BY <1>2 DEF t

PutsBack(p, all) ==
  /\ \A n \in DOMAIN p : \E i \in DOMAIN all : p[n] = all[i]
  /\ (\A i, j \in DOMAIN all : i # j => all[i].seq # all[j].seq) =>
       \A i \in DOMAIN all : \E n \in DOMAIN p : p[n] = all[i]
  /\ \A n, k \in DOMAIN p : n # k => \E i, j \in DOMAIN all : i # j /\ p[n] = all[i] /\ p[k] = all[j]

\* What a lease puts back: what it and the queue have, each once.
LEMMA PutBackIs ==
  ASSUME NEW S, NEW items \in Seq(S), queue.items \in Seq(S), \A x \in S : x.seq \in Nat,
         NEW all, all = items \o queue.items
  PROVE  /\ PutBack(items) \in Seq(S)
         /\ PutsBack(PutBack(items), all)
<1> DEFINE K == {all[i].seq : i \in DOMAIN all}
           o == Ascending(K)
           c == Cardinality(K)
           Pos(n) == CHOOSE i \in DOMAIN all : all[i].seq = o[n]
<1>1. all \in Seq(S) /\ DOMAIN all = 1 .. Len(all) /\ Len(all) \in Nat
  OBVIOUS
<1>2. K \in SUBSET Nat
  BY <1>1
<1>3. IsFiniteSet(K)
  <2>1. [i \in 1 .. Len(all) |-> all[i].seq] \in Surjection(1 .. Len(all), K)
    BY <1>1 DEF Surjection
  <2>2. IsFiniteSet(1 .. Len(all))
    BY <1>1, FS_Interval
  <2> HIDE DEF K
  <2>3. QED
    BY <2>1, <2>2, FS_Surjection
<1>4. c \in Nat /\ o \in [1 .. c -> K] /\ (\A i, j \in 1 .. c : i < j => o[i] < o[j])
      /\ \A x \in K : \E i \in 1 .. c : o[i] = x
  BY <1>2, <1>3, AscendingIs
<1>5. PutBack(items) = [n \in 1 .. c |-> all[Pos(n)]]
  <2>1. DOMAIN o = 1 .. c
    BY <1>4
  <2>2. PutBack(items) = [n \in DOMAIN o |-> all[Pos(n)]]
    BY DEF PutBack
  <2>3. QED
    BY <2>1, <2>2
<1> HIDE DEF o, c
<1>6. \A n \in 1 .. c : Pos(n) \in DOMAIN all /\ all[Pos(n)].seq = o[n]
  <2> SUFFICES ASSUME NEW n \in 1 .. c PROVE Pos(n) \in DOMAIN all /\ all[Pos(n)].seq = o[n]
    OBVIOUS
  <2>1. o[n] \in K
    BY <1>4
  <2>2. QED
    BY <2>1
<1>7. \A n, k \in 1 .. c : n # k => o[n] # o[k]
  <2> SUFFICES ASSUME NEW n \in 1 .. c, NEW k \in 1 .. c, n # k PROVE o[n] # o[k]
    OBVIOUS
  <2>1. (n < k \/ k < n) /\ o[n] \in Nat /\ o[k] \in Nat
    <3>1. o[n] \in K /\ o[k] \in K
      BY <1>4
    <3>2. o[n] \in Nat /\ o[k] \in Nat
      BY <1>2, <3>1, Zenon
    <3>3. n < k \/ k < n
      BY <1>4
    <3>4. QED
      BY <3>2, <3>3
  <2>2. QED
    BY <1>4, <2>1
<1> HIDE DEF Pos
<1>8. PutBack(items) \in Seq(S)
  BY <1>1, <1>4, <1>5, <1>6
<1>9. ASSUME \A i, j \in DOMAIN all : i # j => all[i].seq # all[j].seq, NEW i \in DOMAIN all
      PROVE  \E n \in DOMAIN PutBack(items) : PutBack(items)[n] = all[i]
  <2>1. PICK n \in 1 .. c : o[n] = all[i].seq
    BY <1>4
  <2>2. Pos(n) = i
    BY <1>6, <1>9, <2>1
  <2>3. QED
    BY <1>5, <2>1, <2>2
<1>10. ASSUME NEW n \in 1 .. c, NEW k \in 1 .. c, n # k
       PROVE  Pos(n) # Pos(k)
  BY SMTT(30), <1>6, <1>7, <1>10
<1>11. DOMAIN PutBack(items) = 1 .. c /\ \A n \in 1 .. c : PutBack(items)[n] = all[Pos(n)]
  BY <1>5
<1>12. ASSUME NEW n \in 1 .. c, NEW k \in 1 .. c, n # k
       PROVE  \E i, j \in DOMAIN all : /\ i # j /\ PutBack(items)[n] = all[i]
                                        /\ PutBack(items)[k] = all[j]
  BY <1>6, <1>10, <1>11, <1>12
<1>13. \A n \in DOMAIN PutBack(items) : \E i \in DOMAIN all : PutBack(items)[n] = all[i]
  BY <1>6, <1>11
<1>14. (\A i, j \in DOMAIN all : i # j => all[i].seq # all[j].seq) =>
         \A i \in DOMAIN all : \E n \in DOMAIN PutBack(items) : PutBack(items)[n] = all[i]
  BY <1>9
<1>15. ASSUME NEW n \in DOMAIN PutBack(items), NEW k \in DOMAIN PutBack(items), n # k
       PROVE  \E i, j \in DOMAIN all : /\ i # j /\ PutBack(items)[n] = all[i]
                                        /\ PutBack(items)[k] = all[j]
  <2>1. n \in 1 .. c /\ k \in 1 .. c
    BY <1>11
  <2>2. QED
    BY <1>12, <1>15, <2>1, Zenon
<1>16. PutsBack(PutBack(items), all)
  BY <1>13, <1>14, <1>15, Zenon DEF PutsBack
<1>17. QED
  BY <1>8, <1>16

-----------------------------------------------------------------------------
(* What a write adds to the Journal.                                       *)

LEMMA InsertAtIs ==
  ASSUME NEW S, NEW s \in Seq(S), NEW p \in 1 .. Len(s) + 1, NEW e \in S
  PROVE  /\ InsertAt(s, p, e) \in Seq(S)
         /\ Len(InsertAt(s, p, e)) = Len(s) + 1
         /\ \A k \in 1 .. Len(s) + 1 :
              InsertAt(s, p, e)[k] = IF k < p THEN s[k] ELSE IF k = p THEN e ELSE s[k - 1]
<1> DEFINE a == SubSeq(s, 1, p - 1)
           b == SubSeq(s, p, Len(s))
           ae == a \o <<e>>
<1>1. Len(s) \in Nat /\ p - 1 \in 0 .. Len(s)
  OBVIOUS
<1>2. a \in Seq(S) /\ Len(a) = p - 1 /\ \A k \in 1 .. p - 1 : a[k] = s[k]
  BY <1>1
<1>3. b \in Seq(S) /\ Len(b) = Len(s) + 1 - p /\ \A k \in 1 .. Len(s) + 1 - p : b[k] = s[p + k - 1]
  BY <1>1
<1> HIDE DEF a, b
<1>4. ae \in Seq(S) /\ Len(ae) = p /\ ae[p] = e /\ \A k \in 1 .. p - 1 : ae[k] = s[k]
  BY <1>1, <1>2
<1> HIDE DEF ae
<1>5. InsertAt(s, p, e) = ae \o b
  BY DEF InsertAt, a, b, ae
<1>6. InsertAt(s, p, e) \in Seq(S) /\ Len(InsertAt(s, p, e)) = Len(s) + 1
  <2>1. ae \o b \in Seq(S) /\ Len(ae \o b) = Len(ae) + Len(b)
    BY <1>3, <1>4, ConcatProperties
  <2>2. QED
    BY <1>1, <1>3, <1>4, <1>5, <2>1
<1>7. ASSUME NEW k \in 1 .. Len(s) + 1
      PROVE  (ae \o b)[k] = IF k < p THEN s[k] ELSE IF k = p THEN e ELSE s[k - 1]
  <2>1. CASE k <= p
    <3>1. (ae \o b)[k] = ae[k]
      BY <1>1, <1>3, <1>4, <2>1
    <3>2. k < p => k \in 1 .. p - 1
      BY <1>1
    <3>3. QED
      BY <1>1, <1>4, <2>1, <3>1, <3>2
  <2>2. CASE k > p
    <3>1. k - p \in 1 .. Len(s) + 1 - p /\ p + (k - p) - 1 = k - 1
      BY <1>1, <2>2
    <3>2. (ae \o b)[k] = b[k - p]
      BY <1>1, <1>3, <1>4, <2>2, <3>1
    <3>3. QED
      BY <1>3, <2>2, <3>1, <3>2
  <2>3. k <= p \/ k > p
    BY <1>1
  <2>4. QED
    BY <2>1, <2>2, <2>3, Zenon
<1>8. QED
  BY <1>5, <1>6, <1>7

LEMMA StampIs ==
  ASSUME run \in RunRec, NEW e \in EventRec
  PROVE  /\ Stamp(e) \in EventRec /\ Stamp(e).kind = e.kind /\ Stamp(e).of = e.of
         /\ e.run # 0 => Stamp(e) = e
         /\ e.run = 0 /\ ~run.open => Stamp(e).run = 0
         /\ e.run = 0 /\ run.open => Stamp(e).run = run.id
BY DEF Stamp, EventRec, RunRec

\* The Events in order, each stamped, and the abort after the first run_started.
LEMMA SpanIs ==
  ASSUME run \in RunRec, NEW events \in Seq(EventRec)
  PROVE  LET starts == {i \in DOMAIN events : events[i].kind = "started"}
             n == Len(events)
             w == Span(events)
         IN  /\ w \in Seq(EventRec)
             /\ IF starts # {} /\ run.abortBeforeStart
                THEN /\ Len(w) = n + 1
                     /\ \A k \in 1 .. n + 1 :
                          w[k] = IF k < Min(starts) + 1 THEN Stamp(events[k])
                                 ELSE IF k = Min(starts) + 1 THEN Event("abort", Nobody, run.id)
                                 ELSE Stamp(events[k - 1])
                ELSE Len(w) = n /\ \A k \in 1 .. n : w[k] = Stamp(events[k])
<1> DEFINE starts == {i \in DOMAIN events : events[i].kind = "started"}
           n == Len(events)
           st == [i \in DOMAIN events |-> Stamp(events[i])]
           ab == Event("abort", Nobody, run.id)
           p == Min(starts) + 1
<1>1. n \in Nat /\ DOMAIN events = 1 .. n /\ \A i \in 1 .. n : events[i] \in EventRec
  OBVIOUS
<1>2. \A i \in 1 .. n : Stamp(events[i]) \in EventRec
  BY <1>1, StampIs
<1>3. st \in Seq(EventRec) /\ Len(st) = n /\ \A k \in 1 .. n : st[k] = Stamp(events[k])
  BY <1>1, <1>2
<1>4. ab \in EventRec
  BY DEF Event, EventRec, RunRec
<1>5. CASE starts # {} /\ run.abortBeforeStart
  <2>1. starts \in SUBSET Nat
    BY <1>1
  <2>2. Min(starts) \in starts
    BY <1>5, <2>1, Least
  <2>3. Min(starts) \in 1 .. n
    BY <1>1, <2>2
  <2>4. Span(events) = InsertAt(st, p, ab)
    BY <1>5 DEF Span
  <2> HIDE DEF st, ab, starts
  <2>5. p \in 1 .. Len(st) + 1
    BY <1>1, <1>3, <2>3
  <2> HIDE DEF p
  <2>6. /\ InsertAt(st, p, ab) \in Seq(EventRec)
        /\ Len(InsertAt(st, p, ab)) = n + 1
        /\ \A k \in 1 .. n + 1 :
             InsertAt(st, p, ab)[k] = IF k < p THEN st[k] ELSE IF k = p THEN ab ELSE st[k - 1]
    BY <1>3, <1>4, <2>5, InsertAtIs
  <2>7. p \in Nat /\ p > 1 /\ p <= n + 1
    BY <1>1, <2>3 DEF p
  <2>8. ASSUME NEW k \in 1 .. n + 1
        PROVE  Span(events)[k] = IF k < p THEN Stamp(events[k]) ELSE IF k = p THEN ab ELSE Stamp(events[k - 1])
    <3>1. k < p => k \in 1 .. n
      BY <1>1, <2>7
    <3>2. k > p => k - 1 \in 1 .. n
      BY <1>1, <2>7
    <3>3. k \in Nat
      BY <1>1
    <3>4. Span(events)[k] = IF k < p THEN st[k] ELSE IF k = p THEN ab ELSE st[k - 1]
      BY <2>4, <2>6
    <3>5. CASE k < p
      BY <1>3, <3>1, <3>4, <3>5
    <3>6. CASE k = p
      BY <2>7, <3>4, <3>6
    <3>7. CASE k > p
      <4>1. ~(k < p) /\ k # p /\ st[k - 1] = Stamp(events[k - 1])
        BY <1>3, <2>7, <3>2, <3>3, <3>7
      <4>2. QED
        BY <3>4, <4>1
    <3>8. k < p \/ k = p \/ k > p
      BY <2>7, <3>3
    <3>9. QED
      BY <3>5, <3>6, <3>7, <3>8
  <2>9. QED
    BY <1>5, <2>4, <2>6, <2>8 DEF starts, p, ab
<1>6. CASE ~(starts # {} /\ run.abortBeforeStart)
  <2>1. Span(events) = st
    BY <1>6 DEF Span
  <2>2. QED
    BY <1>3, <1>6, <2>1
<1>7. QED
  BY <1>5, <1>6

\* The messages dropped in a write.
DroppedIn(events, m) == \E i \in DOMAIN events : events[i].kind = "dropped" /\ events[i].of = m

LEMMA SpanDrops ==
  ASSUME run \in RunRec, NEW events \in Seq(EventRec), NEW m
  PROVE  DroppedIn(Span(events), m) <=> DroppedIn(events, m)
<1> DEFINE starts == {i \in DOMAIN events : events[i].kind = "started"}
           n == Len(events)
           w == Span(events)
           p == Min(starts) + 1
<1>1. n \in Nat /\ DOMAIN events = 1 .. n /\ \A i \in 1 .. n : events[i] \in EventRec
  OBVIOUS
<1>2. \A i \in 1 .. n : Stamp(events[i]).kind = events[i].kind /\ Stamp(events[i]).of = events[i].of
  BY <1>1, StampIs
<1>3. w \in Seq(EventRec) /\ Len(w) \in Nat /\ DOMAIN w = 1 .. Len(w)
  BY SpanIs
<1>4. CASE starts # {} /\ run.abortBeforeStart
  <2>1. /\ Len(w) = n + 1
        /\ \A k \in 1 .. n + 1 : w[k] = IF k < p THEN Stamp(events[k])
                                        ELSE IF k = p THEN Event("abort", Nobody, run.id)
                                        ELSE Stamp(events[k - 1])
    BY <1>4, SpanIs
  <2>2. starts \in SUBSET Nat
    BY <1>1
  <2>3. Min(starts) \in starts
    BY <1>4, <2>2, Least
  <2>4. p \in 2 .. n + 1
    BY <1>1, <2>3
  <2> HIDE DEF p, w, n, starts
  <2>5. ASSUME NEW k \in 1 .. n + 1, w[k].kind = "dropped", w[k].of = m
        PROVE  DroppedIn(events, m)
    <3>1. k # p
      BY <2>1, <2>5 DEF Event
    <3>2. CASE k < p
      <4>1. k \in 1 .. n /\ w[k] = Stamp(events[k])
        BY <1>1, <2>1, <2>4, <3>2
      <4>2. QED
        BY <1>1, <1>2, <2>5, <4>1 DEF DroppedIn
    <3>3. CASE k > p
      <4>1. k - 1 \in 1 .. n /\ w[k] = Stamp(events[k - 1])
        BY <1>1, <2>1, <2>4, <3>3
      <4>2. QED
        BY <1>1, <1>2, <2>5, <4>1 DEF DroppedIn
    <3>4. QED
      BY <1>1, <2>4, <3>1, <3>2, <3>3
  <2>6. ASSUME NEW i \in 1 .. n, events[i].kind = "dropped", events[i].of = m
        PROVE  DroppedIn(w, m)
    <3>1. CASE i < p
      <4>1. i \in DOMAIN w /\ w[i] = Stamp(events[i])
        BY <1>1, <1>3, <2>1, <2>4, <3>1
      <4>2. QED
        BY <1>2, <2>6, <4>1 DEF DroppedIn
    <3>2. CASE ~(i < p)
      <4>1. i + 1 \in 1 .. n + 1 /\ ~(i + 1 < p) /\ i + 1 # p /\ (i + 1) - 1 = i
        BY <1>1, <2>4, <3>2
      <4>2. i + 1 \in DOMAIN w /\ w[i + 1] = Stamp(events[i])
        BY <1>3, <2>1, <4>1
      <4>3. QED
        BY <1>2, <2>6, <4>2 DEF DroppedIn
    <3>3. QED
      BY <3>1, <3>2
  <2>7. QED
    BY <1>1, <1>3, <2>1, <2>5, <2>6 DEF DroppedIn, w
<1>5. CASE ~(starts # {} /\ run.abortBeforeStart)
  <2>1. Len(w) = n /\ \A k \in 1 .. n : w[k] = Stamp(events[k])
    BY <1>5, SpanIs
  <2> HIDE DEF w, n, starts
  <2>2. DOMAIN w = 1 .. n
    BY <1>3, <2>1
  <2>3. QED
    BY <1>1, <1>2, <2>1, <2>2 DEF DroppedIn, w
<1>6. QED
  BY <1>4, <1>5

LEMMA WritesTypes ==
  ASSUME Types, NEW events \in Seq(EventRec), NEW ok \in BOOLEAN, Writes(events, ok)
  PROVE  /\ journal' \in Seq(EventRec) /\ stopped' \in BOOLEAN
         /\ (stopped => stopped' /\ journal' = journal)
         /\ ~stopped' => /\ ~stopped /\ ok /\ journal' = journal \o Span(events)
<1>1. Span(events) \in Seq(EventRec)
  BY SpanIs DEF Types
<1>2. journal \in Seq(EventRec) /\ stopped \in BOOLEAN
  BY DEF Types
<1>3. journal \o Span(events) \in Seq(EventRec)
  BY <1>1, <1>2, ConcatProperties
<1>4. QED
  BY <1>2, <1>3, Zenon DEF Writes

-----------------------------------------------------------------------------
(* Types.                                                                  *)

LEMMA KindIs == ASSUME NEW m PROVE Kind(m) \in Kinds
  BY DEF Kind, Kinds

\* What a write leaves of the Run's record.
LEMMA AfterWriteIs ==
  ASSUME run \in RunRec, NEW events, NEW ok \in BOOLEAN
  PROVE  \E o, a \in BOOLEAN :
           /\ AfterWrite(events, ok) = [run EXCEPT !.open = o, !.abortBeforeStart = a]
           /\ o <=> (run.open \/ \E i \in DOMAIN events : events[i].kind = "started")
                      /\ ~(ok /\ Closes(events))
<1> DEFINE s == \E i \in DOMAIN events : events[i].kind = "started"
           o == (run.open \/ s) /\ ~(ok /\ Closes(events))
           a == run.abortBeforeStart /\ ~s
<1>1. o \in BOOLEAN /\ a \in BOOLEAN /\ run.open \in BOOLEAN /\ run.abortBeforeStart \in BOOLEAN
  BY DEF RunRec
<1>2. CASE s
  <2>1. AfterWrite(events, ok) = [run EXCEPT !.open = ~(ok /\ Closes(events)), !.abortBeforeStart = FALSE]
    BY <1>2 DEF AfterWrite, Opened, RunRec
  <2>2. QED
    BY <1>1, <1>2, <2>1
<1>3. CASE ~s
  <2>1. AfterWrite(events, ok) = [run EXCEPT !.open = run.open /\ ~(ok /\ Closes(events)),
                                             !.abortBeforeStart = run.abortBeforeStart]
    BY <1>3 DEF AfterWrite, Opened, RunRec
  <2>2. QED
    BY <1>1, <1>3, <2>1
<1>4. QED
  BY <1>2, <1>3

LEMMA AfterWriteTypes ==
  ASSUME run \in RunRec, NEW events, NEW ok \in BOOLEAN
  PROVE  AfterWrite(events, ok) \in RunRec
<1>1. PICK o, a \in BOOLEAN : AfterWrite(events, ok) = [run EXCEPT !.open = o, !.abortBeforeStart = a]
  BY AfterWriteIs
<1>2. QED
  BY <1>1 DEF RunRec

LEMMA BudgetTypes ==
  ASSUME budget \in Load
  PROVE  /\ Refuse => budget' \in Load
         /\ budget.turns > 0 => [budget EXCEPT !.turns = @ - 1] \in Load
<1>1. budget.refusals \in Nat /\ budget.turns \in Nat
  BY DEF Load
<1>2. ASSUME Refuse PROVE budget' \in Load
  <2>1. budget.refusals - 1 \in Nat /\ budget' = [budget EXCEPT !.refusals = budget.refusals - 1]
    BY <1>1, <1>2 DEF Refuse
  <2>2. QED
    BY <2>1 DEF Load
<1>3. ASSUME budget.turns > 0 PROVE [budget EXCEPT !.turns = budget.turns - 1] \in Load
  <2>1. budget.turns - 1 \in Nat
    BY <1>1, <1>3
  <2>2. QED
    BY <2>1 DEF Load
<1>4. QED
  BY <1>2, <1>3

LEMMA AfterWriteOpen ==
  ASSUME run \in RunRec, NEW events, NEW ok \in BOOLEAN
  PROVE  /\ AfterWrite(events, ok).id = run.id /\ AfterWrite(events, ok).aborts = run.aborts
         /\ AfterWrite(events, ok).open <=> /\ run.open \/ \E i \in DOMAIN events : events[i].kind = "started"
                                            /\ ~(ok /\ Closes(events))
<1>1. CASE \E i \in DOMAIN events : events[i].kind = "started"
  <2>1. AfterWrite(events, ok) = [run EXCEPT !.open = ~(ok /\ Closes(events)), !.abortBeforeStart = FALSE]
    BY <1>1 DEF AfterWrite, Opened, RunRec
  <2>2. QED
    BY <1>1, <2>1 DEF RunRec
<1>2. CASE ~ \E i \in DOMAIN events : events[i].kind = "started"
  <2>1. AfterWrite(events, ok) = [run EXCEPT !.open = run.open /\ ~(ok /\ Closes(events))]
    BY <1>2 DEF AfterWrite, Opened, RunRec
  <2>2. QED
    BY <1>2, <2>1 DEF RunRec
<1>3. QED
  BY <1>1, <1>2

Where == {"out", "sends", "waits", "returned", "writes", "fills", "drops", "looks", "cancels"}

Answer == Status \cup {"refused", "left", "accepted"}

LEMMA CallerTypes ==
  ASSUME Types, NEW c \in Prompt \cup Message
  PROVE  /\ \A what \in Answer : Told(c, what) => caller' \in [Prompt \cup Message -> CallerRec]
         /\ \A where \in Where : Moves(c, where) => caller' \in [Prompt \cup Message -> CallerRec]
<1>1. caller \in [Prompt \cup Message -> CallerRec] /\ caller[c] \in CallerRec
  BY DEF Types
<1>2. ASSUME NEW what \in Answer PROVE [caller[c] EXCEPT !.at = "returned", !.told = what] \in CallerRec
  BY <1>1 DEF CallerRec, Answer, Status
<1>3. ASSUME NEW where \in Where PROVE [caller[c] EXCEPT !.at = where] \in CallerRec
  BY <1>1 DEF CallerRec, Where
<1>4. ASSUME NEW what \in Answer, Told(c, what) PROVE caller' \in [Prompt \cup Message -> CallerRec]
  <2>1. caller' = [caller EXCEPT ![c] = [caller[c] EXCEPT !.at = "returned", !.told = what]]
    BY <1>1, <1>4 DEF Told
  <2>2. QED
    BY <1>1, <1>2, <2>1
<1>5. ASSUME NEW where \in Where, Moves(c, where) PROVE caller' \in [Prompt \cup Message -> CallerRec]
  <2>1. caller' = [caller EXCEPT ![c] = [caller[c] EXCEPT !.at = where]]
    BY <1>1, <1>5 DEF Moves
  <2>2. QED
    BY <1>1, <1>3, <2>1
<1>6. QED
  BY <1>4, <1>5

\* The queue and what is taken of it.
LEMMA SplitTypes ==
  ASSUME Types, NEW kinds, Split(kinds)
  PROVE  /\ taken' \in Seq(Control)
         /\ queue' \in [items : Seq(Control), held : [Kinds -> Int], sealed : BOOLEAN, seq : Nat]
<1> DEFINE K == Places(kinds)
           J == Places(Kinds \ kinds)
<1>1. queue.items \in Seq(Control) /\ K \in SUBSET (DOMAIN queue.items) /\ J \in SUBSET (DOMAIN queue.items)
  BY DEF Types, Places
<1> HIDE DEF K, J
<1>2. PickOut(queue.items, K) \in Seq(Control) /\ PickOut(queue.items, J) \in Seq(Control)
  BY <1>1, PickOutIs
<1>3. taken' = PickOut(queue.items, K) /\ queue' = [queue EXCEPT !.items = PickOut(queue.items, J)]
  BY DEF Split, K, J
<1>4. QED
  BY <1>2, <1>3 DEF Types

LEMMA EventTypes ==
  ASSUME LoopAssumption, Types
  PROVE  /\ \A m \in Prompt \cup Message \cup {Nobody} :
              \A kind \in {"started", "ended", "abort", "queued", "committed", "dropped"} :
                /\ Event(kind, m, run.id) \in EventRec /\ Event(kind, m, 0) \in EventRec
                /\ Event(kind, m, run.id + 1) \in EventRec
         /\ Nobody \in Prompt \cup Message \cup {Nobody}
         /\ run.id \in Nat
BY DEF Types, RunRec, Event, EventRec

LEMMA TypesLoop ==
  ASSUME LoopAssumption, Types, RunInv,
         \/ BeginTurn \/ NoticesDone \/ Overflows \/ ModelFails \/ CutOff \/ StopTurn \/ Boundary
         \/ HostFails \/ Ending \/ Discard \/ EndRun \/ Reply \/ CloseSignal \/ Seal
         \/ \E p \in Prompt : Serve(p)
  PROVE  Types'
<1>0. run \in RunRec /\ budget \in Load
  BY DEF Types
<1>1. CASE BeginTurn
  <2>1. CASE run.canceled
    <3>1. run' \in RunRec /\ at' \in Place
      BY <1>0, <1>1, <2>1 DEF BeginTurn, EndsAs, RunRec, Status, Place
    <3>2. QED
      BY <1>1, <2>1, <3>1 DEF BeginTurn, EndsAs, Types
  <2>2. CASE ~run.canceled
    <3>1. run' \in RunRec /\ at' \in Place
      BY <1>0, <1>1, <2>2 DEF BeginTurn, RunRec, Place, InTurn
    <3>2. QED
      BY <1>1, <2>2, <3>1, SplitTypes DEF BeginTurn, Types
  <2>3. QED
    BY <2>1, <2>2
<1>2. CASE NoticesDone
  BY <1>2 DEF NoticesDone, Types, Place, InTurn
<1>3. CASE Overflows
  <2>1. run' \in RunRec /\ budget' \in Load /\ at' \in Place
    <3>1. budget' \in Load
      BY <1>0, <1>3, BudgetTypes DEF Overflows
    <3>2. QED
      BY <1>0, <1>3, <3>1 DEF Overflows, RunRec, Place, InTurn
  <2>2. QED
    BY <1>3, <2>1 DEF Overflows, Types
<1>4. CASE ModelFails \/ StopTurn \/ HostFails
  <2>1. run' \in RunRec /\ at' \in Place
    BY <1>0, <1>4 DEF ModelFails, StopTurn, HostFails, EndsAs, RunRec, Status, Place
  <2>2. QED
    BY <1>4, <2>1 DEF ModelFails, StopTurn, HostFails, EndsAs, Types
<1>5. CASE CutOff
  <2>1. CASE ~run.canceled /\ Interrupting
    <3>1. run' \in RunRec /\ at' \in Place
      BY ZenonT(30), <1>0, <1>5, <2>1 DEF CutOff, RunRec, Place, InTurn
    <3>2. PICK kinds : Split(kinds)
      BY <1>5, <2>1 DEF CutOff, Take
    <3>3. QED
      BY <1>5, <2>1, <3>1, <3>2, SplitTypes DEF CutOff, Types
  <2>2. CASE ~(~run.canceled /\ Interrupting)
    <3>1. run' \in RunRec /\ at' \in Place
      BY ZenonT(30), <1>0, <1>5, <2>2 DEF CutOff, EndsAs, RunRec, Status, Place
    <3>2. QED
      BY <1>5, <2>2, <3>1 DEF CutOff, EndsAs, Types
  <2>3. QED
    BY <2>1, <2>2
<1>6. CASE Boundary
  <2>1. CASE ~run.canceled
    <3>1. run' \in RunRec /\ at' \in Place
      BY <1>0, <1>6, <2>1 DEF Boundary, RunRec, Place, InTurn
    <3>2. PICK kinds : Split(kinds)
      BY <1>6, <2>1 DEF Boundary, Take
    <3>3. QED
      BY <1>6, <2>1, <3>1, <3>2, SplitTypes DEF Boundary, Types
  <2>2. CASE run.canceled
    <3>1. run' \in RunRec /\ at' \in Place
      BY <1>0, <1>6, <2>2 DEF Boundary, EndsAs, RunRec, Status, Place
    <3>2. QED
      BY <1>6, <2>2, <3>1 DEF Boundary, EndsAs, Types
  <2>3. QED
    BY <2>1, <2>2
<1>7. CASE Ending
  <2>1. KeepsQueued(run.status) \in BOOLEAN
    BY DEF KeepsQueued
  <2>2. run' \in RunRec /\ at' \in Place
    BY <1>0, <1>7, <2>1 DEF Ending, RunRec, Place
  <2>3. QED
    BY <1>7, <2>2 DEF Ending, Types
<1>8. CASE Discard
  <2>1. CASE run.keeps
    BY <1>8, <2>1 DEF Discard, Types, Place
  <2>2. CASE ~run.keeps
    <3> DEFINE K == Places({"notice"})
               J == Places(Kinds \ {"notice"})
               gone == PickOut(queue.items, J)
               drops == [i \in DOMAIN gone |-> Event("dropped", gone[i].m, run.id)]
    <3>1. queue.items \in Seq(Control) /\ K \in SUBSET (DOMAIN queue.items) /\ J \in SUBSET (DOMAIN queue.items)
      BY DEF Types, Places
    <3> HIDE DEF K, J
    <3>2. PickOut(queue.items, K) \in Seq(Control) /\ gone \in Seq(Control)
      BY <3>1, PickOutIs
    <3>3. staged' = staged \o drops /\ queue' = [queue EXCEPT !.items = PickOut(queue.items, K)]
      BY <1>8, <2>2 DEF Discard, K, J
    <3> HIDE DEF gone
    <3>4. \A i \in DOMAIN gone : gone[i].m \in Message
      <4>1. \A i \in DOMAIN gone : gone[i] \in Control
        BY <3>2
      <4>2. QED
        BY <4>1 DEF Control
    <3>5. \A i \in DOMAIN gone : Event("dropped", gone[i].m, run.id) \in EventRec
      BY <3>4, EventTypes
    <3>6. drops \in Seq(EventRec)
      BY <3>2, <3>5
    <3> HIDE DEF drops
    <3>7. staged' \in Seq(EventRec)
      BY <3>3, <3>6, ConcatProperties DEF Types
    <3>8. queue' \in [items : Seq(Control), held : [Kinds -> Int], sealed : BOOLEAN, seq : Nat]
      BY <3>2, <3>3 DEF Types
    <3>9. QED
      BY <1>8, <3>7, <3>8 DEF Discard, Types, Place
  <2>3. QED
    BY <2>1, <2>2
<1>9. CASE EndRun
  <2>1. run' \in RunRec /\ at' \in Place
    BY <1>0, <1>9 DEF EndRun, RunRec, Place, BetweenRuns
  <2>2. QED
    BY <1>9, <2>1 DEF EndRun, Types
<1>10. CASE Reply
  <2>1. prompt \in Prompt /\ at' \in Place
    BY <1>10 DEF Reply, RunInv, Types, Place, BetweenRuns
  <2>2. run.status \in Answer
    BY <1>0 DEF RunRec, Answer
  <2>3. caller' \in [Prompt \cup Message -> CallerRec]
    BY <1>10, <2>1, <2>2, CallerTypes DEF Reply, Types
  <2>4. QED
    BY <1>10, <2>1, <2>3 DEF Reply, Types
<1>11. CASE CloseSignal
  BY <1>11 DEF CloseSignal, Types, Place, BetweenRuns
<1>12. CASE Seal
  <2>1. queue' \in [items : Seq(Control), held : [Kinds -> Int], sealed : BOOLEAN, seq : Nat]
    <3>1. <<>> \in Seq(Control) /\ queue' = [queue EXCEPT !.sealed = TRUE, !.items = <<>>]
      BY <1>12 DEF Seal
    <3>2. QED
      BY <3>1 DEF Types
  <2>2. QED
    BY <1>12, <2>1 DEF Seal, Types, Place, BetweenRuns
<1>13. ASSUME NEW p \in Prompt, Serve(p) PROVE Types'
  <2>1. CASE closing \/ (p \in Continue /\ ~Continuable)
    <3>1. caller' \in [Prompt \cup Message -> CallerRec]
      BY <1>13, <2>1, CallerTypes DEF Serve, Answer
    <3>2. QED
      BY <1>13, <2>1, <3>1 DEF Serve, Types
  <2>2. CASE ~(closing \/ (p \in Continue /\ ~Continuable))
    <3>1. caller' \in [Prompt \cup Message -> CallerRec]
      BY <1>13, <2>2, CallerTypes DEF Serve, Where
    <3>2. caller[p].ended \in BOOLEAN /\ run.id + 1 \in Nat
      BY <1>0 DEF Types, CallerRec, RunRec
    <3>3. NoRun(run.id + 1) \in RunRec
      BY <3>2 DEF NoRun, RunRec, Status
    <3>4. run' \in RunRec
      <4> DEFINE nr == NoRun(run.id + 1)
      <4>1. run' = [nr EXCEPT !.inRun = TRUE, !.stop = TRUE, !.canceled = caller[p].ended]
        BY <1>13, <2>2 DEF Serve
      <4> HIDE DEF nr
      <4>2. nr \in RunRec
        BY <3>3 DEF nr
      <4>3. QED
        BY <3>2, <4>1, <4>2 DEF RunRec
    <3>5. staged' \in Seq(EventRec)
      <4>1. Event("started", Nobody, run.id + 1) \in EventRec /\ staged \in Seq(EventRec)
        BY EventTypes DEF Types
      <4>2. staged' = Append(staged, Event("started", Nobody, run.id + 1))
        BY <1>13, <2>2 DEF Serve
      <4>3. QED
        BY <4>1, <4>2, AppendProperties
    <3>6. QED
      BY <1>13, <2>2, <3>1, <3>4, <3>5 DEF Serve, Types, Place, InTurn
  <2>3. QED
    BY <2>1, <2>2
<1>14. QED
  BY <1>1, <1>2, <1>3, <1>4, <1>5, <1>6, <1>7, <1>8, <1>9, <1>10, <1>11, <1>12, <1>13

\* A flush of what is staged and of these Events.
LEMMA FlushTypes ==
  ASSUME Types, NEW events \in Seq(EventRec), NEW ok \in BOOLEAN, Flush(events, ok)
  PROVE  staged' \in Seq(EventRec) /\ journal' \in Seq(EventRec) /\ stopped' \in BOOLEAN
<1>1. staged \o events \in Seq(EventRec)
  BY ConcatProperties DEF Types
<1>2. <<>> \in Seq(EventRec) /\ Writes(staged \o events, ok) /\ staged' = <<>>
  BY DEF Flush
<1>3. QED
  BY <1>1, <1>2, WritesTypes

LEMMA TypesWrites ==
  ASSUME LoopAssumption, Types, RunInv, NEW ok \in BOOLEAN,
         \/ CommitPrompt(ok) \/ CommitTaken(ok) \/ StartCall(ok) \/ RunTools(ok)
         \/ ControlDone(ok) \/ End(ok) \/ DropLeftover(ok)
         \/ \E reply \in {"answer", "tools", "truncated"} : Replies(reply, ok)
  PROVE  Types'
<1>0. run \in RunRec /\ budget \in Load /\ <<>> \in Seq(EventRec) /\ staged \in Seq(EventRec)
  BY DEF Types
<1>1. CASE CommitPrompt(ok)
  <2>1. CASE prompt \in Continue /\ ok /\ at' = "turn" /\ UNCHANGED <<run, staged, journal, stopped, history, last, budget>>
    BY <1>1, <2>1 DEF CommitPrompt, Types, Place, InTurn
  <2>2. CASE Refuse /\ EndsAs("failed") /\ UNCHANGED <<staged, journal, stopped, history, last>>
    <3>1. run' \in RunRec /\ at' \in Place /\ budget' \in Load
      BY <1>0, <2>2, BudgetTypes DEF EndsAs, RunRec, Status, Place
    <3>2. QED
      BY <1>1, <2>2, <3>1 DEF CommitPrompt, Types
  <2>3. CASE Flush(<<Event("committed", prompt, run.id)>>, ok) /\ GoesOn("turn", <<>>, ok) /\ UNCHANGED budget
    <3>1. <<Event("committed", prompt, run.id)>> \in Seq(EventRec)
      <4>1. Event("committed", prompt, run.id) \in EventRec
        BY EventTypes DEF Types
      <4>2. QED
        BY <4>1
    <3>2. staged' \in Seq(EventRec) /\ journal' \in Seq(EventRec) /\ stopped' \in BOOLEAN
      BY <2>3, <3>1, FlushTypes
    <3>3. PICK o, a \in BOOLEAN : AfterWrite(staged \o <<>>, ok) = [run EXCEPT !.open = o, !.abortBeforeStart = a]
      BY <1>0, AfterWriteIs
    <3>4. run' \in RunRec /\ at' \in Place
      BY ZenonT(30), <1>0, <2>3, <3>3 DEF GoesOn, RunRec, Status, Place, InTurn
    <3>5. QED
      BY <1>1, <2>3, <3>2, <3>4 DEF CommitPrompt, Types
  <2>4. QED
    BY <1>1, <2>1, <2>2, <2>3 DEF CommitPrompt
<1>2. CASE CommitTaken(ok)
  <2>1. /\ taken \in Seq(Control) /\ Tail(taken) \in Seq(Control) /\ Head(taken).m \in Message
        /\ <<>> \in Seq(Control)
    <3>1. taken \in Seq(Control) /\ taken # <<>>
      BY <1>2 DEF CommitTaken, Types
    <3>2. Head(taken) \in Control /\ Tail(taken) \in Seq(Control)
      BY <3>1
    <3>3. QED
      BY <3>1, <3>2 DEF Control
  <2>2. taken' \in Seq(Control)
    BY <1>2, <2>1 DEF CommitTaken
  <2>3. PutBack(Tail(taken)) \in Seq(Control)
    BY <2>1, PutBackIs DEF Types, Control
  <2>4. queue' \in [items : Seq(Control), held : [Kinds -> Int], sealed : BOOLEAN, seq : Nat]
    BY <1>2, <2>3 DEF CommitTaken, Types
  <2>5. CASE Refuse /\ EndsAs("failed") /\ staged' = Append(staged, Event("dropped", Head(taken).m, run.id))
                 /\ UNCHANGED <<journal, stopped, history, last>>
    <3>1. run' \in RunRec /\ at' \in Place /\ budget' \in Load
      BY <1>0, <2>5, BudgetTypes DEF EndsAs, RunRec, Status, Place
    <3>2. staged' \in Seq(EventRec)
      BY <1>0, <2>1, <2>5, EventTypes
    <3>3. QED
      BY <1>2, <2>2, <2>4, <2>5, <3>1, <3>2 DEF CommitTaken, Types
  <2>6. CASE /\ Flush(<<Event("committed", Head(taken).m, run.id)>>, ok)
             /\ at' = IF ok THEN at ELSE "ending"
             /\ run' = [AfterWrite(staged, ok) EXCEPT
                          !.status = IF ok THEN @ ELSE "failed",
                          !.injected = @ \/ Kind(Head(taken).m) # "notice"]
             /\ UNCHANGED budget
    <3>1. <<Event("committed", Head(taken).m, run.id)>> \in Seq(EventRec)
      <4>1. Event("committed", Head(taken).m, run.id) \in EventRec
        BY <2>1, EventTypes
      <4>2. QED
        BY <4>1
    <3>2. staged' \in Seq(EventRec) /\ journal' \in Seq(EventRec) /\ stopped' \in BOOLEAN
      BY <2>6, <3>1, FlushTypes
    <3>3. PICK o, a \in BOOLEAN : AfterWrite(staged, ok) = [run EXCEPT !.open = o, !.abortBeforeStart = a]
      BY <1>0, AfterWriteIs
    <3>4. run' \in RunRec /\ at' \in Place
      BY ZenonT(30), <1>0, <2>6, <3>3 DEF RunRec, Status, Place, Types
    <3>5. QED
      BY <1>2, <2>2, <2>4, <2>6, <3>2, <3>4 DEF CommitTaken, Types
  <2>7. QED
    BY <1>2, <2>5, <2>6 DEF CommitTaken
<1>3. CASE StartCall(ok)
  <2>1. staged' \in Seq(EventRec) /\ journal' \in Seq(EventRec) /\ stopped' \in BOOLEAN
    BY <1>0, <1>3, FlushTypes DEF StartCall
  <2>3. Interrupting \in BOOLEAN
    BY DEF Interrupting
  <2>4. run' \in RunRec /\ at' \in Place
    <3> DEFINE aw == AfterWrite(staged, ok)
    <3>1. aw \in RunRec
      BY <1>0, AfterWriteTypes
    <3>2. /\ run' = [aw EXCEPT !.status = IF ok THEN aw.status ELSE "failed",
                               !.calls = IF ok THEN aw.calls + 1 ELSE aw.calls, !.cut = Interrupting]
          /\ at' \in Place
      BY <1>3 DEF StartCall, Place, InTurn
    <3> HIDE DEF aw
    <3>3. /\ (IF ok THEN aw.status ELSE "failed") \in Status
          /\ (IF ok THEN aw.calls + 1 ELSE aw.calls) \in Nat
      BY <3>1 DEF RunRec, Status
    <3>4. QED
      BY <2>3, <3>1, <3>2, <3>3 DEF RunRec
  <2>5. QED
    BY <1>3, <2>1, <2>4 DEF StartCall, Types
<1>4. CASE RunTools(ok)
  <2>1. staged' \in Seq(EventRec) /\ journal' \in Seq(EventRec) /\ stopped' \in BOOLEAN
    BY <1>0, <1>4, FlushTypes DEF RunTools
  <2>2. PICK o, a \in BOOLEAN : AfterWrite(staged \o <<>>, ok) = [run EXCEPT !.open = o, !.abortBeforeStart = a]
    BY <1>0, AfterWriteIs
  <2>3. run' \in RunRec /\ at' \in Place
    BY ZenonT(30), <1>0, <1>4, <2>2 DEF RunTools, GoesOn, RunRec, Status, Place, InTurn
  <2>4. QED
    BY <1>4, <2>1, <2>3 DEF RunTools, Types
<1>5. CASE ControlDone(ok)
  <2>1. CASE at' = "turn" /\ UNCHANGED <<run, staged, journal, stopped, last>>
    BY <1>5, <2>1 DEF ControlDone, Types, Place, InTurn
  <2>2. CASE /\ Flush(<<>>, ok)
             /\ at' = IF ok THEN "turn" ELSE "ending"
             /\ run' = [AfterWrite(staged, ok) EXCEPT !.status = IF ok THEN @ ELSE "failed",
                                                      !.truncated = @ + 1]
    <3>1. staged' \in Seq(EventRec) /\ journal' \in Seq(EventRec) /\ stopped' \in BOOLEAN
      BY <1>0, <2>2, FlushTypes
    <3>2. at' \in Place
      BY <2>2 DEF Place, InTurn
    <3>3. run' \in RunRec /\ at' \in Place
      <4> DEFINE aw == AfterWrite(staged, ok)
      <4>1. aw \in RunRec
        BY <1>0, AfterWriteTypes
      <4>2. run' = [aw EXCEPT !.status = IF ok THEN aw.status ELSE "failed", !.truncated = aw.truncated + 1]
        BY <2>2
      <4> HIDE DEF aw
      <4>3. (IF ok THEN aw.status ELSE "failed") \in Status /\ aw.truncated + 1 \in Nat
        BY <4>1 DEF RunRec, Status
      <4>4. QED
        BY <3>2, <4>1, <4>2, <4>3 DEF RunRec
    <3>4. QED
      BY <1>5, <3>1, <3>3 DEF ControlDone, Types
  <2>3. CASE EndsAs("completed") /\ UNCHANGED <<staged, journal, stopped, last>>
    <3>1. run' \in RunRec /\ at' \in Place
      BY <1>0, <2>3 DEF EndsAs, RunRec, Status, Place
    <3>2. QED
      BY <1>5, <2>3, <3>1 DEF ControlDone, Types
  <2>4. QED
    BY <1>5, <2>1, <2>2, <2>3 DEF ControlDone
<1>6. CASE End(ok)
  <2> DEFINE ended == <<Event("ended", Nobody, run.id)>>
  <2>1. ended \in Seq(EventRec)
    <3>1. Event("ended", Nobody, run.id) \in EventRec
      BY EventTypes
    <3>2. QED
      BY <3>1
  <2>2. staged' \in Seq(EventRec) /\ journal' \in Seq(EventRec) /\ stopped' \in BOOLEAN
    BY <1>6, <2>1, FlushTypes DEF End
  <2>3. PICK o, a \in BOOLEAN : AfterWrite(staged \o ended, ok) = [run EXCEPT !.open = o, !.abortBeforeStart = a]
    BY <1>0, AfterWriteIs
  <2>4. run' = [AfterWrite(staged \o ended, ok) EXCEPT
                     !.status = IF ok \/ @ # "completed" THEN @ ELSE "failed"]
    BY <1>6 DEF End
  <2> HIDE DEF ended
  <2>5. run' \in RunRec
    BY ZenonT(30), <1>0, <2>3, <2>4 DEF RunRec, Status
  <2>6. QED
    BY <1>6, <2>2, <2>5 DEF End, Types, Place
<1>7. CASE DropLeftover(ok)
  <2>1. CASE taken = <<>>
    BY <1>7, <2>1 DEF DropLeftover, Types, Place, BetweenRuns
  <2>2. CASE taken # <<>>
    <3>1. Tail(taken) \in Seq(Control) /\ Head(taken).m \in Message
      <4>1. Head(taken) \in Control /\ Tail(taken) \in Seq(Control)
        BY <2>2 DEF Types
      <4>2. QED
        BY <4>1 DEF Control
    <3>2. <<Event("dropped", Head(taken).m, 0)>> \in Seq(EventRec)
      BY <3>1, EventTypes
    <3>3. journal' \in Seq(EventRec) /\ stopped' \in BOOLEAN
      BY <1>7, <2>2, <3>2, WritesTypes DEF DropLeftover, WriteNow
    <3>4. QED
      BY <1>7, <2>2, <3>1, <3>3 DEF DropLeftover, WriteNow, Types
  <2>3. QED
    BY <2>1, <2>2
<1>8. ASSUME NEW reply \in {"answer", "tools", "truncated"}, Replies(reply, ok) PROVE Types'
  <2>1. CASE Refuse /\ EndsAs("failed") /\ UNCHANGED <<staged, journal, stopped, last>>
    <3>1. run' \in RunRec /\ at' \in Place /\ budget' \in Load
      BY <1>0, <2>1, BudgetTypes DEF EndsAs, RunRec, Status, Place
    <3>2. QED
      BY <1>8, <2>1, <3>1 DEF Replies, Types
  <2>2. CASE /\ budget' = [budget EXCEPT !.turns = IF reply = "answer" THEN @ ELSE @ - 1]
             /\ Flush(<<>>, ok)
             /\ at' = IF ~ok THEN "ending" ELSE IF reply = "tools" THEN "tools" ELSE "stop"
             /\ run' = [AfterWrite(staged, ok) EXCEPT !.status = IF ok THEN @ ELSE "failed",
                                                      !.reply = reply]
    <3>1. staged' \in Seq(EventRec) /\ journal' \in Seq(EventRec) /\ stopped' \in BOOLEAN
      BY <1>0, <2>2, FlushTypes
    <3>2. PICK o, a \in BOOLEAN : AfterWrite(staged, ok) = [run EXCEPT !.open = o, !.abortBeforeStart = a]
      BY <1>0, AfterWriteIs
    <3>3. run' \in RunRec /\ at' \in Place
      BY ZenonT(30), <1>0, <2>2, <3>2 DEF RunRec, Status, Place, InTurn
    <3>4. budget' \in Load
      BY <1>0, <1>8, <2>2, BudgetTypes DEF Replies, Load
    <3>5. QED
      BY <1>8, <3>1, <3>3, <3>4 DEF Replies, Types
  <2>3. QED
    BY <1>8, <2>1, <2>2 DEF Replies
<1>9. QED
  BY <1>1, <1>2, <1>3, <1>4, <1>5, <1>6, <1>7, <1>8

\* One place more or less held for a kind.
LEMMA HeldTypes ==
  ASSUME Types, NEW k \in Kinds, NEW d \in Int
  PROVE  LET q == [queue EXCEPT !.held[k] = d]
         IN  /\ q \in [items : Seq(Control), held : [Kinds -> Int], sealed : BOOLEAN, seq : Nat]
             /\ q.items = queue.items /\ q.seq = queue.seq
             /\ queue.held[k] \in Int
<1> DEFINE h == [queue.held EXCEPT ![k] = d]
<1>1. h \in [Kinds -> Int] /\ queue.held[k] \in Int
  BY DEF Types
<1>2. [queue EXCEPT !.held[k] = d] = [queue EXCEPT !.held = h]
  OBVIOUS
<1> HIDE DEF h
<1>3. QED
  BY <1>1, <1>2 DEF Types

LEMMA TypesCallers ==
  ASSUME LoopAssumption, Types, Callers
  PROVE  Types'
<1>0. run \in RunRec /\ \A m : Kind(m) \in Kinds
  BY KindIs DEF Types
<1>1. ASSUME NEW p \in Prompt, Admit(p) \/ GivesUp(p) \/ GraceEnds(p) PROVE Types'
  <2>1. caller' \in [Prompt \cup Message -> CallerRec]
    BY <1>1, CallerTypes DEF Admit, GivesUp, GraceEnds, Answer, Where
  <2>2. QED
    BY <1>1, <2>1 DEF Admit, GivesUp, GraceEnds, Types
<1>2. ASSUME NEW m \in Message, Reserve(m) PROVE Types'
  <2>1. caller' \in [Prompt \cup Message -> CallerRec]
    BY <1>2, CallerTypes DEF Reserve, Answer, Where
  <2>2. queue' \in [items : Seq(Control), held : [Kinds -> Int], sealed : BOOLEAN, seq : Nat]
    <3>1. queue.held[Kind(m)] + 1 \in Int
      BY <1>0 DEF Types
    <3>2. queue' = queue \/ queue' = [queue EXCEPT !.held[Kind(m)] = queue.held[Kind(m)] + 1]
      BY <1>2 DEF Reserve
    <3>3. [queue EXCEPT !.held[Kind(m)] = queue.held[Kind(m)] + 1]
            \in [items : Seq(Control), held : [Kinds -> Int], sealed : BOOLEAN, seq : Nat]
      BY <1>0, <3>1, HeldTypes
    <3>4. QED
      BY <3>2, <3>3 DEF Types
  <2>3. QED
    BY <1>2, <2>1, <2>2 DEF Reserve, Types
<1>3. ASSUME NEW m \in Message, Fill(m) PROVE Types'
  <2>1. caller' \in [Prompt \cup Message -> CallerRec]
    BY <1>3, CallerTypes DEF Fill, Answer, Where
  <2> DEFINE free == [queue EXCEPT !.held[Kind(m)] = @ - 1]
             e == [m |-> m, seq |-> queue.seq + 1]
  <2>2. free \in [items : Seq(Control), held : [Kinds -> Int], sealed : BOOLEAN, seq : Nat]
    <3>1. queue.held[Kind(m)] - 1 \in Int
      BY <1>0 DEF Types
    <3>2. QED
      BY <1>0, <3>1, HeldTypes
  <2>3. free.items = queue.items /\ free.seq = queue.seq
    BY DEF Types
  <2>4. Append(queue.items, e) \in Seq(Control) /\ queue.seq + 1 \in Nat
    <3>1. queue.items \in Seq(Control) /\ queue.seq + 1 \in Nat
      BY DEF Types
    <3>2. e \in Control
      BY <3>1 DEF Control
    <3>3. QED
      BY <3>1, <3>2, AppendProperties
  <2>5. \/ queue' = free
        \/ queue' = [free EXCEPT !.seq = free.seq + 1, !.items = Append(free.items, e)]
    BY <1>3 DEF Fill
  <2> HIDE DEF free, e
  <2>6. queue' \in [items : Seq(Control), held : [Kinds -> Int], sealed : BOOLEAN, seq : Nat]
    BY <2>2, <2>3, <2>4, <2>5
  <2>7. QED
    BY <1>3, <2>1, <2>6 DEF Fill, Types
<1>4. ASSUME NEW m \in Message, LookForCall(m) PROVE Types'
  <2> DEFINE see == IF at = "reading" THEN run.calls ELSE 0
  <2>1. caller[m] \in CallerRec /\ see \in Nat
    BY <1>0 DEF Types, RunRec
  <2>2. caller' = [caller EXCEPT ![m] = [caller[m] EXCEPT !.at = "cancels", !.saw = see]]
    BY <1>4 DEF LookForCall, Types
  <2> HIDE DEF see
  <2>3. [caller[m] EXCEPT !.at = "cancels", !.saw = see] \in CallerRec
    BY <2>1 DEF CallerRec
  <2>4. caller' \in [Prompt \cup Message -> CallerRec]
    BY <2>2, <2>3 DEF Types
  <2>5. QED
    BY <1>4, <2>4 DEF LookForCall, Types
<1>5. ASSUME NEW m \in Message, CancelCall(m) PROVE Types'
  <2>1. caller' \in [Prompt \cup Message -> CallerRec]
    BY <1>5, CallerTypes DEF CancelCall, Answer
  <2>2. (run.cut \/ (at = "reading" /\ caller[m].saw = run.calls /\ Interrupting)) \in BOOLEAN
    OBVIOUS
  <2>3. run' \in RunRec
    BY <1>0, <1>5, <2>2 DEF CancelCall, RunRec
  <2>4. QED
    BY <1>5, <2>1, <2>3 DEF CancelCall, Types
<1>6. ASSUME NEW m \in Message, NEW ok \in BOOLEAN, WriteQueued(m, ok) PROVE Types'
  <2>1. <<Event("queued", m, 0)>> \in Seq(EventRec)
    BY EventTypes
  <2>2. journal' \in Seq(EventRec) /\ stopped' \in BOOLEAN /\ staged' = staged
    BY <1>6, <2>1, WritesTypes DEF WriteQueued, WriteNow
  <2>3. caller' \in [Prompt \cup Message -> CallerRec]
    BY <1>6, CallerTypes DEF WriteQueued, Answer, Status, Where
  <2>4. queue' \in [items : Seq(Control), held : [Kinds -> Int], sealed : BOOLEAN, seq : Nat]
    <3>1. queue.held[Kind(m)] - 1 \in Int
      BY <1>0 DEF Types
    <3>2. queue' = queue \/ queue' = [queue EXCEPT !.held[Kind(m)] = queue.held[Kind(m)] - 1]
      BY <1>6 DEF WriteQueued
    <3>3. [queue EXCEPT !.held[Kind(m)] = queue.held[Kind(m)] - 1]
            \in [items : Seq(Control), held : [Kinds -> Int], sealed : BOOLEAN, seq : Nat]
      BY <1>0, <3>1, HeldTypes
    <3>4. QED
      BY <3>2, <3>3 DEF Types
  <2>5. QED
    BY <1>6, <2>2, <2>3, <2>4 DEF WriteQueued, Types
<1>7. ASSUME NEW m \in Message, NEW ok \in BOOLEAN, DropAfterQueued(m, ok) PROVE Types'
  <2>1. <<Event("dropped", m, 0)>> \in Seq(EventRec)
    BY EventTypes
  <2>2. journal' \in Seq(EventRec) /\ stopped' \in BOOLEAN /\ staged' = staged
    BY <1>7, <2>1, WritesTypes DEF DropAfterQueued, WriteNow
  <2>3. caller' \in [Prompt \cup Message -> CallerRec]
    BY <1>7, CallerTypes DEF DropAfterQueued, Answer, Status
  <2>4. QED
    BY <1>7, <2>2, <2>3 DEF DropAfterQueued, Types
<1>8. ASSUME NEW ok \in BOOLEAN, AbortWrites(ok) PROVE Types'
  <2>1. <<Event("abort", Nobody, 0)>> \in Seq(EventRec)
    BY EventTypes
  <2>2. journal' \in Seq(EventRec) /\ stopped' \in BOOLEAN /\ staged' = staged
    BY <1>8, <2>1, WritesTypes DEF AbortWrites, WriteNow
  <2>3. run.aborts - 1 \in Nat /\ run' = [run EXCEPT !.aborts = run.aborts - 1]
    BY <1>0, <1>8 DEF AbortWrites, RunRec
  <2>4. run' \in RunRec
    BY <1>0, <2>3 DEF RunRec
  <2>5. QED
    BY <1>8, <2>2, <2>4 DEF AbortWrites, Types
<1>9. CASE Close
  BY <1>9 DEF Close, Types
<1>10. QED
  BY <1>1, <1>2, <1>3, <1>4, <1>5, <1>6, <1>7, <1>8, <1>9 DEF Callers

LEMMA TypesOutside ==
  ASSUME LoopAssumption, Types, Outside
  PROVE  Types'
<1>0. run \in RunRec /\ budget \in Load
  BY DEF Types
<1>1. CASE Abort
  <2>1. budget.aborts - 1 \in Nat /\ budget' = [budget EXCEPT !.aborts = budget.aborts - 1]
    BY <1>0, <1>1 DEF Abort, Load
  <2>2. budget' \in Load
    BY <1>0, <2>1 DEF Load
  <2>3. run.aborts + 1 \in Nat
    BY <1>0 DEF RunRec
  <2>4. run' \in RunRec
    BY <1>0, <1>1, <2>3 DEF Abort, RunRec
  <2>5. QED
    BY <1>1, <2>2, <2>4 DEF Abort, Types
<1>2. CASE TakeQueued
  <2>1. <<>> \in Seq(Control) /\ queue' = [queue EXCEPT !.items = <<>>]
    BY <1>2 DEF TakeQueued
  <2>2. QED
    BY <1>2, <2>1 DEF TakeQueued, Types
<1>3. ASSUME NEW p \in Prompt, ContextEnds(p) PROVE Types'
  <2>1. budget.cancels - 1 \in Nat /\ budget' = [budget EXCEPT !.cancels = budget.cancels - 1]
    BY <1>0, <1>3 DEF ContextEnds, Load
  <2>2. budget' \in Load
    BY <1>0, <2>1 DEF Load
  <2>3. (run.canceled \/ (prompt = p /\ run.stop)) \in BOOLEAN
    OBVIOUS
  <2>4. run' \in RunRec
    BY <1>0, <1>3, <2>3 DEF ContextEnds, RunRec
  <2>5. caller[p] \in CallerRec /\ caller' = [caller EXCEPT ![p] = [caller[p] EXCEPT !.ended = TRUE]]
    BY <1>3 DEF ContextEnds, Types
  <2>6. [caller[p] EXCEPT !.ended = TRUE] \in CallerRec
    BY <2>5 DEF CallerRec
  <2>7. caller' \in [Prompt \cup Message -> CallerRec]
    BY <2>5, <2>6 DEF Types
  <2>8. QED
    BY <1>3, <2>2, <2>4, <2>7 DEF ContextEnds, Types
<1>4. QED
  BY <1>1, <1>2, <1>3 DEF Outside

LEMMA TypesNext ==
  ASSUME LoopAssumption, Types, RunInv, [LoopNext]_loopVars
  PROVE  Types'
<1>1. CASE UNCHANGED loopVars
  BY <1>1 DEF loopVars, Types
<1>2. CASE Loop
  BY <1>2, TypesLoop, TypesWrites DEF Loop
<1>3. QED
  BY <1>1, <1>2, TypesCallers, TypesOutside DEF LoopNext

-----------------------------------------------------------------------------
(* Runs: an Interrupt waits while it may cut a call off, and none waits    *)
(* outside a Run that leaves no queue.                                     *)

\* What a write leaves of a Run.
LEMMA AfterWriteKeeps ==
  ASSUME run \in RunRec, NEW events, NEW ok \in BOOLEAN, NEW r, r = AfterWrite(events, ok)
  PROVE  /\ r \in RunRec /\ r.id = run.id /\ r.inRun = run.inRun /\ r.stop = run.stop
         /\ r.ending = run.ending /\ r.keeps = run.keeps /\ r.canceled = run.canceled
         /\ r.status = run.status /\ r.aborts = run.aborts /\ r.cut = run.cut
<1>1. PICK o, a \in BOOLEAN : r = [run EXCEPT !.open = o, !.abortBeforeStart = a]
  BY AfterWriteIs
<1>2. QED
  BY <1>1 DEF RunRec

LEMMA RunLoop ==
  ASSUME LoopAssumption, Types, RunInv,
         \/ BeginTurn \/ NoticesDone \/ Overflows \/ ModelFails \/ CutOff \/ StopTurn \/ Boundary
         \/ HostFails \/ Ending \/ EndRun \/ Reply \/ CloseSignal \/ Seal
         \/ \E p \in Prompt : Serve(p)
  PROVE  RunInv'
<1>0. run \in RunRec /\ at \in Place /\ budget \in Load
  BY DEF Types
<1> USE DEF Place, InTurn, BetweenRuns
<1>1. CASE BeginTurn
  BY <1>0, <1>1 DEF BeginTurn, EndsAs, RunInv, RunRec
<1>2. CASE NoticesDone
  BY <1>0, <1>2 DEF NoticesDone, RunInv, Interrupting
<1>3. CASE Overflows
  <2>1. budget'.handoff = budget.handoff
    BY <1>0, <1>3 DEF Overflows, Load
  <2>2. QED
    BY <1>0, <1>3, <2>1 DEF Overflows, RunInv, RunRec
<1>4. CASE ModelFails \/ StopTurn \/ HostFails
  BY <1>0, <1>4 DEF ModelFails, StopTurn, HostFails, EndsAs, RunInv, RunRec
<1>5. CASE CutOff
  BY ZenonT(30), <1>0, <1>5 DEF CutOff, EndsAs, RunInv, RunRec
<1>6. CASE Boundary
  BY <1>0, <1>6 DEF Boundary, EndsAs, RunInv, RunRec
<1>7. CASE Ending
  <2>1. run'.ending /\ (run'.keeps => budget.handoff) /\ run'.inRun = run.inRun /\ run'.stop = run.stop
        /\ run'.status = run.status /\ run'.canceled = run.canceled /\ budget' = budget
    BY <1>0, <1>7 DEF Ending, RunRec, KeepsQueued
  <2>2. QED
    BY <1>0, <1>7, <2>1 DEF Ending, RunInv
<1>9. CASE EndRun
  BY <1>0, <1>9 DEF EndRun, RunInv, RunRec, Interrupting
<1>10. CASE Reply
  BY <1>0, <1>10 DEF Reply, RunInv, Interrupting
<1>11. CASE CloseSignal
  BY <1>0, <1>11 DEF CloseSignal, RunInv, Interrupting
<1>12. CASE Seal
  <2>1. queue'.items = <<>>
    BY <1>12 DEF Seal, Types
  <2>2. ~Interrupting'
    BY <2>1 DEF Interrupting
  <2>3. QED
    BY <1>0, <1>12, <2>2 DEF Seal, RunInv
<1>13. ASSUME NEW p \in Prompt, Serve(p) PROVE RunInv'
  <2>1. CASE closing \/ (p \in Continue /\ ~Continuable)
    BY <1>13, <2>1 DEF Serve, RunInv, Interrupting
  <2>2. CASE ~(closing \/ (p \in Continue /\ ~Continuable))
    <3>1. /\ run'.inRun /\ run'.stop /\ ~run'.ending /\ ~run'.keeps /\ run'.status = "none" /\ ~run'.cut
          /\ at' = "prepare" /\ prompt' = p /\ budget' = budget
      BY ZenonT(30), <1>13, <2>2 DEF Serve, NoRun
    <3>2. p # Nobody
      BY DEF LoopAssumption
    <3>3. QED
      BY <3>1, <3>2 DEF RunInv
  <2>3. QED
    BY <2>1, <2>2
<1>14. QED
  BY <1>1, <1>2, <1>3, <1>4, <1>5, <1>6, <1>7, <1>9, <1>10, <1>11, <1>12, <1>13

LEMMA RunDiscard ==
  ASSUME LoopAssumption, Types, RunInv, Discard
  PROVE  RunInv'
<1>1. CASE run.keeps
  BY <1>1 DEF Discard, RunInv, Interrupting, InTurn, BetweenRuns
<1>2. CASE ~run.keeps
  <2> DEFINE K == Places({"notice"})
             t == PickOut(queue.items, K)
  <2>1. queue.items \in Seq(Control) /\ K \in SUBSET (DOMAIN queue.items)
    BY DEF Types, Places
  <2>2. \A i \in K : Source[queue.items[i].m] # "interrupt"
    BY DEF Places, Kind
  <2>3. queue'.items = t
    BY <1>2 DEF Discard, Types
  <2> HIDE DEF K
  <2>4. \A n \in DOMAIN t : \E i \in K : t[n] = queue.items[i]
    BY <2>1, PickOutIs
  <2> HIDE DEF t
  <2>5. ~Interrupting'
    BY <2>2, <2>3, <2>4 DEF Interrupting
  <2>6. QED
    BY <2>5 DEF Discard, RunInv, InTurn, BetweenRuns
<1>3. QED
  BY <1>1, <1>2

LEMMA RunWrites ==
  ASSUME LoopAssumption, Types, RunInv, NEW ok \in BOOLEAN,
         \/ CommitPrompt(ok) \/ CommitTaken(ok) \/ StartCall(ok) \/ RunTools(ok)
         \/ ControlDone(ok) \/ End(ok) \/ DropLeftover(ok)
         \/ \E reply \in {"answer", "tools", "truncated"} : Replies(reply, ok)
  PROVE  RunInv'
<1>0. run \in RunRec /\ at \in Place /\ budget \in Load
  BY DEF Types
<1> USE DEF Place, InTurn, BetweenRuns
\* A step within a Run that leaves the Run as it was or fails it.
<1>1. ASSUME at \in InTurn, at' \in (InTurn \ {"reading"}) \cup {"ending"}, prompt' = prompt,
             NEW r, r \in RunRec, r.inRun = run.inRun, r.stop = run.stop,
             r.ending = run.ending, r.keeps = run.keeps, r.canceled = run.canceled, r.status = run.status,
             run'.inRun = r.inRun, run'.stop = r.stop,
             run'.ending = r.ending, run'.keeps = r.keeps, run'.canceled = r.canceled,
             run'.status \in {r.status, "failed", "completed"}, budget'.handoff = budget.handoff
      PROVE  RunInv'
  BY <1>0, <1>1 DEF RunInv
<1> DEFINE aw == AfterWrite(staged, ok)
           aw2 == AfterWrite(staged \o <<>>, ok)
<1>2. /\ aw \in RunRec /\ aw.inRun = run.inRun /\ aw.stop = run.stop /\ aw.ending = run.ending
      /\ aw.keeps = run.keeps /\ aw.canceled = run.canceled /\ aw.status = run.status
  BY <1>0, AfterWriteKeeps
<1>3. /\ aw2 \in RunRec /\ aw2.inRun = run.inRun /\ aw2.stop = run.stop /\ aw2.ending = run.ending
      /\ aw2.keeps = run.keeps /\ aw2.canceled = run.canceled /\ aw2.status = run.status
  BY <1>0, AfterWriteKeeps
<1>4. CASE CommitPrompt(ok)
  <2>1. CASE at' = "turn" /\ UNCHANGED <<run, budget>>
    BY <1>0, <1>1, <1>4, <2>1 DEF CommitPrompt
  <2>2. CASE Refuse /\ EndsAs("failed")
    <3>1. budget'.handoff = budget.handoff
      BY <1>0, <2>2 DEF Refuse, Load
    <3>2. QED
      BY <1>0, <1>1, <1>4, <2>2, <3>1 DEF CommitPrompt, EndsAs, RunRec
  <2>3. CASE GoesOn("turn", <<>>, ok) /\ UNCHANGED budget
    <3>1. /\ at' \in {"turn", "ending"}
          /\ run' = [aw2 EXCEPT !.status = IF ok THEN aw2.status ELSE "failed"]
      BY <2>3 DEF GoesOn
    <3> HIDE DEF aw2, aw
    <3>2. QED
      BY <1>1, <1>3, <1>4, <2>3, <3>1 DEF CommitPrompt, RunRec
  <2>4. QED
    BY <1>4, <2>1, <2>2, <2>3 DEF CommitPrompt
<1>5. CASE CommitTaken(ok)
  <2>1. CASE Refuse /\ EndsAs("failed")
    <3>1. budget'.handoff = budget.handoff
      BY <1>0, <2>1 DEF Refuse, Load
    <3>2. QED
      BY <1>0, <1>1, <1>5, <2>1, <3>1 DEF CommitTaken, EndsAs, RunRec
  <2>2. CASE /\ at' = IF ok THEN at ELSE "ending"
             /\ run' = [AfterWrite(staged, ok) EXCEPT
                          !.status = IF ok THEN @ ELSE "failed",
                          !.injected = @ \/ Kind(Head(taken).m) # "notice"]
             /\ UNCHANGED budget
    <3>1. PICK i : run' = [aw EXCEPT !.status = IF ok THEN aw.status ELSE "failed", !.injected = i]
      BY <2>2
    <3> HIDE DEF aw
    <3>2. /\ run'.inRun = aw.inRun /\ run'.stop = aw.stop /\ run'.ending = aw.ending
          /\ run'.keeps = aw.keeps /\ run'.canceled = aw.canceled
          /\ run'.status \in {aw.status, "failed"}
      BY <1>2, <3>1 DEF RunRec
    <3>3. at \in {"notices", "control"} /\ prompt' = prompt /\ at' \in {"ending", at} /\ budget' = budget
      BY <1>5, <2>2 DEF CommitTaken
    <3>4. QED
      BY <1>1, <1>2, <3>2, <3>3
  <2>3. QED
    BY <1>5, <2>1, <2>2 DEF CommitTaken
<1>6. CASE StartCall(ok)
  <2>1. PICK c : run' = [aw EXCEPT !.status = IF ok THEN aw.status ELSE "failed", !.calls = c, !.cut = Interrupting]
    BY <1>6 DEF StartCall
  <2> HIDE DEF aw
  <2>2. Interrupting' = Interrupting /\ Interrupting \in BOOLEAN
    BY <1>6 DEF StartCall, Interrupting
  <2>3. /\ run'.inRun = run.inRun /\ run'.stop = run.stop /\ run'.ending = run.ending
        /\ run'.keeps = run.keeps /\ run'.canceled = run.canceled
        /\ run'.status \in {run.status, "failed"} /\ run'.cut = Interrupting
    BY <1>2, <2>1 DEF RunRec
  <2>4. QED
    BY <1>6, <2>2, <2>3 DEF StartCall, RunInv
<1>7. CASE RunTools(ok)
  <2>1. at' \in {"stop", "ending"} /\ run' = [aw2 EXCEPT !.status = IF ok THEN aw2.status ELSE "failed"]
    BY <1>7 DEF RunTools, GoesOn
  <2> HIDE DEF aw2, aw
  <2>2. QED
    BY <1>1, <1>3, <1>7, <2>1 DEF RunTools, RunRec
<1>8. CASE ControlDone(ok)
  <2>1. CASE at' = "turn" /\ UNCHANGED run
    BY <1>0, <1>1, <1>8, <2>1 DEF ControlDone
  <2>2. CASE /\ at' = IF ok THEN "turn" ELSE "ending"
             /\ run' = [AfterWrite(staged, ok) EXCEPT !.status = IF ok THEN @ ELSE "failed",
                                                      !.truncated = @ + 1]
    <3>1. PICK c : run' = [aw EXCEPT !.status = IF ok THEN aw.status ELSE "failed", !.truncated = c]
      BY <2>2
    <3> HIDE DEF aw
    <3>2. /\ run'.inRun = aw.inRun /\ run'.stop = aw.stop /\ run'.ending = aw.ending
          /\ run'.keeps = aw.keeps /\ run'.canceled = aw.canceled
          /\ run'.status \in {aw.status, "failed"}
      BY <1>2, <3>1 DEF RunRec
    <3>3. at = "control" /\ prompt' = prompt /\ at' \in {"ending", "turn"} /\ budget' = budget
      BY <1>8, <2>2 DEF ControlDone
    <3>4. QED
      BY <1>1, <1>2, <3>2, <3>3
  <2>3. CASE EndsAs("completed")
    BY <1>0, <1>1, <1>8, <2>3 DEF ControlDone, EndsAs, RunRec
  <2>4. QED
    BY <1>8, <2>1, <2>2, <2>3 DEF ControlDone
<1>9. CASE End(ok)
  <2> DEFINE ae == AfterWrite(staged \o <<Event("ended", Nobody, run.id)>>, ok)
  <2>1. /\ ae \in RunRec /\ ae.inRun = run.inRun /\ ae.stop = run.stop /\ ae.ending = run.ending
        /\ ae.keeps = run.keeps /\ ae.canceled = run.canceled /\ ae.status = run.status
    BY <1>0, AfterWriteKeeps
  <2>2. run' = [ae EXCEPT !.status = IF ok \/ ae.status # "completed" THEN ae.status ELSE "failed"]
    BY <1>9 DEF End
  <2> HIDE DEF ae, aw, aw2
  <2>3. /\ run'.inRun = run.inRun /\ run'.stop = run.stop /\ run'.ending = run.ending
        /\ run'.keeps = run.keeps /\ run'.canceled = run.canceled
        /\ run'.status \in {run.status, "failed"}
    BY <2>1, <2>2 DEF RunRec
  <2>4. QED
    BY <1>9, <2>3 DEF End, RunInv, Interrupting
<1>10. CASE DropLeftover(ok)
  BY <1>10 DEF DropLeftover, RunInv, Interrupting
<1>11. ASSUME NEW reply \in {"answer", "tools", "truncated"}, Replies(reply, ok) PROVE RunInv'
  <2>1. CASE Refuse /\ EndsAs("failed")
    <3>1. budget'.handoff = budget.handoff
      BY <1>0, <2>1 DEF Refuse, Load
    <3>2. QED
      BY <1>0, <1>1, <1>11, <2>1, <3>1 DEF Replies, EndsAs, RunRec
  <2>2. CASE /\ budget' = [budget EXCEPT !.turns = IF reply = "answer" THEN @ ELSE @ - 1]
             /\ at' = IF ~ok THEN "ending" ELSE IF reply = "tools" THEN "tools" ELSE "stop"
             /\ run' = [AfterWrite(staged, ok) EXCEPT !.status = IF ok THEN @ ELSE "failed",
                                                      !.reply = reply]
    <3>1. run' = [aw EXCEPT !.status = IF ok THEN aw.status ELSE "failed", !.reply = reply]
      BY <2>2
    <3>2. budget'.handoff = budget.handoff
      BY <1>0, <2>2 DEF Load
    <3> HIDE DEF aw
    <3>3. /\ run'.inRun = aw.inRun /\ run'.stop = aw.stop /\ run'.ending = aw.ending
          /\ run'.keeps = aw.keeps /\ run'.canceled = aw.canceled
          /\ run'.status \in {aw.status, "failed"}
      BY <1>2, <3>1 DEF RunRec
    <3>4. at = "reading" /\ prompt' = prompt /\ at' \in {"ending", "tools", "stop"}
      BY <1>11, <2>2 DEF Replies
    <3>5. QED
      BY <1>1, <1>2, <3>2, <3>3, <3>4
  <2>3. QED
    BY <1>11, <2>1, <2>2 DEF Replies
<1>12. QED
  BY <1>4, <1>5, <1>6, <1>7, <1>8, <1>9, <1>10, <1>11

LEMMA RunCallers ==
  ASSUME LoopAssumption, Types, RunInv, Callers
  PROVE  RunInv'
<1>0. run \in RunRec /\ at \in Place /\ \A m : Kind(m) \in Kinds
  BY KindIs DEF Types
<1>1. ASSUME NEW p \in Prompt, Admit(p) \/ GivesUp(p) \/ GraceEnds(p) PROVE RunInv'
  BY <1>1 DEF Admit, GivesUp, GraceEnds, RunInv, Interrupting
<1>2. ASSUME NEW m \in Message, Reserve(m) PROVE RunInv'
  <2>1. queue'.items = queue.items
    BY <1>2 DEF Reserve, Types
  <2>2. QED
    BY <1>2, <2>1 DEF Reserve, RunInv, Interrupting
<1>3. ASSUME NEW m \in Message, Fill(m) PROVE RunInv'
  <2> DEFINE e == [m |-> m, seq |-> queue.seq + 1]
  <2>1. queue.items \in Seq(Control)
    BY DEF Types
  <2>2. CASE Gate(m) /\ ~queue.sealed
    <3>1. queue'.items = Append(queue.items, e)
      BY <1>3, <2>2 DEF Fill, Types
    <3>2. Interrupting => Interrupting'
      BY <2>1, <3>1 DEF Interrupting
    <3>3. Interrupting' /\ ~Interrupting => Source[m] = "interrupt"
      BY <2>1, <3>1 DEF Interrupting
    <3>4. UNCHANGED <<at, prompt, run, budget>>
      BY <1>3 DEF Fill
    <3>5. QED
      BY <1>0, <2>2, <3>2, <3>3, <3>4 DEF RunInv, Gate, Place, InTurn, BetweenRuns
  <2>3. CASE ~(Gate(m) /\ ~queue.sealed)
    <3>1. queue'.items = queue.items
      BY <1>3, <2>3 DEF Fill, Types
    <3>2. QED
      BY <1>3, <3>1 DEF Fill, RunInv, Interrupting
  <2>4. QED
    BY <2>2, <2>3
<1>4. ASSUME NEW m \in Message, LookForCall(m) PROVE RunInv'
  BY <1>4 DEF LookForCall, RunInv, Interrupting
<1>5. ASSUME NEW m \in Message, CancelCall(m) PROVE RunInv'
  <2>1. (run.cut \/ (at = "reading" /\ caller[m].saw = run.calls /\ Interrupting)) \in BOOLEAN
    OBVIOUS
  <2>2. /\ run'.inRun = run.inRun /\ run'.stop = run.stop /\ run'.ending = run.ending
        /\ run'.keeps = run.keeps /\ run'.canceled = run.canceled /\ run'.status = run.status
        /\ run'.cut => run.cut \/ Interrupting
    BY <1>0, <1>5, <2>1 DEF CancelCall, RunRec
  <2>3. Interrupting' <=> Interrupting
    BY <1>5 DEF CancelCall, Interrupting
  <2>4. QED
    BY <1>5, <2>2, <2>3 DEF CancelCall, RunInv
<1>6. ASSUME NEW m \in Message, NEW ok \in BOOLEAN, WriteQueued(m, ok) PROVE RunInv'
  <2>1. queue'.items = queue.items
    BY <1>6 DEF WriteQueued, Types
  <2>2. QED
    BY <1>6, <2>1 DEF WriteQueued, RunInv, Interrupting
<1>7. ASSUME NEW m \in Message, NEW ok \in BOOLEAN, DropAfterQueued(m, ok) PROVE RunInv'
  BY <1>7 DEF DropAfterQueued, RunInv, Interrupting
<1>8. ASSUME NEW ok \in BOOLEAN, AbortWrites(ok) PROVE RunInv'
  BY <1>0, <1>8 DEF AbortWrites, RunInv, RunRec, Interrupting
<1>9. CASE Close
  BY <1>9 DEF Close, RunInv, Interrupting
<1>10. QED
  BY <1>1, <1>2, <1>3, <1>4, <1>5, <1>6, <1>7, <1>8, <1>9 DEF Callers

LEMMA RunOutside ==
  ASSUME LoopAssumption, Types, RunInv, Outside
  PROVE  RunInv'
<1>0. run \in RunRec /\ budget \in Load
  BY DEF Types
<1>1. CASE Abort
  <2>1. budget'.handoff = budget.handoff
    BY <1>0, <1>1 DEF Abort, Load
  <2>2. QED
    BY <1>0, <1>1, <2>1 DEF Abort, RunInv, RunRec, Interrupting
<1>2. CASE TakeQueued
  <2>1. queue'.items = <<>>
    BY <1>2 DEF TakeQueued, Types
  <2>2. ~Interrupting'
    BY <2>1 DEF Interrupting
  <2>3. QED
    BY <1>2, <2>2 DEF TakeQueued, RunInv
<1>3. ASSUME NEW p \in Prompt, ContextEnds(p) PROVE RunInv'
  <2>1. budget'.handoff = budget.handoff
    BY <1>0, <1>3 DEF ContextEnds, Load
  <2>2. (run.canceled \/ (prompt = p /\ run.stop)) \in BOOLEAN
    OBVIOUS
  <2>3. QED
    BY <1>0, <1>3, <2>1, <2>2 DEF ContextEnds, RunInv, RunRec, Interrupting
<1>4. QED
  BY <1>1, <1>2, <1>3 DEF Outside

LEMMA RunNext ==
  ASSUME LoopAssumption, Types, RunInv, [LoopNext]_loopVars
  PROVE  RunInv'
<1>1. CASE UNCHANGED loopVars
  BY <1>1 DEF loopVars, RunInv, Interrupting
<1>2. CASE Loop
  BY <1>2, RunLoop, RunWrites, RunDiscard DEF Loop
<1>3. QED
  BY <1>1, <1>2, RunCallers, RunOutside DEF LoopNext

-----------------------------------------------------------------------------
(* Events: a Run's lie between its run_started and its run_ended.          *)

Active == InTurn \cup {"ending", "discard", "ended"}

LEMMA HasGrows ==
  ASSUME journal \in Seq(EventRec), NEW w \in Seq(EventRec), journal' = journal \o w, NEW kind, NEW r
  PROVE  Has(kind, r)' <=> Has(kind, r) \/ \E k \in DOMAIN w : w[k].kind = kind /\ w[k].run = r
<1> DEFINE n == Len(journal)
<1>1. n \in Nat /\ DOMAIN journal = 1 .. n /\ Len(w) \in Nat /\ DOMAIN w = 1 .. Len(w)
  OBVIOUS
<1>2. /\ DOMAIN journal' = 1 .. n + Len(w)
      /\ \A i \in 1 .. n + Len(w) : journal'[i] = IF i <= n THEN journal[i] ELSE w[i - n]
  <2>1. /\ journal \o w \in Seq(EventRec) /\ Len(journal \o w) = n + Len(w)
        /\ \A i \in 1 .. n + Len(w) : (journal \o w)[i] = IF i <= n THEN journal[i] ELSE w[i - n]
    BY ConcatProperties
  <2>2. QED
    BY <2>1
<1> HIDE DEF n
<1>3. \A i \in 1 .. n : i \in 1 .. n + Len(w) /\ journal'[i] = journal[i]
  BY <1>1, <1>2
<1>4. \A k \in 1 .. Len(w) : n + k \in 1 .. n + Len(w) /\ journal'[n + k] = w[k]
  <2> SUFFICES ASSUME NEW k \in 1 .. Len(w) PROVE n + k \in 1 .. n + Len(w) /\ journal'[n + k] = w[k]
    OBVIOUS
  <2>1. n + k \in 1 .. n + Len(w) /\ ~(n + k <= n) /\ (n + k) - n = k
    BY <1>1
  <2>2. QED
    BY <1>2, <2>1
<1>5. ASSUME NEW i \in 1 .. n + Len(w), journal'[i].kind = kind, journal'[i].run = r
      PROVE  Has(kind, r) \/ \E k \in DOMAIN w : w[k].kind = kind /\ w[k].run = r
  <2>1. CASE i <= n
    <3>1. i \in DOMAIN journal /\ journal'[i] = journal[i]
      BY <1>1, <1>2, <2>1
    <3>2. QED
      BY <1>5, <3>1 DEF Has
  <2>2. CASE ~(i <= n)
    <3>1. i - n \in DOMAIN w /\ journal'[i] = w[i - n]
      BY <1>1, <1>2, <2>2
    <3>2. QED
      BY <1>5, <3>1
  <2>3. QED
    BY <2>1, <2>2
<1>6. Has(kind, r)' <=> \E i \in DOMAIN journal' : journal'[i].kind = kind /\ journal'[i].run = r
  BY DEF Has
<1>7. Has(kind, r) => Has(kind, r)'
  <2>1. SUFFICES ASSUME NEW i \in 1 .. n, journal[i].kind = kind, journal[i].run = r PROVE Has(kind, r)'
    BY <1>1 DEF Has
  <2>2. QED
    BY <1>2, <1>3, <1>6, <2>1
<1>8. ASSUME NEW k \in DOMAIN w, w[k].kind = kind, w[k].run = r PROVE Has(kind, r)'
  BY <1>1, <1>2, <1>4, <1>6, <1>8
<1>9. QED
  BY <1>2, <1>5, <1>6, <1>7, <1>8

LEMMA HasAfter ==
  ASSUME journal \in Seq(EventRec), NEW w \in Seq(EventRec), journal' = journal \o w
  PROVE  \A kind, r : Has(kind, r)' <=> Has(kind, r) \/ \E k \in DOMAIN w : w[k].kind = kind /\ w[k].run = r
BY HasGrows, Zenon

\* A write of the Events of one Run, or of Events of none.
LEMMA JournalGrows ==
  ASSUME journal \in Seq(EventRec), NEW w \in Seq(EventRec), journal' = journal \o w,
         RunEventsInSpan, NEW r \in Nat,
         \A k \in DOMAIN w : /\ w[k].run = r
                             /\ w[k].kind = "started" => k = 1
                             /\ w[k].kind = "ended" => k = Len(w)
                             /\ w[k].kind \in {"abort", "ended"} => r # 0,
         r # 0 => ~Has("ended", r) /\ (Has("started", r) \/ (w # <<>> /\ w[1].kind = "started"))
  PROVE  RunEventsInSpan'
<1> DEFINE n == Len(journal)
<1>1. n \in Nat /\ DOMAIN journal = 1 .. n /\ Len(w) \in Nat /\ DOMAIN w = 1 .. Len(w)
  OBVIOUS
<1>2. /\ DOMAIN journal' = 1 .. n + Len(w)
      /\ \A i \in 1 .. n + Len(w) : journal'[i] = IF i <= n THEN journal[i] ELSE w[i - n]
  <2>1. /\ journal \o w \in Seq(EventRec) /\ Len(journal \o w) = n + Len(w)
        /\ \A i \in 1 .. n + Len(w) : (journal \o w)[i] = IF i <= n THEN journal[i] ELSE w[i - n]
    BY ConcatProperties
  <2>2. QED
    BY <2>1
<1> HIDE DEF n
<1>3. \A i \in 1 .. n : i \in 1 .. n + Len(w) /\ journal'[i] = journal[i]
  BY <1>1, <1>2
<1> DEFINE Inside(i, e) ==
             /\ e.kind \in {"abort", "ended"} => e.run # 0
             /\ e.run # 0 /\ e.kind # "started" =>
                  /\ \E j \in 1 .. i - 1 : journal'[j].kind = "started" /\ journal'[j].run = e.run
                  /\ \A j \in 1 .. i - 1 : ~(journal'[j].kind = "ended" /\ journal'[j].run = e.run)
<1> SUFFICES ASSUME NEW i \in 1 .. n + Len(w) PROVE Inside(i, journal'[i])
  BY <1>2 DEF RunEventsInSpan
<1> SUFFICES ASSUME NEW e, e = journal'[i] PROVE Inside(i, e)
  OBVIOUS
<1>4. CASE i <= n
  <2>1. i \in DOMAIN journal /\ e = journal[i]
    BY <1>1, <1>2, <1>4
  <2>2. \A j \in 1 .. i - 1 : journal'[j] = journal[j]
    BY <1>1, <1>3, <1>4
  <2>3. /\ e.kind \in {"abort", "ended"} => e.run # 0
        /\ e.run # 0 /\ e.kind # "started" =>
             /\ \E j \in 1 .. i - 1 : journal[j].kind = "started" /\ journal[j].run = e.run
             /\ \A j \in 1 .. i - 1 : ~(journal[j].kind = "ended" /\ journal[j].run = e.run)
    BY <2>1 DEF RunEventsInSpan
  <2>4. QED
    BY <2>2, <2>3
<1>5. CASE ~(i <= n)
  <2>1. i - n \in DOMAIN w /\ e = w[i - n]
    BY <1>1, <1>2, <1>5
  <2>2. e.run = r /\ (e.kind \in {"abort", "ended"} => r # 0)
    BY <2>1
  <2>3. ASSUME r # 0, e.kind # "started"
        PROVE  \E j \in 1 .. i - 1 : journal'[j].kind = "started" /\ journal'[j].run = r
    <3>1. CASE Has("started", r)
      <4>1. PICK j \in 1 .. n : journal[j].kind = "started" /\ journal[j].run = r
        BY <1>1, <3>1 DEF Has
      <4>2. j \in 1 .. i - 1
        BY <1>1, <1>5, <4>1
      <4>3. QED
        BY <1>3, <4>1, <4>2
    <3>2. CASE w # <<>> /\ w[1].kind = "started"
      <4>1. 1 \in DOMAIN w /\ w[1].run = r
        BY SMTT(30), <1>1, <3>2
      <4>2. i - n # 1
        BY <2>1, <2>3, <3>2
      <4>3. n + 1 \in 1 .. i - 1 /\ n + 1 \in 1 .. n + Len(w) /\ ~(n + 1 <= n) /\ (n + 1) - n = 1
        BY <1>1, <1>5, <2>1, <4>1, <4>2
      <4>4. journal'[n + 1] = w[1]
        BY <1>2, <4>3
      <4>5. QED
        BY <3>2, <4>1, <4>3, <4>4
    <3>3. QED
      BY <2>3, <3>1, <3>2
  <2>4. ASSUME r # 0, NEW j \in 1 .. i - 1, journal'[j].kind = "ended", journal'[j].run = r PROVE FALSE
    <3>1. CASE j <= n
      <4>1. j \in DOMAIN journal /\ journal'[j] = journal[j]
        BY <1>1, <1>3, <3>1
      <4>2. QED
        BY <2>4, <4>1 DEF Has
    <3>2. CASE ~(j <= n)
      <4>1. j \in 1 .. n + Len(w) /\ j - n \in DOMAIN w /\ journal'[j] = w[j - n]
        BY <1>1, <1>2, <3>2
      <4>2. j - n = Len(w)
        BY <2>4, <4>1
      <4>3. QED
        BY <1>1, <2>1, <4>1, <4>2
    <3>3. QED
      BY <3>1, <3>2
  <2>5. QED
    BY <2>2, <2>3, <2>4
<1>6. QED
  BY <1>4, <1>5

\* A flush of a Run's Events: run_started comes first, when the span is not open.
LEMMA SpanOfBatch ==
  ASSUME run \in RunRec, NEW b \in Seq(EventRec), run.id > 0, NEW w, w = Span(b),
         \A i \in DOMAIN b : /\ b[i].run = run.id
                             /\ b[i].kind = "started" <=> i = 1 /\ ~run.open
                             /\ b[i].kind = "ended" => i = Len(b),
         ~run.open => b # <<>>
  PROVE  /\ w \in Seq(EventRec)
         /\ \A k \in DOMAIN w : /\ w[k].run = run.id
                                /\ w[k].kind = "started" => k = 1
                                /\ w[k].kind = "ended" => k = Len(w) /\ Closes(b)
         /\ ~run.open => w # <<>> /\ w[1].kind = "started"
<1> DEFINE starts == {i \in DOMAIN b : b[i].kind = "started"}
           n == Len(b)
           p == Min(starts) + 1
<1>1. n \in Nat /\ DOMAIN b = 1 .. n /\ (\A i \in 1 .. n : b[i] \in EventRec) /\ run.id \in Nat
  BY DEF RunRec
<1>2. \A i \in 1 .. n : Stamp(b[i]) = b[i]
  BY <1>1, StampIs
<1>3. w \in Seq(EventRec) /\ Len(w) \in Nat /\ DOMAIN w = 1 .. Len(w)
  BY SpanIs
<1>4. ASSUME starts # {}, run.abortBeforeStart
      PROVE  /\ Len(w) = n + 1 /\ n > 0
             /\ w[1] = b[1] /\ w[2] = Event("abort", Nobody, run.id)
             /\ \A k \in 3 .. n + 1 : k - 1 \in 2 .. n /\ w[k] = b[k - 1]
  <2>1. starts \in SUBSET Nat /\ \A i \in starts : i = 1
    BY <1>1
  <2>2. Min(starts) \in starts
    BY <1>4, <2>1, Least
  <2>3. p = 2 /\ n > 0
    BY <1>1, <2>1, <2>2
  <2>4. /\ Len(w) = n + 1
        /\ \A k \in 1 .. n + 1 : w[k] = IF k < p THEN Stamp(b[k])
                                        ELSE IF k = p THEN Event("abort", Nobody, run.id)
                                        ELSE Stamp(b[k - 1])
    BY <1>4, SpanIs
  <2> HIDE DEF p, starts
  <2>5. w[1] = b[1]
    BY <1>1, <1>2, <2>3, <2>4
  <2>6. w[2] = Event("abort", Nobody, run.id)
    BY <1>1, <2>3, <2>4
  <2>7. ASSUME NEW k \in 3 .. n + 1 PROVE k - 1 \in 2 .. n /\ w[k] = b[k - 1]
    <3>1. k - 1 \in 2 .. n /\ k \in 1 .. n + 1 /\ ~(k < 2) /\ k # 2 /\ k - 1 \in 1 .. n
      BY <1>1
    <3>2. QED
      BY <1>2, <2>3, <2>4, <3>1
  <2>8. QED
    BY <2>3, <2>4, <2>5, <2>6, <2>7
<1>5. ASSUME ~(starts # {} /\ run.abortBeforeStart)
      PROVE  Len(w) = n /\ \A k \in 1 .. n : w[k] = b[k]
  BY <1>2, <1>5, SpanIs
<1>6. ~run.open => n > 0 /\ 1 \in DOMAIN b /\ b[1].kind = "started"
  BY <1>1
<1>7. Event("abort", Nobody, run.id).run = run.id /\ Event("abort", Nobody, run.id).kind = "abort"
  BY DEF Event
<1>8. CASE starts # {} /\ run.abortBeforeStart
  <2>1. ASSUME NEW k \in 1 .. n + 1
        PROVE  /\ w[k].run = run.id
               /\ w[k].kind = "started" => k = 1
               /\ w[k].kind = "ended" => k = Len(w) /\ Closes(b)
    <3>1. CASE k = 1
      <4>1. w[1] = b[1] /\ 1 \in DOMAIN b /\ n \in Nat /\ starts # {}
        BY <1>1, <1>4, <1>8
      <4>2. b[1].kind = "started"
        BY <1>1, <4>1
      <4>3. QED
        BY <3>1, <4>1, <4>2
    <3>2. CASE k = 2
      BY <1>4, <1>7, <1>8, <3>2
    <3>3. CASE k > 2
      <4>1. k \in 3 .. n + 1
        BY <1>1, <3>3
      <4>2. w[k] = b[k - 1] /\ k - 1 \in DOMAIN b /\ k - 1 # 1 /\ Len(w) = n + 1
        BY <1>1, <1>4, <1>8, <4>1
      <4>3. b[k - 1].kind = "ended" => k - 1 = n /\ Closes(b)
        BY <4>2 DEF Closes
      <4>4. QED
        BY <1>1, <4>2, <4>3
    <3>4. k = 1 \/ k = 2 \/ k > 2
      BY <1>1
    <3>5. QED
      BY <3>1, <3>2, <3>3, <3>4
  <2> HIDE DEF starts
  <2>2. DOMAIN w = 1 .. n + 1 /\ w[1] = b[1] /\ n > 0
    BY <1>3, <1>4, <1>8
  <2>3. ~run.open => w # <<>> /\ w[1].kind = "started"
    <3>1. w # <<>>
      BY <1>1, <2>2
    <3>2. QED
      BY <1>6, <2>2, <3>1
  <2>4. QED
    BY <1>3, <2>1, <2>2, <2>3
<1>9. CASE ~(starts # {} /\ run.abortBeforeStart)
  <2>1. Len(w) = n /\ \A k \in 1 .. n : w[k] = b[k]
    BY <1>5, <1>9
  <2>2. \A k \in DOMAIN w : /\ w[k].run = run.id
                            /\ w[k].kind = "started" => k = 1
                            /\ w[k].kind = "ended" => k = Len(w) /\ Closes(b)
    BY <1>1, <1>3, <2>1 DEF Closes
  <2>3. ~run.open => w # <<>> /\ w[1].kind = "started"
    BY <1>1, <1>6, <2>1
  <2>4. QED
    BY <1>3, <2>2, <2>3
<1>10. QED
  BY <1>8, <1>9

LEMMA SpanKept ==
  ASSUME SpanInv, journal' = journal, stopped' = stopped, staged' = staged, run'.id = run.id,
         run'.open = run.open, run'.aborts = run.aborts, at \in Active <=> at' \in Active
  PROVE  SpanInv'
<1>1. RunEventsInSpan'
  BY DEF SpanInv, RunEventsInSpan
<1>2. ASSUME Spanned PROVE Spanned'
  BY <1>2 DEF Spanned, Has, Active
<1>3. QED
  BY <1>1, <1>2 DEF SpanInv

\* A failed write leaves the Journal as it is, for good.
LEMMA SpanFailed ==
  ASSUME SpanInv, Types, NEW events, NEW ok \in BOOLEAN, Writes(events, ok), stopped'
  PROVE  SpanInv'
<1>1. journal' = journal
  BY DEF Writes, Types
<1>2. QED
  BY <1>1 DEF SpanInv, RunEventsInSpan

LEMMA FlushSpan ==
  ASSUME Types, SpanInv, at \in Active, NEW events \in Seq(EventRec), Len(events) <= 1,
         \A i \in DOMAIN events : events[i].run = run.id /\ events[i].kind \in {"committed", "ended"},
         NEW ok \in BOOLEAN, Flush(events, ok), run'.id = run.id, run'.aborts = run.aborts,
         ok => (run'.open <=> (run.open \/ \E i \in DOMAIN staged : staged[i].kind = "started")
                               /\ ~Closes(events)),
         ok => IF Closes(events) THEN run.aborts = 0 /\ at' = "over" ELSE at' \in Active
  PROVE  SpanInv'
<1> DEFINE b == staged \o events
           n == Len(staged)
           w == Span(b)
<1>1. run \in RunRec /\ staged \in Seq(EventRec) /\ journal \in Seq(EventRec) /\ b \in Seq(EventRec)
  BY ConcatProperties DEF Types
<1>2. CASE stopped'
  BY <1>2, SpanFailed DEF Flush
<1>3. CASE ~stopped'
  <2>1. ok /\ ~stopped /\ journal' = journal \o w /\ staged' = <<>> /\ w \in Seq(EventRec)
    BY <1>1, <1>3, WritesTypes, SpanIs DEF Flush
  <2>2. Spanned
    BY <2>1 DEF SpanInv
  <2>3. /\ run.id \in Nat /\ run.id > 0 /\ ~Has("ended", run.id)
        /\ ~run.open => staged # <<>> /\ staged[1].kind = "started"
        /\ \A i \in DOMAIN staged :
             /\ staged[i].run = run.id
             /\ staged[i].kind = IF i = 1 /\ ~run.open THEN "started" ELSE "dropped"
    BY <1>1, <2>2 DEF Spanned, Active, RunRec
  <2>4. n \in Nat /\ DOMAIN staged = 1 .. n /\ Len(events) \in Nat /\ DOMAIN events = 1 .. Len(events)
    BY <1>1
  <2>5. /\ Len(b) = n + Len(events) /\ DOMAIN b = 1 .. n + Len(events)
        /\ \A i \in 1 .. n + Len(events) : b[i] = IF i <= n THEN staged[i] ELSE events[i - n]
    BY <1>1, ConcatProperties
  <2>6. ~run.open => n > 0
    BY <1>1, <2>3, <2>4
  <2> HIDE DEF b, n, w
  <2>7. ASSUME NEW i \in DOMAIN b
        PROVE  /\ b[i].run = run.id
               /\ b[i].kind = "started" <=> i = 1 /\ ~run.open
               /\ b[i].kind = "ended" => i = Len(b)
    <3>1. CASE i <= n
      <4>1. i \in DOMAIN staged /\ b[i] = staged[i]
        BY <2>4, <2>5, <3>1
      <4>2. QED
        BY <2>3, <4>1
    <3>2. CASE ~(i <= n)
      <4>1. i - n \in DOMAIN events /\ b[i] = events[i - n] /\ i = n + 1 /\ i = Len(b)
        BY <2>4, <2>5, <3>2
      <4>2. QED
        BY <2>4, <2>6, <4>1
    <3>3. QED
      BY <3>1, <3>2
  <2>8. ~run.open => b # <<>>
    BY <2>4, <2>5, <2>6
  <2>9. Closes(b) => Closes(events)
    <3>1. SUFFICES ASSUME NEW i \in DOMAIN b, b[i].kind = "ended" PROVE Closes(events)
      BY DEF Closes
    <3>2. CASE i <= n
      <4>1. i \in DOMAIN staged /\ b[i] = staged[i]
        BY <2>4, <2>5, <3>2
      <4>2. QED
        BY <2>3, <3>1, <4>1
    <3>3. CASE ~(i <= n)
      <4>1. i - n \in DOMAIN events /\ b[i] = events[i - n]
        BY <2>4, <2>5, <3>3
      <4>2. QED
        BY <3>1, <4>1 DEF Closes
    <3>4. QED
      BY <3>2, <3>3
  <2>10. /\ \A k \in DOMAIN w : /\ w[k].run = run.id
                                /\ w[k].kind = "started" => k = 1
                                /\ w[k].kind = "ended" => k = Len(w) /\ Closes(b)
         /\ ~run.open => w # <<>> /\ w[1].kind = "started"
    BY <1>1, <2>3, <2>7, <2>8, SpanOfBatch DEF w
  <2>11. run.open => Has("started", run.id)
    BY <2>2 DEF Spanned
  <2>12. RunEventsInSpan'
    <3>1. RunEventsInSpan
      BY DEF SpanInv
    <3>2. \A k \in DOMAIN w : /\ w[k].run = run.id
                              /\ w[k].kind = "started" => k = 1
                              /\ w[k].kind = "ended" => k = Len(w)
                              /\ w[k].kind \in {"abort", "ended"} => run.id # 0
      BY <2>3, <2>10
    <3>3. Has("started", run.id) \/ (w # <<>> /\ w[1].kind = "started")
      BY <2>10, <2>11
    <3>4. PICK r \in Nat : r = run.id
      BY <2>3
    <3>5. \A k \in DOMAIN w : /\ w[k].run = r
                              /\ w[k].kind = "started" => k = 1
                              /\ w[k].kind = "ended" => k = Len(w)
                              /\ w[k].kind \in {"abort", "ended"} => r # 0
      BY <3>2, <3>4
    <3>6. r # 0 => ~Has("ended", r) /\ (Has("started", r) \/ (w # <<>> /\ w[1].kind = "started"))
      BY <2>3, <3>3, <3>4
    <3>7. QED
      BY <1>1, <2>1, <3>1, <3>5, <3>6, JournalGrows, Zenon
  <2>13. PICK r \in Nat : r = run.id
    BY <2>3
  <2>14. Has("started", run.id)' /\ (~Closes(events) => ~Has("ended", run.id)')
    <3>0. \A x, q : Has(x, q)' <=> Has(x, q) \/ \E k \in DOMAIN w : w[k].kind = x /\ w[k].run = q
      BY <1>1, <2>1, HasAfter, Zenon
    <3>1. Has("started", r)' <=> Has("started", r) \/ \E k \in DOMAIN w : w[k].kind = "started" /\ w[k].run = r
      BY <3>0, Zenon
    <3>2. Has("ended", r)' <=> Has("ended", r) \/ \E k \in DOMAIN w : w[k].kind = "ended" /\ w[k].run = r
      BY <3>0, Zenon
    <3>3. ~run.open => 1 \in DOMAIN w
      BY <2>1, <2>10
    <3>4. Has("started", r)'
      BY <2>10, <2>11, <2>13, <3>1, <3>3
    <3>5. ~Closes(events) => ~Has("ended", r)'
      BY <2>3, <2>9, <2>10, <2>13, <3>2
    <3>6. QED
      BY <2>13, <3>4, <3>5 DEF Has
  <2>15. \A i \in DOMAIN journal' : journal'[i].run <= run'.id
    <3>1. \A i \in DOMAIN journal : journal[i].run <= run.id
      BY <2>2 DEF Spanned
    <3>2. \A k \in DOMAIN w : w[k].run <= run.id
      BY <2>3, <2>10
    <3>3. /\ Len(journal) \in Nat /\ Len(w) \in Nat /\ DOMAIN journal = 1 .. Len(journal)
          /\ DOMAIN w = 1 .. Len(w)
      BY <1>1, <2>1
    <3>4. /\ DOMAIN journal' = 1 .. Len(journal) + Len(w)
          /\ \A i \in 1 .. Len(journal) + Len(w) :
               journal'[i] = IF i <= Len(journal) THEN journal[i] ELSE w[i - Len(journal)]
      <4>1. /\ journal \o w \in Seq(EventRec) /\ Len(journal \o w) = Len(journal) + Len(w)
            /\ \A i \in 1 .. Len(journal) + Len(w) :
                 (journal \o w)[i] = IF i <= Len(journal) THEN journal[i] ELSE w[i - Len(journal)]
        BY <1>1, <2>1, ConcatProperties
      <4>2. QED
        BY <2>1, <4>1
    <3>5. QED
      BY SMTT(30), <3>1, <3>2, <3>3, <3>4
  <2>16. run.open \/ \E i \in DOMAIN staged : staged[i].kind = "started"
    BY <2>3, <2>4, <2>6
  <2>17. run'.open <=> ~Closes(events)
    BY <2>1, <2>16
  <2>18. run'.aborts > 0 => run'.open
    BY <1>1, <2>1, <2>17 DEF RunRec
  <2>19. CASE Closes(events)
    <3>1. at' \notin Active
      BY <2>1, <2>19 DEF Active, InTurn
    <3>2. Spanned'
      BY <2>1, <2>15, <2>17, <2>18, <2>19, <3>1 DEF Spanned, Active
    <3>3. QED
      BY <2>12, <3>2 DEF SpanInv
  <2>20. CASE ~Closes(events)
    <3>1. at' \in Active
      BY <2>1, <2>20
    <3>2. Spanned'
      BY <2>1, <2>3, <2>14, <2>15, <2>17, <2>18, <2>20, <3>1 DEF Spanned, Active
    <3>3. QED
      BY <2>12, <3>2 DEF SpanInv
  <2>21. QED
    BY <2>19, <2>20
<1>4. QED
  BY <1>2, <1>3

LEMMA NowSpan ==
  ASSUME LoopAssumption, Types, SpanInv, NEW kind \in {"queued", "dropped", "abort"},
         NEW m \in Prompt \cup Message \cup {Nobody}, NEW ok \in BOOLEAN, WriteNow(kind, m, ok),
         kind = "abort" => run.aborts > 0, run'.id = run.id, run'.open = run.open,
         run'.aborts > 0 => run.aborts > 0, at \in Active <=> at' \in Active
  PROVE  SpanInv'
<1> DEFINE e == Event(kind, m, 0)
           w == Span(<<e>>)
<1>1. run \in RunRec /\ journal \in Seq(EventRec) /\ e \in EventRec /\ <<e>> \in Seq(EventRec)
  BY EventTypes DEF Types
<1>2. CASE stopped'
  BY <1>2, SpanFailed DEF WriteNow
<1>3. CASE ~stopped'
  <2>1. ok /\ ~stopped /\ journal' = journal \o w /\ staged' = staged /\ w \in Seq(EventRec)
    BY <1>1, <1>3, WritesTypes, SpanIs DEF WriteNow
  <2>2. Spanned
    BY <2>1 DEF SpanInv
  <2>3. e.kind = kind /\ e.run = 0
    BY DEF Event
  <2>4. Len(w) = 1 /\ w[1] = Stamp(e)
    <3>1. {i \in DOMAIN <<e>> : <<e>>[i].kind = "started"} = {}
      BY <2>3
    <3>2. Len(<<e>>) = 1 /\ <<e>>[1] = e
      OBVIOUS
    <3> HIDE DEF e
    <3>3. Len(w) = Len(<<e>>) /\ \A k \in 1 .. Len(<<e>>) : w[k] = Stamp(<<e>>[k])
      BY <1>1, <3>1, SpanIs
    <3>4. QED
      BY <3>2, <3>3
  <2>5. DOMAIN w = {1}
    BY <2>1, <2>4
  <2> DEFINE r == IF run.open THEN run.id ELSE 0
  <2>6. r \in Nat /\ (kind = "abort" => r # 0) /\ (run.open => run.id > 0) /\ run.id \in Nat
    BY <1>1, <2>2 DEF Spanned, RunRec
  <2>7. Stamp(e).kind = kind /\ Stamp(e).run = r
    BY <1>1, <2>3, StampIs
  <2> HIDE DEF e, w
  <2>8. \A k \in DOMAIN w : w[k].run = r /\ w[k].kind = kind /\ k = 1
    BY <2>4, <2>5, <2>7
  <2>9. r # 0 => run.open /\ r = run.id /\ ~Has("ended", r) /\ Has("started", r)
    BY <2>2, <2>6 DEF Spanned
  <2> HIDE DEF r
  <2>10. RunEventsInSpan'
    <3>1. RunEventsInSpan
      BY DEF SpanInv
    <3>2. \A k \in DOMAIN w : /\ w[k].run = r
                              /\ w[k].kind = "started" => k = 1
                              /\ w[k].kind = "ended" => k = Len(w)
                              /\ w[k].kind \in {"abort", "ended"} => r # 0
      BY <2>6, <2>8
    <3>3. PICK q \in Nat : q = r
      BY <2>6
    <3>4. QED
      BY <1>1, <2>1, <2>9, <3>1, <3>2, <3>3, JournalGrows
  <2>11. PICK d \in Nat : d = run.id
    BY <2>6
  <2>12. /\ Has("started", run.id)' <=> Has("started", run.id)
         /\ Has("ended", run.id)' <=> Has("ended", run.id)
    <3>0. \A x, q : Has(x, q)' <=> Has(x, q) \/ \E k \in DOMAIN w : w[k].kind = x /\ w[k].run = q
      BY <1>1, <2>1, HasAfter, Zenon
    <3>1. Has("started", d)' <=> Has("started", d) \/ \E k \in DOMAIN w : w[k].kind = "started" /\ w[k].run = d
      BY <3>0, Zenon
    <3>2. Has("ended", d)' <=> Has("ended", d) \/ \E k \in DOMAIN w : w[k].kind = "ended" /\ w[k].run = d
      BY <3>0, Zenon
    <3>3. \A k \in DOMAIN w : w[k].kind \notin {"started", "ended"}
      BY <2>8
    <3>4. QED
      BY <2>11, <3>1, <3>2, <3>3 DEF Has
  <2>13. \A i \in DOMAIN journal' : journal'[i].run <= run'.id
    <3>1. \A i \in DOMAIN journal : journal[i].run <= run.id
      BY <2>2 DEF Spanned
    <3>2. w[1].run <= run.id
      BY <2>5, <2>6, <2>8 DEF r
    <3>3. QED
      BY <1>1, <2>1, <2>4, <3>1, <3>2, ConcatProperties
  <2>14. Spanned'
    BY <2>1, <2>2, <2>12, <2>13 DEF Spanned, Active
  <2>15. QED
    BY <2>10, <2>14 DEF SpanInv
<1>4. QED
  BY <1>2, <1>3

LEMMA SpanLoop ==
  ASSUME LoopAssumption, Types, RunInv, SpanInv,
         \/ BeginTurn \/ NoticesDone \/ Overflows \/ ModelFails \/ CutOff \/ StopTurn \/ Boundary
         \/ HostFails \/ Ending \/ EndRun \/ Reply \/ CloseSignal \/ Seal
  PROVE  SpanInv'
<1>0. run \in RunRec
  BY DEF Types
<1>1. CASE EndRun
  <2>1. RunEventsInSpan'
    BY <1>1 DEF EndRun, SpanInv, RunEventsInSpan
  <2>2. ASSUME Spanned PROVE Spanned'
    BY <1>0, <1>1, <2>2 DEF EndRun, Spanned, Has, InTurn, RunRec
  <2>3. QED
    BY <1>1, <2>1, <2>2 DEF SpanInv, EndRun
<1>2. CASE BeginTurn \/ NoticesDone \/ Overflows \/ ModelFails \/ CutOff \/ StopTurn \/ Boundary
           \/ HostFails \/ Ending \/ Reply \/ CloseSignal \/ Seal
  <2>1. /\ run'.id = run.id /\ run'.open = run.open /\ run'.aborts = run.aborts
        /\ journal' = journal /\ stopped' = stopped /\ staged' = staged
        /\ at \in Active <=> at' \in Active
    <3> USE DEF RunRec, Active, InTurn, EndsAs
    <3>1. CASE BeginTurn
      BY <1>0, <3>1 DEF BeginTurn
    <3>2. CASE NoticesDone
      BY <3>2 DEF NoticesDone
    <3>3. CASE Overflows
      BY <1>0, <3>3 DEF Overflows
    <3>4. CASE ModelFails \/ StopTurn \/ HostFails
      BY <1>0, <3>4 DEF ModelFails, StopTurn, HostFails
    <3>5. CASE CutOff
      BY <1>0, <3>5 DEF CutOff
    <3>6. CASE Boundary
      BY <1>0, <3>6 DEF Boundary
    <3>7. CASE Ending
      BY <1>0, <3>7 DEF Ending
    <3>8. CASE Reply \/ CloseSignal \/ Seal
      BY <3>8 DEF Reply, CloseSignal, Seal
    <3>9. QED
      BY <1>2, <3>1, <3>2, <3>3, <3>4, <3>5, <3>6, <3>7, <3>8
  <2>2. QED
    BY <2>1, SpanKept
<1>3. QED
  BY <1>1, <1>2

\* A Run begins: no Event has its number yet.
LEMMA SpanServe ==
  ASSUME LoopAssumption, Types, RunInv, SpanInv, NEW p \in Prompt, Serve(p)
  PROVE  SpanInv'
<1>1. CASE closing \/ (p \in Continue /\ ~Continuable)
  BY <1>1, SpanKept DEF Serve
<1>2. CASE ~(closing \/ (p \in Continue /\ ~Continuable))
  <2> DEFINE e == Event("started", Nobody, run.id + 1)
  <2>1. /\ run'.id = run.id + 1 /\ ~run'.open /\ run'.aborts = 0 /\ at' = "prepare"
        /\ staged' = Append(staged, e) /\ journal' = journal /\ stopped' = stopped /\ at = "select"
    BY <1>2 DEF Serve, NoRun
  <2>2. run.id \in Nat /\ journal \in Seq(EventRec)
    BY DEF Types, RunRec
  <2>3. e.kind = "started" /\ e.run = run.id + 1
    BY DEF Event
  <2> HIDE DEF e
  <2>4. ASSUME Spanned PROVE Spanned'
    <3>1. staged = <<>>
      BY <2>1, <2>4 DEF Spanned, InTurn
    <3>2. staged' = <<e>>
      BY <2>1, <3>1
    <3>3. DOMAIN staged' = {1} /\ staged'[1] = e /\ staged' # <<>>
      BY <3>2
    <3>4. \A i \in DOMAIN journal : journal[i].run \in Nat /\ journal[i].run <= run.id
      <4>1. \A i \in DOMAIN journal : journal[i] \in EventRec
        BY <2>2
      <4>2. QED
        BY <2>4, <4>1 DEF Spanned, EventRec
    <3>5. \A i \in DOMAIN journal : journal[i].run <= run'.id /\ journal[i].run # run'.id
      BY <2>1, <2>2, <3>4
    <3>6. ~Has("ended", run.id)'
      BY <2>1, <3>5 DEF Has
    <3>7. /\ run'.id > 0
          /\ \A i \in DOMAIN staged' :
               /\ staged'[i].run = run'.id
               /\ staged'[i].kind = IF i = 1 /\ ~run'.open THEN "started" ELSE "dropped"
          /\ staged'[1].kind = "started"
      BY <2>1, <2>2, <2>3, <3>3
    <3>8. at' \in InTurn \cup {"ending", "discard", "ended"}
      BY <2>1 DEF InTurn
    <3>9. QED
      BY <2>1, <3>3, <3>5, <3>6, <3>7, <3>8 DEF Spanned
  <2>5. RunEventsInSpan'
    BY <2>1 DEF SpanInv, RunEventsInSpan
  <2>6. QED
    BY <2>1, <2>4, <2>5 DEF SpanInv
<1>3. QED
  BY <1>1, <1>2

\* Events that say a message was dropped are staged.
LEMMA SpanStages ==
  ASSUME Types, SpanInv, at \in Active, at' \in Active, NEW drops \in Seq(EventRec),
         \A i \in DOMAIN drops : drops[i].run = run.id /\ drops[i].kind = "dropped",
         staged' = staged \o drops, journal' = journal, stopped' = stopped,
         run'.id = run.id, run'.open = run.open, run'.aborts = run.aborts
  PROVE  SpanInv'
<1>1. RunEventsInSpan'
  BY DEF SpanInv, RunEventsInSpan
<1>2. ASSUME Spanned PROVE Spanned'
  <2> DEFINE n == Len(staged)
  <2>1. staged \in Seq(EventRec) /\ n \in Nat /\ DOMAIN staged = 1 .. n /\ Len(drops) \in Nat
        /\ DOMAIN drops = 1 .. Len(drops)
    BY DEF Types
  <2>2. /\ Len(staged') = n + Len(drops) /\ DOMAIN staged' = 1 .. n + Len(drops)
        /\ \A i \in 1 .. n + Len(drops) : staged'[i] = IF i <= n THEN staged[i] ELSE drops[i - n]
    <3>1. /\ staged \o drops \in Seq(EventRec) /\ Len(staged \o drops) = n + Len(drops)
          /\ \A i \in 1 .. n + Len(drops) :
               (staged \o drops)[i] = IF i <= n THEN staged[i] ELSE drops[i - n]
      BY <2>1, ConcatProperties
    <3>2. QED
      BY <3>1
  <2>3. /\ ~run.open => staged # <<>> /\ staged[1].kind = "started"
        /\ \A i \in DOMAIN staged :
             /\ staged[i].run = run.id
             /\ staged[i].kind = IF i = 1 /\ ~run.open THEN "started" ELSE "dropped"
    BY <1>2 DEF Spanned, Active
  <2>4. ~run.open => n > 0
    BY <2>1, <2>3
  <2> HIDE DEF n
  <2>5. ASSUME NEW i \in DOMAIN staged'
        PROVE  /\ staged'[i].run = run.id
               /\ staged'[i].kind = IF i = 1 /\ ~run.open THEN "started" ELSE "dropped"
    <3>1. CASE i <= n
      <4>1. i \in DOMAIN staged /\ staged'[i] = staged[i]
        BY <2>1, <2>2, <3>1
      <4>2. QED
        BY <2>3, <4>1
    <3>2. CASE ~(i <= n)
      <4>1. i - n \in DOMAIN drops /\ staged'[i] = drops[i - n] /\ (~run.open => i # 1)
        BY <2>1, <2>2, <2>4, <3>2
      <4>2. QED
        BY <4>1
    <3>3. QED
      BY <3>1, <3>2
  <2>6. ~run.open => staged' # <<>> /\ staged'[1].kind = "started"
    <3>1. ~run.open => 1 \in DOMAIN staged'
      BY <2>1, <2>2, <2>4
    <3>2. QED
      BY <2>5, <3>1
  <2>7. QED
    BY <1>2, <2>5, <2>6 DEF Spanned, Active, Has
<1>3. QED
  BY <1>1, <1>2 DEF SpanInv

LEMMA SpanDiscard ==
  ASSUME LoopAssumption, Types, RunInv, SpanInv, Discard
  PROVE  SpanInv'
<1>1. CASE run.keeps
  BY <1>1, SpanKept DEF Discard, Active
<1>2. CASE ~run.keeps
  <2> DEFINE J == Places(Kinds \ {"notice"})
             gone == PickOut(queue.items, J)
             drops == [i \in DOMAIN gone |-> Event("dropped", gone[i].m, run.id)]
  <2>1. queue.items \in Seq(Control) /\ J \in SUBSET (DOMAIN queue.items)
    BY DEF Types, Places
  <2>2. staged' = staged \o drops
    BY <1>2 DEF Discard
  <2> HIDE DEF J
  <2>3. gone \in Seq(Control)
    BY <2>1, PickOutIs
  <2> HIDE DEF gone
  <2>4. \A i \in DOMAIN gone : gone[i].m \in Message
    <3>1. \A i \in DOMAIN gone : gone[i] \in Control
      BY <2>3
    <3>2. QED
      BY <3>1 DEF Control
  <2>5. \A i \in DOMAIN gone : Event("dropped", gone[i].m, run.id) \in EventRec
    BY <2>4, EventTypes
  <2>6. drops \in Seq(EventRec) /\ \A i \in DOMAIN drops : drops[i] = Event("dropped", gone[i].m, run.id)
    BY <2>3, <2>5
  <2> HIDE DEF drops
  <2>7. \A i \in DOMAIN drops : drops[i].run = run.id /\ drops[i].kind = "dropped"
    BY <2>6 DEF Event
  <2>8. at \in Active /\ at' \in Active
    BY DEF Discard, Active
  <2>9. UNCHANGED <<run, journal, stopped>>
    BY DEF Discard
  <2>10. QED
    BY <2>2, <2>6, <2>7, <2>8, <2>9, SpanStages
<1>3. QED
  BY <1>1, <1>2

LEMMA SpanWrites ==
  ASSUME LoopAssumption, Types, RunInv, SpanInv, NEW ok \in BOOLEAN,
         \/ CommitPrompt(ok) \/ CommitTaken(ok) \/ StartCall(ok) \/ RunTools(ok)
         \/ ControlDone(ok) \/ End(ok) \/ DropLeftover(ok)
         \/ \E reply \in {"answer", "tools", "truncated"} : Replies(reply, ok)
  PROVE  SpanInv'
<1>0. run \in RunRec /\ staged \in Seq(EventRec) /\ <<>> \in Seq(EventRec)
  BY DEF Types
\* A flush within the Run.
<1>1. ASSUME at \in InTurn, at' \in InTurn \cup {"ending"}, NEW events \in Seq(EventRec), Len(events) <= 1,
             \A i \in DOMAIN events : events[i].run = run.id /\ events[i].kind = "committed",
             Flush(events, ok), NEW r, r = AfterWrite(staged, ok),
             run'.id = r.id, run'.aborts = r.aborts, run'.open = r.open
      PROVE  SpanInv'
  <2>1. /\ r.id = run.id /\ r.aborts = run.aborts
        /\ r.open <=> /\ run.open \/ \E i \in DOMAIN staged : staged[i].kind = "started"
                      /\ ~(ok /\ Closes(staged))
    BY <1>0, <1>1, AfterWriteOpen
  <2>3. ~Closes(events)
    BY <1>1 DEF Closes
  <2>4. CASE stopped'
    BY <1>1, <2>4, SpanFailed DEF Flush
  <2>5. CASE ~stopped'
    <3>1. ~stopped
      BY <1>1, <2>5 DEF Flush, Writes, Types
    <3>2. ~Closes(staged)
      BY <1>1, <3>1 DEF SpanInv, Spanned, Closes
    <3>3. run'.open <=> (run.open \/ \E i \in DOMAIN staged : staged[i].kind = "started") /\ ~Closes(events)
      BY <1>1, <2>1, <2>3, <3>2
    <3>4. at \in Active /\ at' \in Active
      BY <1>1 DEF Active
    <3>5. \A i \in DOMAIN events : events[i].run = run.id /\ events[i].kind \in {"committed", "ended"}
      BY <1>1
    <3>6. run'.id = run.id /\ run'.aborts = run.aborts
      BY <1>1, <2>1
    <3>7. QED
      BY <1>1, <2>3, <3>3, <3>4, <3>5, <3>6, FlushSpan
  <2>6. QED
    BY <2>4, <2>5
<1> DEFINE aw == AfterWrite(staged, ok)
<1>2. aw \in RunRec
  BY <1>0, AfterWriteTypes
<1>3. staged \o <<>> = staged
  BY <1>0, ConcatEmptySeq
<1>4. Len(<<>>) <= 1 /\ DOMAIN <<>> = {} /\ <<>> \in Seq(EventRec)
  OBVIOUS
<1> HIDE DEF aw
\* A flush of one message's commit.
<1>5. ASSUME NEW m \in Prompt \cup Message \cup {Nobody}
      PROVE  LET c == <<Event("committed", m, run.id)>>
             IN c \in Seq(EventRec) /\ Len(c) <= 1
                /\ \A i \in DOMAIN c : c[i].run = run.id /\ c[i].kind = "committed"
  <2>1. Event("committed", m, run.id) \in EventRec
    BY EventTypes
  <2>2. QED
    BY <2>1 DEF Event
<1>6. CASE CommitPrompt(ok)
  <2>1. CASE at' = "turn" /\ UNCHANGED <<run, staged, journal, stopped, history, last, budget>>
    BY <1>6, <2>1, SpanKept DEF CommitPrompt, Active, InTurn
  <2>2. CASE EndsAs("failed") /\ UNCHANGED <<staged, journal, stopped, history, last>>
    <3>1. run'.id = run.id /\ run'.open = run.open /\ run'.aborts = run.aborts
      BY <1>0, <2>2 DEF EndsAs, RunRec
    <3>2. QED
      BY <1>6, <2>2, <3>1, SpanKept DEF CommitPrompt, EndsAs, Active, InTurn
  <2>3. CASE Flush(<<Event("committed", prompt, run.id)>>, ok) /\ GoesOn("turn", <<>>, ok)
    <3>1. at \in InTurn /\ at' \in InTurn \cup {"ending"}
          /\ run' = [aw EXCEPT !.status = IF ok THEN aw.status ELSE "failed"]
      BY <1>3, <1>6, <2>3 DEF CommitPrompt, GoesOn, InTurn, aw
    <3>2. run'.id = aw.id /\ run'.aborts = aw.aborts /\ run'.open = aw.open
      BY <1>2, <3>1 DEF RunRec
    <3>3. prompt \in Prompt \cup Message \cup {Nobody}
      BY DEF Types
    <3>4. PICK c : c = <<Event("committed", prompt, run.id)>>
      OBVIOUS
    <3>5. c \in Seq(EventRec) /\ Len(c) <= 1
                /\ \A i \in DOMAIN c : c[i].run = run.id /\ c[i].kind = "committed"
      BY <1>5, <3>3, <3>4
    <3>6. Flush(c, ok)
      BY <2>3, <3>4
    <3>7. QED
      BY <1>1, <3>1, <3>2, <3>5, <3>6 DEF aw
  <2>4. QED
    BY <1>6, <2>1, <2>2, <2>3 DEF CommitPrompt
<1>7. CASE CommitTaken(ok)
  <2>1. Head(taken).m \in Message /\ at \in InTurn
    <3>1. taken \in Seq(Control) /\ taken # <<>> /\ at \in InTurn
      BY <1>7 DEF CommitTaken, Types, InTurn
    <3>2. Head(taken) \in Control
      BY <3>1
    <3>3. QED
      BY <3>1, <3>2 DEF Control
  <2>2. CASE /\ staged' = Append(staged, Event("dropped", Head(taken).m, run.id))
             /\ EndsAs("failed")
             /\ UNCHANGED <<journal, stopped, history, last>>
    <3>1. run'.id = run.id /\ run'.open = run.open /\ run'.aborts = run.aborts /\ at' = "ending"
      BY <1>0, <2>2 DEF EndsAs, RunRec
    <3>2. PICK e : e = Event("dropped", Head(taken).m, run.id)
      OBVIOUS
    <3>3. e \in EventRec /\ e.run = run.id /\ e.kind = "dropped"
      BY <2>1, <3>2, EventTypes DEF Event
    <3>4. staged' = staged \o <<e>> /\ <<e>> \in Seq(EventRec)
      BY <1>0, <2>2, <3>2, <3>3, AppendIsConcat
    <3>5. \A i \in DOMAIN <<e>> : <<e>>[i].run = run.id /\ <<e>>[i].kind = "dropped"
      BY <3>3
    <3>6. PICK drops : drops = <<e>>
      OBVIOUS
    <3>7. QED
      BY <2>1, <2>2, <3>1, <3>4, <3>5, <3>6, SpanStages DEF Active
  <2>3. CASE /\ Flush(<<Event("committed", Head(taken).m, run.id)>>, ok)
             /\ at' = IF ok THEN at ELSE "ending"
             /\ run' = [AfterWrite(staged, ok) EXCEPT
                          !.status = IF ok THEN @ ELSE "failed",
                          !.injected = @ \/ Kind(Head(taken).m) # "notice"]
    <3>1. PICK s, x : run' = [aw EXCEPT !.status = s, !.injected = x]
      BY <2>3 DEF aw
    <3>2. run'.id = aw.id /\ run'.aborts = aw.aborts /\ run'.open = aw.open
      BY <1>2, <3>1 DEF RunRec
    <3>3. PICK c : c = <<Event("committed", Head(taken).m, run.id)>>
      OBVIOUS
    <3>4. c \in Seq(EventRec) /\ Len(c) <= 1
                /\ \A i \in DOMAIN c : c[i].run = run.id /\ c[i].kind = "committed"
      BY <1>5, <2>1, <3>3
    <3>5. Flush(c, ok) /\ at' \in InTurn \cup {"ending"}
      BY <2>1, <2>3, <3>3
    <3>6. QED
      BY <1>1, <2>1, <3>2, <3>4, <3>5 DEF aw
  <2>4. QED
    BY <1>7, <2>2, <2>3 DEF CommitTaken
<1>8. ASSUME at \in InTurn, at' \in InTurn \cup {"ending"}, Flush(<<>>, ok),
             run'.id = aw.id, run'.aborts = aw.aborts, run'.open = aw.open
      PROVE  SpanInv'
  <2>1. PICK c : c = <<>>
    OBVIOUS
  <2>2. QED
    BY <1>1, <1>4, <1>8, <2>1 DEF aw
<1>9. CASE StartCall(ok)
  <2>1. PICK s, c, k : run' = [aw EXCEPT !.status = s, !.calls = c, !.cut = k]
    BY <1>9 DEF StartCall, aw
  <2>2. run'.id = aw.id /\ run'.aborts = aw.aborts /\ run'.open = aw.open
    BY <1>2, <2>1 DEF RunRec
  <2>3. QED
    BY <1>8, <1>9, <2>2 DEF StartCall, InTurn
<1>10. CASE RunTools(ok)
  <2>1. PICK s : run' = [aw EXCEPT !.status = s]
    BY <1>3, <1>10 DEF RunTools, GoesOn, aw
  <2>2. run'.id = aw.id /\ run'.aborts = aw.aborts /\ run'.open = aw.open
    BY <1>2, <2>1 DEF RunRec
  <2>3. QED
    BY <1>8, <1>10, <2>2 DEF RunTools, GoesOn, InTurn
<1>11. CASE ControlDone(ok)
  <2>1. CASE at' = "turn" /\ UNCHANGED <<run, staged, journal, stopped, last>>
    BY <1>11, <2>1, SpanKept DEF ControlDone, Active, InTurn
  <2>2. CASE /\ Flush(<<>>, ok)
             /\ at' = IF ok THEN "turn" ELSE "ending"
             /\ run' = [AfterWrite(staged, ok) EXCEPT !.status = IF ok THEN @ ELSE "failed",
                                                      !.truncated = @ + 1]
    <3>1. PICK s, t : run' = [aw EXCEPT !.status = s, !.truncated = t]
      BY <2>2 DEF aw
    <3>2. run'.id = aw.id /\ run'.aborts = aw.aborts /\ run'.open = aw.open
      BY <1>2, <3>1 DEF RunRec
    <3>3. QED
      BY <1>8, <1>11, <2>2, <3>2 DEF ControlDone, InTurn
  <2>3. CASE EndsAs("completed") /\ UNCHANGED <<staged, journal, stopped, last>>
    <3>1. run'.id = run.id /\ run'.open = run.open /\ run'.aborts = run.aborts
      BY <1>0, <2>3 DEF EndsAs, RunRec
    <3>2. QED
      BY <1>11, <2>3, <3>1, SpanKept DEF ControlDone, EndsAs, Active, InTurn
  <2>4. QED
    BY <1>11, <2>1, <2>2, <2>3 DEF ControlDone
<1>12. ASSUME NEW reply \in {"answer", "tools", "truncated"}, Replies(reply, ok) PROVE SpanInv'
  <2>1. CASE EndsAs("failed") /\ UNCHANGED <<staged, journal, stopped, last>>
    <3>1. run'.id = run.id /\ run'.open = run.open /\ run'.aborts = run.aborts
      BY <1>0, <2>1 DEF EndsAs, RunRec
    <3>2. QED
      BY <1>12, <2>1, <3>1, SpanKept DEF Replies, EndsAs, Active, InTurn
  <2>2. CASE /\ Flush(<<>>, ok)
             /\ at' = IF ~ok THEN "ending" ELSE IF reply = "tools" THEN "tools" ELSE "stop"
             /\ run' = [AfterWrite(staged, ok) EXCEPT !.status = IF ok THEN @ ELSE "failed",
                                                      !.reply = reply]
    <3>1. PICK s : run' = [aw EXCEPT !.status = s, !.reply = reply]
      BY <2>2 DEF aw
    <3>2. run'.id = aw.id /\ run'.aborts = aw.aborts /\ run'.open = aw.open
      BY <1>2, <3>1 DEF RunRec
    <3>3. QED
      BY <1>8, <1>12, <2>2, <3>2 DEF Replies, InTurn
  <2>3. QED
    BY <1>12, <2>1, <2>2 DEF Replies
<1>13. CASE End(ok)
  <2>1. PICK c : c = <<Event("ended", Nobody, run.id)>>
    OBVIOUS
  <2>2. Event("ended", Nobody, run.id) \in EventRec
    BY EventTypes
  <2>3. /\ c \in Seq(EventRec) /\ Len(c) <= 1 /\ Closes(c)
        /\ \A i \in DOMAIN c : c[i].run = run.id /\ c[i].kind \in {"committed", "ended"}
    BY <2>1, <2>2 DEF Event, Closes
  <2>4. PICK b : b = staged \o c
    OBVIOUS
  <2>5. /\ AfterWrite(b, ok).id = run.id /\ AfterWrite(b, ok).aborts = run.aborts
        /\ AfterWrite(b, ok).open <=> /\ run.open \/ \E i \in DOMAIN b : b[i].kind = "started"
                                      /\ ~(ok /\ Closes(b))
        /\ AfterWrite(b, ok) \in RunRec
    BY <1>0, AfterWriteOpen, AfterWriteTypes
  <2>6. PICK r : r = AfterWrite(b, ok)
    OBVIOUS
  <2>7. Flush(c, ok) /\ \E s : run' = [r EXCEPT !.status = s]
    BY <1>13, <2>1, <2>4, <2>6 DEF End
  <2>8. run'.id = run.id /\ run'.aborts = run.aborts /\ run'.open = r.open
    BY <1>0, <2>5, <2>6, <2>7 DEF RunRec
  <2>9. Closes(b)
    <3>1. Len(staged) \in Nat /\ Len(c) = 1 /\ c[1].kind = "ended"
      BY <1>0, <2>1, <2>3 DEF Event
    <3>2. Len(staged) + 1 \in DOMAIN b /\ b[Len(staged) + 1] = c[1]
      <4>1. /\ Len(b) = Len(staged) + 1 /\ b \in Seq(EventRec)
            /\ \A i \in 1 .. Len(staged) + 1 : b[i] = IF i <= Len(staged) THEN staged[i] ELSE c[i - Len(staged)]
        <5>1. staged \o c \in Seq(EventRec) /\ Len(staged \o c) = Len(staged) + Len(c)
              /\ \A i \in 1 .. Len(staged) + Len(c) :
                   (staged \o c)[i] = IF i <= Len(staged) THEN staged[i] ELSE c[i - Len(staged)]
          BY <1>0, <2>3, ConcatProperties
        <5>2. QED
          BY <2>4, <3>1, <5>1
      <4>2. (Len(staged) + 1) - Len(staged) = 1 /\ ~(Len(staged) + 1 <= Len(staged))
        BY <3>1
      <4>3. QED
        BY <3>1, <4>1, <4>2
    <3>3. QED
      BY <3>1, <3>2 DEF Closes
  <2>10. ok => (run'.open <=> (run.open \/ \E i \in DOMAIN staged : staged[i].kind = "started") /\ ~Closes(c))
    BY <2>3, <2>5, <2>6, <2>8, <2>9
  <2>11. at \in Active /\ run.aborts = 0 /\ at' = "over"
    BY <1>13 DEF End, AbortsWritten, Active
  <2>12. QED
    BY <2>3, <2>7, <2>8, <2>10, <2>11, FlushSpan
<1>14. CASE DropLeftover(ok)
  <2>1. CASE taken = <<>>
    BY <1>14, <2>1, SpanKept DEF DropLeftover, Active, InTurn
  <2>2. CASE taken # <<>>
    <3>1. Head(taken) \in Control
      BY <2>2 DEF Types
    <3>2. Head(taken).m \in Prompt \cup Message \cup {Nobody}
      BY <3>1 DEF Control
    <3>3. WriteNow("dropped", Head(taken).m, ok) /\ at' = at /\ run' = run
      BY <1>14, <2>2 DEF DropLeftover
    <3>4. PICK m \in Prompt \cup Message \cup {Nobody} : m = Head(taken).m
      BY <3>2
    <3>5. QED
      BY <3>3, <3>4, NowSpan
  <2>3. QED
    BY <2>1, <2>2
<1>15. QED
  BY <1>6, <1>7, <1>9, <1>10, <1>11, <1>12, <1>13, <1>14

LEMMA SpanCallers ==
  ASSUME LoopAssumption, Types, RunInv, SpanInv, Callers
  PROVE  SpanInv'
<1>0. run \in RunRec
  BY DEF Types
<1>1. ASSUME NEW p \in Prompt, Admit(p) \/ GivesUp(p) \/ GraceEnds(p) PROVE SpanInv'
  BY <1>1, SpanKept DEF Admit, GivesUp, GraceEnds
<1>2. ASSUME NEW m \in Message, Reserve(m) \/ Fill(m) \/ LookForCall(m) PROVE SpanInv'
  BY <1>2, SpanKept DEF Reserve, Fill, LookForCall
<1>3. ASSUME NEW m \in Message, CancelCall(m) PROVE SpanInv'
  <2>1. run'.id = run.id /\ run'.open = run.open /\ run'.aborts = run.aborts
    BY <1>0, <1>3 DEF CancelCall, RunRec
  <2>2. QED
    BY <1>3, <2>1, SpanKept DEF CancelCall
<1>4. ASSUME NEW m \in Message, NEW ok \in BOOLEAN, WriteQueued(m, ok) PROVE SpanInv'
  BY <1>4, NowSpan DEF WriteQueued
<1>5. ASSUME NEW m \in Message, NEW ok \in BOOLEAN, DropAfterQueued(m, ok) PROVE SpanInv'
  BY <1>5, NowSpan DEF DropAfterQueued
<1>6. ASSUME NEW ok \in BOOLEAN, AbortWrites(ok) PROVE SpanInv'
  <2>1. run'.id = run.id /\ run'.open = run.open /\ run.aborts > 0
    BY <1>0, <1>6 DEF AbortWrites, RunRec
  <2>2. Nobody \in Prompt \cup Message \cup {Nobody} /\ WriteNow("abort", Nobody, ok) /\ at' = at
    BY <1>6 DEF AbortWrites
  <2>3. QED
    BY <2>1, <2>2, NowSpan
<1>7. CASE Close
  BY <1>7, SpanKept DEF Close
<1>8. QED
  BY <1>1, <1>2, <1>3, <1>4, <1>5, <1>6, <1>7 DEF Callers

LEMMA SpanOutside ==
  ASSUME LoopAssumption, Types, RunInv, SpanInv, Outside
  PROVE  SpanInv'
<1>0. run \in RunRec
  BY DEF Types
<1>1. CASE Abort
  <2>1. RunEventsInSpan'
    BY <1>1 DEF Abort, SpanInv, RunEventsInSpan
  <2>2. /\ run'.id = run.id /\ run'.open = run.open
        /\ run'.aborts = run.aborts \/ run.open
    BY <1>0, <1>1 DEF Abort, RunRec
  <2>3. ASSUME Spanned PROVE Spanned'
    BY <1>1, <2>2, <2>3 DEF Abort, Spanned, Has
  <2>4. QED
    BY <1>1, <2>1, <2>3 DEF SpanInv, Abort
<1>2. CASE TakeQueued
  BY <1>2, SpanKept DEF TakeQueued
<1>3. ASSUME NEW p \in Prompt, ContextEnds(p) PROVE SpanInv'
  <2>1. run'.id = run.id /\ run'.open = run.open /\ run'.aborts = run.aborts
    BY <1>0, <1>3 DEF ContextEnds, RunRec
  <2>2. QED
    BY <1>3, <2>1, SpanKept DEF ContextEnds
<1>4. QED
  BY <1>1, <1>2, <1>3 DEF Outside

LEMMA SpanNext ==
  ASSUME LoopAssumption, Types, RunInv, SpanInv, [LoopNext]_loopVars
  PROVE  SpanInv'
<1>1. CASE UNCHANGED loopVars
  BY <1>1, SpanKept DEF loopVars
<1>2. CASE Loop
  BY <1>2, SpanLoop, SpanServe, SpanDiscard, SpanWrites DEF Loop
<1>3. QED
  BY <1>1, <1>2, SpanCallers, SpanOutside DEF LoopNext

-----------------------------------------------------------------------------
(* Messages: the queue, the lease, the history, the host or a drop.        *)

MsgInv == QueueInv /\ \A m \in Message : MessageInv(m)

LEMMA DroppedInConcat ==
  ASSUME NEW s \in Seq(EventRec), NEW t \in Seq(EventRec), NEW m
  PROVE  DroppedIn(s \o t, m) <=> DroppedIn(s, m) \/ DroppedIn(t, m)
<1> DEFINE n == Len(s)
<1>1. n \in Nat /\ DOMAIN s = 1 .. n /\ Len(t) \in Nat /\ DOMAIN t = 1 .. Len(t)
  OBVIOUS
<1>2. /\ s \o t \in Seq(EventRec) /\ DOMAIN (s \o t) = 1 .. n + Len(t)
      /\ \A i \in 1 .. n + Len(t) : (s \o t)[i] = IF i <= n THEN s[i] ELSE t[i - n]
  BY ConcatProperties
<1> HIDE DEF n
<1>3. \A i \in 1 .. n : i \in 1 .. n + Len(t) /\ (s \o t)[i] = s[i]
  BY <1>1, <1>2
<1>4. \A k \in 1 .. Len(t) : n + k \in 1 .. n + Len(t) /\ (s \o t)[n + k] = t[k]
  <2> SUFFICES ASSUME NEW k \in 1 .. Len(t) PROVE n + k \in 1 .. n + Len(t) /\ (s \o t)[n + k] = t[k]
    OBVIOUS
  <2>1. n + k \in 1 .. n + Len(t) /\ ~(n + k <= n) /\ (n + k) - n = k
    BY <1>1
  <2>2. QED
    BY <1>2, <2>1
<1>5. \A i \in 1 .. n + Len(t) : i \in 1 .. n \/ (i - n \in 1 .. Len(t) /\ (s \o t)[i] = t[i - n])
  BY <1>1, <1>2
<1>6. ASSUME DroppedIn(s \o t, m) PROVE DroppedIn(s, m) \/ DroppedIn(t, m)
  <2>1. PICK i \in 1 .. n + Len(t) : (s \o t)[i].kind = "dropped" /\ (s \o t)[i].of = m
    BY <1>2, <1>6 DEF DroppedIn
  <2>2. QED
    BY <1>1, <1>3, <1>5, <2>1 DEF DroppedIn
<1>7. ASSUME DroppedIn(s, m) PROVE DroppedIn(s \o t, m)
  <2>1. PICK i \in 1 .. n : s[i].kind = "dropped" /\ s[i].of = m
    BY <1>1, <1>7 DEF DroppedIn
  <2>2. QED
    BY <1>2, <1>3, <2>1 DEF DroppedIn
<1>8. ASSUME DroppedIn(t, m) PROVE DroppedIn(s \o t, m)
  <2>1. PICK i \in 1 .. Len(t) : t[i].kind = "dropped" /\ t[i].of = m
    BY <1>1, <1>8 DEF DroppedIn
  <2>2. QED
    BY <1>2, <1>4, <2>1 DEF DroppedIn
<1>9. QED
  BY <1>6, <1>7, <1>8

LEMMA DroppedIs ==
  ASSUME Types, NEW m
  PROVE  Dropped(m) <=> DroppedIn(staged, m) \/ DroppedIn(journal, m)
<1>1. staged \in Seq(EventRec) /\ journal \in Seq(EventRec)
  BY DEF Types
<1>2. Dropped(m) <=> DroppedIn(staged \o journal, m)
  BY DEF Dropped, DroppedIn, ToSet
<1>3. QED
  BY <1>1, <1>2, DroppedInConcat

LEMMA NoneDropped == ASSUME NEW m PROVE ~DroppedIn(<<>>, m)
BY DEF DroppedIn

LEMMA OneDropped == ASSUME NEW e, NEW m PROVE DroppedIn(<<e>>, m) <=> e.kind = "dropped" /\ e.of = m
BY DEF DroppedIn

\* What a write drops.
LEMMA FlushDrops ==
  ASSUME Types, Types', NEW events \in Seq(EventRec), NEW ok \in BOOLEAN, Flush(events, ok), ~stopped', NEW m
  PROVE  ~stopped /\ (Dropped(m)' <=> Dropped(m) \/ DroppedIn(events, m))
<1> DEFINE b == staged \o events
<1>1. /\ staged \in Seq(EventRec) /\ journal \in Seq(EventRec) /\ b \in Seq(EventRec) /\ run \in RunRec
  BY ConcatProperties DEF Types
<1>2. ~stopped /\ journal' = journal \o Span(b) /\ staged' = <<>> /\ Span(b) \in Seq(EventRec)
  BY <1>1, WritesTypes, SpanIs DEF Flush
<1>3. DroppedIn(b, m) <=> DroppedIn(staged, m) \/ DroppedIn(events, m)
  BY <1>1, DroppedInConcat
<1> HIDE DEF b
<1>4. DroppedIn(Span(b), m) <=> DroppedIn(b, m)
  BY <1>1, SpanDrops
<1>5. DroppedIn(journal \o Span(b), m) <=> DroppedIn(journal, m) \/ DroppedIn(Span(b), m)
  BY <1>1, <1>2, DroppedInConcat
<1>6. Dropped(m) <=> DroppedIn(staged, m) \/ DroppedIn(journal, m)
  BY DroppedIs
<1>7. Dropped(m)' <=> DroppedIn(<<>> \o (journal \o Span(b)), m)
  BY <1>2 DEF Dropped, DroppedIn, ToSet
<1>8. <<>> \o (journal \o Span(b)) = journal \o Span(b)
  BY <1>1, <1>2, ConcatProperties, ConcatEmptySeq
<1>9. QED
  BY <1>2, <1>3, <1>4, <1>5, <1>6, <1>7, <1>8

LEMMA NowDrops ==
  ASSUME LoopAssumption, Types, NEW kind \in {"queued", "dropped", "abort"}, NEW x \in Prompt \cup Message \cup {Nobody},
         NEW ok \in BOOLEAN, WriteNow(kind, x, ok), ~stopped', NEW m
  PROVE  ~stopped /\ (Dropped(m)' <=> Dropped(m) \/ (kind = "dropped" /\ x = m))
<1> DEFINE e == Event(kind, x, 0)
<1>1. /\ staged \in Seq(EventRec) /\ journal \in Seq(EventRec) /\ e \in EventRec /\ <<e>> \in Seq(EventRec)
      /\ run \in RunRec /\ e.kind = kind /\ e.of = x
  <2>1. e \in EventRec
    BY EventTypes
  <2>2. e.kind = kind /\ e.of = x
    BY DEF Event
  <2>3. QED
    BY <2>1, <2>2 DEF Types
<1>2. ~stopped /\ journal' = journal \o Span(<<e>>) /\ staged' = staged /\ Span(<<e>>) \in Seq(EventRec)
  BY <1>1, WritesTypes, SpanIs DEF WriteNow
<1> HIDE DEF e
<1>3. DroppedIn(Span(<<e>>), m) <=> kind = "dropped" /\ x = m
  BY <1>1, SpanDrops, OneDropped
<1> DEFINE j == journal \o Span(<<e>>)
<1>4. j \in Seq(EventRec) /\ (DroppedIn(j, m) <=> DroppedIn(journal, m) \/ DroppedIn(Span(<<e>>), m))
  BY <1>1, <1>2, DroppedInConcat, ConcatProperties
<1>5. Dropped(m)' <=> DroppedIn(staged \o j, m)
  BY <1>2 DEF Dropped, DroppedIn, ToSet
<1> HIDE DEF j
<1>6. DroppedIn(staged \o j, m) <=> DroppedIn(staged, m) \/ DroppedIn(j, m)
  BY <1>1, <1>4, DroppedInConcat
<1>7. Dropped(m) <=> DroppedIn(staged, m) \/ DroppedIn(journal, m)
  BY DroppedIs
<1>8. QED
  BY <1>2, <1>3, <1>4, <1>5, <1>6, <1>7

LEMMA StagingDrops ==
  ASSUME Types, NEW drops \in Seq(EventRec), staged' = staged \o drops, journal' = journal, NEW m
  PROVE  Dropped(m)' <=> Dropped(m) \/ DroppedIn(drops, m)
<1>1. /\ staged \in Seq(EventRec) /\ journal \in Seq(EventRec)
  BY DEF Types
<1> DEFINE s == staged \o drops
<1>2. s \in Seq(EventRec) /\ (DroppedIn(s, m) <=> DroppedIn(staged, m) \/ DroppedIn(drops, m))
  BY <1>1, DroppedInConcat, ConcatProperties
<1>3. Dropped(m)' <=> DroppedIn(s \o journal, m)
  BY DEF Dropped, DroppedIn, ToSet
<1> HIDE DEF s
<1>4. DroppedIn(s \o journal, m) <=> DroppedIn(s, m) \/ DroppedIn(journal, m)
  BY <1>1, <1>2, DroppedInConcat
<1>5. QED
  BY <1>2, <1>3, <1>4, DroppedIs

\* A step that moves a message, its caller aside.
LEMMA MessageMoves ==
  ASSUME NEW m \in Message, MessageInv(m),
         caller'[m].at = caller[m].at, caller'[m].told = caller[m].told,
         Queued(m)' \/ Leased(m)' \/ m \in history' \/ m \in handed' =>
           Queued(m) \/ Leased(m) \/ m \in history \/ m \in handed,
         ~stopped' => /\ ~stopped
                      /\ InOne(m) => InOne(m)'
                      /\ Dropped(m)' => Dropped(m) \/ Queued(m) \/ Leased(m)
  PROVE  MessageInv(m)'
<1>1. Live(m)' <=> Live(m)
  BY DEF Live
<1>2. QED
  BY <1>1 DEF MessageInv

\* One that leaves it where it is.
LEMMA MessageStays ==
  ASSUME NEW m \in Message, MessageInv(m),
         caller'[m].at = caller[m].at, caller'[m].told = caller[m].told,
         queue'.items = queue.items, taken' = taken, m \in history' <=> m \in history, handed' = handed,
         ~stopped' => ~stopped /\ (Dropped(m)' <=> Dropped(m))
  PROVE  MessageInv(m)'
<1>1. (Queued(m)' <=> Queued(m)) /\ (Leased(m)' <=> Leased(m))
  BY DEF Queued, Leased
<1>2. QED
  BY <1>1, MessageMoves DEF InOne

\* The queue and the lease are as they were.
LEMMA QueueKept ==
  ASSUME QueueInv, queue'.items = queue.items, queue'.seq = queue.seq, taken' = taken,
         at' \in {"notices", "control", "sealed"} \/ taken = <<>>
  PROVE  QueueInv'
BY DEF QueueInv, Distinct, Apart, Numbered

LEMMA MsgKept ==
  ASSUME MsgInv, queue'.items = queue.items, queue'.seq = queue.seq, taken' = taken,
         at' \in {"notices", "control", "sealed"} \/ taken = <<>>,
         \A m \in Message : /\ caller'[m].at = caller[m].at /\ caller'[m].told = caller[m].told
                            /\ m \in history' <=> m \in history
                            /\ ~stopped' => ~stopped /\ (Dropped(m)' <=> Dropped(m)),
         handed' = handed
  PROVE  MsgInv'
<1>1. QueueInv'
  BY QueueKept DEF MsgInv
<1>2. ASSUME NEW m \in Message PROVE MessageInv(m)'
  BY MessageStays DEF MsgInv
<1>3. QED
  BY <1>1, <1>2 DEF MsgInv

LEMMA DroppedStays ==
  ASSUME staged' = staged, journal' = journal, NEW m
  PROVE  Dropped(m)' <=> Dropped(m)
BY DEF Dropped

\* Steps that touch no message.
LEMMA MsgLoop ==
  ASSUME LoopAssumption, Types, MsgInv, RunInv,
         \/ NoticesDone \/ Overflows \/ ModelFails \/ StopTurn
         \/ HostFails \/ Ending \/ EndRun \/ Reply \/ CloseSignal
  PROVE  MsgInv'
<1>1. \A m \in Message : m \notin Prompt /\ m # Nobody
  BY DEF LoopAssumption
<1>2. at \notin {"notices", "control", "sealed"} => taken = <<>>
  BY DEF MsgInv, QueueInv
<1>3. UNCHANGED <<queue, taken, staged, journal, stopped, history, handed>>
  BY DEF NoticesDone, Overflows, ModelFails, StopTurn, HostFails, Ending, EndRun, Reply, CloseSignal
<1>4. at' \in {"notices", "control", "sealed"} \/ taken = <<>>
  BY <1>2 DEF NoticesDone, Overflows, ModelFails, StopTurn, HostFails, Ending, EndRun, Reply, CloseSignal
<1>5. \A m \in Message : caller'[m] = caller[m]
  <2>1. CASE Reply
    <3>1. prompt \in Prompt
      BY <2>1 DEF Reply, RunInv, BetweenRuns, Types
    <3>2. QED
      BY <1>1, <2>1, <3>1 DEF Reply, Told, Types
  <2>2. QED
    BY <2>1 DEF NoticesDone, Overflows, ModelFails, StopTurn, HostFails, Ending, EndRun, CloseSignal
<1>6. QED
  BY <1>3, <1>4, <1>5, MsgKept, DroppedStays

\* A step of a caller of Prompt or Continue.
LEMMA OthersStay ==
  ASSUME LoopAssumption, Types, NEW p \in Prompt
  PROVE  /\ \A what : Told(p, what) => \A m \in Message : caller'[m] = caller[m]
         /\ \A where : Moves(p, where) => \A m \in Message : caller'[m] = caller[m]
BY DEF LoopAssumption, Types, Told, Moves

LEMMA MsgServe ==
  ASSUME LoopAssumption, Types, MsgInv, NEW p \in Prompt, Serve(p)
  PROVE  MsgInv'
<1>1. UNCHANGED <<queue, taken, journal, stopped, history, handed>> /\ at = "select" /\ at' \in {"select", "prepare"}
  BY DEF Serve
<1>2. taken = <<>>
  BY <1>1 DEF MsgInv, QueueInv
<1>3. \A m \in Message : caller'[m] = caller[m]
  BY OthersStay DEF Serve
<1>4. ASSUME NEW m PROVE Dropped(m)' <=> Dropped(m)
  <2>1. CASE staged' = staged
    BY <1>1, <2>1, DroppedStays
  <2>2. CASE staged' = Append(staged, Event("started", Nobody, run.id + 1))
    <3>1. PICK e : e = Event("started", Nobody, run.id + 1)
      OBVIOUS
    <3>2. e \in EventRec /\ e.kind = "started" /\ staged \in Seq(EventRec)
      BY <3>1, EventTypes DEF Event, Types
    <3>3. staged' = staged \o <<e>> /\ <<e>> \in Seq(EventRec)
      BY <2>2, <3>1, <3>2, AppendIsConcat
    <3>4. ~DroppedIn(<<e>>, m)
      BY <3>2, OneDropped
    <3>5. PICK drops : drops = <<e>>
      OBVIOUS
    <3>6. QED
      BY <1>1, <3>3, <3>4, <3>5, StagingDrops
  <2>3. QED
    BY <2>1, <2>2 DEF Serve
<1>5. QED
  BY <1>1, <1>2, <1>3, <1>4, MsgKept

\* The queue in two parts: each message is in one of them.
Parts(a, b) ==
  /\ a \in Seq(Control) /\ b \in Seq(Control)
  /\ Distinct(a) /\ Distinct(b) /\ Apart(b, a)
  /\ (\A n \in DOMAIN a : a[n].seq <= queue.seq) /\ (\A n \in DOMAIN b : b[n].seq <= queue.seq)
  /\ \A m : /\ (\E n \in DOMAIN b : b[n].m = m) \/ (\E n \in DOMAIN a : a[n].m = m) <=> Queued(m)
            /\ ~((\E n \in DOMAIN b : b[n].m = m) /\ (\E n \in DOMAIN a : a[n].m = m))

LEMMA TwoParts ==
  ASSUME Types, QueueInv, NEW K, NEW J, DOMAIN queue.items = K \cup J, K \cap J = {},
         NEW a, a = PickOut(queue.items, K), NEW b, b = PickOut(queue.items, J)
  PROVE  Parts(a, b)
<1> DEFINE q == queue.items
<1>1. q \in Seq(Control) /\ K \in SUBSET (DOMAIN q) /\ J \in SUBSET (DOMAIN q)
  BY DEF Types
<1>2. a \in Seq(Control) /\ b \in Seq(Control)
  BY <1>1, PickOutIs
<1>3. /\ \A n \in DOMAIN a : \E i \in K : a[n] = q[i]
      /\ \A i \in K : \E n \in DOMAIN a : a[n] = q[i]
      /\ \A n, k \in DOMAIN a : n # k => \E i, j \in K : i # j /\ a[n] = q[i] /\ a[k] = q[j]
  <2>1. Picks(a, q, K)
    BY <1>1, PickOutPicks
  <2> HIDE DEF q
  <2>2. QED
    BY <2>1 DEF Picks
<1>4. /\ \A n \in DOMAIN b : \E i \in J : b[n] = q[i]
      /\ \A i \in J : \E n \in DOMAIN b : b[n] = q[i]
      /\ \A n, k \in DOMAIN b : n # k => \E i, j \in J : i # j /\ b[n] = q[i] /\ b[k] = q[j]
  <2>1. Picks(b, q, J)
    BY <1>1, PickOutPicks
  <2> HIDE DEF q
  <2>2. QED
    BY <2>1 DEF Picks
<1>5. Distinct(q) /\ (\A i \in DOMAIN q : q[i].seq <= queue.seq) /\ DOMAIN q = K \cup J
  BY DEF QueueInv, Numbered
<1>6. \A m : Queued(m) <=> \E i \in DOMAIN q : q[i].m = m
  BY DEF Queued
<1> HIDE DEF q
<1>7. Distinct(a) /\ Distinct(b)
  BY <1>1, <1>3, <1>4, <1>5 DEF Distinct
<1>8. Apart(b, a)
  <2> SUFFICES ASSUME NEW n \in DOMAIN b, NEW k \in DOMAIN a PROVE b[n].m # a[k].m /\ b[n].seq # a[k].seq
    BY DEF Apart
  <2>1. PICK i \in J : b[n] = q[i]
    BY <1>4
  <2>2. PICK j \in K : a[k] = q[j]
    BY <1>3
  <2>3. i # j /\ i \in DOMAIN q /\ j \in DOMAIN q
    BY <1>1, <2>1, <2>2
  <2>4. QED
    BY <1>5, <2>1, <2>2, <2>3 DEF Distinct
<1>9. (\A n \in DOMAIN a : a[n].seq <= queue.seq) /\ (\A n \in DOMAIN b : b[n].seq <= queue.seq)
  BY <1>1, <1>3, <1>4, <1>5
<1>10. ASSUME NEW m
       PROVE  /\ (\E n \in DOMAIN b : b[n].m = m) \/ (\E n \in DOMAIN a : a[n].m = m) <=> Queued(m)
              /\ ~((\E n \in DOMAIN b : b[n].m = m) /\ (\E n \in DOMAIN a : a[n].m = m))
  <2>1. ~((\E n \in DOMAIN b : b[n].m = m) /\ (\E n \in DOMAIN a : a[n].m = m))
    BY <1>8 DEF Apart
  <2>2. (\E n \in DOMAIN b : b[n].m = m) \/ (\E n \in DOMAIN a : a[n].m = m) => Queued(m)
    BY <1>1, <1>3, <1>4, <1>6
  <2>3. ASSUME NEW i \in DOMAIN q, q[i].m = m
        PROVE  (\E n \in DOMAIN b : b[n].m = m) \/ (\E n \in DOMAIN a : a[n].m = m)
    <3>1. CASE i \in K
      BY <1>3, <2>3, <3>1
    <3>2. CASE i \in J
      BY <1>4, <2>3, <3>2
    <3>3. QED
      BY <1>5, <3>1, <3>2
  <2>4. QED
    BY <1>6, <2>1, <2>2, <2>3
<1>11. QED
  BY <1>2, <1>7, <1>8, <1>9, <1>10, Zenon DEF Parts

LEMMA PlacesApart ==
  ASSUME NEW kinds
  PROVE  /\ DOMAIN queue.items = Places(kinds) \cup Places(Kinds \ kinds)
         /\ Places(kinds) \cap Places(Kinds \ kinds) = {}
BY KindIs DEF Places

\* A boundary or a Turn takes messages out of the queue.
LEMMA SplitMoves ==
  ASSUME Types, QueueInv, taken = <<>>, NEW kinds, Split(kinds), at' \in {"notices", "control"}
  PROVE  /\ QueueInv'
         /\ \A m : /\ Queued(m)' \/ Leased(m)' <=> Queued(m)
                   /\ ~(Queued(m)' /\ Leased(m)')
<1>1. PICK a : a = PickOut(queue.items, Places(kinds))
  OBVIOUS
<1>2. PICK b : b = PickOut(queue.items, Places(Kinds \ kinds))
  OBVIOUS
<1>3. taken' = a /\ queue'.items = b /\ queue'.seq = queue.seq
  BY <1>1, <1>2 DEF Split, Types
<1>4. /\ Distinct(a) /\ Distinct(b) /\ Apart(b, a)
      /\ (\A n \in DOMAIN a : a[n].seq <= queue.seq) /\ (\A n \in DOMAIN b : b[n].seq <= queue.seq)
      /\ \A m : /\ (\E n \in DOMAIN b : b[n].m = m) \/ (\E n \in DOMAIN a : a[n].m = m) <=> Queued(m)
                /\ ~((\E n \in DOMAIN b : b[n].m = m) /\ (\E n \in DOMAIN a : a[n].m = m))
  <2>1. Parts(a, b)
    BY <1>1, <1>2, PlacesApart, TwoParts
  <2>2. QED
    BY <2>1, Zenon DEF Parts
<1>5. QueueInv'
  <2>1. /\ Distinct(queue'.items) /\ Distinct(taken') /\ Apart(queue'.items, taken')
    BY <1>3, <1>4
  <2>2. Numbered(queue.items)' /\ Numbered(taken)'
    BY <1>3, <1>4 DEF Numbered
  <2>3. QED
    BY <2>1, <2>2 DEF QueueInv, Distinct, Apart
<1>6. \A m : /\ Queued(m)' <=> (\E n \in DOMAIN b : b[n].m = m)
             /\ Leased(m)' <=> (\E n \in DOMAIN a : a[n].m = m)
  BY <1>3 DEF Queued, Leased
<1>7. QED
  BY <1>4, <1>5, <1>6, Zenon

LEMMA MsgSplit ==
  ASSUME Types, MsgInv, taken = <<>>, NEW kinds, Split(kinds), at' \in {"notices", "control"},
         UNCHANGED <<staged, journal, stopped, history, handed, caller>>
  PROVE  MsgInv'
<1>1. /\ QueueInv'
      /\ \A m : /\ Queued(m)' \/ Leased(m)' <=> Queued(m)
                /\ ~(Queued(m)' /\ Leased(m)')
  BY SplitMoves DEF MsgInv
<1>2. ASSUME NEW m \in Message PROVE MessageInv(m)'
  <2>1. ~Leased(m)
    BY DEF Leased
  <2>2. Dropped(m)' <=> Dropped(m)
    BY DroppedStays
  <2>3. (Queued(m)' \/ Leased(m)' <=> Queued(m)) /\ ~(Queued(m)' /\ Leased(m)')
    BY <1>1
  <2>4. InOne(m) => InOne(m)'
    BY <2>1, <2>2, <2>3 DEF InOne
  <2>5. QED
    BY <2>2, <2>3, <2>4, MessageMoves DEF MsgInv
<1>3. QED
  BY <1>1, <1>2 DEF MsgInv

LEMMA MsgTakes ==
  ASSUME Types, MsgInv, BeginTurn \/ CutOff \/ Boundary
  PROVE  MsgInv'
<1>1. taken = <<>> /\ UNCHANGED <<staged, journal, stopped, history, handed, caller>>
  BY DEF MsgInv, QueueInv, BeginTurn, CutOff, Boundary
<1>2. \/ UNCHANGED <<queue, taken>>
      \/ at' \in {"notices", "control"} /\ \E kinds : Split(kinds)
  BY DEF BeginTurn, CutOff, Boundary, Take
<1>3. CASE UNCHANGED <<queue, taken>>
  BY <1>1, <1>3, MsgKept, DroppedStays
<1>4. QED
  BY <1>1, <1>2, <1>3, MsgSplit

\* A flush that commits or drops no message.
LEMMA MsgFlush ==
  ASSUME Types, Types', MsgInv, NEW events \in Seq(EventRec), NEW ok \in BOOLEAN, Flush(events, ok),
         \A m : ~DroppedIn(events, m),
         UNCHANGED <<queue, taken, handed, caller>>, \A m \in Message : m \in history' <=> m \in history,
         at' \in {"notices", "control", "sealed"} \/ taken = <<>>
  PROVE  MsgInv'
<1>1. ASSUME NEW m \in Message, ~stopped' PROVE ~stopped /\ (Dropped(m)' <=> Dropped(m))
  BY <1>1, FlushDrops
<1>2. QED
  BY <1>1, MsgKept

LEMMA MsgWrites ==
  ASSUME LoopAssumption, Types, Types', MsgInv, RunInv, NEW ok \in BOOLEAN,
         \/ CommitPrompt(ok) \/ StartCall(ok) \/ RunTools(ok) \/ ControlDone(ok) \/ End(ok)
         \/ \E reply \in {"answer", "tools", "truncated"} : Replies(reply, ok)
  PROVE  MsgInv'
<1>1. at \notin {"notices", "control", "sealed"} => taken = <<>>
  BY DEF MsgInv, QueueInv
<1>2. taken = <<>> /\ UNCHANGED <<queue, taken, handed, caller>>
  BY <1>1 DEF CommitPrompt, StartCall, RunTools, ControlDone, End, Replies
<1>3. <<>> \in Seq(EventRec) /\ \A m : ~DroppedIn(<<>>, m)
  BY NoneDropped
<1>4. ASSUME UNCHANGED <<staged, journal, stopped, history>> PROVE MsgInv'
  BY <1>2, <1>4, MsgKept, DroppedStays
<1>5. ASSUME Flush(<<>>, ok), UNCHANGED history PROVE MsgInv'
  <2>1. PICK e : e = <<>>
    OBVIOUS
  <2>2. QED
    BY <1>2, <1>3, <1>5, <2>1, MsgFlush
<1>6. CASE CommitPrompt(ok)
  <2>1. prompt \in Prompt
    BY <1>6 DEF CommitPrompt, RunInv, BetweenRuns, Types
  <2>2. CASE UNCHANGED <<staged, journal, stopped, history>>
    BY <1>4, <2>2
  <2>3. CASE history' = history \cup {prompt} /\ Flush(<<Event("committed", prompt, run.id)>>, ok)
    <3>1. PICK c : c = Event("committed", prompt, run.id)
      OBVIOUS
    <3>2. c \in EventRec /\ c.kind = "committed"
      BY <2>1, <3>1, EventTypes DEF Event
    <3>3. <<c>> \in Seq(EventRec) /\ \A m : ~DroppedIn(<<c>>, m)
      BY <3>2, OneDropped
    <3>4. \A m \in Message : m \in history' <=> m \in history
      BY <2>1, <2>3 DEF LoopAssumption
    <3>5. PICK e : e = <<c>>
      OBVIOUS
    <3>6. Flush(e, ok)
      BY <2>3, <3>1, <3>5
    <3>7. QED
      BY <1>2, <3>3, <3>4, <3>5, <3>6, MsgFlush
  <2>4. QED
    BY <1>6, <2>2, <2>3 DEF CommitPrompt
<1>7. CASE StartCall(ok) \/ RunTools(ok)
  BY <1>5, <1>7 DEF StartCall, RunTools
<1>8. CASE ControlDone(ok)
  BY <1>4, <1>5, <1>8 DEF ControlDone
<1>9. ASSUME NEW reply \in {"answer", "tools", "truncated"}, Replies(reply, ok) PROVE MsgInv'
  BY <1>4, <1>5, <1>9 DEF Replies
<1>10. CASE End(ok)
  <2>1. PICK c : c = Event("ended", Nobody, run.id)
    OBVIOUS
  <2>2. c \in EventRec /\ c.kind = "ended"
    BY <2>1, EventTypes DEF Event
  <2>3. <<c>> \in Seq(EventRec) /\ \A m : ~DroppedIn(<<c>>, m)
    BY <2>2, OneDropped
  <2>4. PICK e : e = <<c>>
    OBVIOUS
  <2>5. Flush(e, ok) /\ history' = history
    BY <1>10, <2>1, <2>4 DEF End
  <2>6. QED
    BY <1>2, <2>3, <2>4, <2>5, MsgFlush
<1>11. QED
  BY <1>6, <1>7, <1>8, <1>9, <1>10

\* The first of the messages taken, and the others.
InTail(m) == \E i \in DOMAIN Tail(taken) : Tail(taken)[i].m = m

LEMMA TakenSplits ==
  ASSUME Types, QueueInv, taken # <<>>
  PROVE  /\ Head(taken) \in Control /\ Tail(taken) \in Seq(Control)
         /\ \A m : /\ Leased(m) <=> m = Head(taken).m \/ InTail(m)
                   /\ ~(m = Head(taken).m /\ InTail(m))
         /\ ~Queued(Head(taken).m)
         /\ Distinct(Tail(taken)) /\ Apart(queue.items, Tail(taken)) /\ Numbered(Tail(taken))
         /\ \A m : ~(Queued(m) /\ InTail(m))
<1> DEFINE t == Tail(taken)
<1>1. /\ taken \in Seq(Control) /\ Len(taken) \in Nat /\ Len(taken) > 0 /\ DOMAIN taken = 1 .. Len(taken)
      /\ Head(taken) = taken[1]
  BY DEF Types
<1>2. /\ t \in Seq(Control) /\ DOMAIN t = 1 .. Len(taken) - 1
      /\ \A i \in 1 .. Len(taken) - 1 : t[i] = taken[i + 1] /\ i + 1 \in DOMAIN taken /\ i + 1 # 1
  BY <1>1
<1>3. \A i \in DOMAIN taken : i = 1 \/ (i - 1 \in DOMAIN t /\ t[i - 1] = taken[i])
  BY <1>1, <1>2
<1>4. Distinct(taken) /\ Apart(queue.items, taken) /\ Numbered(taken) /\ 1 \in DOMAIN taken
  BY <1>1 DEF QueueInv
<1> HIDE DEF t
<1>5. Distinct(t)
  <2> SUFFICES ASSUME NEW i \in DOMAIN t, NEW j \in DOMAIN t, i # j PROVE t[i].m # t[j].m /\ t[i].seq # t[j].seq
    BY DEF Distinct
  <2>1. i + 1 # j + 1 /\ i + 1 \in DOMAIN taken /\ j + 1 \in DOMAIN taken /\ t[i] = taken[i + 1] /\ t[j] = taken[j + 1]
    BY <1>1, <1>2
  <2>2. QED
    BY <1>4, <2>1 DEF Distinct
<1>6. Apart(queue.items, t) /\ Numbered(t)
  BY <1>2, <1>4 DEF Apart, Numbered
<1>7. ASSUME NEW m
      PROVE  /\ Leased(m) <=> m = Head(taken).m \/ (\E i \in DOMAIN t : t[i].m = m)
             /\ ~(m = Head(taken).m /\ \E i \in DOMAIN t : t[i].m = m)
  <2>1. Leased(m) => m = Head(taken).m \/ (\E i \in DOMAIN t : t[i].m = m)
    BY <1>1, <1>3 DEF Leased
  <2>2. m = Head(taken).m => Leased(m)
    BY <1>1, <1>4 DEF Leased
  <2>3. (\E i \in DOMAIN t : t[i].m = m) => Leased(m)
    BY <1>2 DEF Leased
  <2>4. ASSUME m = Head(taken).m, NEW i \in DOMAIN t, t[i].m = m PROVE FALSE
    <3>1. i + 1 \in DOMAIN taken /\ i + 1 # 1 /\ taken[i + 1].m = taken[1].m
      BY <1>1, <1>2, <2>4
    <3>2. QED
      BY <1>4, <3>1 DEF Distinct
  <2>5. QED
    BY <2>1, <2>2, <2>3, <2>4
<1>8. ~Queued(Head(taken).m)
  BY <1>1, <1>4 DEF Queued, Apart
<1>9. \A m : ~(Queued(m) /\ \E i \in DOMAIN t : t[i].m = m)
  BY <1>6 DEF Queued, Apart
<1>10. QED
  BY <1>1, <1>2, <1>5, <1>6, <1>7, <1>8, <1>9 DEF InTail, t

\* What is put back waits again.
LEMMA PutBackMoves ==
  ASSUME Types, QueueInv, taken # <<>>, NEW p, p = PutBack(Tail(taken))
  PROVE  /\ Distinct(p) /\ Numbered(p)
         /\ \A m : (\E n \in DOMAIN p : p[n].m = m) <=> Queued(m) \/ InTail(m)
<1> DEFINE t == Tail(taken)
           q == queue.items
           all == t \o q
<1>1. /\ t \in Seq(Control) /\ Distinct(t) /\ Apart(q, t) /\ Numbered(t)
      /\ q \in Seq(Control) /\ Distinct(q) /\ Numbered(q)
  BY TakenSplits DEF Types, QueueInv
<1>2. \A m : (InTail(m) <=> \E i \in DOMAIN t : t[i].m = m) /\ (Queued(m) <=> \E i \in DOMAIN q : q[i].m = m)
  BY DEF InTail, Queued
<1>3. \A x \in Control : x.seq \in Nat
  BY DEF Control
<1> HIDE DEF t, q
<1>4. /\ Len(t) \in Nat /\ Len(q) \in Nat /\ DOMAIN t = 1 .. Len(t) /\ DOMAIN q = 1 .. Len(q)
      /\ DOMAIN all = 1 .. Len(t) + Len(q)
      /\ \A i \in 1 .. Len(t) + Len(q) : all[i] = IF i <= Len(t) THEN t[i] ELSE q[i - Len(t)]
  BY <1>1, ConcatProperties
<1>5. \A i \in DOMAIN all :
        \/ i \in DOMAIN t /\ all[i] = t[i]
        \/ ~(i \in DOMAIN t) /\ i - Len(t) \in DOMAIN q /\ all[i] = q[i - Len(t)]
  BY <1>4
<1>6. \A i \in DOMAIN t : i \in DOMAIN all /\ all[i] = t[i]
  BY <1>4
<1>7. \A k \in DOMAIN q : Len(t) + k \in DOMAIN all /\ all[Len(t) + k] = q[k]
  <2> SUFFICES ASSUME NEW k \in DOMAIN q PROVE Len(t) + k \in DOMAIN all /\ all[Len(t) + k] = q[k]
    OBVIOUS
  <2>1. Len(t) + k \in 1 .. Len(t) + Len(q) /\ ~(Len(t) + k <= Len(t)) /\ (Len(t) + k) - Len(t) = k
    BY <1>4
  <2>2. QED
    BY <1>4, <2>1
<1>8. PICK a : a = all
  OBVIOUS
<1>9. /\ \A n \in DOMAIN p : \E i \in DOMAIN a : p[n] = a[i]
      /\ (\A i, j \in DOMAIN a : i # j => a[i].seq # a[j].seq) =>
              \A i \in DOMAIN a : \E n \in DOMAIN p : p[n] = a[i]
      /\ \A n, k \in DOMAIN p : n # k => \E i, j \in DOMAIN a : i # j /\ p[n] = a[i] /\ p[k] = a[j]
  <2>1. a = t \o queue.items /\ queue.items \in Seq(Control)
    BY <1>1, <1>8 DEF q
  <2>2. PutsBack(PutBack(t), a)
    BY <1>1, <1>3, <2>1, PutBackIs
  <2>3. p = PutBack(t)
    BY DEF t
  <2>4. QED
    BY <2>2, <2>3 DEF PutsBack
<1>10. ASSUME NEW i \in DOMAIN a, NEW j \in DOMAIN a, i # j
       PROVE  a[i].m # a[j].m /\ a[i].seq # a[j].seq
  <2> HIDE DEF all
  <2>1. CASE i \in DOMAIN t /\ j \in DOMAIN t
    BY <1>1, <1>5, <1>8, <1>10, <2>1 DEF Distinct
  <2>2. CASE i \in DOMAIN t /\ ~(j \in DOMAIN t)
    BY <1>1, <1>5, <1>8, <1>10, <2>2 DEF Apart
  <2>3. CASE ~(i \in DOMAIN t) /\ j \in DOMAIN t
    BY <1>1, <1>5, <1>8, <1>10, <2>3 DEF Apart
  <2>4. CASE ~(i \in DOMAIN t) /\ ~(j \in DOMAIN t)
    <3>1. /\ i - Len(t) \in DOMAIN q /\ a[i] = q[i - Len(t)]
          /\ j - Len(t) \in DOMAIN q /\ a[j] = q[j - Len(t)]
      BY <1>5, <1>8, <1>10, <2>4
    <3>2. i \in 1 .. Len(t) + Len(q) /\ j \in 1 .. Len(t) + Len(q)
      BY <1>4, <1>8, <1>10
    <3>3. i - Len(t) # j - Len(t)
      BY <1>4, <1>10, <3>2
    <3>4. QED
      BY <1>1, <3>1, <3>3 DEF Distinct
  <2>5. QED
    BY <2>1, <2>2, <2>3, <2>4
<1> HIDE DEF all
<1>11. Distinct(p)
  BY <1>9, <1>10 DEF Distinct
<1>12. Numbered(p)
  <2>1. \A i \in DOMAIN a : a[i].seq <= queue.seq
    BY <1>1, <1>5, <1>8 DEF Numbered
  <2>2. QED
    BY <1>9, <2>1 DEF Numbered
<1>13. \A i \in DOMAIN a : \E n \in DOMAIN p : p[n] = a[i]
  BY <1>9, <1>10
<1>14. ASSUME NEW m PROVE (\E n \in DOMAIN p : p[n].m = m) <=> Queued(m) \/ InTail(m)
  <2>1. (\E n \in DOMAIN p : p[n].m = m) <=> \E i \in DOMAIN a : a[i].m = m
    BY <1>9, <1>13
  <2>2. (\E i \in DOMAIN a : a[i].m = m) <=>
          (\E i \in DOMAIN t : t[i].m = m) \/ (\E i \in DOMAIN q : q[i].m = m)
    BY <1>5, <1>6, <1>7, <1>8
  <2>3. QED
    BY <1>2, <2>1, <2>2
<1>15. QED
  BY <1>11, <1>12, <1>14

\* The lease gives up its first message; the others stay or are put back.
LEMMA LeaseMoves ==
  ASSUME Types, QueueInv, taken # <<>>,
         \/ taken' = <<>> /\ queue' = [queue EXCEPT !.items = PutBack(Tail(taken))]
         \/ taken' = Tail(taken) /\ queue' = queue /\ at' = at
  PROVE  /\ QueueInv'
         /\ \A m : /\ Queued(m)' \/ Leased(m)' <=> Queued(m) \/ InTail(m)
                   /\ ~(Queued(m)' /\ Leased(m)')
<1>1. CASE taken' = <<>> /\ queue' = [queue EXCEPT !.items = PutBack(Tail(taken))]
  <2>1. PICK p : p = PutBack(Tail(taken))
    OBVIOUS
  <2>2. /\ Distinct(p) /\ Numbered(p)
        /\ \A m : (\E n \in DOMAIN p : p[n].m = m) <=> Queued(m) \/ InTail(m)
    BY <2>1, PutBackMoves
  <2>3. queue'.items = p /\ queue'.seq = queue.seq /\ taken' = <<>>
    BY <1>1, <2>1 DEF Types
  <2>4. QueueInv'
    <3>1. Distinct(queue'.items) /\ Distinct(taken') /\ Apart(queue'.items, taken')
      BY <2>2, <2>3 DEF Distinct, Apart
    <3>2. Numbered(queue.items)' /\ Numbered(taken)'
      BY <2>2, <2>3 DEF Numbered
    <3>3. QED
      BY <2>3, <3>1, <3>2 DEF QueueInv, Distinct, Apart
  <2>5. \A m : (Queued(m)' <=> \E n \in DOMAIN p : p[n].m = m) /\ ~Leased(m)'
    BY <2>3 DEF Queued, Leased
  <2>6. QED
    BY <2>2, <2>4, <2>5, Zenon
<1>2. CASE taken' = Tail(taken) /\ queue' = queue /\ at' = at
  <2>1. /\ Distinct(Tail(taken)) /\ Apart(queue.items, Tail(taken)) /\ Numbered(Tail(taken))
        /\ \A m : ~(Queued(m) /\ InTail(m))
    BY TakenSplits
  <2>2. QueueInv'
    BY <1>2, <2>1 DEF QueueInv, Distinct, Apart, Numbered
  <2>3. \A m : (Queued(m)' <=> Queued(m)) /\ (Leased(m)' <=> InTail(m))
    BY <1>2 DEF Queued, Leased, InTail
  <2>4. QED
    BY <2>1, <2>2, <2>3, Zenon
<1>3. QED
  BY <1>1, <1>2

\* The first message of the lease is committed or dropped.
LEMMA LeaseSettles ==
  ASSUME Types, MsgInv, taken # <<>>,
         \/ taken' = <<>> /\ queue' = [queue EXCEPT !.items = PutBack(Tail(taken))]
         \/ taken' = Tail(taken) /\ queue' = queue /\ at' = at,
         NEW h, h = Head(taken).m, caller' = caller, handed' = handed,
         history' \subseteq history \cup {h},
         ~stopped' => /\ ~stopped
                      /\ \/ (\A x \in Message : Dropped(x)' <=> Dropped(x) \/ x = h) /\ history' = history
                         \/ (\A x \in Message : Dropped(x)' <=> Dropped(x)) /\ history' = history \cup {h}
  PROVE  MsgInv'
<1>1. /\ QueueInv'
      /\ \A m : /\ Queued(m)' \/ Leased(m)' <=> Queued(m) \/ InTail(m)
                /\ ~(Queued(m)' /\ Leased(m)')
  BY LeaseMoves DEF MsgInv
<1>2. /\ \A m : /\ Leased(m) <=> m = h \/ InTail(m)
                /\ ~(m = h /\ InTail(m))
      /\ ~Queued(h)
  BY TakenSplits DEF MsgInv
<1>3. history \subseteq history' \/ stopped'
  OBVIOUS
<1>4. ASSUME NEW m \in Message PROVE MessageInv(m)'
  <2>1. /\ Queued(m)' \/ Leased(m)' <=> Queued(m) \/ InTail(m)
        /\ ~(Queued(m)' /\ Leased(m)')
        /\ Leased(m) <=> m = h \/ InTail(m)
        /\ ~(m = h /\ InTail(m))
        /\ m = h => ~Queued(m)
    BY <1>1, <1>2
  <2>2. Queued(m)' \/ Leased(m)' \/ m \in history' \/ m \in handed' =>
           Queued(m) \/ Leased(m) \/ m \in history \/ m \in handed
    BY <2>1
  <2>3. ASSUME ~stopped'
        PROVE  /\ ~stopped
               /\ InOne(m) => InOne(m)'
               /\ Dropped(m)' => Dropped(m) \/ Queued(m) \/ Leased(m)
    <3>1. ~stopped /\ \/ (Dropped(m)' <=> Dropped(m) \/ m = h) /\ history' = history
                      \/ (Dropped(m)' <=> Dropped(m)) /\ history' = history \cup {h}
      BY <2>3
    <3>2. Dropped(m)' => Dropped(m) \/ Queued(m) \/ Leased(m)
      BY <2>1, <3>1
    <3>3. InOne(m) => InOne(m)'
      BY <2>1, <3>1 DEF InOne
    <3>4. QED
      BY <3>1, <3>2, <3>3
  <2>4. QED
    BY <2>2, <2>3, MessageMoves DEF MsgInv
<1>5. QED
  BY <1>1, <1>4 DEF MsgInv

LEMMA MsgCommitTaken ==
  ASSUME LoopAssumption, Types, Types', MsgInv, NEW ok \in BOOLEAN, CommitTaken(ok)
  PROVE  MsgInv'
<1>1. taken # <<>> /\ caller' = caller /\ handed' = handed
  BY DEF CommitTaken
<1>2. \/ taken' = <<>> /\ queue' = [queue EXCEPT !.items = PutBack(Tail(taken))]
      \/ taken' = Tail(taken) /\ queue' = queue /\ at' = at
  BY DEF CommitTaken, EndsAs
<1>3. PICK h : h = Head(taken).m
  OBVIOUS
<1>4. h \in Message
  BY <1>1, <1>3, TakenSplits DEF MsgInv, Control
<1>5. CASE staged' = Append(staged, Event("dropped", h, run.id)) /\ UNCHANGED <<journal, stopped, history>>
  <2>1. PICK c : c = Event("dropped", h, run.id)
    OBVIOUS
  <2>2. c \in EventRec /\ c.kind = "dropped" /\ c.of = h /\ staged \in Seq(EventRec)
    BY <1>4, <2>1, EventTypes DEF Event, Types
  <2>3. staged' = staged \o <<c>> /\ <<c>> \in Seq(EventRec)
    BY <1>5, <2>1, <2>2, AppendIsConcat
  <2>4. PICK drops : drops = <<c>>
    OBVIOUS
  <2>5. \A x : DroppedIn(drops, x) <=> x = h
    BY <2>2, <2>4, OneDropped
  <2>6. \A x : Dropped(x)' <=> Dropped(x) \/ x = h
    BY <1>5, <2>3, <2>4, <2>5, StagingDrops
  <2>7. QED
    BY <1>1, <1>2, <1>3, <1>5, <2>6, LeaseSettles
<1>6. CASE history' = history \cup {h} /\ Flush(<<Event("committed", h, run.id)>>, ok)
  <2>1. PICK c : c = Event("committed", h, run.id)
    OBVIOUS
  <2>2. c \in EventRec /\ c.kind = "committed"
    BY <1>4, <2>1, EventTypes DEF Event, Types
  <2>3. <<c>> \in Seq(EventRec) /\ \A x : ~DroppedIn(<<c>>, x)
    BY <2>2, OneDropped
  <2>4. PICK events : events = <<c>>
    OBVIOUS
  <2>5. Flush(events, ok)
    BY <1>6, <2>1, <2>4
  <2>6. ASSUME ~stopped' PROVE ~stopped /\ \A x \in Message : Dropped(x)' <=> Dropped(x)
    BY <2>3, <2>4, <2>5, <2>6, FlushDrops
  <2>7. QED
    BY <1>1, <1>2, <1>3, <1>6, <2>6, LeaseSettles
<1>7. QED
  BY <1>3, <1>5, <1>6 DEF CommitTaken

LEMMA MsgDropLeftover ==
  ASSUME LoopAssumption, Types, MsgInv, NEW ok \in BOOLEAN, DropLeftover(ok)
  PROVE  MsgInv'
<1>1. UNCHANGED <<queue, history, handed, caller>> /\ at = "sealed"
  BY DEF DropLeftover
<1>2. CASE taken = <<>>
  <2>1. UNCHANGED <<taken, staged, journal, stopped>>
    BY <1>2 DEF DropLeftover
  <2>2. QED
    BY <1>1, <1>2, <2>1, MsgKept, DroppedStays
<1>3. CASE taken # <<>>
  <2>1. PICK h : h = Head(taken).m
    OBVIOUS
  <2>2. h \in Message
    BY <1>3, <2>1, TakenSplits DEF MsgInv, Control
  <2>3. WriteNow("dropped", h, ok) /\ taken' = Tail(taken) /\ at' = at
    BY <1>3, <2>1 DEF DropLeftover
  <2>4. ASSUME ~stopped' PROVE ~stopped /\ \A x \in Message : Dropped(x)' <=> Dropped(x) \/ x = h
    BY <2>2, <2>3, <2>4, NowDrops
  <2>5. QED
    BY <1>1, <1>3, <2>1, <2>3, <2>4, LeaseSettles
<1>4. QED
  BY <1>2, <1>3

LEMMA MsgSeal ==
  ASSUME Types, MsgInv, Seal
  PROVE  MsgInv'
<1>1. taken = <<>> /\ UNCHANGED <<staged, journal, stopped, history, handed, caller>>
  BY DEF MsgInv, QueueInv, Seal
<1>2. queue'.items = <<>> /\ queue'.seq = queue.seq /\ taken' = queue.items /\ at' = "sealed"
  BY DEF Seal, Types
<1>3. QueueInv'
  BY <1>2 DEF MsgInv, QueueInv, Distinct, Apart, Numbered
<1>4. ASSUME NEW m \in Message PROVE MessageInv(m)'
  <2>1. ~Queued(m)' /\ ~Leased(m) /\ (Leased(m)' <=> Queued(m))
    BY <1>1, <1>2 DEF Queued, Leased
  <2>2. Dropped(m)' <=> Dropped(m)
    BY <1>1, DroppedStays
  <2>3. InOne(m) => InOne(m)'
    BY <1>1, <2>1, <2>2 DEF InOne
  <2>4. QED
    BY <1>1, <2>1, <2>2, <2>3, MessageMoves DEF MsgInv
<1>5. QED
  BY <1>3, <1>4 DEF MsgInv

LEMMA MsgDiscard ==
  ASSUME LoopAssumption, Types, MsgInv, Discard
  PROVE  MsgInv'
<1>1. taken = <<>> /\ taken' = taken /\ UNCHANGED <<run, journal, stopped, history, handed, caller>>
  BY DEF MsgInv, QueueInv, Discard
<1>2. CASE UNCHANGED <<queue, staged>>
  BY <1>1, <1>2, MsgKept, DroppedStays
<1>3. CASE ~run.keeps
  <2> DEFINE K == Places(Kinds \ {"notice"})
             J == Places({"notice"})
  <2>1. PICK a : a = PickOut(queue.items, K)
    OBVIOUS
  <2>2. PICK b : b = PickOut(queue.items, J)
    OBVIOUS
  <2>3. DOMAIN queue.items = K \cup J /\ K \cap J = {}
    BY PlacesApart
  <2>4. PICK drops : drops = [i \in DOMAIN a |-> Event("dropped", a[i].m, run.id)]
    OBVIOUS
  <2>5. /\ queue'.items = b /\ queue'.seq = queue.seq /\ staged' = staged \o drops
    BY <1>3, <2>1, <2>2, <2>4 DEF Discard, Types
  <2> HIDE DEF K, J
  <2>6. /\ a \in Seq(Control) /\ Distinct(b)
        /\ (\A n \in DOMAIN b : b[n].seq <= queue.seq)
        /\ \A m : /\ (\E n \in DOMAIN b : b[n].m = m) \/ (\E n \in DOMAIN a : a[n].m = m) <=> Queued(m)
                  /\ ~((\E n \in DOMAIN b : b[n].m = m) /\ (\E n \in DOMAIN a : a[n].m = m))
    <3>1. Parts(a, b)
      BY <2>1, <2>2, <2>3, TwoParts DEF MsgInv
    <3>2. QED
      BY <3>1, Zenon DEF Parts
  <2>7. drops \in Seq(EventRec) /\ \A m : DroppedIn(drops, m) <=> \E n \in DOMAIN a : a[n].m = m
    <3>1. \A i \in DOMAIN a : Event("dropped", a[i].m, run.id) \in EventRec
      <4>1. \A i \in DOMAIN a : a[i].m \in Message
        <5>1. a \in Seq(Control)
          BY <2>6
        <5>2. \A i \in DOMAIN a : a[i] \in Control
          BY <5>1
        <5>3. QED
          BY <5>2 DEF Control
      <4>2. run.id \in Nat
        BY DEF Types, RunRec
      <4>3. QED
        BY <4>1, <4>2 DEF Event, EventRec
    <3>2. DOMAIN a = 1 .. Len(a) /\ Len(a) \in Nat
      BY <2>6
    <3>3. drops \in Seq(EventRec)
      BY <2>4, <3>1, <3>2
    <3>4. DOMAIN drops = DOMAIN a /\ \A i \in DOMAIN a : drops[i].kind = "dropped" /\ drops[i].of = a[i].m
      BY <2>4 DEF Event
    <3>5. QED
      BY <3>3, <3>4 DEF DroppedIn
  <2>8. QueueInv'
    <3>1. Distinct(queue'.items) /\ Distinct(taken') /\ Apart(queue'.items, taken')
      BY <1>1, <2>5, <2>6 DEF Distinct, Apart
    <3>2. Numbered(queue.items)' /\ Numbered(taken)'
      BY <1>1, <2>5, <2>6 DEF Numbered
    <3>3. QED
      BY <1>1, <3>1, <3>2 DEF QueueInv, Distinct, Apart
  <2>9. ASSUME NEW m \in Message PROVE MessageInv(m)'
    <3>1. Dropped(m)' <=> Dropped(m) \/ \E n \in DOMAIN a : a[n].m = m
      BY <1>1, <2>5, <2>7, StagingDrops
    <3>2. (Queued(m)' <=> \E n \in DOMAIN b : b[n].m = m) /\ ~Leased(m) /\ ~Leased(m)'
      BY <1>1, <2>5 DEF Queued, Leased
    <3>3. /\ Queued(m)' => Queued(m)
          /\ Dropped(m)' => Dropped(m) \/ Queued(m)
          /\ Queued(m) /\ ~Dropped(m) => (Queued(m)' <=> ~Dropped(m)')
          /\ ~Queued(m) => (Dropped(m)' <=> Dropped(m))
      BY <2>6, <3>1, <3>2, Zenon
    <3>4. InOne(m) => InOne(m)'
      BY <1>1, <3>2, <3>3 DEF InOne
    <3>5. QED
      BY <1>1, <3>2, <3>3, <3>4, MessageMoves DEF MsgInv
  <2>10. QED
    BY <2>8, <2>9 DEF MsgInv
<1>4. QED
  BY <1>2, <1>3 DEF Discard

\* A step of a message's own caller that leaves the queue as it is.
LEMMA CallerMoves ==
  ASSUME NEW m \in Message, MessageInv(m), caller[m].at # "returned",
         caller'[m].at # "returned" => caller'[m].told = "none",
         Live(m)' <=> Live(m),
         queue'.items = queue.items, taken' = taken, history' = history, handed' = handed,
         ~stopped' => /\ ~stopped
                      /\ (Dropped(m)' <=> Dropped(m)) \/ (~Live(m)' /\ caller'[m].at = "returned")
  PROVE  MessageInv(m)'
<1>1. (Queued(m)' <=> Queued(m)) /\ (Leased(m)' <=> Leased(m))
  BY DEF Queued, Leased
<1>2. (Dropped(m)' <=> Dropped(m)) => (InOne(m)' <=> InOne(m))
  BY <1>1 DEF InOne
<1>3. QED
  BY <1>1, <1>2 DEF MessageInv

LEMMA MsgCaller ==
  ASSUME MsgInv, NEW m \in Message, caller[m].at # "returned",
         caller'[m].at # "returned" => caller'[m].told = "none",
         Live(m)' <=> Live(m),
         queue'.items = queue.items, queue'.seq = queue.seq,
         UNCHANGED <<at, taken, history, handed>>,
         \A x \in Message : x # m => caller'[x] = caller[x],
         ~stopped' => /\ ~stopped
                      /\ (Dropped(m)' <=> Dropped(m)) \/ (~Live(m)' /\ caller'[m].at = "returned")
                      /\ \A x \in Message : x # m => (Dropped(x)' <=> Dropped(x))
  PROVE  MsgInv'
<1>1. QueueInv'
  BY QueueKept DEF MsgInv, QueueInv
<1>2. MessageInv(m)'
  BY CallerMoves DEF MsgInv
<1>3. ASSUME NEW x \in Message, x # m PROVE MessageInv(x)'
  BY <1>3, MessageStays DEF MsgInv
<1>4. QED
  BY <1>1, <1>2, <1>3 DEF MsgInv

\* What Told and Moves do to the callers.
LEMMA CallerIs ==
  ASSUME Types, NEW m \in Message
  PROVE  /\ \A what : Told(m, what) => /\ caller'[m].at = "returned" /\ caller'[m].told = what
                                       /\ \A x \in Message : x # m => caller'[x] = caller[x]
         /\ \A where : Moves(m, where) => /\ caller'[m].at = where /\ caller'[m].told = caller[m].told
                                          /\ \A x \in Message : x # m => caller'[x] = caller[x]
<1>1. caller \in [Prompt \cup Message -> CallerRec] /\ m \in Prompt \cup Message
  BY DEF Types
<1>2. ASSUME NEW what, Told(m, what)
      PROVE  /\ caller'[m].at = "returned" /\ caller'[m].told = what
             /\ \A x \in Message : x # m => caller'[x] = caller[x]
  BY <1>1, <1>2 DEF Told, CallerRec
<1>3. ASSUME NEW where, Moves(m, where)
      PROVE  /\ caller'[m].at = where /\ caller'[m].told = caller[m].told
             /\ \A x \in Message : x # m => caller'[x] = caller[x]
  BY <1>1, <1>3 DEF Moves, CallerRec
<1>4. QED
  BY <1>2, <1>3

LEMMA MsgReserve ==
  ASSUME Types, MsgInv, NEW m \in Message, Reserve(m)
  PROVE  MsgInv'
<1>1. /\ caller[m].at = "out" /\ caller[m].told = "none"
      /\ UNCHANGED <<at, taken, staged, journal, stopped, history, handed>>
  BY DEF Reserve, MsgInv, MessageInv
<1>2. queue'.items = queue.items /\ queue'.seq = queue.seq
  BY DEF Reserve, Types
<1>3. Told(m, "refused") \/ Moves(m, "writes")
  BY DEF Reserve
<1>4. /\ caller'[m].at # "returned" => caller'[m].told = "none"
      /\ \A x \in Message : x # m => caller'[x] = caller[x]
      /\ ~Live(m) /\ ~Live(m)'
  BY <1>1, <1>3, CallerIs DEF Live
<1>5. QED
  BY <1>1, <1>2, <1>4, MsgCaller, DroppedStays

LEMMA MsgWriteQueued ==
  ASSUME LoopAssumption, Types, MsgInv, NEW m \in Message, NEW ok \in BOOLEAN, WriteQueued(m, ok)
  PROVE  MsgInv'
<1>1. /\ caller[m].at = "writes" /\ caller[m].told = "none"
      /\ UNCHANGED <<at, taken, history, handed>> /\ WriteNow("queued", m, ok)
  BY DEF WriteQueued, MsgInv, MessageInv
<1>2. queue'.items = queue.items /\ queue'.seq = queue.seq
  BY DEF WriteQueued, Types
<1>3. Told(m, "failed") \/ Moves(m, "fills")
  BY DEF WriteQueued
<1>4. /\ caller'[m].at # "returned" => caller'[m].told = "none"
      /\ \A x \in Message : x # m => caller'[x] = caller[x]
      /\ ~Live(m) /\ ~Live(m)'
  BY <1>1, <1>3, CallerIs DEF Live
<1>5. ASSUME ~stopped' PROVE ~stopped /\ \A x \in Message : Dropped(x)' <=> Dropped(x)
  BY <1>1, <1>5, NowDrops
<1>6. QED
  BY <1>1, <1>2, <1>4, <1>5, MsgCaller

LEMMA MsgDropAfterQueued ==
  ASSUME LoopAssumption, Types, MsgInv, NEW m \in Message, NEW ok \in BOOLEAN, DropAfterQueued(m, ok)
  PROVE  MsgInv'
<1>1. /\ caller[m].at = "drops" /\ caller[m].told = "none" /\ Told(m, "failed")
      /\ UNCHANGED <<at, queue, taken, history, handed>> /\ WriteNow("dropped", m, ok)
  BY DEF DropAfterQueued, MsgInv, MessageInv
<1>2. /\ caller'[m].at = "returned"
      /\ \A x \in Message : x # m => caller'[x] = caller[x]
      /\ ~Live(m) /\ ~Live(m)'
  BY <1>1, CallerIs DEF Live
<1>3. ASSUME ~stopped' PROVE ~stopped /\ \A x \in Message : x # m => (Dropped(x)' <=> Dropped(x))
  BY <1>1, <1>3, NowDrops
<1>4. QED
  BY <1>1, <1>2, <1>3, MsgCaller

\* Interrupt, once its message is queued.
LEMMA MsgInterrupt ==
  ASSUME Types, MsgInv, NEW m \in Message, LookForCall(m) \/ CancelCall(m)
  PROVE  MsgInv'
<1>1. /\ caller[m].at \in {"looks", "cancels"} /\ caller[m].told = "none"
      /\ UNCHANGED <<at, queue, taken, staged, journal, stopped, history, handed>>
  BY DEF LookForCall, CancelCall, MsgInv, MessageInv
<1>2. /\ caller'[m].at # "returned" => caller'[m].told = "none"
      /\ \A x \in Message : x # m => caller'[x] = caller[x]
      /\ Live(m) /\ Live(m)'
  <2>1. CASE LookForCall(m)
    <3>1. caller \in [Prompt \cup Message -> CallerRec] /\ m \in Prompt \cup Message
      BY DEF Types
    <3>2. /\ caller'[m].at = "cancels" /\ caller'[m].told = caller[m].told
          /\ \A x \in Message : x # m => caller'[x] = caller[x]
      BY <2>1, <3>1 DEF LookForCall, CallerRec
    <3>3. QED
      BY <1>1, <3>2 DEF Live
  <2>2. CASE CancelCall(m)
    BY <1>1, <2>2, CallerIs DEF CancelCall, Live
  <2>3. QED
    BY <2>1, <2>2
<1>3. QED
  BY <1>1, <1>2, MsgCaller, DroppedStays

\* A message goes into the queue with a number of its own.
LEMMA FillMoves ==
  ASSUME Types, QueueInv, NEW m \in Message, ~Queued(m), ~Leased(m),
         queue'.items = Append(queue.items, [m |-> m, seq |-> queue.seq + 1]),
         queue'.seq = queue.seq + 1, UNCHANGED <<at, taken>>
  PROVE  /\ QueueInv'
         /\ \A x : /\ Queued(x)' <=> Queued(x) \/ x = m
                   /\ Leased(x)' <=> Leased(x)
<1> DEFINE q == queue.items
           n == Len(q)
<1>1. PICK c : c = [m |-> m, seq |-> queue.seq + 1]
  OBVIOUS
<1>2. c.m = m /\ c.seq = queue.seq + 1 /\ queue.seq \in Nat /\ c \in Control
  BY <1>1 DEF Types, Control
<1>3. q \in Seq(Control) /\ n \in Nat /\ DOMAIN q = 1 .. n
  BY DEF Types
<1>4. PICK p : p = Append(q, c)
  OBVIOUS
<1>5. queue'.items = p /\ queue'.seq = queue.seq + 1 /\ taken' = taken /\ at' = at
  BY <1>1, <1>4
<1>6. /\ DOMAIN p = 1 .. n + 1 /\ p[n + 1] = c /\ n + 1 \in DOMAIN p
      /\ \A i \in DOMAIN q : i \in DOMAIN p /\ p[i] = q[i]
      /\ \A i \in DOMAIN p : i \in DOMAIN q \/ i = n + 1
      /\ n + 1 \notin DOMAIN q
  BY <1>2, <1>3, <1>4
<1>7. /\ Distinct(q) /\ Distinct(taken) /\ Apart(q, taken) /\ Numbered(q) /\ Numbered(taken)
      /\ at \notin {"notices", "control", "sealed"} => taken = <<>>
      /\ \A i \in DOMAIN q : q[i].m # m /\ q[i].seq \in Nat
      /\ \A i \in DOMAIN taken : taken[i].m # m /\ taken[i].seq \in Nat
  <2>1. \A i \in DOMAIN taken : taken[i] \in Control
    BY DEF Types
  <2>2. \A i \in DOMAIN q : q[i] \in Control
    BY <1>3
  <2>3. QED
    BY <2>1, <2>2 DEF QueueInv, Queued, Leased, Control
<1>8. \A x : Queued(x) <=> \E i \in DOMAIN q : q[i].m = x
  BY DEF Queued
<1>9. \A i \in DOMAIN q : q[i].seq <= queue.seq
  BY <1>7 DEF Numbered
<1>10. \A i \in DOMAIN taken : taken[i].seq <= queue.seq
  BY <1>7 DEF Numbered
<1> HIDE DEF q, n
<1>11. \A i \in DOMAIN q : q[i].m # c.m /\ q[i].seq # c.seq
  BY <1>2, <1>7, <1>9
<1>12. \A i \in DOMAIN taken : taken[i].m # c.m /\ taken[i].seq # c.seq
  BY <1>2, <1>7, <1>10
<1>13. Distinct(p)
  BY <1>6, <1>7, <1>11 DEF Distinct
<1>14. Apart(p, taken)
  BY <1>6, <1>7, <1>12 DEF Apart
<1>15. (\A i \in DOMAIN p : p[i].seq <= queue.seq + 1) /\ (\A i \in DOMAIN taken : taken[i].seq <= queue.seq + 1)
  BY <1>2, <1>6, <1>7, <1>9, <1>10
<1>16. QueueInv'
  <2>1. Distinct(queue'.items) /\ Distinct(taken') /\ Apart(queue'.items, taken')
    BY <1>5, <1>7, <1>13, <1>14
  <2>2. Numbered(queue.items)' /\ Numbered(taken)'
    BY <1>5, <1>15 DEF Numbered
  <2>3. QED
    BY <1>5, <1>7, <2>1, <2>2 DEF QueueInv, Distinct, Apart
<1>17. \A x : (Queued(x)' <=> \E i \in DOMAIN p : p[i].m = x) /\ (Leased(x)' <=> Leased(x))
  BY <1>5 DEF Queued, Leased
<1>18. ASSUME NEW x PROVE (\E i \in DOMAIN p : p[i].m = x) <=> Queued(x) \/ x = m
  <2>1. (\E i \in DOMAIN p : p[i].m = x) => Queued(x) \/ x = m
    BY <1>2, <1>6, <1>8
  <2>2. Queued(x) => \E i \in DOMAIN p : p[i].m = x
    BY <1>6, <1>8
  <2>3. x = m => \E i \in DOMAIN p : p[i].m = x
    BY <1>2, <1>6
  <2>4. QED
    BY <2>1, <2>2, <2>3
<1>19. QED
  BY <1>16, <1>17, <1>18, Zenon

LEMMA MsgFill ==
  ASSUME Types, MsgInv, NEW m \in Message, Fill(m)
  PROVE  MsgInv'
<1>1. /\ caller[m].at = "fills" /\ caller[m].told = "none" /\ MessageInv(m)
      /\ UNCHANGED <<at, taken, staged, journal, stopped, history, handed>>
  BY DEF Fill, MsgInv, MessageInv
<1>2. ~Live(m) /\ ~Queued(m) /\ ~Leased(m) /\ m \notin history /\ m \notin handed /\ (~stopped => ~Dropped(m))
  BY <1>1 DEF Live, MessageInv
<1>3. CASE Gate(m) /\ ~queue.sealed
  <2>1. /\ queue'.items = Append(queue.items, [m |-> m, seq |-> queue.seq + 1])
        /\ queue'.seq = queue.seq + 1
    BY <1>3 DEF Fill, Types
  <2>2. Told(m, "accepted") \/ Moves(m, "looks")
    BY <1>3 DEF Fill
  <2>3. /\ caller'[m].at # "returned" => caller'[m].told = "none"
        /\ \A x \in Message : x # m => caller'[x] = caller[x]
        /\ Live(m)'
    BY <1>1, <2>2, CallerIs DEF Live
  <2>4. /\ QueueInv'
        /\ \A x : /\ Queued(x)' <=> Queued(x) \/ x = m
                  /\ Leased(x)' <=> Leased(x)
    BY <1>1, <1>2, <2>1, FillMoves DEF MsgInv
  <2>5. MessageInv(m)'
    <3>1. Queued(m)' /\ ~Leased(m)' /\ (Dropped(m)' <=> Dropped(m))
      BY <1>1, <1>2, <2>4, DroppedStays
    <3>2. ~stopped' => InOne(m)'
      BY <1>1, <1>2, <3>1 DEF InOne
    <3>3. QED
      BY <2>3, <3>1, <3>2 DEF MessageInv
  <2>6. ASSUME NEW x \in Message, x # m PROVE MessageInv(x)'
    <3>1. (Queued(x)' <=> Queued(x)) /\ (Leased(x)' <=> Leased(x)) /\ (Dropped(x)' <=> Dropped(x))
      BY <1>1, <2>4, <2>6, DroppedStays
    <3>2. InOne(x) => InOne(x)'
      BY <1>1, <3>1 DEF InOne
    <3>3. QED
      BY <1>1, <2>3, <2>6, <3>1, <3>2, MessageMoves DEF MsgInv
  <2>7. QED
    BY <2>4, <2>5, <2>6 DEF MsgInv
<1>4. CASE ~(Gate(m) /\ ~queue.sealed)
  <2>1. queue'.items = queue.items /\ queue'.seq = queue.seq /\ Moves(m, "drops")
    BY <1>4 DEF Fill, Types
  <2>2. /\ caller'[m].at # "returned" => caller'[m].told = "none"
        /\ \A x \in Message : x # m => caller'[x] = caller[x]
        /\ ~Live(m)'
    BY <1>1, <2>1, CallerIs DEF Live
  <2>3. QED
    BY <1>1, <1>2, <2>1, <2>2, MsgCaller, DroppedStays
<1>5. QED
  BY <1>3, <1>4

LEMMA MsgCallers ==
  ASSUME LoopAssumption, Types, MsgInv, Callers
  PROVE  MsgInv'
<1>1. at \in {"notices", "control", "sealed"} \/ taken = <<>>
  BY DEF MsgInv, QueueInv
<1>2. ASSUME NEW p \in Prompt, Admit(p) \/ GivesUp(p) \/ GraceEnds(p) PROVE MsgInv'
  <2>1. UNCHANGED <<at, queue, taken, staged, journal, stopped, history, handed>>
    BY <1>2 DEF Admit, GivesUp, GraceEnds
  <2>2. \A m \in Message : caller'[m] = caller[m]
    BY <1>2, OthersStay DEF Admit, GivesUp, GraceEnds
  <2>3. QED
    BY <1>1, <2>1, <2>2, MsgKept, DroppedStays
<1>3. ASSUME NEW m \in Message,
             \/ Reserve(m) \/ Fill(m) \/ LookForCall(m) \/ CancelCall(m)
             \/ \E ok \in BOOLEAN : WriteQueued(m, ok) \/ DropAfterQueued(m, ok)
      PROVE  MsgInv'
  BY <1>3, MsgReserve, MsgFill, MsgInterrupt, MsgWriteQueued, MsgDropAfterQueued
<1>4. ASSUME NEW ok \in BOOLEAN, AbortWrites(ok) PROVE MsgInv'
  <2>1. UNCHANGED <<at, queue, taken, history, handed, caller>> /\ WriteNow("abort", Nobody, ok)
    BY <1>4 DEF AbortWrites
  <2>2. ASSUME ~stopped' PROVE ~stopped /\ \A m \in Message : Dropped(m)' <=> Dropped(m)
    BY <2>1, <2>2, NowDrops
  <2>3. QED
    BY <1>1, <2>1, <2>2, MsgKept
<1>5. ASSUME Close PROVE MsgInv'
  <2>1. UNCHANGED <<at, queue, taken, staged, journal, stopped, history, handed, caller>>
    BY <1>5 DEF Close
  <2>2. QED
    BY <1>1, <2>1, MsgKept, DroppedStays
<1>6. QED
  BY <1>2, <1>3, <1>4, <1>5 DEF Callers

\* The host takes the queue over.
LEMMA MsgTakeQueued ==
  ASSUME Types, MsgInv, TakeQueued
  PROVE  MsgInv'
<1>1. taken = <<>> /\ UNCHANGED <<at, taken, staged, journal, stopped, history, caller>>
  BY DEF MsgInv, QueueInv, TakeQueued
<1>2. queue'.items = <<>> /\ queue'.seq = queue.seq
  BY DEF TakeQueued, Types
<1>3. QueueInv'
  BY <1>1, <1>2 DEF MsgInv, QueueInv, Distinct, Apart, Numbered
<1>4. ASSUME NEW m \in Message PROVE MessageInv(m)'
  <2>1. m \in handed' <=> m \in handed \/ Queued(m)
    BY DEF TakeQueued, Queued, ToSet
  <2>2. ~Queued(m)' /\ ~Leased(m) /\ ~Leased(m)'
    BY <1>1, <1>2 DEF Queued, Leased
  <2>3. Dropped(m)' <=> Dropped(m)
    BY <1>1, DroppedStays
  <2>4. InOne(m) => InOne(m)'
    BY <1>1, <2>1, <2>2, <2>3 DEF InOne
  <2>5. QED
    BY <1>1, <2>1, <2>2, <2>3, <2>4, MessageMoves DEF MsgInv
<1>5. QED
  BY <1>3, <1>4 DEF MsgInv

LEMMA MsgOutside ==
  ASSUME LoopAssumption, Types, MsgInv, Outside
  PROVE  MsgInv'
<1>1. at \in {"notices", "control", "sealed"} \/ taken = <<>>
  BY DEF MsgInv, QueueInv
<1>2. ASSUME Abort PROVE MsgInv'
  <2>1. UNCHANGED <<at, queue, taken, staged, journal, stopped, history, handed, caller>>
    BY <1>2 DEF Abort
  <2>2. QED
    BY <1>1, <2>1, MsgKept, DroppedStays
<1>3. ASSUME NEW p \in Prompt, ContextEnds(p) PROVE MsgInv'
  <2>1. UNCHANGED <<at, queue, taken, staged, journal, stopped, history, handed>>
    BY <1>3 DEF ContextEnds
  <2>2. \A m \in Message : caller'[m] = caller[m]
    BY <1>3 DEF ContextEnds, LoopAssumption, Types
  <2>3. QED
    BY <1>1, <2>1, <2>2, MsgKept, DroppedStays
<1>4. QED
  BY <1>2, <1>3, MsgTakeQueued DEF Outside

LEMMA MsgNext ==
  ASSUME LoopAssumption, Types, Types', MsgInv, RunInv, [LoopNext]_loopVars
  PROVE  MsgInv'
<1>1. ASSUME Loop PROVE MsgInv'
  <2>1. CASE \/ NoticesDone \/ Overflows \/ ModelFails \/ StopTurn
             \/ HostFails \/ Ending \/ EndRun \/ Reply \/ CloseSignal
    BY <2>1, MsgLoop
  <2>2. CASE BeginTurn \/ CutOff \/ Boundary
    BY <2>2, MsgTakes
  <2>3. CASE Discard \/ Seal
    BY <2>3, MsgDiscard, MsgSeal
  <2>4. CASE \E p \in Prompt : Serve(p)
    BY <2>4, MsgServe
  <2>5. CASE \E ok \in BOOLEAN :
               \/ CommitPrompt(ok) \/ StartCall(ok) \/ RunTools(ok) \/ ControlDone(ok) \/ End(ok)
               \/ \E reply \in {"answer", "tools", "truncated"} : Replies(reply, ok)
    BY <2>5, MsgWrites
  <2>6. CASE \E ok \in BOOLEAN : CommitTaken(ok) \/ DropLeftover(ok)
    BY <2>6, MsgCommitTaken, MsgDropLeftover
  <2>7. QED
    BY <1>1, <2>1, <2>2, <2>3, <2>4, <2>5, <2>6 DEF Loop
<1>2. ASSUME UNCHANGED loopVars PROVE MsgInv'
  <2>1. UNCHANGED <<at, queue, taken, staged, journal, stopped, history, handed, caller>>
    BY <1>2 DEF loopVars
  <2>2. at' \in {"notices", "control", "sealed"} \/ taken = <<>>
    BY <2>1 DEF MsgInv, QueueInv
  <2>3. QED
    BY <2>1, <2>2, MsgKept, DroppedStays
<1>3. QED
  BY <1>1, <1>2, MsgCallers, MsgOutside DEF LoopNext

-----------------------------------------------------------------------------
(* The invariant.                                                          *)

LEMMA InitInv ==
  ASSUME LoopAssumption, LoopInit
  PROVE  Inv
<1>1. Types
  <2>1. run \in RunRec
    BY DEF LoopInit, NoRun, RunRec, Status
  <2>2. queue \in [items : Seq(Control), held : [Kinds -> Int], sealed : BOOLEAN, seq : Nat]
    BY DEF LoopInit
  <2>3. caller \in [Prompt \cup Message -> CallerRec]
    BY DEF LoopInit, Idle, CallerRec, Status
  <2>4. at \in Place /\ prompt \in Prompt \cup {Nobody} /\ budget \in Load
    BY DEF LoopInit, Place, BetweenRuns, LoopAssumption
  <2>5. stopped \in BOOLEAN /\ closing \in BOOLEAN
    BY DEF LoopInit
  <2>6. taken \in Seq(Control) /\ staged \in Seq(EventRec) /\ journal \in Seq(EventRec)
    BY DEF LoopInit
  <2>7. QED
    BY <2>1, <2>2, <2>3, <2>4, <2>5, <2>6 DEF Types
<1>2. queue.items = <<>> /\ taken = <<>> /\ staged = <<>> /\ journal = <<>>
  BY DEF LoopInit
<1>3. QueueInv
  BY <1>2 DEF QueueInv, Distinct, Apart, Numbered
<1>4. ASSUME NEW m \in Message PROVE MessageInv(m)
  <2>1. caller[m].at = "out" /\ caller[m].told = "none"
    BY DEF LoopInit, Idle
  <2>2. ~Queued(m) /\ ~Leased(m) /\ m \notin history /\ m \notin handed /\ ~Live(m)
    BY <1>2, <2>1 DEF LoopInit, Queued, Leased, Live
  <2>3. ~Dropped(m)
    BY <1>1, <1>2, DroppedIs, NoneDropped
  <2>4. QED
    BY <2>1, <2>2, <2>3 DEF MessageInv
<1>5. RunInv
  BY <1>2 DEF LoopInit, NoRun, RunInv, BetweenRuns, InTurn, Interrupting
<1>6. SpanInv
  BY <1>2 DEF LoopInit, NoRun, SpanInv, Spanned, RunEventsInSpan, InTurn
<1>7. QED
  BY <1>1, <1>3, <1>4, <1>5, <1>6 DEF Inv

\* What a Session keeps of its messages and of its Runs, whatever its callers do
\* and whatever the Journal fails (serve, loop and end of sessionlifecycle.go and
\* loop.go, controlQueue, writeEvents): no two messages of the queue and of a
\* lease have one seq, none is in the hands of the queue before fill, one that was
\* filled is in one place, and what is staged is of the Run whose span is open or
\* opens with it.
THEOREM LoopInvariance == LoopAssumption => (LoopSpec => []Inv)
<1> SUFFICES ASSUME LoopAssumption PROVE LoopSpec => []Inv
  OBVIOUS
<1>1. LoopInit => Inv
  BY InitInv
<1>2. Inv /\ [LoopNext]_loopVars => Inv'
  <2> SUFFICES ASSUME Inv, [LoopNext]_loopVars PROVE Inv'
    OBVIOUS
  <2>1. Types /\ MsgInv /\ RunInv /\ SpanInv
    BY DEF Inv, MsgInv
  <2>2. Types'
    BY <2>1, TypesNext
  <2>3. MsgInv'
    BY <2>1, <2>2, MsgNext
  <2>4. RunInv'
    BY <2>1, RunNext
  <2>5. SpanInv'
    BY <2>1, SpanNext
  <2>6. QED
    BY <2>2, <2>3, <2>4, <2>5 DEF Inv, MsgInv
<1>3. QED
  BY <1>1, <1>2, PTL DEF LoopSpec

LEMMA OnePlace ==
  ASSUME NEW p1 \in BOOLEAN, NEW p2 \in BOOLEAN, NEW p3 \in BOOLEAN, NEW p4 \in BOOLEAN, NEW p5 \in BOOLEAN,
         \/ p1 /\ ~p2 /\ ~p3 /\ ~p4 /\ ~p5
         \/ p2 /\ ~p1 /\ ~p3 /\ ~p4 /\ ~p5
         \/ p3 /\ ~p1 /\ ~p2 /\ ~p4 /\ ~p5
         \/ p4 /\ ~p1 /\ ~p2 /\ ~p3 /\ ~p5
         \/ p5 /\ ~p1 /\ ~p2 /\ ~p3 /\ ~p4
  PROVE  Cardinality({i \in 1 .. 5 : <<p1, p2, p3, p4, p5>>[i]}) = 1
<1> DEFINE s == <<p1, p2, p3, p4, p5>>
           S == {i \in 1 .. 5 : s[i]}
<1>1. s[1] = p1 /\ s[2] = p2 /\ s[3] = p3 /\ s[4] = p4 /\ s[5] = p5
  OBVIOUS
<1>2. \A i \in 1 .. 5 : i = 1 \/ i = 2 \/ i = 3 \/ i = 4 \/ i = 5
  OBVIOUS
<1> HIDE DEF s
<1>3. \E n : S = {n}
  <2>1. CASE p1 /\ ~p2 /\ ~p3 /\ ~p4 /\ ~p5
    <3>1. s[1] /\ ~s[2] /\ ~s[3] /\ ~s[4] /\ ~s[5]
      BY <1>1, <2>1, Zenon
    <3>2. \A i \in 1 .. 5 : s[i] => i = 1
      BY <1>2, <3>1, Zenon
    <3>3. 1 \in 1 .. 5
      OBVIOUS
    <3>4. S = {1}
      BY <3>1, <3>2, <3>3, Zenon
    <3>5. QED
      BY <3>4
  <2>2. CASE p2 /\ ~p1 /\ ~p3 /\ ~p4 /\ ~p5
    <3>1. s[2] /\ ~s[1] /\ ~s[3] /\ ~s[4] /\ ~s[5]
      BY <1>1, <2>2, Zenon
    <3>2. \A i \in 1 .. 5 : s[i] => i = 2
      BY <1>2, <3>1, Zenon
    <3>3. 2 \in 1 .. 5
      OBVIOUS
    <3>4. S = {2}
      BY <3>1, <3>2, <3>3, Zenon
    <3>5. QED
      BY <3>4
  <2>3. CASE p3 /\ ~p1 /\ ~p2 /\ ~p4 /\ ~p5
    <3>1. s[3] /\ ~s[1] /\ ~s[2] /\ ~s[4] /\ ~s[5]
      BY <1>1, <2>3, Zenon
    <3>2. \A i \in 1 .. 5 : s[i] => i = 3
      BY <1>2, <3>1, Zenon
    <3>3. 3 \in 1 .. 5
      OBVIOUS
    <3>4. S = {3}
      BY <3>1, <3>2, <3>3, Zenon
    <3>5. QED
      BY <3>4
  <2>4. CASE p4 /\ ~p1 /\ ~p2 /\ ~p3 /\ ~p5
    <3>1. s[4] /\ ~s[1] /\ ~s[2] /\ ~s[3] /\ ~s[5]
      BY <1>1, <2>4, Zenon
    <3>2. \A i \in 1 .. 5 : s[i] => i = 4
      BY <1>2, <3>1, Zenon
    <3>3. 4 \in 1 .. 5
      OBVIOUS
    <3>4. S = {4}
      BY <3>1, <3>2, <3>3, Zenon
    <3>5. QED
      BY <3>4
  <2>5. CASE p5 /\ ~p1 /\ ~p2 /\ ~p3 /\ ~p4
    <3>1. s[5] /\ ~s[1] /\ ~s[2] /\ ~s[3] /\ ~s[4]
      BY <1>1, <2>5, Zenon
    <3>2. \A i \in 1 .. 5 : s[i] => i = 5
      BY <1>2, <3>1, Zenon
    <3>3. 5 \in 1 .. 5
      OBVIOUS
    <3>4. S = {5}
      BY <3>1, <3>2, <3>3, Zenon
    <3>5. QED
      BY <3>4
  <2>6. QED
    BY <2>1, <2>2, <2>3, <2>4, <2>5
<1> HIDE DEF S
<1>4. Cardinality(S) = 1
  BY <1>3, FS_Singleton
<1>5. QED
  BY <1>4 DEF S, s

LEMMA PlaceOfMessages ==
  ASSUME Inv
  PROVE  NoMessageIsLost
<1> SUFFICES ASSUME NEW m \in Message
             PROVE  LET places == <<Queued(m), Leased(m), m \in history, m \in handed, Dropped(m)>>
                    IN /\ ~stopped /\ caller[m].told = "accepted" =>
                            Cardinality({i \in 1 .. 5 : places[i]}) = 1
                       /\ caller[m].told \in {"refused", "failed"} =>
                            \A i \in 1 .. 4 : ~places[i]
  BY DEF NoMessageIsLost
<1> DEFINE places == <<Queued(m), Leased(m), m \in history, m \in handed, Dropped(m)>>
<1>1. MessageInv(m)
  BY DEF Inv
<1>2. ASSUME ~stopped, caller[m].told = "accepted"
      PROVE  Cardinality({i \in 1 .. 5 : places[i]}) = 1
  <2>1. Live(m)
    BY <1>1, <1>2 DEF MessageInv, Live
  <2>2. InOne(m)
    BY <1>1, <1>2, <2>1 DEF MessageInv
  <2>3. /\ Queued(m) \in BOOLEAN /\ Leased(m) \in BOOLEAN /\ (m \in history) \in BOOLEAN
        /\ (m \in handed) \in BOOLEAN /\ Dropped(m) \in BOOLEAN
    BY DEF Queued, Leased, Dropped
  <2>4. QED
    BY ZenonT(30), <2>2, <2>3, OnePlace DEF InOne
<1>3. ASSUME caller[m].told \in {"refused", "failed"}
      PROVE  \A i \in 1 .. 4 : ~places[i]
  <2>1. ~Live(m)
    BY <1>1, <1>3 DEF MessageInv, Live
  <2>2. ~Queued(m) /\ ~Leased(m) /\ m \notin history /\ m \notin handed
    BY <1>1, <2>1 DEF MessageInv
  <2>3. ~places[1] /\ ~places[2] /\ ~places[3] /\ ~places[4]
    BY <2>2
  <2> HIDE DEF places
  <2>4. \A i \in 1 .. 4 : i = 1 \/ i = 2 \/ i = 3 \/ i = 4
    OBVIOUS
  <2>5. QED
    BY <2>3, <2>4
<1>4. QED
  BY <1>2, <1>3

\* A message that Steer, Interrupt, FollowUp or Notice accepted is in one place at
\* any time, until the Journal fails: it waits in the control queue, a boundary's
\* lease has it (take, commitContinuation and putBack of controlqueue.go and
\* loop.go), it is committed, the host took it over (takeQueued), or an Event says
\* that it was dropped (discardControl, dropLeftoverControl); one that was refused
\* is in none of the first four.  For any number of messages, Runs, aborts,
\* refused commits and Close.
THEOREM MessagesAreKept == LoopAssumption => (LoopSpec => []NoMessageIsLost)
BY LoopInvariance, PlaceOfMessages, PTL

\* Every Event the Journal keeps with a Run lies between that Run's run_started
\* and run_ended, and every abort_requested has a Run, also one that came before
\* run_started was written and one whose goroutine writes late (openSpan, Abort
\* and aborts.Wait); a Run is canceled only by its context or by Abort, so an
\* Interrupt ends a Model call and no Run, and none is left for the next Run
\* unless the host takes the queue over.
THEOREM RunsAreTheirOwn == LoopAssumption => (LoopSpec => []RunsAreWhole)
<1>1. Inv => RunsAreWhole
  <2> SUFFICES ASSUME Inv PROVE RunsAreWhole
    OBVIOUS
  <2>1. RunEventsInSpan
    BY DEF Inv, SpanInv
  <2>2. InterruptsSpareTheRun
    BY DEF Inv, RunInv, Types, InterruptsSpareTheRun, InTurn, BetweenRuns
  <2>3. QED
    BY <2>1, <2>2 DEF RunsAreWhole
<1>2. QED
  BY <1>1, LoopInvariance, PTL

-----------------------------------------------------------------------------
(* ToolBatch: the results of the calls of a reply.                         *)

\* A result committed to the Transcript.
ResultRec == [call : Nat, executed : BOOLEAN]

\* Every variable has its type.
BatchTypes ==
  /\ left \in BatchLoadRec
  /\ step \in {"preflight", "group", "collect", "commit", "close", "over"}
  /\ grouped \in 0 .. Len(left.plans) /\ upTo \in 0 .. Len(left.plans)
  /\ tool \in [Calls -> {"idle", "launched", "executing", "over"}]
  /\ outcome \in [Calls -> {"unknown", "unrun", "run"}]
  /\ signals \subseteq Calls /\ ran \subseteq Calls
  /\ results \in Seq(ResultRec)
  /\ canceled \in BOOLEAN

\* The results are of the first calls, in order, and of no call of a group to come.
ResultInv ==
  /\ \A i \in DOMAIN results : results[i].call = i
  /\ Len(results) <= Len(left.plans)
  /\ step \notin {"close", "over"} => Len(results) <= upTo
  /\ upTo = grouped \/ Ungrouped = {}
  /\ EveryCallAnswered

\* A Tool that was started is of a group that was, and counts as run as soon as its
\* group is left; one whose result says that it was not run was not started.
StartedInv ==
  /\ \A i \in Calls : tool[i] # "idle" =>
       /\ i <= grouped /\ outcome[i] # "unrun"
       /\ step # "collect" => outcome[i] = "run"
  /\ \A i \in Calls : i \in Ungrouped => outcome[i] = "unknown"
  /\ step = "preflight" => \A i \in Calls : tool[i] = "idle"
  /\ \A i \in ran \cup signals : tool[i] # "idle"
  /\ \A i \in DOMAIN results : ~results[i].executed => tool[i] = "idle"

BatchInv == BatchTypes /\ ResultInv /\ StartedInv

\* Everything holds at the start.
LEMMA BatchInvInit ==
  ASSUME BatchAssumption, BatchInit
  PROVE  BatchInv
<1>1. left \in BatchLoadRec
  BY DEF BatchAssumption, BatchInit
<1>2. Calls = 1 .. Len(left.plans) /\ Len(left.plans) \in Nat
  <2>1. left.plans \in Seq({"blocked", "sequential", "parallel"})
    BY <1>1 DEF BatchLoadRec
  <2>2. QED
    BY <2>1 DEF Calls
<1>3. BatchTypes
  <2>1. results \in Seq(ResultRec) /\ 0 \in 0 .. Len(left.plans)
    BY <1>2 DEF BatchInit
  <2>2. /\ tool \in [Calls -> {"idle", "launched", "executing", "over"}]
        /\ outcome \in [Calls -> {"unknown", "unrun", "run"}]
    BY DEF BatchInit, Unknown
  <2>3. QED
    BY <1>1, <2>1, <2>2 DEF BatchInit, BatchTypes
<1>4. ResultInv
  BY <1>2 DEF BatchInit, ResultInv, EveryCallAnswered
<1>5. StartedInv
  BY DEF BatchInit, StartedInv, Ungrouped, Unknown
<1>6. QED
  BY <1>3, <1>4, <1>5 DEF BatchInv

\* What the types say of the plans and of the results.
LEMMA BatchFacts ==
  ASSUME BatchInv
  PROVE  /\ Len(left.plans) \in Nat /\ Calls = 1 .. Len(left.plans)
         /\ Len(results) \in Nat /\ DOMAIN results = 1 .. Len(results)
         /\ grouped \in Nat /\ upTo \in Nat
BY DEF BatchInv, BatchTypes, BatchLoadRec, Calls

\* A step that leaves the plans leaves the calls.
LEMMA CallsStay ==
  ASSUME left'.plans = left.plans
  PROVE  /\ Calls' = Calls
         /\ grouped' = grouped => Ungrouped' = Ungrouped
BY DEF Calls, Ungrouped

\* Fails leaves the plans.
LEMMA FailsIs ==
  ASSUME BatchInv, Fails
  PROVE  /\ left' \in BatchLoadRec /\ left'.plans = left.plans /\ left'.breaks = left.breaks
         /\ step' = "close"
<1>1. left \in BatchLoadRec /\ left.fails \in Nat /\ left.fails > 0
  BY DEF BatchInv, BatchTypes, BatchLoadRec, Fails, MayFail
<1>2. PICK n \in Nat : n = left.fails - 1
  BY <1>1
<1>3. left' = [left EXCEPT !.fails = n] /\ step' = "close"
  BY <1>2 DEF Fails
<1>4. QED
  BY <1>1, <1>3 DEF BatchLoadRec

\* A hook fails the Run, or the blocked calls have their outcome.
LEMMA PreflightKeeps ==
  ASSUME BatchInv, Preflight
  PROVE  BatchInv'
<1>1. /\ left' \in BatchLoadRec /\ left'.plans = left.plans /\ step' \in {"group", "close"}
      /\ UNCHANGED <<grouped, upTo, tool, signals, ran, results, canceled>> /\ step = "preflight"
  BY FailsIs DEF Preflight, BatchInv, BatchTypes
<1>2. Calls' = Calls /\ Ungrouped' = Ungrouped
  BY <1>1, CallsStay
<1>3. /\ outcome' \in [Calls -> {"unknown", "unrun", "run"}]
      /\ \A i \in Calls : i \in Ungrouped => outcome'[i] = "unknown"
  BY DEF Preflight, BatchInv, BatchTypes, StartedInv, Ungrouped, Unknown
<1>4. BatchTypes'
  BY <1>1, <1>2, <1>3 DEF BatchInv, BatchTypes
<1>5. ResultInv'
  BY <1>1, <1>2 DEF BatchInv, ResultInv, EveryCallAnswered
<1>6. \A i \in Calls : tool[i] = "idle"
  BY <1>1 DEF BatchInv, StartedInv
<1>7. StartedInv'
  BY <1>1, <1>2, <1>3, <1>6 DEF BatchInv, StartedInv
<1>8. QED
  BY <1>4, <1>5, <1>7 DEF BatchInv

\* A step that fails leaves everything else as it was: no group is being collected.
LEMMA FailsKeeps ==
  ASSUME BatchInv, Fails, step \in {"group", "commit"},
         UNCHANGED <<grouped, upTo, tool, signals, outcome, ran, results, canceled>>
  PROVE  BatchInv'
<1>1. /\ left' \in BatchLoadRec /\ left'.plans = left.plans /\ left'.breaks = left.breaks
      /\ step' = "close"
  BY FailsIs
<1>2. Calls' = Calls /\ Ungrouped' = Ungrouped
  BY <1>1, CallsStay
<1>3. BatchTypes'
  BY <1>1, <1>2 DEF BatchInv, BatchTypes
<1>4. ResultInv'
  BY <1>1, <1>2 DEF BatchInv, ResultInv, EveryCallAnswered
<1>5. StartedInv'
  BY <1>1, <1>2 DEF BatchInv, StartedInv
<1>6. QED
  BY <1>3, <1>4, <1>5 DEF BatchInv

\* A group is of calls that have no result and were not started: its Tools start, or
\* the canceled Run counts them as not run.
LEMMA StartGroupKeeps ==
  ASSUME BatchInv, StartGroup
  PROVE  BatchInv'
<1>1. /\ step = "group" /\ Ungrouped # {}
      /\ UNCHANGED <<signals, ran, results, canceled>>
  BY DEF StartGroup
<1>2. CASE Fails /\ UNCHANGED <<grouped, upTo, tool, outcome>>
  BY <1>1, <1>2, FailsKeeps
<1>3. CASE ~(Fails /\ UNCHANGED <<grouped, upTo, tool, outcome>>)
  <2>1. PICK end \in NextGroup :
             /\ \A i \in NextGroup : i <= end
             /\ upTo' = end /\ grouped' = end
    BY <1>3 DEF StartGroup
  <2>2. left' = left /\ Calls' = Calls
    BY <1>3 DEF StartGroup, Calls
  <2>3. NextGroup \subseteq Ungrouped /\ Ungrouped \subseteq Calls
    BY DEF NextGroup, Ungrouped
  <2>4. \A i \in Ungrouped : i > grouped /\ outcome[i] = "unknown" /\ tool[i] = "idle"
    <3>1. \A i \in Ungrouped : i \in Calls /\ i > grouped /\ outcome[i] = "unknown"
      BY DEF Ungrouped, BatchInv, StartedInv
    <3>2. \A i \in Calls : i > grouped => tool[i] = "idle"
      BY BatchFacts DEF BatchInv, StartedInv
    <3>3. QED
      BY <3>1, <3>2
  <2>5. /\ upTo = grouped /\ Len(results) <= grouped
        /\ end \in Calls /\ end > grouped /\ end \in Nat
    BY <1>1, <2>1, <2>3, <2>4, BatchFacts DEF BatchInv, ResultInv
  <2>6. Ungrouped' \subseteq Ungrouped /\ \A i \in Ungrouped' : i \notin NextGroup
    <3>1. \A i \in Ungrouped' : i \in Calls /\ i > end /\ left.plans[i] # "blocked"
      BY <2>1, <2>2 DEF Ungrouped
    <3>2. \A i \in Calls : i > end => i > grouped
      BY <2>5, BatchFacts
    <3>3. \A i \in Calls : i > end => i \notin NextGroup
      BY <2>1, <2>5, BatchFacts
    <3>4. QED
      BY <3>1, <3>2, <3>3 DEF Ungrouped
  <2>7. ResultInv'
    <3>1. step' \in {"commit", "collect"}
      BY <1>3 DEF StartGroup
    <3>2. Len(results) <= end
      BY <2>5, BatchFacts
    <3>3. QED
      BY <1>1, <2>1, <2>2, <3>1, <3>2 DEF BatchInv, ResultInv, EveryCallAnswered
  <2>8. \A i \in DOMAIN results : i \in Calls /\ i \notin NextGroup
    BY <2>3, <2>4, <2>5, BatchFacts DEF BatchInv, ResultInv
  <2>9. \A i \in Calls : i <= grouped => i <= end
    BY <2>5, BatchFacts
  <2>10. CASE canceled
    <3>1. /\ step' = "commit" /\ tool' = tool
          /\ outcome' = [i \in Calls |-> IF i \in NextGroup THEN "unrun" ELSE outcome[i]]
      BY <1>3, <2>10 DEF StartGroup
    <3>2. BatchTypes'
      BY <1>1, <2>1, <2>2, <2>5, <3>1, BatchFacts DEF BatchInv, BatchTypes
    <3>3. StartedInv'
      BY <1>1, <2>1, <2>2, <2>3, <2>4, <2>6, <2>9, <3>1, BatchFacts DEF BatchInv, StartedInv
    <3>4. QED
      BY <2>7, <3>2, <3>3 DEF BatchInv
  <2>11. CASE ~canceled
    <3>1. /\ step' = "collect" /\ outcome' = outcome
          /\ tool' = [i \in Calls |-> IF i \in NextGroup THEN "launched" ELSE tool[i]]
      BY <1>3, <2>11 DEF StartGroup
    <3>2. BatchTypes'
      BY <1>1, <2>1, <2>2, <2>5, <3>1, BatchFacts DEF BatchInv, BatchTypes
    <3>3. StartedInv'
      <4>1. \A i \in Calls : tool'[i] # "idle" => i <= grouped' /\ outcome'[i] # "unrun"
        <5>1. \A i \in NextGroup : i <= end /\ outcome[i] = "unknown"
          BY <2>1, <2>3, <2>4
        <5>2. \A i \in Calls : tool[i] # "idle" => i <= end /\ outcome[i] # "unrun"
          BY <2>9 DEF BatchInv, StartedInv
        <5>3. QED
          BY <2>1, <3>1, <5>1, <5>2
      <4>2. \A i \in Ungrouped' : outcome'[i] = "unknown"
        BY <2>4, <2>6, <3>1
      <4>3. \A i \in ran' \cup signals' : tool'[i] # "idle"
        BY <1>1, <3>1 DEF BatchInv, BatchTypes, StartedInv
      <4>4. \A i \in DOMAIN results' : ~results'[i].executed => tool'[i] = "idle"
        BY <1>1, <2>8, <3>1 DEF BatchInv, StartedInv
      <4>5. QED
        BY <2>2, <3>1, <4>1, <4>2, <4>3, <4>4 DEF StartedInv
    <3>4. QED
      BY <2>7, <3>2, <3>3 DEF BatchInv
  <2>12. QED
    BY <2>10, <2>11
<1>4. QED
  BY <1>2, <1>3

\* When every group was started, the results of the calls that are left are due.
LEMMA GroupsDoneKeeps ==
  ASSUME BatchInv, GroupsDone
  PROVE  BatchInv'
<1>1. /\ step = "group" /\ Ungrouped = {} /\ step' = "commit" /\ upTo' = Len(left.plans)
      /\ UNCHANGED <<grouped, tool, signals, outcome, ran, results, canceled, left>>
  BY DEF GroupsDone
<1>2. Calls' = Calls /\ Ungrouped' = Ungrouped
  BY <1>1, CallsStay
<1>3. BatchTypes'
  BY <1>1, <1>2, BatchFacts DEF BatchInv, BatchTypes
<1>4. ResultInv'
  BY <1>1, <1>2 DEF BatchInv, ResultInv, EveryCallAnswered
<1>5. StartedInv'
  BY <1>1, <1>2 DEF BatchInv, StartedInv
<1>6. QED
  BY <1>3, <1>4, <1>5 DEF BatchInv

\* A Tool that executes was started.
LEMMA ExecutesKeeps ==
  ASSUME BatchInv, NEW i \in Calls, Executes(i)
  PROVE  BatchInv'
<1>1. /\ tool[i] = "launched" /\ tool' = [tool EXCEPT ![i] = "executing"]
      /\ ran' = ran \cup {i}
      /\ UNCHANGED <<step, grouped, upTo, signals, outcome, results, canceled, left>>
  BY DEF Executes
<1>2. Calls' = Calls /\ Ungrouped' = Ungrouped
  BY <1>1, CallsStay
<1>3. BatchTypes'
  BY <1>1, <1>2 DEF BatchInv, BatchTypes
<1>4. ResultInv'
  BY <1>1, <1>2 DEF BatchInv, ResultInv, EveryCallAnswered
<1>5. /\ \A j \in Calls : tool'[j] # "idle" <=> tool[j] # "idle"
      /\ \A j \in DOMAIN results : tool[j] = "idle" => tool'[j] = "idle"
  BY <1>1 DEF BatchInv, BatchTypes
<1>6. StartedInv'
  BY <1>1, <1>2, <1>5 DEF BatchInv, BatchTypes, StartedInv
<1>7. QED
  BY <1>3, <1>4, <1>6 DEF BatchInv

\* A Tool that is over was started.
LEMMA FinishesKeeps ==
  ASSUME BatchInv, NEW i \in Calls, Finishes(i)
  PROVE  BatchInv'
<1>1. /\ tool[i] = "executing" /\ tool' = [tool EXCEPT ![i] = "over"]
      /\ signals' \subseteq signals \cup {i}
      /\ UNCHANGED <<step, grouped, upTo, ran, outcome, results, canceled, left>>
  BY DEF Finishes
<1>2. Calls' = Calls /\ Ungrouped' = Ungrouped
  BY <1>1, CallsStay
<1>3. BatchTypes'
  BY <1>1, <1>2 DEF BatchInv, BatchTypes
<1>4. ResultInv'
  BY <1>1, <1>2 DEF BatchInv, ResultInv, EveryCallAnswered
<1>5. /\ \A j \in Calls : tool'[j] # "idle" <=> tool[j] # "idle"
      /\ \A j \in DOMAIN results : tool[j] = "idle" => tool'[j] = "idle"
  BY <1>1 DEF BatchInv, BatchTypes
<1>6. StartedInv'
  BY <1>1, <1>2, <1>5 DEF BatchInv, BatchTypes, StartedInv
<1>7. QED
  BY <1>3, <1>4, <1>6 DEF BatchInv

\* A call that was started and is not waited for any more counts as run.
LEMMA NotWaitingRan ==
  ASSUME BatchInv, NEW j \in Calls, tool[j] # "idle", j \notin Waiting
  PROVE  outcome[j] = "run"
BY DEF BatchInv, BatchTypes, StartedInv, Waiting, Unknown

\* The result of a Tool of the group is taken; with the last one the group is left.
LEMMA CollectKeeps ==
  ASSUME BatchInv, NEW i \in Calls, Collect(i)
  PROVE  BatchInv'
<1>1. /\ step = "collect" /\ signals' \subseteq signals
      /\ outcome' = [outcome EXCEPT ![i] = "run"]
      /\ step' = IF Waiting = {i} THEN "commit" ELSE step
      /\ UNCHANGED <<grouped, upTo, tool, ran, results, canceled, left>>
  BY DEF Collect
<1>2. Calls' = Calls /\ Ungrouped' = Ungrouped
  BY <1>1, CallsStay
<1>3. BatchTypes'
  BY <1>1, <1>2 DEF BatchInv, BatchTypes
<1>4. ResultInv'
  BY <1>1, <1>2 DEF BatchInv, ResultInv, EveryCallAnswered
<1>5. i \notin Ungrouped
  <2>1. i <= grouped
    BY DEF Collect, BatchInv, StartedInv
  <2>2. QED
    BY <2>1, BatchFacts DEF Ungrouped
<1>6. \A j \in Calls : tool[j] # "idle" =>
        outcome'[j] # "unrun" /\ (step' # "collect" => outcome'[j] = "run")
  BY <1>1, NotWaitingRan DEF BatchInv, BatchTypes, StartedInv
<1>7. \A j \in Ungrouped : outcome'[j] = "unknown"
  BY <1>1, <1>5 DEF BatchInv, BatchTypes, StartedInv, Ungrouped
<1>8. StartedInv'
  BY <1>1, <1>2, <1>6, <1>7 DEF BatchInv, StartedInv
<1>9. QED
  BY <1>3, <1>4, <1>8 DEF BatchInv

\* Every Tool of the group that a canceled Run no longer waits for counts as run.
LEMMA CancelRestKeeps ==
  ASSUME BatchInv, CancelRest
  PROVE  BatchInv'
<1>1. /\ step = "collect" /\ signals' = {} /\ step' = "commit"
      /\ outcome' = [i \in Calls |-> IF i \in Waiting THEN "run" ELSE outcome[i]]
      /\ UNCHANGED <<grouped, upTo, tool, ran, results, canceled, left>>
  BY DEF CancelRest
<1>2. Calls' = Calls /\ Ungrouped' = Ungrouped
  BY <1>1, CallsStay
<1>3. BatchTypes'
  BY <1>1, <1>2 DEF BatchInv, BatchTypes
<1>4. ResultInv'
  BY <1>1, <1>2 DEF BatchInv, ResultInv, EveryCallAnswered
<1>5. \A j \in Calls : tool[j] # "idle" => outcome'[j] = "run"
  BY <1>1, NotWaitingRan
<1>6. \A j \in Ungrouped : j \in Calls /\ j \notin Waiting /\ outcome'[j] = "unknown"
  <2>1. \A j \in Ungrouped : j \in Calls /\ j \notin Waiting
    BY BatchFacts DEF BatchInv, StartedInv, Ungrouped, Waiting
  <2>2. QED
    BY <1>1, <2>1 DEF BatchInv, StartedInv
<1>7. StartedInv'
  BY <1>1, <1>2, <1>5, <1>6 DEF BatchInv, StartedInv
<1>8. QED
  BY <1>3, <1>4, <1>7 DEF BatchInv

\* What a Tool that counts as not run, outside collect, says: it was not started.
LEMMA NotRunIsIdle ==
  ASSUME BatchInv, step # "collect", NEW j \in Calls, outcome[j] # "run"
  PROVE  tool[j] = "idle"
BY DEF BatchInv, StartedInv

\* The next result is of the next call, and says whether its Tool was run.
LEMMA CommitResultKeeps ==
  ASSUME BatchInv, CommitResult
  PROVE  BatchInv'
<1>1. /\ step = "commit" /\ NextCall <= upTo
      /\ UNCHANGED <<grouped, upTo, tool, signals, outcome, ran, canceled>>
  BY DEF CommitResult
<1>2. CASE Fails /\ UNCHANGED results
  BY <1>1, <1>2, FailsKeeps
<1>3. CASE ~(Fails /\ UNCHANGED results)
  <2>1. PICK r : r = [call |-> NextCall, executed |-> outcome[NextCall] = "run"]
    OBVIOUS
  <2>2. results' = Append(results, r)
    BY <1>3, <2>1 DEF CommitResult
  <2>3. /\ left' \in BatchLoadRec /\ left'.plans = left.plans /\ step' \in {"commit", "close"}
    BY <1>1, <1>3, FailsIs DEF CommitResult, BatchInv, BatchTypes
  <2>4. Calls' = Calls /\ Ungrouped' = Ungrouped
    BY <1>1, <2>3, CallsStay
  <2>5. /\ NextCall = Len(results) + 1 /\ NextCall \in Nat /\ NextCall \in Calls
        /\ NextCall <= Len(left.plans)
    BY <1>1, BatchFacts DEF NextCall, BatchInv, BatchTypes
  <2>6. r \in ResultRec /\ r.call = NextCall /\ (~r.executed => outcome[NextCall] # "run")
    BY <2>1, <2>5 DEF ResultRec
  <2>7. /\ results' \in Seq(ResultRec) /\ Len(results') = NextCall
        /\ DOMAIN results' = 1 .. NextCall
        /\ \A j \in DOMAIN results : results'[j] = results[j]
        /\ results'[NextCall] = r
    BY <2>2, <2>5, <2>6 DEF BatchInv, BatchTypes
  <2>8. \A j \in DOMAIN results' : j \in DOMAIN results \/ j = NextCall
    BY <2>5, <2>7, BatchFacts
  <2>9. BatchTypes'
    BY <1>1, <2>3, <2>4, <2>7 DEF BatchInv, BatchTypes
  <2>10. ResultInv'
    <3>1. \A j \in DOMAIN results' : results'[j].call = j
      BY <2>6, <2>7, <2>8 DEF BatchInv, ResultInv
    <3>2. Len(results') <= Len(left'.plans) /\ Len(results') <= upTo' /\ step' # "over"
      BY <1>1, <2>3, <2>5, <2>7
    <3>3. upTo' = grouped' \/ Ungrouped' = {}
      BY <1>1, <2>4 DEF BatchInv, ResultInv
    <3>4. QED
      BY <3>1, <3>2, <3>3 DEF ResultInv, EveryCallAnswered
  <2>11. StartedInv'
    <3>1. ~r.executed => tool[NextCall] = "idle"
      BY <1>1, <2>5, <2>6, NotRunIsIdle
    <3>2. \A j \in DOMAIN results' : ~results'[j].executed => tool'[j] = "idle"
      BY <1>1, <2>7, <2>8, <3>1 DEF BatchInv, StartedInv
    <3>3. QED
      BY <1>1, <2>3, <2>4, <3>2 DEF BatchInv, StartedInv
  <2>12. QED
    BY <2>9, <2>10, <2>11 DEF BatchInv
<1>4. QED
  BY <1>2, <1>3

\* The batch is over once every call has its result.
LEMMA CommittedUpToKeeps ==
  ASSUME BatchInv, CommittedUpTo
  PROVE  BatchInv'
<1>1. /\ step = "commit" /\ NextCall > upTo
      /\ step' = IF upTo = Len(left.plans) /\ Ungrouped = {} THEN "over" ELSE "group"
      /\ UNCHANGED <<grouped, upTo, tool, signals, outcome, ran, results, canceled, left>>
  BY DEF CommittedUpTo
<1>2. Calls' = Calls /\ Ungrouped' = Ungrouped
  BY <1>1, CallsStay
<1>3. BatchTypes'
  BY <1>1, <1>2 DEF BatchInv, BatchTypes
<1>4. ResultInv'
  <2>1. step' = "over" => DOMAIN results = Calls
    BY <1>1, BatchFacts DEF NextCall, BatchInv, ResultInv
  <2>2. EveryCallAnswered'
    BY <1>1, <1>2, <2>1 DEF BatchInv, ResultInv, EveryCallAnswered
  <2>3. QED
    BY <1>1, <1>2, <2>2 DEF BatchInv, ResultInv
<1>5. StartedInv'
  BY <1>1, <1>2 DEF BatchInv, StartedInv
<1>6. QED
  BY <1>3, <1>4, <1>5 DEF BatchInv

\* The calls of a failed Run that are open get their results, in order.
LEMMA CloseOpenCallsKeeps ==
  ASSUME BatchInv, CloseOpenCalls
  PROVE  BatchInv'
<1>1. /\ step = "close" /\ step' = "over"
      /\ UNCHANGED <<grouped, upTo, tool, signals, outcome, ran, canceled>>
  BY DEF CloseOpenCalls
<1> DEFINE Closed(n) == [k \in 1 .. n |->
             [call |-> Len(results) + k, executed |-> outcome[Len(results) + k] = "run"]]
<1>2. PICK n \in 0 .. Len(left.plans) - Len(results) :
       /\ n < Len(left.plans) - Len(results) => left.breaks = "may"
       /\ results' = results \o Closed(n)
       /\ left' = IF n < Len(left.plans) - Len(results) THEN [left EXCEPT !.breaks = "did"] ELSE left
  BY DEF CloseOpenCalls
<1>3. n \in Nat /\ Len(results) + n <= Len(left.plans)
  BY <1>2, BatchFacts DEF BatchInv, ResultInv
<1>4. Closed(n) \in Seq(ResultRec) /\ Len(Closed(n)) = n
  <2>1. \A k \in 1 .. n : [call |-> Len(results) + k, executed |-> outcome[Len(results) + k] = "run"]
                            \in ResultRec
    BY <1>3, BatchFacts DEF ResultRec
  <2>2. QED
    BY <1>3, <2>1
<1>5. /\ results' \in Seq(ResultRec) /\ Len(results') = Len(results) + n
      /\ DOMAIN results' = 1 .. Len(results) + n
      /\ \A j \in DOMAIN results : results'[j] = results[j]
      /\ \A k \in 1 .. n : results'[Len(results) + k] = Closed(n)[k]
  BY <1>2, <1>3, <1>4, BatchFacts DEF BatchInv, BatchTypes
<1>6. \A j \in DOMAIN results' : j \in DOMAIN results
         \/ /\ j \in Calls
            /\ results'[j] = [call |-> j, executed |-> outcome[j] = "run"]
  <2>1. SUFFICES ASSUME NEW j \in DOMAIN results', j \notin DOMAIN results
                 PROVE  j \in Calls /\ results'[j] = [call |-> j, executed |-> outcome[j] = "run"]
    OBVIOUS
  <2>2. j \in Nat /\ j > Len(results) /\ j <= Len(results) + n
    BY <1>3, <1>5, <2>1, BatchFacts
  <2>3. PICK k \in 1 .. n : j = Len(results) + k
    <3>1. j - Len(results) \in 1 .. n /\ j = Len(results) + (j - Len(results))
      BY <1>3, <2>2, BatchFacts
    <3>2. QED
      BY <3>1
  <2>4. results'[j] = [call |-> j, executed |-> outcome[j] = "run"]
    BY <1>5, <2>3
  <2>5. QED
    BY <1>3, <2>2, <2>4, BatchFacts
<1>7. \A j \in DOMAIN results' : results'[j].call = j /\ (~results'[j].executed => tool[j] = "idle")
  <2>1. TAKE j \in DOMAIN results'
  <2>2. CASE j \in DOMAIN results
    BY <1>5, <2>2 DEF BatchInv, ResultInv, StartedInv
  <2>3. CASE j \notin DOMAIN results
    <3>1. /\ j \in Calls
          /\ results'[j] = [call |-> j, executed |-> outcome[j] = "run"]
      BY <1>6, <2>3
    <3>2. PICK b : b = (outcome[j] = "run")
      OBVIOUS
    <3>3. results'[j].call = j /\ results'[j].executed = b
      BY <3>1, <3>2
    <3>4. ~results'[j].executed => outcome[j] # "run"
      BY <3>2, <3>3
    <3>5. QED
      BY <1>1, <3>1, <3>3, <3>4, NotRunIsIdle
  <2>4. QED
    BY <2>2, <2>3
<1>8. /\ left' \in BatchLoadRec /\ left'.plans = left.plans
      /\ n < Len(left.plans) - Len(results) => left'.breaks = "did"
  BY <1>2 DEF BatchInv, BatchTypes, BatchLoadRec
<1>9. Calls' = Calls /\ Ungrouped' = Ungrouped
  BY <1>1, <1>8, CallsStay
<1>10. BatchTypes'
  BY <1>1, <1>5, <1>8, <1>9 DEF BatchInv, BatchTypes
<1>11. EveryCallAnswered'
  <2>1. CASE n < Len(left.plans) - Len(results)
    BY <1>7, <1>8, <2>1 DEF EveryCallAnswered
  <2>2. CASE ~(n < Len(left.plans) - Len(results))
    <3>1. DOMAIN results' = Calls'
      BY <1>3, <1>5, <1>9, <2>2, BatchFacts
    <3>2. QED
      BY <1>7, <3>1 DEF EveryCallAnswered
  <2>3. QED
    BY <2>1, <2>2
<1>12. ResultInv'
  <2>1. Len(results') <= Len(left'.plans)
    BY <1>3, <1>5, <1>8
  <2>2. QED
    BY <1>1, <1>7, <1>9, <1>11, <2>1 DEF BatchInv, ResultInv
<1>13. StartedInv'
  BY <1>1, <1>7, <1>9 DEF BatchInv, StartedInv
<1>14. QED
  BY <1>10, <1>12, <1>13 DEF BatchInv

\* Canceling the Run changes nothing else at once.
LEMMA CancelKeeps ==
  ASSUME BatchInv, Cancel \/ UNCHANGED batchVars
  PROVE  BatchInv'
<1>1. /\ canceled' \in BOOLEAN
      /\ UNCHANGED <<step, grouped, upTo, tool, signals, outcome, ran, results, left>>
  BY DEF Cancel, batchVars, BatchInv, BatchTypes
<1>2. Calls' = Calls /\ Ungrouped' = Ungrouped
  BY <1>1, CallsStay
<1>3. BatchTypes'
  BY <1>1, <1>2 DEF BatchInv, BatchTypes
<1>4. ResultInv'
  BY <1>1, <1>2 DEF BatchInv, ResultInv, EveryCallAnswered
<1>5. StartedInv'
  BY <1>1, <1>2 DEF BatchInv, StartedInv
<1>6. QED
  BY <1>3, <1>4, <1>5 DEF BatchInv

\* Every step of toolbatch.go keeps all of it, and so it always holds.
THEOREM BatchInvariance == ASSUME BatchAssumption PROVE BatchSpec => []BatchInv
<1>1. BatchInit => BatchInv
  BY BatchInvInit
<1>2. BatchInv /\ [BatchNext]_batchVars => BatchInv'
  <2>1. SUFFICES ASSUME BatchInv, [BatchNext]_batchVars PROVE BatchInv'
    OBVIOUS
  <2>2. CASE BatchGoes
    BY <2>1, <2>2, PreflightKeeps, StartGroupKeeps, GroupsDoneKeeps, CancelRestKeeps,
       CommitResultKeeps, CommittedUpToKeeps, CloseOpenCallsKeeps, ExecutesKeeps,
       FinishesKeeps, CollectKeeps DEF BatchGoes
  <2>3. CASE Cancel \/ UNCHANGED batchVars
    BY <2>1, <2>3, CancelKeeps
  <2>4. QED
    BY <2>1, <2>2, <2>3 DEF BatchNext
<1>3. QED
  BY <1>1, <1>2, PTL DEF BatchSpec

\* However a batch ends, for every plan of its calls and every number of workers, the
\* history has one result for each call of the reply, in their order, unless the
\* Transcript broke (runToolBatch, commitUpTo, closeOpenCalls).
THEOREM CallsAreAnswered == ASSUME BatchAssumption PROVE BatchSpec => []EveryCallAnswered
<1>1. BatchInv => EveryCallAnswered
  BY DEF BatchInv, ResultInv
<1>2. QED
  BY <1>1, BatchInvariance, PTL

\* A result that says its Tool was not executed is of a Tool that did not run and,
\* whatever goroutines are left behind, will not (cancelRest, closeOpenCalls).
THEOREM UnexecutedDidNotRun == ASSUME BatchAssumption PROVE BatchSpec => []NotExecutedDidNotRun
<1>1. BatchInv => NotExecutedDidNotRun
  <2>1. SUFFICES ASSUME BatchInv, NEW i \in DOMAIN results, ~results[i].executed,
                        results[i].call \in ran
                 PROVE  FALSE
    BY DEF NotExecutedDidNotRun
  <2>2. results[i].call = i /\ tool[i] = "idle" /\ tool[i] # "idle"
    BY <2>1 DEF BatchInv, ResultInv, StartedInv
  <2>3. QED
    BY <2>2
<1>2. QED
  BY <1>1, BatchInvariance, PTL
=============================================================================
