------------------------ MODULE SessionClaimsProofs ------------------------
(***************************************************************************)
(* Proofs about SessionClaims, for any set of names and any bounds: first  *)
(* what a takeover, a reclaim, a start, an end, a release and a create     *)
(* make of a good log, then the invariant that every copy of it is good.   *)
(***************************************************************************)
EXTENDS SessionClaims, TLAPS

-----------------------------------------------------------------------------
(* What makes a log good, and what may follow it.                          *)

\* The last Claim is at c, and every Entry from c on is its holder's.
ClaimedAt(log, c) ==
  /\ c \in DOMAIN log
  /\ log[c].kind = "claimed"
  /\ \A k \in DOMAIN log :
       k > c => /\ log[k].kind # "claimed"
                /\ log[k].by = log[c].by
                /\ log[k].n = log[c].n

OneWriter(log) ==
  \A k \in DOMAIN log : k > 1 /\ log[k].kind # "claimed" => log[k].by = log[k-1].by

Epochs(log) ==
  \A j, k \in DOMAIN log :
    /\ j < k
    /\ j > 1
    => \/ log[j].n < log[k].n
       \/ log[j].n = log[k].n /\ log[j].by = log[k].by

Runs(log) ==
  \A k \in DOMAIN log :
    /\ log[k].kind = "started" =>
         \A j \in 1..(k-1) :
           log[j].kind = "started" => \E m \in (j+1)..(k-1) : log[m].kind = "ended"
    /\ log[k].kind = "ended" =>
         \E j \in 1..(k-1) :
           /\ log[j].kind = "started"
           /\ \A m \in (j+1)..(k-1) : log[m].kind # "ended"

Good(log) ==
  /\ log \in Seq(Entry)
  /\ Len(log) > 1
  /\ \E c \in DOMAIN log : ClaimedAt(log, c)
  /\ OneWriter(log)
  /\ Epochs(log)
  /\ Runs(log)

\* t begins with s.
Begins(s, t) == Len(s) <= Len(t) /\ \A k \in 1..Len(s) : t[k] = s[k]

-----------------------------------------------------------------------------
(* Facts about logs.                                                       *)

\* The Entries the last holder, or a new claimant, may add to log.
Fits(en, log) ==
  /\ en \in Entry
  /\ \/ en = ClaimFor(en.by, log)
     \/ /\ en.kind \in {"released", "started", "ended"}
        /\ en.by = Holder(log)
        /\ en.n = ClaimEpoch(log)
        /\ en.kind = "started" => ~Running(log)
        /\ en.kind = "ended" => Running(log)

\* The holder and its Epoch are those of the last Entry.
LEMMA LastEntryIsTheHolders ==
  ASSUME NEW log \in Seq(Entry), NEW c \in DOMAIN log, ClaimedAt(log, c)
  PROVE  /\ LastClaim(log) = c
         /\ Holder(log) = log[Len(log)].by
         /\ ClaimEpoch(log) = log[Len(log)].n
         /\ Holder(log) \in Name
         /\ ClaimEpoch(log) \in Nat
<1>1. c \in 1..Len(log) /\ DOMAIN log = 1..Len(log)
  OBVIOUS
<1>2. LastClaim(log) = c
  <2> DEFINE P(k) == /\ log[k].kind = "claimed"
                     /\ \A m \in DOMAIN log : m > k => log[m].kind # "claimed"
  <2>1. P(c)
    BY DEF ClaimedAt
  <2>2. \A k \in DOMAIN log : P(k) => k = c
    BY <1>1 DEF ClaimedAt
  <2>3. QED
    BY <2>1, <2>2 DEF LastClaim
<1>3. log[Len(log)].by = log[c].by /\ log[Len(log)].n = log[c].n
  BY <1>1 DEF ClaimedAt
<1>4. log[c] \in Entry
  BY <1>1
<1>5. QED
  BY <1>2, <1>3, <1>4 DEF Holder, ClaimEpoch, Entry

\* A batch the store appends (Landed) keeps every earlier Entry at its place.
LEMMA AppendFacts ==
  ASSUME NEW log \in Seq(Entry), NEW en \in Entry
  PROVE  /\ Append(log, en) \in Seq(Entry)
         /\ Len(Append(log, en)) = Len(log) + 1
         /\ DOMAIN log = 1..Len(log)
         /\ DOMAIN Append(log, en) = 1..(Len(log) + 1)
         /\ \A k \in 1..Len(log) : Append(log, en)[k] = log[k]
         /\ Append(log, en)[Len(log) + 1] = en
         /\ Len(log) \in Nat
OBVIOUS

\* An Entry that fits keeps a log good, and says who holds it and whether a
\* Run is going.
LEMMA FitsKeepsGood ==
  ASSUME NEW log, Good(log), NEW en, Fits(en, log)
  PROVE  /\ Good(Append(log, en))
         /\ Holder(Append(log, en)) = en.by
         /\ ClaimEpoch(Append(log, en)) = en.n
<1> DEFINE new == Append(log, en)
           L == Len(log)
<1>1. log \in Seq(Entry) /\ en \in Entry
  BY DEF Good, Fits
<1>2. PICK c \in DOMAIN log : ClaimedAt(log, c)
  BY DEF Good
<1>3. /\ Holder(log) = log[L].by
      /\ ClaimEpoch(log) = log[L].n
      /\ LastClaim(log) = c
      /\ Holder(log) = log[c].by
      /\ ClaimEpoch(log) = log[c].n
  BY <1>1, <1>2, LastEntryIsTheHolders DEF Holder, ClaimEpoch
<1>4. /\ new \in Seq(Entry) /\ Len(new) = L + 1
      /\ DOMAIN log = 1..L /\ DOMAIN new = 1..(L + 1)
      /\ \A k \in 1..L : new[k] = log[k]
      /\ new[L + 1] = en
      /\ L \in Nat /\ L > 1
  BY <1>1, AppendFacts DEF Good
<1>0. \A k \in 1..L : log[k].n \in Nat
  <2>1. \A k \in 1..L : log[k] \in Entry
    BY <1>1
  <2>2. QED
    BY <2>1 DEF Entry
<1> HIDE DEF new, L
<1>5. en.kind = "claimed" => en = ClaimFor(en.by, log)
  BY DEF Fits
<1>6. en.kind # "claimed" => /\ en.by = log[L].by
                             /\ en.n = log[L].n
                             /\ en.kind = "started" => ~Running(log)
                             /\ en.kind = "ended" => Running(log)
  BY <1>3 DEF Fits, ClaimFor, EntryOf
<1>7. \/ en.n = log[L].n /\ en.by = log[L].by
      \/ en.n = log[L].n + 1
  BY <1>3, <1>5, <1>6 DEF ClaimFor, EntryOf
<1>8. \E d \in DOMAIN new : ClaimedAt(new, d)
  <2>1. CASE en.kind = "claimed"
    BY <2>1, <1>4 DEF ClaimedAt
  <2>2. CASE en.kind # "claimed"
    <3>1. en.by = log[c].by /\ en.n = log[c].n
      BY <2>2, <1>6, <1>3
    <3>2. ClaimedAt(new, c)
      BY <2>2, <3>1, <1>2, <1>4 DEF ClaimedAt
    <3>3. QED
      BY <3>2, <1>2, <1>4
  <2>3. QED
    BY <2>1, <2>2
<1>9. OneWriter(new)
  BY <1>4, <1>6 DEF Good, OneWriter
<1>10. Epochs(new)
  <2> SUFFICES ASSUME NEW j \in DOMAIN new, NEW k \in DOMAIN new, j < k, j > 1
               PROVE  \/ new[j].n < new[k].n
                      \/ new[j].n = new[k].n /\ new[j].by = new[k].by
    BY DEF Epochs
  <2>1. CASE k \in 1..L
    BY <2>1, <1>4 DEF Good, Epochs
  <2>2. CASE k = L + 1 /\ j = L
    BY <2>2, <1>4, <1>7, <1>0
  <2>3. CASE k = L + 1 /\ j < L
    <3>1. \/ log[j].n < log[L].n
          \/ log[j].n = log[L].n /\ log[j].by = log[L].by
      BY <2>3, <1>4 DEF Good, Epochs
    <3>2. log[j].n \in Nat /\ log[L].n \in Nat
      BY <2>3, <1>4, <1>0
    <3>3. QED
      BY <2>3, <3>1, <3>2, <1>4, <1>7
  <2>4. QED
    BY <2>1, <2>2, <2>3, <1>4
<1>11. Runs(new)
  <2> SUFFICES ASSUME NEW k \in DOMAIN new
               PROVE  /\ new[k].kind = "started" =>
                           \A j \in 1..(k-1) :
                             new[j].kind = "started" =>
                               \E m \in (j+1)..(k-1) : new[m].kind = "ended"
                      /\ new[k].kind = "ended" =>
                           \E j \in 1..(k-1) :
                             /\ new[j].kind = "started"
                             /\ \A m \in (j+1)..(k-1) : new[m].kind # "ended"
    BY DEF Runs
  <2>1. CASE k \in 1..L
    <3>1. /\ log[k].kind = "started" =>
               \A j \in 1..(k-1) :
                 log[j].kind = "started" =>
                   \E m \in (j+1)..(k-1) : log[m].kind = "ended"
          /\ log[k].kind = "ended" =>
               \E j \in 1..(k-1) :
                 /\ log[j].kind = "started"
                 /\ \A m \in (j+1)..(k-1) : log[m].kind # "ended"
      BY <2>1, <1>4 DEF Good, Runs
    <3>2. \A m \in 1..k : new[m] = log[m]
      BY <2>1, <1>4
    <3>3. QED
      BY <2>1, <3>1, <3>2
  <2>2. CASE k = L + 1
    <3>1. new[k] = en /\ k - 1 = L /\ \A m \in 1..L : new[m] = log[m]
      BY <2>2, <1>4
    <3>2. ASSUME en.kind = "started", NEW j \in 1..L, log[j].kind = "started"
          PROVE  \E m \in (j+1)..L : log[m].kind = "ended"
      BY <3>2, <1>4, <1>6 DEF Running
    <3>3. ASSUME en.kind = "ended"
          PROVE  \E j \in 1..L : /\ log[j].kind = "started"
                                 /\ \A m \in (j+1)..L : log[m].kind # "ended"
      BY <3>3, <1>4, <1>6 DEF Running
    <3>4. QED
      BY <3>1, <3>2, <3>3, <1>4
  <2>3. QED
    BY <2>1, <2>2, <1>4
<1>12. Good(new)
  BY <1>4, <1>8, <1>9, <1>10, <1>11 DEF Good
<1>13. Holder(new) = en.by /\ ClaimEpoch(new) = en.n
  BY <1>4, <1>8, LastEntryIsTheHolders
<1>14. QED
  BY <1>12, <1>13 DEF new

\* Running after one more Entry.
LEMMA RunningAfter ==
  ASSUME NEW log \in Seq(Entry), NEW en \in Entry
  PROVE  Running(Append(log, en)) <=>
           \/ en.kind = "started"
           \/ en.kind # "ended" /\ Running(log)
<1> DEFINE new == Append(log, en)
           L == Len(log)
<1>1. /\ DOMAIN log = 1..L /\ DOMAIN new = 1..(L + 1)
      /\ \A k \in 1..L : new[k] = log[k]
      /\ new[L + 1] = en
      /\ L \in Nat
  BY AppendFacts
<1> HIDE DEF new, L
<1>2. en.kind = "started" => Running(new)
  BY <1>1 DEF Running
<1>3. en.kind # "ended" /\ Running(log) => Running(new)
  BY <1>1 DEF Running
<1>4. ASSUME Running(new), en.kind # "started"
      PROVE  en.kind # "ended" /\ Running(log)
  <2>1. PICK k \in DOMAIN new : /\ new[k].kind = "started"
                                /\ \A m \in DOMAIN new : m > k => new[m].kind # "ended"
    BY <1>4 DEF Running
  <2>2. k \in 1..L
    BY <2>1, <1>1, <1>4
  <2>3. QED
    BY <2>1, <2>2, <1>1 DEF Running
<1>5. QED
  BY <1>2, <1>3, <1>4 DEF new

\* A batch of one or two Entries.
LEMMA Batches ==
  ASSUME NEW log \in Seq(Entry), NEW a \in Entry, NEW b \in Entry
  PROVE  /\ log \o <<a>> = Append(log, a)
         /\ log \o <<a, b>> = Append(Append(log, a), b)
<1>1. log \o <<a>> = Append(log, a)
  OBVIOUS
<1>2. log \o <<a, b>> = Append(Append(log, a), b)
  OBVIOUS
<1>3. QED
  BY <1>1, <1>2

\* Nothing is claimed in a good log but by its holder: what ClaimFor returns.
LEMMA GoodHolder ==
  ASSUME NEW log, Good(log)
  PROVE  Holder(log) \in Name /\ ClaimEpoch(log) \in Nat /\ log # <<>> /\ log \in Seq(Entry)
BY LastEntryIsTheHolders DEF Good

\* A takeover leaves a good log under the new holder, with no Run going.
LEMMA TakeOverGood ==
  ASSUME NEW log, Good(log), NEW i \in Name
  PROVE  /\ TakeOver(i, log) \in Seq(Entry)
         /\ Good(log \o TakeOver(i, log))
         /\ Holder(log \o TakeOver(i, log)) = i
         /\ ~Running(log \o TakeOver(i, log))
<1> DEFINE a == ClaimFor(i, log)
           b == EntryOf("ended", i, a.n)
           one == Append(log, a)
<1>1. /\ log \in Seq(Entry)
      /\ a \in Entry /\ a.by = i /\ a.kind = "claimed" /\ a = ClaimFor(a.by, log)
      /\ b \in Entry /\ b.by = i /\ b.kind = "ended" /\ b.n = a.n
  <2>1. log \in Seq(Entry) /\ ClaimEpoch(log) \in Nat
    BY GoodHolder
  <2>2. a \in Entry /\ a.by = i /\ a.kind = "claimed" /\ a.n \in Nat
    BY <2>1 DEF ClaimFor, EntryOf, Entry, Kind
  <2>3. b \in Entry /\ b.by = i /\ b.kind = "ended" /\ b.n = a.n
    BY <2>2 DEF EntryOf, Entry, Kind
  <2>4. QED
    BY <2>1, <2>2, <2>3
<1>2. log \o <<a>> = one /\ log \o <<a, b>> = Append(one, b)
  BY <1>1, Batches
<1> HIDE DEF a, b, one
<1>3. Fits(a, log)
  BY <1>1 DEF Fits
<1>4. /\ Good(one) /\ Holder(one) = i /\ ClaimEpoch(one) = a.n
      /\ Running(one) <=> Running(log)
      /\ one \in Seq(Entry)
  BY <1>1, <1>3, FitsKeepsGood, RunningAfter, AppendFacts DEF one
<1>5. CASE Running(log)
  <2>1. TakeOver(i, log) = <<a, b>>
    BY <1>5 DEF TakeOver, a, b
  <2>2. Fits(b, one)
    BY <1>1, <1>4, <1>5 DEF Fits
  <2>3. Good(Append(one, b)) /\ Holder(Append(one, b)) = i
    BY <1>1, <1>4, <2>2, FitsKeepsGood
  <2>4. ~Running(Append(one, b))
    BY <1>1, <1>4, RunningAfter
  <2>5. <<a, b>> \in Seq(Entry)
    BY <1>1
  <2>6. log \o TakeOver(i, log) = Append(one, b)
    BY <1>2, <2>1
  <2>7. QED
    BY <2>1, <2>3, <2>4, <2>5, <2>6
<1>6. CASE ~Running(log)
  <2>1. TakeOver(i, log) = <<a>>
    BY <1>6 DEF TakeOver, a
  <2>2. <<a>> \in Seq(Entry)
    BY <1>1
  <2>3. log \o TakeOver(i, log) = one
    BY <1>2, <2>1
  <2>4. QED
    BY <1>4, <1>6, <2>1, <2>2, <2>3
<1>7. QED
  BY <1>5, <1>6

\* So does the Claim again of a Session at rest.
LEMMA ReclaimGood ==
  ASSUME NEW log, Good(log), NEW i \in Name, ~Running(log)
  PROVE  /\ Reclaim(i, log) \in Seq(Entry)
         /\ Good(log \o Reclaim(i, log))
         /\ Holder(log \o Reclaim(i, log)) = i
         /\ ~Running(log \o Reclaim(i, log))
<1>1. Reclaim(i, log) = TakeOver(i, log)
  BY DEF Reclaim, TakeOver
<1>2. QED
  BY <1>1, TakeOverGood

\* The holder's own steps: a Run starts when none is going, and ends once.
LEMMA StepGood ==
  ASSUME NEW log, Good(log), NEW kind \in {"released", "started", "ended"},
         kind = "started" => ~Running(log),
         kind = "ended" => Running(log),
         kind = "released" => ~Running(log),
         NEW i \in Name, Holder(log) = i
  PROVE  /\ Step(kind, i, log) \in Seq(Entry)
         /\ Good(log \o Step(kind, i, log))
         /\ Holder(log \o Step(kind, i, log)) = i
         /\ Running(log \o Step(kind, i, log)) <=> kind = "started"
<1> DEFINE a == EntryOf(kind, i, ClaimEpoch(log))
<1>1. /\ log \in Seq(Entry)
      /\ a \in Entry /\ a.by = i /\ a.kind = kind /\ a.n = ClaimEpoch(log)
  BY GoodHolder DEF EntryOf, Entry, Kind
<1>2. Step(kind, i, log) = <<a>> /\ log \o <<a>> = Append(log, a)
  BY <1>1, Batches DEF Step
<1> HIDE DEF a
<1>3. Fits(a, log)
  BY <1>1 DEF Fits
<1>4. Good(Append(log, a)) /\ Holder(Append(log, a)) = i
  BY <1>1, <1>3, FitsKeepsGood
<1>5. Running(Append(log, a)) <=> kind = "started"
  BY <1>1, RunningAfter
<1>6. <<a>> \in Seq(Entry)
  BY <1>1
<1>7. log \o Step(kind, i, log) = Append(log, a)
  BY <1>2
<1>8. QED
  BY <1>2, <1>4, <1>5, <1>6, <1>7

\* A Record starts good, held by its creator.
LEMMA StartGood ==
  ASSUME NEW i \in Name, NEW e \in Nat, NEW idle \in BOOLEAN
  PROVE  /\ StartWriting(i, e, idle) \in Seq(Entry)
         /\ Good(<<>> \o StartWriting(i, e, idle))
         /\ Holder(<<>> \o StartWriting(i, e, idle)) = i
         /\ ~Running(<<>> \o StartWriting(i, e, idle))
<1> DEFINE a == EntryOf("created", i, e)
           b == EntryOf("claimed", i, 1)
           c == EntryOf("released", i, 1)
           two == <<a, b>>
<1>1. /\ a \in Entry /\ a.kind = "created"
      /\ b \in Entry /\ b.kind = "claimed" /\ b.by = i /\ b.n = 1 /\ b.by = a.by
      /\ c \in Entry /\ c.kind = "released" /\ c.by = i /\ c.n = 1
  BY DEF EntryOf, Entry, Kind
<1> HIDE DEF a, b, c
<1>2. two \in Seq(Entry) /\ Len(two) = 2 /\ two[1] = a /\ two[2] = b /\ DOMAIN two = 1..2
  BY <1>1
<1>3. <<>> \o two = two /\ <<>> \o Append(two, c) = Append(two, c)
  BY <1>1, <1>2
<1> HIDE DEF two
<1>4. ClaimedAt(two, 2)
  BY <1>1, <1>2 DEF ClaimedAt
<1>5. OneWriter(two) /\ Epochs(two) /\ Runs(two) /\ ~Running(two)
  BY <1>1, <1>2 DEF OneWriter, Epochs, Runs, Running
<1>6. Good(two)
  BY <1>2, <1>4, <1>5 DEF Good
<1>7. Holder(two) = i /\ ClaimEpoch(two) = 1
  BY <1>1, <1>2, <1>4, LastEntryIsTheHolders
<1>8. Fits(c, two)
  BY <1>1, <1>7 DEF Fits
<1>9. /\ Good(Append(two, c)) /\ Holder(Append(two, c)) = i
      /\ ~Running(Append(two, c)) /\ Append(two, c) \in Seq(Entry)
  BY <1>1, <1>2, <1>5, <1>6, <1>8, FitsKeepsGood, RunningAfter
<1>10. two \o <<c>> = Append(two, c) /\ two \o <<>> = two
  BY <1>1, <1>2, Batches
<1>11. CASE idle
  <2>1. StartWriting(i, e, idle) = Append(two, c)
    BY <1>10, <1>11 DEF StartWriting, two, a, b, c
  <2>2. QED
    BY <2>1, <1>3, <1>9
<1>12. CASE ~idle
  <2>1. StartWriting(i, e, idle) = two
    BY <1>10, <1>12 DEF StartWriting, two, a, b
  <2>2. QED
    BY <2>1, <1>2, <1>3, <1>5, <1>6, <1>7
<1>13. QED
  BY <1>11, <1>12

\* Beginnings of a log.
LEMMA BeginsFacts ==
  ASSUME NEW s \in Seq(Entry), NEW t \in Seq(Entry)
  PROVE  /\ Begins(s, s)
         /\ Begins(s, s \o t)
         /\ Begins(s, t) /\ Len(s) = Len(t) => s = t
         /\ \A u \in Seq(Entry) : Begins(s, t) /\ Begins(t, u) => Begins(s, u)
<1>1. Begins(s, s) /\ Begins(s, s \o t)
  BY DEF Begins
<1>2. Begins(s, t) /\ Len(s) = Len(t) => s = t
  BY DEF Begins
<1>3. ASSUME NEW u \in Seq(Entry), Begins(s, t), Begins(t, u)
      PROVE  Begins(s, u)
  BY <1>3 DEF Begins
<1>4. QED
  BY <1>1, <1>2, <1>3

-----------------------------------------------------------------------------
(* The inductive invariant, as predicates of the values they are about: x  *)
(* is a write or a Writer, r the Record, n the number of Record epochs     *)
(* handed out and rw the rows.                                             *)

\* A copy of the log is good, and a beginning of the Record it is a copy of
\* for as long as that Record exists.
CopyOK(x, r, n, rw) ==
  /\ x.epoch \in 0..n
  /\ x.mem # <<>> => /\ x.epoch # 0
                     /\ Good(x.mem)
                     /\ rw[Holder(x.mem)] # "none"
                     /\ r.epoch = x.epoch => Begins(x.mem, r.log)

\* Another's busy Session is claimed only when its holder is dead for good.
MayClaim(i, x, rw) ==
  \/ Holder(x.mem) = i
  \/ Busy(x.mem) => rw[Holder(x.mem)] = "dead"

\* What i's write x, should it land, makes of the log it was built from.
SendOK(i, x, rw) ==
  /\ x.epoch # 0
  /\ Good(x.mem \o x.batch)
  /\ Holder(x.mem \o x.batch) = i
  /\ rw[i] # "none"
  /\ x.mem # <<>> => MayClaim(i, x, rw)

\* What a Writer v of i knows of its copy, at each place of its life.
WriterOK(i, v, rw) ==
  /\ v.pc = "idle" => v.mem = <<>> /\ v.epoch = 0
  /\ v.pc \notin {"idle", "writing"} => v.mem # <<>>
  /\ v.pc # "idle" => rw[i] # "none"
  /\ v.pc \in {"warm", "judged", "held", "done", "running"} =>
       /\ Holder(v.mem) = i
       /\ Running(v.mem) <=> v.pc = "running"
  /\ v.pc = "checked" => MayClaim(i, v, rw)
  /\ v.pc = "writing" =>
       /\ SendOK(i, v, rw)
       /\ v.then \in {"held", "running", "done", "warm"}
       /\ Running(v.mem \o v.batch) <=> v.then = "running"

\* Rows are created once and die for good.
RowsKept(rw, rw2) ==
  \A i \in Name :
    /\ rw[i] # "none" => rw2[i] # "none"
    /\ rw[i] = "dead" => rw2[i] = "dead"

\* A create under way.
Creating(i) == w[i].pc = "writing" /\ w[i].mem = <<>>

RecordOK ==
  /\ rec.epoch \in 0..records
  /\ rec.epoch # 0 => Good(rec.log) /\ rows[Holder(rec.log)] # "none"

WritersOK == \A i \in Name : CopyOK(w[i], rec, records, rows) /\ WriterOK(i, w[i], rows)

FlightOK == \A x \in flight : CopyOK(x, rec, records, rows) /\ SendOK(x.by, x, rows)

\* The Record epoch of a create under way is nobody else's.
CreatesAreFresh ==
  /\ \A i \in Name : Creating(i) =>
       /\ rec.epoch # w[i].epoch
       /\ \A j \in Name \ {i} : w[j].epoch # w[i].epoch
       /\ \A y \in flight : y.epoch # w[i].epoch
  /\ \A x \in flight : x.mem = <<>> =>
       /\ rec.epoch # x.epoch
       /\ \A j \in Name : w[j].epoch # x.epoch
       /\ \A y \in flight \ {x} : y.epoch # x.epoch

Inv ==
  /\ TypeOK
  /\ RecordOK
  /\ WritersOK
  /\ FlightOK
  /\ CreatesAreFresh

-----------------------------------------------------------------------------
(* Copies and Writers through the steps of others.                         *)

\* A copy survives any growth of its Record, its deletion, and the creation of
\* a Record with another epoch.
LEMMA CopyKept ==
  ASSUME NEW x, NEW r, NEW r2, NEW n, NEW rw, CopyOK(x, r, n, rw),
         r.log \in Seq(Entry), r2.log \in Seq(Entry),
         r2.epoch = x.epoch => r.epoch = x.epoch /\ Begins(r.log, r2.log)
  PROVE  CopyOK(x, r2, n, rw)
<1>1. ASSUME x.mem # <<>>, r2.epoch = x.epoch
      PROVE  Begins(x.mem, r2.log)
  <2>1. Begins(x.mem, r.log) /\ x.mem \in Seq(Entry)
    BY <1>1, GoodHolder DEF CopyOK
  <2>2. QED
    BY <1>1, <2>1, BeginsFacts
<1>2. QED
  BY <1>1 DEF CopyOK

\* What a Writer or a write under way relies on survives the rows' steps.
LEMMA WriterKept ==
  ASSUME NEW i \in Name, NEW x, NEW rw, NEW rw2, RowsKept(rw, rw2),
         x.mem # <<>> => Holder(x.mem) \in Name
  PROVE  /\ SendOK(i, x, rw) => SendOK(i, x, rw2)
         /\ WriterOK(i, x, rw) => WriterOK(i, x, rw2)
<1>1. x.mem # <<>> /\ MayClaim(i, x, rw) => MayClaim(i, x, rw2)
  BY DEF MayClaim, RowsKept
<1>2. SendOK(i, x, rw) => SendOK(i, x, rw2)
  BY <1>1 DEF SendOK, RowsKept
<1>3. WriterOK(i, x, rw) => WriterOK(i, x, rw2)
  BY <1>1, <1>2 DEF WriterOK, RowsKept
<1>4. QED
  BY <1>2, <1>3

\* A name without a Writer (NoWriter) meets every demand on a Writer.
LEMMA NoWriterOK ==
  ASSUME NEW i \in Name, NEW r, NEW n \in Nat, NEW rw
  PROVE  NoWriter \in Writer /\ CopyOK(NoWriter, r, n, rw) /\ WriterOK(i, NoWriter, rw)
<1>1. NoWriter \in Writer
  BY DEF NoWriter, Writer, Pc, Use
<1>2. CopyOK(NoWriter, r, n, rw)
  BY DEF NoWriter, CopyOK
<1>3. WriterOK(i, NoWriter, rw)
  BY DEF NoWriter, WriterOK
<1>4. QED
  BY <1>1, <1>2, <1>3

-----------------------------------------------------------------------------
(* The invariant through the kinds of steps the actions are made of.       *)

\* Who holds a copy.
LEMMA CopyHolder ==
  ASSUME NEW x, NEW r, NEW n, NEW rw, CopyOK(x, r, n, rw), x.mem # <<>>
  PROVE  Good(x.mem) /\ Holder(x.mem) \in Name
BY GoodHolder DEF CopyOK

\* What is kept of a copy when the Record stays or goes.
LEMMA CopyStays ==
  ASSUME NEW x, NEW r, NEW r2 \in {r, NoRecord}, NEW n \in Nat, NEW rw, NEW rw2,
         CopyOK(x, r, n, rw), RowsKept(rw, rw2)
  PROVE  CopyOK(x, r2, n, rw2)
BY GoodHolder DEF CopyOK, RowsKept, NoRecord

\* A step of one Writer that leaves the Record, or deletes it, and that may
\* let rows move on and writes under way get lost.
LEMMA WriterStep ==
  ASSUME Inv, NEW i \in Name, NEW v \in Writer,
         w' = [w EXCEPT ![i] = v],
         rec' \in {rec, NoRecord}, records' = records, flight' \subseteq flight,
         RowsKept(rows, rows'), rows' \in [Name -> {"none", "alive", "dead"}],
         proc' \in [Name -> {"up", "lapsed", "crashed"}],
         marked' \subseteq Name, faults' \in Nat,
         CopyOK(v, rec, records, rows), WriterOK(i, v, rows),
         v.epoch \in {0, rec.epoch, w[i].epoch},
         v.pc = "writing" /\ v.mem = <<>> => v = w[i]
  PROVE  Inv'
<1>1. w \in [Name -> Writer] /\ w' \in [Name -> Writer]
  BY DEF Inv, TypeOK
<1>2. w'[i] = v /\ \A j \in Name \ {i} : w'[j] = w[j]
  BY <1>1
<1>3. TypeOK'
  <2>1. /\ NoRecord \in [epoch : Nat, log : Seq(Entry)]
        /\ NoRecord.epoch = 0 <=> NoRecord.log = <<>>
    BY DEF NoRecord
  <2>2. /\ rec \in [epoch : Nat, log : Seq(Entry)]
        /\ rec.epoch = 0 <=> rec.log = <<>>
    BY DEF Inv, TypeOK
  <2>3. /\ rec' \in [epoch : Nat, log : Seq(Entry)]
        /\ rec'.epoch = 0 <=> rec'.log = <<>>
    BY <2>1, <2>2
  <2>4. QED
    BY <1>1, <2>3 DEF Inv, TypeOK
<1>4. RecordOK'
  <2>1. rec.epoch # 0 => Holder(rec.log) \in Name
    BY GoodHolder DEF Inv, RecordOK
  <2>2. CASE rec' = rec
    BY <2>1, <2>2 DEF Inv, RecordOK, RowsKept
  <2>3. CASE rec' = NoRecord
    BY <2>3 DEF Inv, TypeOK, RecordOK, NoRecord
  <2>4. QED
    BY <2>2, <2>3
<1>5. ASSUME NEW x, CopyOK(x, rec, records, rows)
      PROVE  CopyOK(x, rec', records', rows')
  BY SMTT(30), <1>5, CopyStays DEF Inv, TypeOK
<1>6. WritersOK'
  <2> SUFFICES ASSUME NEW j \in Name
               PROVE  CopyOK(w'[j], rec', records', rows') /\ WriterOK(j, w'[j], rows')
    BY DEF WritersOK
  <2>1. CopyOK(w'[j], rec, records, rows) /\ WriterOK(j, w'[j], rows)
    BY <1>2 DEF Inv, WritersOK
  <2>2. CopyOK(w'[j], rec', records', rows')
    BY <2>1, <1>5
  <2>3. WriterOK(j, w'[j], rows')
    BY <2>1, CopyHolder, WriterKept
  <2>4. QED
    BY <2>2, <2>3
<1>7. FlightOK'
  <2> SUFFICES ASSUME NEW x \in flight'
               PROVE  CopyOK(x, rec', records', rows') /\ SendOK(x.by, x, rows')
    BY DEF FlightOK
  <2>1. CopyOK(x, rec, records, rows) /\ SendOK(x.by, x, rows)
    BY DEF Inv, FlightOK
  <2>2. x.by \in Name
    BY DEF Inv, TypeOK, Write
  <2>3. CopyOK(x, rec', records', rows')
    BY <2>1, <1>5
  <2>4. SendOK(x.by, x, rows')
    BY <2>1, <2>2, CopyHolder, WriterKept
  <2>5. QED
    BY <2>3, <2>4
<1>8. CreatesAreFresh'
  <2>1. \A e : e # 0 /\ e # rec.epoch => rec'.epoch # e
    BY DEF NoRecord
  <2>2. \A e : e # 0 /\ e # rec.epoch /\ e # w[i].epoch => w'[i].epoch # e
    BY <1>2
  <2>3. ASSUME NEW j \in Name, w'[j].pc = "writing", w'[j].mem = <<>>
        PROVE  /\ rec'.epoch # w'[j].epoch
               /\ \A k \in Name \ {j} : w'[k].epoch # w'[j].epoch
               /\ \A y \in flight' : y.epoch # w'[j].epoch
    <3>1. w'[j] = w[j] /\ Creating(j)
      BY <2>3, <1>2 DEF Creating
    <3>2. /\ rec.epoch # w[j].epoch
          /\ \A k \in Name \ {j} : w[k].epoch # w[j].epoch
          /\ \A y \in flight : y.epoch # w[j].epoch
      BY <3>1 DEF Inv, CreatesAreFresh
    <3>3. w[j].epoch # 0
      BY <3>1 DEF Inv, WritersOK, WriterOK, SendOK, Creating
    <3>4. rec'.epoch # w[j].epoch
      BY <2>1, <3>2, <3>3
    <3>5. \A k \in Name \ {j} : w'[k].epoch # w[j].epoch
      BY <1>2, <2>2, <3>2, <3>3
    <3>6. QED
      BY <3>1, <3>2, <3>4, <3>5
  <2>4. ASSUME NEW x \in flight', x.mem = <<>>
        PROVE  /\ rec'.epoch # x.epoch
               /\ \A k \in Name : w'[k].epoch # x.epoch
               /\ \A y \in flight' \ {x} : y.epoch # x.epoch
    <3>1. /\ rec.epoch # x.epoch
          /\ \A k \in Name : w[k].epoch # x.epoch
          /\ \A y \in flight \ {x} : y.epoch # x.epoch
      BY <2>4 DEF Inv, CreatesAreFresh
    <3>2. x.epoch # 0
      BY DEF Inv, FlightOK, SendOK
    <3>3. rec'.epoch # x.epoch
      BY <2>1, <3>1, <3>2
    <3>4. \A k \in Name : w'[k].epoch # x.epoch
      BY <1>2, <2>2, <3>1, <3>2
    <3>5. QED
      BY <3>1, <3>3, <3>4
  <2>5. QED
    BY <2>3, <2>4 DEF CreatesAreFresh, Creating
<1>9. QED
  BY <1>3, <1>4, <1>6, <1>7, <1>8 DEF Inv

\* A Writer that is dropped.
LEMMA WriterGone ==
  ASSUME Inv, NEW i \in Name,
         w' = [w EXCEPT ![i] = NoWriter],
         rec' \in {rec, NoRecord}, records' = records, flight' \subseteq flight,
         RowsKept(rows, rows'), rows' \in [Name -> {"none", "alive", "dead"}],
         proc' \in [Name -> {"up", "lapsed", "crashed"}],
         marked' \subseteq Name, faults' \in Nat
  PROVE  Inv'
<1>1. records \in Nat
  BY DEF Inv, TypeOK
<1>2. /\ NoWriter \in Writer
      /\ CopyOK(NoWriter, rec, records, rows)
      /\ WriterOK(i, NoWriter, rows)
  BY <1>1, NoWriterOK
<1>3. NoWriter.epoch = 0 /\ NoWriter.pc # "writing"
  BY DEF NoWriter
<1>4. QED
  BY <1>2, <1>3, WriterStep

\* A step that leaves every Writer as it is.
LEMMA WritersRest ==
  ASSUME Inv, NEW i \in Name,
         w' = w, rec' = rec, records' = records, flight' \subseteq flight,
         RowsKept(rows, rows'), rows' \in [Name -> {"none", "alive", "dead"}],
         proc' \in [Name -> {"up", "lapsed", "crashed"}],
         marked' \subseteq Name, faults' \in Nat
  PROVE  Inv'
<1>1. w[i] \in Writer /\ w' = [w EXCEPT ![i] = w[i]]
  BY DEF Inv, TypeOK
<1>2. CopyOK(w[i], rec, records, rows) /\ WriterOK(i, w[i], rows)
  BY DEF Inv, WritersOK
<1>3. QED
  BY <1>1, <1>2, WriterStep

\* The fences: a write the store takes was built from the log it holds.
LEMMA Fenced ==
  ASSUME Inv, NEW x, CopyOK(x, rec, records, rows), Accepts(x)
  PROVE  x.mem = rec.log
<1>1. rec.log \in Seq(Entry) /\ (rec.epoch = 0 => rec.log = <<>>)
  BY DEF Inv, TypeOK
<1>2. CASE x.mem = <<>>
  BY <1>1, <1>2 DEF Accepts
<1>3. CASE x.mem # <<>>
  <2>1. rec.epoch = x.epoch /\ Len(rec.log) = Len(x.mem)
    BY <1>3 DEF Accepts
  <2>2. Begins(x.mem, rec.log) /\ x.mem \in Seq(Entry)
    BY <1>3, <2>1, GoodHolder DEF CopyOK
  <2>3. QED
    BY <1>1, <2>1, <2>2, BeginsFacts
<1>4. QED
  BY <1>2, <1>3

\* A write lands, and its Writer, if it waits, takes note.
LEMMA LandStep ==
  ASSUME Inv, NEW x \in Write, CopyOK(x, rec, records, rows),
         SendOK(x.by, x, rows), Accepts(x),
         NEW i \in Name, NEW v \in Writer,
         w' = [w EXCEPT ![i] = v],
         rec' = Landed(x), records' = records, flight' \subseteq flight,
         rows' = rows, proc' = proc, marked' \subseteq Name, faults' \in Nat,
         x.mem = <<>> => /\ \A j \in Name \ {i} : w[j].epoch # x.epoch
                         /\ \A y \in flight' : y.epoch # x.epoch,
         CopyOK(v, rec', records, rows), WriterOK(i, v, rows),
         v.epoch \in {0, x.epoch, w[i].epoch},
         v.pc = "writing" /\ v.mem = <<>> => v = w[i] /\ v.epoch # x.epoch
  PROVE  Inv'
<1>1. w \in [Name -> Writer] /\ w' \in [Name -> Writer]
  BY DEF Inv, TypeOK
<1>2. w'[i] = v /\ \A j \in Name \ {i} : w'[j] = w[j]
  BY <1>1
<1>3. /\ x.epoch \in 1..records /\ x.epoch \in Nat /\ records \in Nat
      /\ x.mem \in Seq(Entry) /\ x.batch \in Seq(Entry) /\ x.by \in Name
      /\ rec.log \in Seq(Entry)
  BY DEF Inv, TypeOK, Write, CopyOK, SendOK
<1>4. rec'.epoch = x.epoch /\ rec'.log = x.mem \o x.batch /\ rec.log = x.mem
  BY Fenced DEF Landed
<1>5. /\ Good(rec'.log) /\ Holder(rec'.log) = x.by /\ rows[x.by] # "none"
      /\ rec'.log \in Seq(Entry) /\ rec'.log # <<>>
  BY <1>4, GoodHolder DEF SendOK
<1>6. TypeOK'
  <2>1. rec' \in [epoch : Nat, log : Seq(Entry)]
    BY <1>3, <1>4, <1>5 DEF Landed
  <2>2. rec'.epoch # 0
    BY <1>3, <1>4
  <2>3. QED
    BY <1>1, <1>5, <2>1, <2>2 DEF Inv, TypeOK
<1>7. RecordOK'
  BY <1>3, <1>4, <1>5 DEF RecordOK
<1>8. Begins(rec.log, rec'.log)
  BY <1>3, <1>4, BeginsFacts
<1>9. x.mem # <<>> => rec.epoch = x.epoch
  BY DEF Accepts
<1>10. ASSUME NEW y, CopyOK(y, rec, records, rows), x.mem = <<>> => y.epoch # x.epoch
       PROVE  CopyOK(y, rec', records, rows)
  <2>1. rec'.epoch = y.epoch => rec.epoch = y.epoch /\ Begins(rec.log, rec'.log)
    BY <1>4, <1>8, <1>9, <1>10
  <2>2. QED
    BY <1>3, <1>5, <1>10, <2>1, CopyKept
<1>11. WritersOK'
  <2> SUFFICES ASSUME NEW j \in Name
               PROVE  CopyOK(w'[j], rec', records, rows) /\ WriterOK(j, w'[j], rows)
    BY DEF WritersOK
  <2>1. CASE j = i
    BY <2>1, <1>2
  <2>2. CASE j # i
    <3>1. CopyOK(w[j], rec, records, rows) /\ WriterOK(j, w[j], rows)
      BY DEF Inv, WritersOK
    <3>2. CopyOK(w[j], rec', records, rows)
      BY <2>2, <3>1, <1>10
    <3>3. QED
      BY <2>2, <3>1, <3>2, <1>2
  <2>3. QED
    BY <2>1, <2>2
<1>12. FlightOK'
  <2> SUFFICES ASSUME NEW y \in flight'
               PROVE  CopyOK(y, rec', records, rows) /\ SendOK(y.by, y, rows)
    BY DEF FlightOK
  <2>1. CopyOK(y, rec, records, rows) /\ SendOK(y.by, y, rows)
    BY DEF Inv, FlightOK
  <2>2. QED
    BY <2>1, <1>10
<1>13. CreatesAreFresh'
  <2>1. \A e : e # 0 /\ e # x.epoch /\ e # w[i].epoch => w'[i].epoch # e
    BY <1>2
  <2>2. ASSUME NEW j \in Name, w'[j].pc = "writing", w'[j].mem = <<>>
        PROVE  /\ rec'.epoch # w'[j].epoch
               /\ \A k \in Name \ {j} : w'[k].epoch # w'[j].epoch
               /\ \A y \in flight' : y.epoch # w'[j].epoch
    <3>1. w'[j] = w[j] /\ Creating(j)
      BY <2>2, <1>2 DEF Creating
    <3>2. /\ rec.epoch # w[j].epoch
          /\ \A k \in Name \ {j} : w[k].epoch # w[j].epoch
          /\ \A y \in flight : y.epoch # w[j].epoch
      BY <3>1 DEF Inv, CreatesAreFresh
    <3>3. w[j].epoch # 0
      BY <3>1 DEF Inv, WritersOK, WriterOK, SendOK, Creating
    <3>4. x.epoch # w[j].epoch
      BY <1>2, <1>9, <2>2, <3>1, <3>2
    <3>5. \A k \in Name \ {j} : w'[k].epoch # w[j].epoch
      BY <1>2, <2>1, <3>2, <3>3, <3>4
    <3>6. QED
      BY <1>4, <3>1, <3>2, <3>4, <3>5
  <2>3. ASSUME NEW y \in flight', y.mem = <<>>
        PROVE  /\ rec'.epoch # y.epoch
               /\ \A k \in Name : w'[k].epoch # y.epoch
               /\ \A z \in flight' \ {y} : z.epoch # y.epoch
    <3>1. /\ rec.epoch # y.epoch
          /\ \A k \in Name : w[k].epoch # y.epoch
          /\ \A z \in flight \ {y} : z.epoch # y.epoch
      BY <2>3 DEF Inv, CreatesAreFresh
    <3>2. y.epoch # 0
      BY DEF Inv, FlightOK, SendOK
    <3>3. x.epoch # y.epoch
      BY <1>9, <3>1
    <3>4. \A k \in Name : w'[k].epoch # y.epoch
      BY <1>2, <2>1, <3>1, <3>2, <3>3
    <3>5. QED
      BY <1>4, <3>1, <3>3, <3>4
  <2>4. QED
    BY <2>2, <2>3 DEF CreatesAreFresh, Creating
<1>14. QED
  BY <1>6, <1>7, <1>11, <1>12, <1>13 DEF Inv

\* A Writer stops waiting for its write, which may still land.
LEMMA OrphanStep ==
  ASSUME Inv, NEW i \in Name, w[i].pc = "writing",
         w' = [w EXCEPT ![i] = NoWriter], flight' = flight \cup {WriteOf(i)},
         rec' = rec, records' = records, rows' = rows,
         proc' \in [Name -> {"up", "lapsed", "crashed"}],
         marked' \subseteq Name, faults' \in Nat
  PROVE  Inv'
<1> DEFINE x == WriteOf(i)
<1>1. w \in [Name -> Writer] /\ w[i] \in Writer /\ NoWriter \in Writer /\ records \in Nat
  BY NoWriterOK DEF Inv, TypeOK
<1>2. w'[i] = NoWriter /\ (\A j \in Name \ {i} : w'[j] = w[j]) /\ w' \in [Name -> Writer]
  BY <1>1
<1>3. /\ x \in Write /\ x.by = i /\ x.epoch = w[i].epoch
      /\ x.mem = w[i].mem /\ x.batch = w[i].batch
  BY <1>1 DEF WriteOf, Write, Writer
<1>4. CopyOK(w[i], rec, records, rows) /\ SendOK(i, w[i], rows)
  BY DEF Inv, WritersOK, WriterOK
<1>5. CopyOK(x, rec, records, rows) /\ SendOK(x.by, x, rows)
  <2>1. CopyOK(x, rec, records, rows)
    BY <1>3, <1>4 DEF CopyOK
  <2>2. MayClaim(i, w[i], rows) <=> MayClaim(i, x, rows)
    BY <1>3 DEF MayClaim
  <2>3. SendOK(x.by, x, rows)
    BY <1>3, <1>4, <2>2 DEF SendOK
  <2>4. QED
    BY <2>1, <2>3
<1>6. flight' = flight \cup {x}
  OBVIOUS
<1> HIDE DEF x
<1>7. TypeOK'
  BY <1>2, <1>3, <1>6 DEF Inv, TypeOK
<1>8. RecordOK'
  BY DEF Inv, RecordOK
<1>9. WritersOK'
  BY <1>1, <1>2, NoWriterOK DEF Inv, WritersOK
<1>10. FlightOK'
  BY <1>5, <1>6 DEF Inv, FlightOK
<1>11. CreatesAreFresh'
  <2>1. w'[i].epoch = 0 /\ w'[i].pc # "writing"
    BY <1>2 DEF NoWriter
  <2>2. ASSUME NEW j \in Name, w'[j].pc = "writing", w'[j].mem = <<>>
        PROVE  /\ rec.epoch # w'[j].epoch
               /\ \A k \in Name \ {j} : w'[k].epoch # w'[j].epoch
               /\ \A y \in flight' : y.epoch # w'[j].epoch
    <3>1. j # i /\ w'[j] = w[j] /\ Creating(j)
      BY <2>1, <2>2, <1>2 DEF Creating
    <3>2. /\ rec.epoch # w[j].epoch
          /\ \A k \in Name \ {j} : w[k].epoch # w[j].epoch
          /\ \A y \in flight : y.epoch # w[j].epoch
      BY <3>1 DEF Inv, CreatesAreFresh
    <3>3. w[j].epoch # 0
      BY <3>1 DEF Inv, WritersOK, WriterOK, SendOK, Creating
    <3>4. QED
      BY <1>2, <1>3, <1>6, <2>1, <3>1, <3>2, <3>3
  <2>3. ASSUME NEW y \in flight', y.mem = <<>>
        PROVE  /\ rec.epoch # y.epoch
               /\ \A k \in Name : w'[k].epoch # y.epoch
               /\ \A z \in flight' \ {y} : z.epoch # y.epoch
    <3>1. y.epoch # 0
      BY <1>5, <1>6 DEF Inv, FlightOK, SendOK
    <3>2. CASE y = x
      <4>1. Creating(i)
        BY <2>3, <3>2, <1>3 DEF Creating
      <4>2. /\ rec.epoch # w[i].epoch
            /\ \A k \in Name \ {i} : w[k].epoch # w[i].epoch
            /\ \A z \in flight : z.epoch # w[i].epoch
        BY <4>1 DEF Inv, CreatesAreFresh
      <4>3. QED
        BY <1>2, <1>3, <1>6, <2>1, <3>1, <3>2, <4>2
    <3>3. CASE y \in flight
      <4>1. /\ rec.epoch # y.epoch
            /\ \A k \in Name : w[k].epoch # y.epoch
            /\ \A z \in flight \ {y} : z.epoch # y.epoch
        BY <2>3, <3>3 DEF Inv, CreatesAreFresh
      <4>2. QED
        BY <1>2, <1>3, <1>6, <2>1, <3>1, <4>1
    <3>4. QED
      BY <1>6, <3>2, <3>3
  <2>4. QED
    BY <2>2, <2>3 DEF CreatesAreFresh, Creating
<1>12. QED
  BY <1>7, <1>8, <1>9, <1>10, <1>11 DEF Inv

\* The epochs in use have been handed out.
LEMMA EpochsInUse ==
  ASSUME Inv
  PROVE  /\ records \in Nat
         /\ rec.epoch # records + 1
         /\ \A i \in Name : w[i].epoch # records + 1
         /\ \A y \in flight : y.epoch # records + 1
<1>1. records \in Nat
  BY DEF Inv, TypeOK
<1>2. rec.epoch \in 0..records
  BY DEF Inv, RecordOK
<1>3. \A i \in Name : w[i].epoch \in 0..records
  BY DEF Inv, WritersOK, CopyOK
<1>4. \A y \in flight : y.epoch \in 0..records
  BY DEF Inv, FlightOK, CopyOK
<1>5. QED
  BY <1>1, <1>2, <1>3, <1>4

\* More epochs handed out.
LEMMA CopyAfterCreate ==
  ASSUME NEW x, NEW r, NEW n \in Nat, NEW rw, CopyOK(x, r, n, rw)
  PROVE  CopyOK(x, r, n + 1, rw)
BY DEF CopyOK

\* CreateSession puts a write with a fresh Record epoch under way (open.go create).
LEMMA CreateSessionStep ==
  ASSUME Inv, NEW i \in Name, CreateSession(i)
  PROVE  Inv'
<1> DEFINE e == records + 1
           x == [by |-> i, epoch |-> e, mem |-> <<>>, batch |-> StartWriting(i, e, TRUE)]
<1>1. /\ records \in Nat /\ rec.epoch # e
      /\ \A j \in Name : w[j].epoch # e
      /\ \A y \in flight : y.epoch # e
  BY EpochsInUse
<1>2. e \in Nat /\ e # 0 /\ e \in 0..e
  BY <1>1
<1>3. /\ records' = e /\ flight' = flight \cup {x} /\ rows[i] # "none"
      /\ rec' = rec /\ rows' = rows /\ proc' = proc /\ w' = w
      /\ marked' = marked /\ faults' = faults
  BY DEF CreateSession, Live
<1>4. /\ StartWriting(i, e, TRUE) \in Seq(Entry)
      /\ Good(<<>> \o StartWriting(i, e, TRUE))
      /\ Holder(<<>> \o StartWriting(i, e, TRUE)) = i
  BY <1>2, StartGood
<1>5. x \in Write /\ x.by = i /\ x.epoch = e /\ x.mem = <<>>
  <2> HIDE DEF e
  <2>1. <<>> \in Seq(Entry)
    OBVIOUS
  <2>2. QED
    BY <1>2, <1>4, <2>1 DEF Write
<1>6. CopyOK(x, rec, e, rows) /\ SendOK(i, x, rows)
  BY <1>2, <1>3, <1>4 DEF CopyOK, SendOK
<1>7. \A y : CopyOK(y, rec, records, rows) => CopyOK(y, rec, e, rows)
  BY <1>1, CopyAfterCreate
<1> HIDE DEF x
<1>8. TypeOK'
  BY <1>2, <1>3, <1>5 DEF Inv, TypeOK
<1>9. RecordOK'
  BY <1>1, <1>3 DEF Inv, RecordOK
<1> HIDE DEF e
<1>10. WritersOK'
  BY <1>3, <1>7 DEF Inv, WritersOK
<1>11. FlightOK'
  <2> SUFFICES ASSUME NEW y \in flight'
               PROVE  CopyOK(y, rec, e, rows) /\ SendOK(y.by, y, rows)
    BY <1>3 DEF FlightOK
  <2>1. CASE y = x
    BY <2>1, <1>5, <1>6
  <2>2. CASE y \in flight
    BY <2>2, <1>7 DEF Inv, FlightOK
  <2>3. QED
    BY <1>3, <2>1, <2>2
<1>12. CreatesAreFresh'
  <2>1. CreatesAreFresh
    BY DEF Inv
  <2>2. QED
    BY <1>1, <1>3, <1>5, <2>1 DEF CreatesAreFresh, Creating
<1>13. QED
  BY <1>8, <1>9, <1>10, <1>11, <1>12 DEF Inv

\* A Run that creates its Session sends the only write of the first Record epoch
\* (runopen.go createSession).
LEMMA CreateForRunStep ==
  ASSUME Inv, NEW i \in Name, CreateForRun(i)
  PROVE  Inv'
<1> DEFINE b == StartWriting(i, 1, FALSE)
           v == [NoWriter EXCEPT !.pc = "writing", !.epoch = 1, !.then = "held",
                                 !.batch = b]
<1>1. /\ records = 0 /\ records' = 1 /\ flight' = flight /\ rows[i] # "none"
      /\ rec' = rec /\ rows' = rows /\ proc' = proc
      /\ marked' = marked /\ faults' = faults
      /\ w' = [w EXCEPT ![i] = v]
  BY DEF CreateForRun, Live
<1>2. /\ rec.epoch # 1
      /\ \A j \in Name : w[j].epoch # 1
      /\ \A y \in flight : y.epoch # 1
  BY <1>1, EpochsInUse
<1>3. /\ b \in Seq(Entry)
      /\ Good(<<>> \o b)
      /\ Holder(<<>> \o b) = i
      /\ ~Running(<<>> \o b)
  BY StartGood
<1> HIDE DEF b
<1>4. /\ v.pc = "writing" /\ v.epoch = 1 /\ v.mem = <<>>
      /\ v.batch = b /\ v.then = "held"
      /\ v \in Writer
  <2>1. <<>> \in Seq(Entry)
    OBVIOUS
  <2>2. v \in Writer
    BY <1>3, <2>1 DEF NoWriter, Writer, Pc, Use
  <2>3. QED
    BY <2>2 DEF NoWriter
<1> HIDE DEF v
<1>5. CopyOK(v, rec, 1, rows)
  BY <1>4 DEF CopyOK
<1>6. WriterOK(i, v, rows)
  <2>1. SendOK(i, v, rows)
    BY <1>1, <1>3, <1>4 DEF SendOK
  <2>2. ~Running(v.mem \o v.batch)
    BY <1>3, <1>4
  <2>3. QED
    BY <1>1, <1>4, <2>1, <2>2 DEF WriterOK
<1>7. \A y : CopyOK(y, rec, records, rows) => CopyOK(y, rec, 1, rows)
  BY <1>1, CopyAfterCreate, 0 + 1 = 1
<1>8. /\ w'[i] = v /\ (\A j \in Name \ {i} : w'[j] = w[j])
      /\ w' \in [Name -> Writer]
  BY <1>1, <1>4 DEF Inv, TypeOK
<1>9. TypeOK'
  BY <1>1, <1>8 DEF Inv, TypeOK
<1>10. RecordOK'
  BY <1>1 DEF Inv, RecordOK
<1>11. WritersOK'
  BY <1>1, <1>5, <1>6, <1>7, <1>8 DEF Inv, WritersOK
<1>12. FlightOK'
  BY <1>1, <1>7 DEF Inv, FlightOK
<1>13. CreatesAreFresh'
  BY <1>1, <1>2, <1>4, <1>8 DEF Inv, CreatesAreFresh, Creating
<1>14. QED
  BY <1>9, <1>10, <1>11, <1>12, <1>13 DEF Inv

-----------------------------------------------------------------------------
(* The actions, one lemma for each kind.                                   *)

\* The marks of unreleased Sessions (markUnreleased) stay a set of names.
LEMMA RememberType ==
  ASSUME marked \subseteq Name, NEW i \in Name, NEW cond
  PROVE  Remember(i, cond) \subseteq Name
BY DEF Remember

\* A step that leaves the Liveness rows alone keeps the dead ones dead.
LEMMA RowsRest == RowsKept(rows, rows)
BY DEF RowsKept

\* FirstBeat, Expire, Lapse, Close and Crash.
LEMMA ProcessSteps ==
  ASSUME Inv, NEW i \in Name,
         FirstBeat(i) \/ Expire(i) \/ Lapse(i) \/ Close(i) \/ Crash(i)
  PROVE  Inv'
<1>1. /\ rows \in [Name -> {"none", "alive", "dead"}]
      /\ proc \in [Name -> {"up", "lapsed", "crashed"}]
      /\ marked \subseteq Name /\ faults \in Nat /\ w \in [Name -> Writer]
  BY DEF Inv, TypeOK
<1>2. CASE FirstBeat(i)
  <2>1. RowsKept(rows, rows') /\ rows' \in [Name -> {"none", "alive", "dead"}]
    BY <1>1, <1>2 DEF FirstBeat, RowsKept
  <2>2. QED
    BY <1>1, <1>2, <2>1, WritersRest DEF FirstBeat
<1>3. CASE Expire(i)
  <2>1. RowsKept(rows, rows') /\ rows' \in [Name -> {"none", "alive", "dead"}]
    BY <1>1, <1>3 DEF Expire, RowsKept
  <2>2. QED
    BY <1>1, <1>3, <2>1, WritersRest DEF Expire
<1>4. ASSUME GiveUpName(i), RowsKept(rows, rows'),
             rows' \in [Name -> {"none", "alive", "dead"}]
      PROVE  Inv'
  <2>1. /\ rec' = rec /\ records' = records /\ flight' = flight /\ faults' = faults
        /\ marked' \subseteq Name
        /\ proc' \in [Name -> {"up", "lapsed", "crashed"}]
    BY <1>1, <1>4 DEF GiveUpName
  <2>2. w' = w \/ w' = [w EXCEPT ![i] = NoWriter]
    BY <1>1, <1>4 DEF GiveUpName, DropWarmOf
  <2>3. CASE w' = w
    BY <1>1, <1>4, <2>1, <2>3, WritersRest
  <2>4. CASE w' = [w EXCEPT ![i] = NoWriter]
    BY <1>1, <1>4, <2>1, <2>4, WriterGone
  <2>5. QED
    BY <2>2, <2>3, <2>4
<1>5. CASE Lapse(i)
  BY <1>1, <1>4, <1>5, RowsRest DEF Lapse
<1>6. CASE Close(i)
  <2>1. RowsKept(rows, rows') /\ rows' \in [Name -> {"none", "alive", "dead"}]
    BY <1>1, <1>6 DEF Close, RowsKept
  <2>2. QED
    BY <1>4, <1>6, <2>1 DEF Close
<1>7. CASE Crash(i)
  <2>1. /\ rec' = rec /\ records' = records /\ rows' = rows /\ faults' = faults
        /\ w' = [w EXCEPT ![i] = NoWriter]
        /\ marked' \subseteq Name
        /\ proc' \in [Name -> {"up", "lapsed", "crashed"}]
    BY <1>1, <1>7 DEF Crash
  <2>2. CASE w[i].pc = "writing"
    <3>1. flight' = flight \cup {WriteOf(i)}
      BY <1>7, <2>2 DEF Crash
    <3>2. QED
      BY <1>1, <2>1, <2>2, <3>1, OrphanStep
  <2>3. CASE w[i].pc # "writing"
    <3>1. flight' = flight
      BY <1>7, <2>3 DEF Crash
    <3>2. QED
      BY <1>1, <2>1, <3>1, RowsRest, WriterGone
  <2>4. QED
    BY <2>2, <2>3
<1>8. QED
  BY <1>2, <1>3, <1>5, <1>6, <1>7

\* Open and Repair: a loaded Record.
LEMMA LoadStep ==
  ASSUME Inv, NEW i \in Name, NEW use \in Use, LoadInto(i, use),
         rec.epoch # 0, rows[i] # "none",
         rec' = rec, records' = records, rows' = rows, proc' = proc,
         flight' = flight, marked' \subseteq Name, faults' = faults
  PROVE  Inv'
<1> DEFINE p == IF Holder(rec.log) = i THEN "checked" ELSE "loaded"
           v == [NoWriter EXCEPT
                   !.pc = p, !.epoch = rec.epoch, !.mem = rec.log, !.use = use]
<1>1. /\ rows \in [Name -> {"none", "alive", "dead"}]
      /\ proc \in [Name -> {"up", "lapsed", "crashed"}]
      /\ faults \in Nat /\ rec.epoch \in Nat /\ rec.log \in Seq(Entry)
  BY DEF Inv, TypeOK
<1>2. w' = [w EXCEPT ![i] = v]
  BY DEF LoadInto
<1>9. p \in {"checked", "loaded"} /\ (p = "checked" => Holder(rec.log) = i)
  OBVIOUS
<1> HIDE DEF p
<1>3. v \in Writer
  <2>1. p \in Pc /\ <<>> \in Seq(Entry) /\ "idle" \in Pc
    BY <1>9 DEF Pc
  <2>2. QED
    BY <1>1, <2>1 DEF NoWriter, Writer
<1>4. /\ v.epoch = rec.epoch /\ v.mem = rec.log
      /\ v.pc \in {"checked", "loaded"}
      /\ v.pc = "checked" => Holder(rec.log) = i
  BY <1>9 DEF NoWriter
<1> HIDE DEF v
<1>5. /\ Good(rec.log) /\ rows[Holder(rec.log)] # "none" /\ rec.log # <<>>
      /\ rec.epoch \in 0..records
  BY GoodHolder DEF Inv, RecordOK
<1>6. CopyOK(v, rec, records, rows)
  BY <1>1, <1>4, <1>5, BeginsFacts DEF CopyOK
<1>7. WriterOK(i, v, rows)
  BY <1>4, <1>5 DEF WriterOK, MayClaim
<1>8. QED
  BY <1>1, <1>2, <1>3, <1>4, <1>6, <1>7, RowsRest, WriterStep

\* A Writer that goes on without a write: its place changes, its copy stays.
LEMMA PlaceStep ==
  ASSUME Inv, NEW i \in Name, NEW v \in Writer,
         w[i].pc \notin {"idle", "writing"},
         v.pc \in {"checked", "judged", "done"},
         v.mem = w[i].mem, v.epoch = w[i].epoch,
         w' = [w EXCEPT ![i] = v],
         rec' \in {rec, NoRecord}, records' = records, rows' = rows, proc' = proc,
         flight' = flight, marked' = marked, faults' \in Nat,
         v.pc # "checked" => Holder(w[i].mem) = i /\ ~Running(w[i].mem),
         v.pc = "checked" => MayClaim(i, w[i], rows)
  PROVE  Inv'
<1>1. /\ rows \in [Name -> {"none", "alive", "dead"}]
      /\ proc \in [Name -> {"up", "lapsed", "crashed"}]
      /\ marked \subseteq Name
  BY DEF Inv, TypeOK
<1>2. CopyOK(w[i], rec, records, rows) /\ w[i].mem # <<>> /\ rows[i] # "none"
  BY DEF Inv, WritersOK, WriterOK
<1>3. CopyOK(v, rec, records, rows)
  BY <1>2 DEF CopyOK
<1>4. MayClaim(i, w[i], rows) => MayClaim(i, v, rows)
  BY DEF MayClaim
<1>5. WriterOK(i, v, rows)
  BY <1>2, <1>4 DEF WriterOK
<1>6. QED
  BY <1>1, <1>3, <1>5, RowsRest, WriterStep

\* Claim, Resume, StartRun, EndRun and Release: a batch is sent.
LEMMA SendStep ==
  ASSUME Inv, NEW i \in Name, NEW batch \in Seq(Entry),
         NEW next \in {"held", "running", "done", "warm"},
         w[i].pc \notin {"idle", "writing"}, Send(i, batch, next),
         Good(w[i].mem \o batch), Holder(w[i].mem \o batch) = i,
         Running(w[i].mem \o batch) <=> next = "running",
         MayClaim(i, w[i], rows)
  PROVE  Inv'
<1> DEFINE v == [w[i] EXCEPT !.pc = "writing", !.batch = batch, !.then = next]
<1>1. /\ rows \in [Name -> {"none", "alive", "dead"}]
      /\ proc \in [Name -> {"up", "lapsed", "crashed"}]
      /\ marked \subseteq Name /\ faults \in Nat /\ w \in [Name -> Writer] /\ w[i] \in Writer
  BY DEF Inv, TypeOK
<1>2. /\ w' = [w EXCEPT ![i] = v]
      /\ rec' = rec /\ records' = records /\ rows' = rows /\ proc' = proc
      /\ flight' = flight /\ marked' = marked /\ faults' = faults
  BY <1>1 DEF Send
<1>3. /\ v \in Writer /\ v.pc = "writing" /\ v.mem = w[i].mem
      /\ v.epoch = w[i].epoch /\ v.batch = batch /\ v.then = next
  BY <1>1 DEF Writer, Pc
<1> HIDE DEF v
<1>4. CopyOK(w[i], rec, records, rows) /\ w[i].mem # <<>> /\ rows[i] # "none"
  BY DEF Inv, WritersOK, WriterOK
<1>5. CopyOK(v, rec, records, rows) /\ v.epoch # 0
  BY <1>3, <1>4 DEF CopyOK
<1>6. MayClaim(i, v, rows)
  BY <1>3 DEF MayClaim
<1>7. SendOK(i, v, rows)
  BY <1>3, <1>4, <1>5, <1>6 DEF SendOK
<1>8. WriterOK(i, v, rows)
  BY <1>3, <1>4, <1>7 DEF WriterOK
<1>9. QED
  BY <1>1, <1>2, <1>3, <1>4, <1>5, <1>8, RowsRest, WriterStep

\* Everything a Writer does up to the store's answer.
LEMMA OpenSteps ==
  ASSUME Inv, NEW i \in Name,
         \/ HolderCheck(i) \/ Claim(i) \/ Resume(i) \/ DropWarm(i) \/ Repair(i)
         \/ LoadFails(i)
         \/ \E use \in {"run", "delete"} : Open(i, use) \/ Stale(i, use)
  PROVE  Inv'
<1>1. /\ rows \in [Name -> {"none", "alive", "dead"}]
      /\ proc \in [Name -> {"up", "lapsed", "crashed"}]
      /\ marked \subseteq Name /\ faults \in Nat /\ w \in [Name -> Writer] /\ w[i] \in Writer
      /\ w[i].use \in Use
  BY DEF Inv, TypeOK, Writer
<1>2. CopyOK(w[i], rec, records, rows) /\ WriterOK(i, w[i], rows)
  BY DEF Inv, WritersOK
<1>3. w[i].pc \notin {"idle", "writing"} =>
        w[i].mem # <<>> /\ Good(w[i].mem) /\ Holder(w[i].mem) \in Name
  BY <1>2, CopyHolder DEF WriterOK
<1>4. CASE HolderCheck(i)
  <2>1. CASE MayTakeOver(i) /\ w' = [w EXCEPT ![i].pc = "checked"] /\ UNCHANGED marked
    <3>1. MayClaim(i, w[i], rows)
      <4>1. rows[Holder(w[i].mem)] # "none" /\ Holder(w[i].mem) \in Name
        BY <1>2, <1>3, <1>4 DEF HolderCheck, CopyOK
      <4>2. QED
        BY <1>1, <2>1, <4>1 DEF MayTakeOver, MayClaim
    <3> DEFINE v == [w[i] EXCEPT !.pc = "checked"]
    <3>2. /\ v \in Writer /\ v.pc = "checked"
          /\ v.mem = w[i].mem /\ v.epoch = w[i].epoch
          /\ w' = [w EXCEPT ![i] = v]
      BY <1>1, <2>1 DEF Writer, Pc
    <3> HIDE DEF v
    <3>3. QED
      BY ZenonT(30), <1>1, <1>4, <2>1, <3>1, <3>2, PlaceStep DEF HolderCheck
  <2>2. CASE w' = [w EXCEPT ![i] = NoWriter] /\ marked' = Remember(i, w[i].use = "repair")
    <3>1. marked' \subseteq Name
      BY <1>1, <2>2, RememberType
    <3>2. QED
      BY <1>1, <1>4, <2>2, <3>1, RowsRest, WriterGone DEF HolderCheck
  <2>3. QED
    BY <1>4, <2>1, <2>2 DEF HolderCheck
<1>5. CASE Claim(i)
  <2>1. MayClaim(i, w[i], rows)
    BY <1>2, <1>5 DEF Claim, WriterOK
  <2>2. QED
    BY <1>3, <1>5, <2>1, TakeOverGood, SendStep DEF Claim
<1>6. CASE Resume(i)
  <2>1. Holder(w[i].mem) = i /\ ~Running(w[i].mem)
    BY <1>2, <1>6 DEF Resume, WriterOK
  <2>2. MayClaim(i, w[i], rows)
    BY <2>1 DEF MayClaim
  <2>3. QED
    BY <1>3, <1>6, <2>1, <2>2, ReclaimGood, SendStep DEF Resume
<1>7. CASE DropWarm(i)
  BY <1>1, <1>7, RowsRest, WriterGone DEF DropWarm
<1>8. CASE Repair(i)
  <2>1. /\ rec' = rec /\ records' = records /\ rows' = rows /\ proc' = proc
        /\ flight' = flight /\ faults' = faults /\ marked' \subseteq Name
    BY <1>1, <1>8 DEF Repair
  <2>2. CASE w' = w
    BY <1>1, <2>1, <2>2, RowsRest, WritersRest
  <2>3. CASE LoadInto(i, "repair") /\ Live(i) /\ Exists
    BY <2>1, <2>3, LoadStep DEF Live, Exists, Use
  <2>4. QED
    BY <1>8, <2>2, <2>3 DEF Repair
<1>9. ASSUME NEW use \in {"run", "delete"}, Open(i, use)
      PROVE  Inv'
  BY <1>1, <1>9, LoadStep DEF Open, Live, Exists, Use
<1>10. ASSUME NEW use \in {"run", "delete"}, Stale(i, use)
       PROVE  Inv'
  <2>1. CASE w' = [w EXCEPT ![i] = NoWriter]
    BY <1>1, <1>10, <2>1, RowsRest, WriterGone DEF Stale
  <2>2. CASE w' = [w EXCEPT ![i].pc = "judged", ![i].use = use]
    <3>1. Holder(w[i].mem) = i /\ ~Running(w[i].mem)
      BY <1>2, <1>10 DEF Stale, WriterOK
    <3> DEFINE v == [w[i] EXCEPT !.pc = "judged", !.use = use]
    <3>2. /\ v \in Writer /\ v.pc = "judged"
          /\ v.mem = w[i].mem /\ v.epoch = w[i].epoch
          /\ w' = [w EXCEPT ![i] = v]
      <4>1. use \in Use /\ "judged" \in Pc
        BY <1>10 DEF Use, Pc
      <4>2. v \in Writer
        BY <1>1, <4>1 DEF Writer
      <4>3. v.pc = "judged" /\ v.mem = w[i].mem /\ v.epoch = w[i].epoch
        BY <1>1 DEF Writer
      <4>4. w' = [w EXCEPT ![i] = v]
        BY <1>1, <2>2
      <4>5. QED
        BY <4>2, <4>3, <4>4
    <3> HIDE DEF v
    <3>3. /\ w[i].pc = "warm" /\ rec' = rec /\ records' = records /\ rows' = rows
          /\ proc' = proc /\ flight' = flight /\ marked' = marked /\ faults' = faults
      BY <1>10 DEF Stale
    <3>4. QED
      BY <1>1, <3>1, <3>2, <3>3, PlaceStep
  <2>3. QED
    BY <1>10, <2>1, <2>2 DEF Stale
<1>11. CASE LoadFails(i)
  <2>1. marked' \subseteq Name
    BY <1>1, <1>11 DEF LoadFails, Remember
  <2>2. faults' \in Nat
    BY <1>1, <1>11 DEF LoadFails
  <2>3. QED
    BY <1>1, <1>11, <2>1, <2>2, RowsRest, WritersRest DEF LoadFails
<1>12. QED
  BY <1>4, <1>5, <1>6, <1>7, <1>8, <1>9, <1>10, <1>11

\* What a Writer does under its Claim.
LEMMA HeldSteps ==
  ASSUME Inv, NEW i \in Name,
         StartRun(i) \/ EndRun(i) \/ Release(i) \/ Delete(i) \/ GuardRefuses(i)
  PROVE  Inv'
<1>1. /\ rows \in [Name -> {"none", "alive", "dead"}]
      /\ proc \in [Name -> {"up", "lapsed", "crashed"}]
      /\ marked \subseteq Name /\ faults \in Nat /\ w \in [Name -> Writer] /\ w[i] \in Writer
      /\ w[i].use \in Use
  BY DEF Inv, TypeOK, Writer
<1>2. CopyOK(w[i], rec, records, rows) /\ WriterOK(i, w[i], rows)
  BY DEF Inv, WritersOK
<1>3. ASSUME w[i].pc \in {"held", "running", "done"}
      PROVE  /\ Good(w[i].mem) /\ Holder(w[i].mem) = i
             /\ Running(w[i].mem) <=> w[i].pc = "running"
             /\ MayClaim(i, w[i], rows)
  BY <1>2, <1>3, CopyHolder DEF WriterOK, MayClaim
<1>4. CASE StartRun(i)
  <2>1. w[i].pc = "held"
    BY <1>4 DEF StartRun
  <2>2. QED
    BY <1>3, <1>4, <2>1, StepGood, SendStep DEF StartRun
<1>5. CASE EndRun(i)
  <2>1. w[i].pc = "running"
    BY <1>5 DEF EndRun
  <2>2. QED
    BY <1>3, <1>5, <2>1, StepGood, SendStep DEF EndRun
<1>6. CASE Release(i)
  <2>1. w[i].pc \in {"held", "done"}
    BY <1>6 DEF Release
  <2>2. QED
    BY <1>3, <1>6, <2>1, StepGood, SendStep DEF Release
<1>7. CASE Delete(i)
  <2>1. /\ w[i].pc = "held" /\ rec' \in {rec, NoRecord}
        /\ records' = records /\ rows' = rows /\ proc' = proc
        /\ flight' = flight /\ marked' = marked /\ faults' \in Nat
    BY <1>1, <1>7 DEF Delete
  <2>2. CASE w' = [w EXCEPT ![i] = NoWriter]
    BY <1>1, <2>1, <2>2, RowsRest, WriterGone
  <2>3. CASE w' = [w EXCEPT ![i].pc = "done"]
    <3> DEFINE v == [w[i] EXCEPT !.pc = "done"]
    <3>1. /\ v \in Writer /\ v.pc = "done"
          /\ v.mem = w[i].mem /\ v.epoch = w[i].epoch
          /\ w' = [w EXCEPT ![i] = v]
      BY <1>1, <2>3 DEF Writer, Pc
    <3> HIDE DEF v
    <3>2. Holder(w[i].mem) = i /\ ~Running(w[i].mem)
      BY <1>3, <2>1
    <3>3. QED
      BY <1>1, <2>1, <3>1, <3>2, PlaceStep
  <2>4. QED
    BY <1>7, <2>2, <2>3 DEF Delete
<1>8. CASE GuardRefuses(i)
  <2>1. marked' \subseteq Name /\ faults' \in Nat
    BY <1>1, <1>8, RememberType DEF GuardRefuses
  <2>2. QED
    BY <1>1, <1>8, <2>1, RowsRest, WriterGone DEF GuardRefuses
<1>9. QED
  BY <1>4, <1>5, <1>6, <1>7, <1>8

\* The store's answers.
LEMMA AnswerSteps ==
  ASSUME Inv, NEW i \in Name, WriteOk(i) \/ WriteRefused(i) \/ WriteUnknown(i)
  PROVE  Inv'
<1> DEFINE x == WriteOf(i)
<1>1. /\ rows \in [Name -> {"none", "alive", "dead"}]
      /\ proc \in [Name -> {"up", "lapsed", "crashed"}]
      /\ marked \subseteq Name /\ faults \in Nat /\ w \in [Name -> Writer] /\ w[i] \in Writer
      /\ records \in Nat /\ rec.log \in Seq(Entry)
  BY DEF Inv, TypeOK
<1>2. w[i].pc = "writing"
  BY DEF WriteOk, WriteRefused, WriteUnknown
<1>3. /\ CopyOK(w[i], rec, records, rows) /\ SendOK(i, w[i], rows)
      /\ w[i].then \in {"held", "running", "done", "warm"}
      /\ Running(w[i].mem \o w[i].batch) <=> w[i].then = "running"
  BY <1>2 DEF Inv, WritersOK, WriterOK
<1>4. /\ x \in Write /\ x.by = i /\ x.epoch = w[i].epoch
      /\ x.mem = w[i].mem /\ x.batch = w[i].batch
  BY <1>1 DEF WriteOf, Write, Writer
<1>5. CopyOK(x, rec, records, rows) /\ SendOK(x.by, x, rows)
  <2> HIDE DEF x
  <2>1. CopyOK(x, rec, records, rows)
    BY <1>3, <1>4 DEF CopyOK
  <2>2. MayClaim(i, w[i], rows) <=> MayClaim(i, x, rows)
    BY <1>4 DEF MayClaim
  <2>3. SendOK(x.by, x, rows)
    BY <1>3, <1>4, <2>2 DEF SendOK
  <2>4. QED
    BY <2>1, <2>3
<1>6. x.mem = <<>> => /\ \A j \in Name \ {i} : w[j].epoch # x.epoch
                      /\ \A y \in flight : y.epoch # x.epoch
  <2> HIDE DEF x
  <2>1. x.mem = <<>> => Creating(i)
    BY <1>2, <1>4 DEF Creating
  <2>2. QED
    BY <1>4, <2>1 DEF Inv, CreatesAreFresh
<1>7. CASE WriteOk(i)
  <2> DEFINE v == Confirmed(i)
  <2>1. /\ Accepts(x) /\ rec' = Landed(x) /\ w' = [w EXCEPT ![i] = v]
        /\ records' = records /\ rows' = rows /\ proc' = proc
        /\ flight' = flight /\ marked' = marked /\ faults' = faults
    BY <1>7 DEF WriteOk
  <2>2. /\ v.pc = w[i].then /\ v.epoch = w[i].epoch
        /\ v.mem = w[i].mem \o w[i].batch
    BY <1>1 DEF Confirmed, Writer
  <2>3. v \in Writer
    <3>1. w[i].mem \o w[i].batch \in Seq(Entry) /\ <<>> \in Seq(Entry)
      BY <1>1 DEF Writer
    <3>2. (IF w[i].then = "warm" THEN "run" ELSE w[i].use) \in Use
      BY <1>1 DEF Writer, Use
    <3>3. QED
      BY <1>1, <3>1, <3>2 DEF Confirmed, Writer, Pc
  <2> HIDE DEF v, x
  <2>4. rec'.epoch = x.epoch /\ rec'.log = v.mem
    BY <1>4, <1>5, <2>1, <2>2, Fenced DEF Landed
  <2>5. /\ Good(v.mem) /\ Holder(v.mem) = i /\ rows[i] # "none"
        /\ v.mem # <<>> /\ v.mem \in Seq(Entry) /\ v.epoch # 0
    BY <1>3, <2>2, GoodHolder DEF SendOK
  <2>6. CopyOK(v, rec', records, rows)
    <3>1. v.epoch \in 0..records
      BY <1>3, <2>2 DEF CopyOK
    <3>2. Begins(v.mem, rec'.log)
      BY <2>4, <2>5, BeginsFacts
    <3>3. QED
      BY <2>5, <3>1, <3>2 DEF CopyOK
  <2>7. WriterOK(i, v, rows)
    <3>1. Running(v.mem) <=> v.pc = "running"
      BY <1>3, <2>2
    <3>2. QED
      BY <1>3, <2>2, <2>5, <3>1 DEF WriterOK
  <2>8. v.pc # "writing"
    BY <1>3, <2>2
  <2>9. QED
    BY <1>1, <1>4, <1>5, <1>6, <2>1, <2>2, <2>3, <2>6, <2>7, <2>8, LandStep
<1>8. CASE WriteRefused(i)
  <2>1. marked' \subseteq Name
    BY <1>1, <1>8, RememberType DEF WriteRefused
  <2>2. QED
    BY <1>1, <1>8, <2>1, RowsRest, WriterGone DEF WriteRefused
<1>9. CASE WriteUnknown(i)
  <2>1. /\ marked' \subseteq Name /\ faults' \in Nat
        /\ records' = records /\ rows' = rows /\ proc' = proc
        /\ w' = [w EXCEPT ![i] = NoWriter]
    BY <1>1, <1>9, RememberType DEF WriteUnknown
  <2>2. CASE UNCHANGED <<rec, flight>>
    BY <1>1, <2>1, <2>2, RowsRest, WriterGone
  <2>3. CASE Accepts(x) /\ rec' = Landed(x) /\ UNCHANGED flight
    <3>1. /\ NoWriter \in Writer /\ NoWriter.epoch = 0 /\ NoWriter.pc # "writing"
          /\ CopyOK(NoWriter, rec', records, rows) /\ WriterOK(i, NoWriter, rows)
      BY <1>1, NoWriterOK DEF NoWriter
    <3> HIDE DEF x
    <3>2. QED
      BY <1>1, <1>4, <1>5, <1>6, <2>1, <2>3, <3>1, LandStep
  <2>4. CASE flight' = flight \cup {x} /\ UNCHANGED rec
    BY <1>1, <1>2, <2>1, <2>4, OrphanStep
  <2>5. QED
    BY <1>9, <2>2, <2>3, <2>4 DEF WriteUnknown
<1>10. QED
  BY <1>7, <1>8, <1>9

\* The writes nobody waits for.
LEMMA LateSteps ==
  ASSUME Inv, NEW x \in flight, LateLands(x) \/ LateLost(x)
  PROVE  Inv'
<1> DEFINE i == x.by
<1>1. /\ rows \in [Name -> {"none", "alive", "dead"}]
      /\ proc \in [Name -> {"up", "lapsed", "crashed"}]
      /\ marked \subseteq Name /\ faults \in Nat /\ w \in [Name -> Writer]
      /\ records \in Nat /\ x \in Write /\ i \in Name
  BY DEF Inv, TypeOK, Write
<1>2. /\ records' = records /\ rows' = rows /\ proc' = proc /\ w' = w
      /\ marked' = marked /\ faults' = faults /\ flight' = flight \ {x}
  BY DEF LateLands, LateLost
<1>3. CASE rec' = rec
  BY <1>1, <1>2, <1>3, RowsRest, WritersRest
<1>4. CASE Accepts(x) /\ rec' = Landed(x)
  <2>1. CopyOK(x, rec, records, rows) /\ SendOK(x.by, x, rows)
    BY DEF Inv, FlightOK
  <2>2. x.mem = <<>> => /\ \A j \in Name : w[j].epoch # x.epoch
                        /\ \A y \in flight' : y.epoch # x.epoch
    BY <1>2 DEF Inv, CreatesAreFresh
  <2>3. CopyOK(w[i], rec, records, rows) /\ WriterOK(i, w[i], rows) /\ w[i] \in Writer
    BY <1>1 DEF Inv, WritersOK
  <2>4. w' = [w EXCEPT ![i] = w[i]]
    BY <1>1, <1>2
  <2>5. CopyOK(w[i], rec', records, rows)
    <3>1. rec'.epoch = x.epoch /\ rec'.log = rec.log \o x.batch
      BY <1>4 DEF Landed
    <3>2. rec.log \in Seq(Entry) /\ x.batch \in Seq(Entry)
      BY <1>1 DEF Inv, TypeOK, Write
    <3>3. rec'.log \in Seq(Entry) /\ Begins(rec.log, rec'.log)
      BY <3>1, <3>2, BeginsFacts
    <3>4. rec'.epoch = w[i].epoch => rec.epoch = w[i].epoch /\ Begins(rec.log, rec'.log)
      BY <1>1, <1>4, <2>2, <3>1, <3>3 DEF Accepts
    <3>5. QED
      BY <2>3, <3>2, <3>3, <3>4, CopyKept
  <2>6. w[i].pc = "writing" /\ w[i].mem = <<>> => w[i].epoch # x.epoch
    <3>1. CASE x.mem = <<>>
      BY <1>1, <2>2, <3>1
    <3>2. CASE x.mem # <<>>
      BY <1>1, <1>4, <3>2 DEF Inv, CreatesAreFresh, Creating, Accepts
    <3>3. QED
      BY <3>1, <3>2
  <2> HIDE DEF i
  <2>7. QED
    BY <1>1, <1>2, <1>4, <2>1, <2>2, <2>3, <2>4, <2>5, <2>6, LandStep
<1>5. QED
  BY <1>3, <1>4 DEF LateLands, LateLost

-----------------------------------------------------------------------------
(* The theorems.                                                           *)

\* The invariant holds when there is no Record, no row and no Writer.
LEMMA InvInit == Init => Inv
<1> SUFFICES ASSUME Init PROVE Inv
  OBVIOUS
<1>1. records = 0 /\ rec = NoRecord /\ flight = {} /\ w = [i \in Name |-> NoWriter]
  BY DEF Init
<1>2. \A i \in Name : w[i] = NoWriter
  BY <1>1
<1>3. /\ NoRecord \in [epoch : Nat, log : Seq(Entry)]
      /\ NoRecord.epoch = 0 /\ NoRecord.log = <<>>
  BY DEF NoRecord
<1>4. TypeOK
  <2>1. w \in [Name -> Writer]
    BY <1>1, NoWriterOK
  <2>2. QED
    BY <1>1, <1>3, <2>1 DEF Init, TypeOK
<1>5. RecordOK
  BY <1>1, <1>3 DEF RecordOK
<1>6. WritersOK
  BY <1>1, <1>2, NoWriterOK DEF WritersOK
<1>7. FlightOK
  BY <1>1 DEF FlightOK
<1>8. CreatesAreFresh
  BY <1>1, <1>2 DEF CreatesAreFresh, Creating, NoWriter
<1>9. QED
  BY <1>4, <1>5, <1>6, <1>7, <1>8 DEF Inv

\* Every step keeps it.
LEMMA InvNext == Inv /\ [Next]_vars => Inv'
<1> SUFFICES ASSUME Inv, [Next]_vars PROVE Inv'
  OBVIOUS
<1>1. CASE UNCHANGED vars
  BY <1>1 DEF vars, Inv, TypeOK, RecordOK, WritersOK, FlightOK, CreatesAreFresh, Creating
<1>2. ASSUME NEW i \in Name,
             FirstBeat(i) \/ Expire(i) \/ Lapse(i) \/ Close(i) \/ Crash(i)
      PROVE  Inv'
  BY <1>2, ProcessSteps
<1>3. ASSUME NEW i \in Name, CreateSession(i) \/ CreateForRun(i)
      PROVE  Inv'
  BY <1>3, CreateSessionStep, CreateForRunStep
<1>4. ASSUME NEW i \in Name,
             \/ HolderCheck(i) \/ Claim(i) \/ Resume(i) \/ DropWarm(i) \/ Repair(i)
             \/ LoadFails(i)
             \/ \E use \in {"run", "delete"} : Open(i, use) \/ Stale(i, use)
      PROVE  Inv'
  BY <1>4, OpenSteps
<1>5. ASSUME NEW i \in Name,
             StartRun(i) \/ EndRun(i) \/ Release(i) \/ Delete(i) \/ GuardRefuses(i)
      PROVE  Inv'
  BY <1>5, HeldSteps
<1>6. ASSUME NEW i \in Name, WriteOk(i) \/ WriteRefused(i) \/ WriteUnknown(i)
      PROVE  Inv'
  BY <1>6, AnswerSteps
<1>7. ASSUME NEW x \in flight, LateLands(x) \/ LateLost(x)
      PROVE  Inv'
  BY <1>7, LateSteps
<1>8. QED
  BY <1>1, <1>2, <1>3, <1>4, <1>5, <1>6, <1>7 DEF Next, Progress

\* The inductive invariant.
THEOREM Invariance == Spec => []Inv
<1>1. Init => Inv
  BY InvInit
<1>2. Inv /\ [Next]_vars => Inv'
  BY InvNext
<1>3. QED
  BY <1>1, <1>2, PTL DEF Spec

\* Every variable keeps its type, whatever fails and whoever crashes.
THEOREM TypeCorrect == Spec => []TypeOK
<1>1. Inv => TypeOK
  BY DEF Inv
<1>2. QED
  BY <1>1, Invariance, PTL

\* What is known of any outstanding write.
LEMMA OutstandingOK ==
  ASSUME Inv, NEW x \in Outstanding
  PROVE  CopyOK(x, rec, records, rows) /\ SendOK(x.by, x, rows)
<1>1. CASE x \in flight
  BY <1>1 DEF Inv, FlightOK
<1>2. CASE x \notin flight
  <2>1. PICK i \in Name : x = WriteOf(i) /\ w[i].pc = "writing"
    BY <1>2 DEF Outstanding
  <2>2. CopyOK(w[i], rec, records, rows) /\ SendOK(i, w[i], rows)
    BY <2>1 DEF Inv, WritersOK, WriterOK
  <2>3. /\ x.by = i /\ x.epoch = w[i].epoch
        /\ x.mem = w[i].mem /\ x.batch = w[i].batch
    BY <2>1 DEF WriteOf
  <2>4. CopyOK(x, rec, records, rows)
    BY <2>2, <2>3 DEF CopyOK
  <2>5. MayClaim(i, w[i], rows) <=> MayClaim(i, x, rows)
    BY <2>3 DEF MayClaim
  <2>6. SendOK(x.by, x, rows)
    BY <2>2, <2>3, <2>5 DEF SendOK
  <2>7. QED
    BY <2>4, <2>6
<1>3. QED
  BY <1>1, <1>2

\* The epoch and position checks of Append suffice: a write the store takes was
\* built from the log it holds, for any number of Instances, deletions,
\* re-creations and late writes (store/memory.go Append, store/writer.go).
THEOREM FencesSuffice == Spec => []FencedWritesAreCurrent
<1>1. Inv => FencedWritesAreCurrent
  BY OutstandingOK, Fenced DEF FencedWritesAreCurrent
<1>2. QED
  BY <1>1, Invariance, PTL

\* A stored log is empty or good.
LEMMA StoredLogIsGood ==
  ASSUME Inv
  PROVE  rec.log = <<>> \/ Good(rec.log)
BY DEF Inv, TypeOK, RecordOK

\* Between two Claims every Entry of the stored log is the claimant's.
THEOREM OneWriterProved == Spec => []OneWriterAtATime
<1>1. Inv => OneWriterAtATime
  <2> SUFFICES ASSUME Inv, NEW k \in DOMAIN rec.log
               PROVE  k > 1 /\ rec.log[k].kind # "claimed" =>
                        rec.log[k].by = rec.log[k-1].by
    BY DEF OneWriterAtATime
  <2>1. Good(rec.log)
    BY StoredLogIsGood
  <2>2. QED
    BY <2>1 DEF Good, OneWriter
<1>2. QED
  BY <1>1, Invariance, PTL

\* An Epoch of the stored log names one holder, and Epochs only grow
\* (record/holder.go claimFor).
THEOREM EpochsProved == Spec => []EpochNamesTheHolder
<1>1. Inv => EpochNamesTheHolder
  <2> SUFFICES ASSUME Inv, NEW j \in DOMAIN rec.log, NEW k \in DOMAIN rec.log,
                      j < k, j > 1
               PROVE  \/ rec.log[j].n < rec.log[k].n
                      \/ /\ rec.log[j].n = rec.log[k].n
                         /\ rec.log[j].by = rec.log[k].by
    BY DEF EpochNamesTheHolder
  <2>1. Good(rec.log)
    BY StoredLogIsGood
  <2>2. QED
    BY <2>1 DEF Good, Epochs
<1>2. QED
  BY <1>1, Invariance, PTL

\* Runs of the stored log neither overlap nor end twice, a Run that a lost
\* Instance left included (record/writing.go TakeOver).
THEOREM RunsProved == Spec => []RunsDoNotOverlap
<1>1. Inv => RunsDoNotOverlap
  <2>1. ASSUME Inv, rec.log = <<>> PROVE RunsDoNotOverlap
    BY <2>1 DEF RunsDoNotOverlap
  <2>2. ASSUME Good(rec.log) PROVE RunsDoNotOverlap
    BY <2>2 DEF Good, Runs, RunsDoNotOverlap
  <2>3. QED
    BY <2>1, <2>2, StoredLogIsGood
<1>2. QED
  BY <1>1, Invariance, PTL

\* A step that changes the Record deletes it, or lands one outstanding write.
LEMMA RecordSteps ==
  ASSUME Inv, Next, rec' # rec
  PROVE  \/ rec' = NoRecord
         \/ \E x \in Outstanding : Accepts(x) /\ rec' = Landed(x)
<1>1. ASSUME NEW i \in Name,
             \/ FirstBeat(i) \/ Expire(i) \/ Lapse(i) \/ Close(i) \/ Crash(i)
             \/ CreateSession(i) \/ CreateForRun(i) \/ LoadFails(i) \/ DropWarm(i)
             \/ HolderCheck(i) \/ Repair(i) \/ WriteRefused(i) \/ GuardRefuses(i)
             \/ \E use \in {"run", "delete"} : Open(i, use) \/ Stale(i, use)
      PROVE  FALSE
  BY <1>1 DEF FirstBeat, Expire, Lapse, Close, GiveUpName, Crash, CreateSession,
              CreateForRun, LoadFails, DropWarm, HolderCheck, Repair, WriteRefused,
              GuardRefuses, Open, Stale
<1>2. ASSUME NEW i \in Name,
             Claim(i) \/ Resume(i) \/ StartRun(i) \/ EndRun(i) \/ Release(i)
      PROVE  FALSE
  BY <1>2 DEF Claim, Resume, StartRun, EndRun, Release, Send
<1>3. ASSUME NEW i \in Name, Delete(i)
      PROVE  rec' = NoRecord
  BY <1>3 DEF Delete
<1>4. ASSUME NEW i \in Name, WriteOk(i) \/ WriteUnknown(i)
      PROVE  \E x \in Outstanding : Accepts(x) /\ rec' = Landed(x)
  <2>1. /\ w[i].pc = "writing"
        /\ Accepts(WriteOf(i)) /\ rec' = Landed(WriteOf(i))
    BY <1>4 DEF WriteOk, WriteUnknown
  <2>2. WriteOf(i) \in Outstanding
    BY <2>1 DEF Outstanding
  <2>3. QED
    BY <2>1, <2>2
<1>5. ASSUME NEW x \in flight, LateLands(x) \/ LateLost(x)
      PROVE  \E y \in Outstanding : Accepts(y) /\ rec' = Landed(y)
  BY <1>5 DEF LateLands, LateLost, Outstanding
<1>6. QED
  BY <1>1, <1>2, <1>3, <1>4, <1>5 DEF Next, Progress

\* A busy Session changes hands only when its holder's row is not alive at the
\* moment the Claim lands, though the row was read before the Claim was sent
\* (host/open.go holderCheck, store/writer.go OpenWriter).
THEOREM TakeoverIsSafe == Spec => BusySessionsStayWithLiveHolders
<1>1. ASSUME Inv, [Next]_vars, Exists, rec'.epoch = rec.epoch, Busy(rec.log),
             Holder(rec'.log) # Holder(rec.log)
      PROVE  rows[Holder(rec.log)] # "alive"
  <2>1. Next /\ rec' # rec
    BY <1>1 DEF vars
  <2>2. rec' # NoRecord
    BY <1>1 DEF Exists, NoRecord
  <2>3. PICK x \in Outstanding : Accepts(x) /\ rec' = Landed(x)
    BY <1>1, <2>1, <2>2, RecordSteps
  <2>4. CopyOK(x, rec, records, rows) /\ SendOK(x.by, x, rows)
    BY <1>1, OutstandingOK
  <2>5. x.mem = rec.log /\ rec'.log = x.mem \o x.batch
    BY <1>1, <2>3, <2>4, Fenced DEF Landed
  <2>6. x.mem # <<>> /\ Holder(rec'.log) = x.by
    BY <1>1, <2>3, <2>4, <2>5 DEF Accepts, Exists, SendOK
  <2>7. MayClaim(x.by, x, rows) /\ Holder(x.mem) # x.by
    BY <1>1, <2>4, <2>5, <2>6 DEF SendOK
  <2>8. QED
    BY <1>1, <2>5, <2>7 DEF MayClaim
<1>2. Inv /\ [Next]_vars =>
        [/\ Exists
         /\ rec'.epoch = rec.epoch
         /\ Busy(rec.log)
         /\ Holder(rec'.log) # Holder(rec.log)
         => rows[Holder(rec.log)] # "alive"]_vars
  BY <1>1
<1>3. QED
  BY <1>2, Invariance, PTL DEF Spec, BusySessionsStayWithLiveHolders

-----------------------------------------------------------------------------
(* The promise of Ownership.  What Inv does not say of a write is what it  *)
(* does to the Claim: one of the batches of record/writing.go, made under  *)
(* the conditions in which its caller makes it.                            *)

\* The batch of i's write x: a create, a Claim, or a step of a Session that is
\* claimed and not released, of which a started Run only ends.
BatchOK(i, x) ==
  IF x.mem = <<>>
  THEN \E idle \in BOOLEAN : x.batch = StartWriting(i, x.epoch, idle)
  ELSE \/ x.batch = TakeOver(i, x.mem)
       \/ /\ Holder(x.mem) = i
          /\ Claimed(x.mem)
          /\ \E kind \in {"released", "started", "ended"} :
               /\ x.batch = Step(kind, i, x.mem)
               /\ Running(x.mem) <=> kind = "ended"

\* A Writer past its Claim has it until it releases.
ClaimHeld(v) ==
  /\ v.pc \in {"held", "running", "done"} => Claimed(v.mem)
  /\ v.pc = "writing" /\ v.then # "warm" => Claimed(v.mem \o v.batch)

WriterBatch(i, v) == ClaimHeld(v) /\ (v.pc = "writing" => BatchOK(i, v))

Batched ==
  /\ \A i \in Name : WriterBatch(i, w[i])
  /\ \A x \in flight : BatchOK(x.by, x)

\* Claimed after one more Entry.
LEMMA ClaimedAfter ==
  ASSUME NEW log \in Seq(Entry), NEW en \in Entry
  PROVE  Claimed(Append(log, en)) <=>
           \/ en.kind = "claimed"
           \/ en.kind # "released" /\ Claimed(log)
<1> DEFINE new == Append(log, en)
           L == Len(log)
<1>1. /\ DOMAIN log = 1..L /\ DOMAIN new = 1..(L + 1)
      /\ \A k \in 1..L : new[k] = log[k]
      /\ new[L + 1] = en
      /\ L \in Nat
  BY AppendFacts
<1> HIDE DEF new, L
<1>2. en.kind = "claimed" => Claimed(new)
  BY <1>1 DEF Claimed
<1>3. en.kind # "released" /\ Claimed(log) => Claimed(new)
  BY <1>1 DEF Claimed
<1>4. ASSUME Claimed(new), en.kind # "claimed"
      PROVE  en.kind # "released" /\ Claimed(log)
  <2>1. PICK k \in DOMAIN new : /\ new[k].kind = "claimed"
                                /\ \A m \in DOMAIN new : m > k => new[m].kind # "released"
    BY <1>4 DEF Claimed
  <2>2. k \in 1..L
    BY <2>1, <1>1, <1>4
  <2>3. QED
    BY <2>1, <2>2, <1>1 DEF Claimed
<1>5. QED
  BY <1>2, <1>3, <1>4 DEF new

\* What a Claim does to a good log: the Session is its writer's, in use, at
\* the Epoch claimFor gives it.
LEMMA TakeOverClaims ==
  ASSUME NEW log, Good(log), NEW i \in Name
  PROVE  /\ Claimed(log \o TakeOver(i, log))
         /\ ClaimEpoch(log \o TakeOver(i, log)) =
              IF Holder(log) = i THEN ClaimEpoch(log) ELSE ClaimEpoch(log) + 1
<1> DEFINE a == ClaimFor(i, log)
           b == EntryOf("ended", i, a.n)
           one == Append(log, a)
<1>1. /\ log \in Seq(Entry)
      /\ a \in Entry /\ a.by = i /\ a.kind = "claimed" /\ a = ClaimFor(a.by, log)
      /\ a.n = IF Holder(log) = i THEN ClaimEpoch(log) ELSE ClaimEpoch(log) + 1
      /\ b \in Entry /\ b.by = i /\ b.kind = "ended" /\ b.n = a.n
  <2>1. log \in Seq(Entry) /\ ClaimEpoch(log) \in Nat
    BY GoodHolder
  <2>2. a \in Entry /\ a.by = i /\ a.kind = "claimed" /\ a.n \in Nat
    BY <2>1 DEF ClaimFor, EntryOf, Entry, Kind
  <2>3. b \in Entry /\ b.by = i /\ b.kind = "ended" /\ b.n = a.n
    BY <2>2 DEF EntryOf, Entry, Kind
  <2>4. a.n = IF Holder(log) = i THEN ClaimEpoch(log) ELSE ClaimEpoch(log) + 1
    BY DEF ClaimFor, EntryOf
  <2>5. QED
    BY <2>1, <2>2, <2>3, <2>4
<1>2. log \o <<a>> = one /\ log \o <<a, b>> = Append(one, b)
  BY <1>1, Batches
<1>3. TakeOver(i, log) = IF Running(log) THEN <<a, b>> ELSE <<a>>
  BY DEF TakeOver
<1> HIDE DEF a, b, one
<1>4. /\ Good(one) /\ Holder(one) = i /\ ClaimEpoch(one) = a.n
      /\ Claimed(one) /\ one \in Seq(Entry)
      /\ Running(one) <=> Running(log)
  BY <1>1, FitsKeepsGood, ClaimedAfter, RunningAfter, AppendFacts DEF one, Fits
<1>5. CASE Running(log)
  <2>1. Fits(b, one)
    BY <1>1, <1>4, <1>5 DEF Fits
  <2>2. ClaimEpoch(Append(one, b)) = a.n
    BY <1>1, <1>4, <2>1, FitsKeepsGood
  <2>3. Claimed(Append(one, b))
    BY <1>1, <1>4, ClaimedAfter
  <2>4. log \o TakeOver(i, log) = Append(one, b)
    BY <1>2, <1>3, <1>5
  <2>5. QED
    BY <1>1, <2>2, <2>3, <2>4
<1>6. CASE ~Running(log)
  <2>1. log \o TakeOver(i, log) = one
    BY <1>2, <1>3, <1>6
  <2>2. QED
    BY <1>1, <1>4, <2>1
<1>7. QED
  BY <1>5, <1>6

\* What a step under the Claim does to it.
LEMMA StepClaims ==
  ASSUME NEW log, Good(log), NEW kind \in {"released", "started", "ended"},
         NEW i \in Name, Holder(log) = i, Running(log) <=> kind = "ended",
         Claimed(log)
  PROVE  /\ Claimed(log \o Step(kind, i, log)) <=> kind # "released"
         /\ ClaimEpoch(log \o Step(kind, i, log)) = ClaimEpoch(log)
<1> DEFINE a == EntryOf(kind, i, ClaimEpoch(log))
<1>1. /\ log \in Seq(Entry)
      /\ a \in Entry /\ a.by = i /\ a.kind = kind /\ a.n = ClaimEpoch(log)
  BY GoodHolder DEF EntryOf, Entry, Kind
<1>2. Step(kind, i, log) = <<a>> /\ log \o <<a>> = Append(log, a)
  BY <1>1, Batches DEF Step
<1> HIDE DEF a
<1>3. Fits(a, log)
  BY <1>1 DEF Fits
<1>4. log \o Step(kind, i, log) = Append(log, a)
  BY <1>2
<1>5. ClaimEpoch(Append(log, a)) = ClaimEpoch(log)
  BY <1>1, <1>3, FitsKeepsGood
<1>6. Claimed(Append(log, a)) <=> kind # "released"
  BY <1>1, ClaimedAfter
<1>7. QED
  BY <1>4, <1>5, <1>6

\* A Record is created under its creator's first Claim.
LEMMA StartClaims ==
  ASSUME NEW i \in Name, NEW e \in Nat, NEW idle \in BOOLEAN
  PROVE  /\ Claimed(<<>> \o StartWriting(i, e, idle)) <=> ~idle
         /\ ClaimEpoch(<<>> \o StartWriting(i, e, idle)) = 1
<1> DEFINE a == EntryOf("created", i, e)
           b == EntryOf("claimed", i, 1)
           c == EntryOf("released", i, 1)
           two == <<a, b>>
           three == Append(two, c)
<1>1. /\ a \in Entry /\ a.kind = "created"
      /\ b \in Entry /\ b.kind = "claimed" /\ b.by = i /\ b.n = 1
      /\ c \in Entry /\ c.kind = "released" /\ c.by = i /\ c.n = 1
  BY DEF EntryOf, Entry, Kind
<1>2. StartWriting(i, e, idle) = two \o (IF idle THEN <<c>> ELSE <<>>)
  BY DEF StartWriting
<1> HIDE DEF a, b, c
<1>4. two \in Seq(Entry) /\ Len(two) = 2 /\ two[1] = a /\ two[2] = b /\ DOMAIN two = 1..2
  BY <1>1
<1>5. <<>> \o two = two /\ <<>> \o three = three
  BY <1>1, <1>4
<1> HIDE DEF two
<1>6. /\ three \in Seq(Entry) /\ Len(three) = 3 /\ DOMAIN three = 1..3
      /\ three[1] = a /\ three[2] = b /\ three[3] = c
  <2>1. /\ three \in Seq(Entry) /\ Len(three) = Len(two) + 1
        /\ DOMAIN three = 1..(Len(two) + 1)
        /\ \A k \in 1..Len(two) : three[k] = two[k]
        /\ three[Len(two) + 1] = c
    BY <1>1, <1>4, AppendFacts
  <2>2. QED
    BY <1>4, <2>1
<1>7. two \o <<c>> = three /\ two \o <<>> = two
  BY <1>1, <1>4, Batches
<1> HIDE DEF three
<1>8. Claimed(two) /\ ~Claimed(three)
  BY <1>1, <1>4, <1>6 DEF Claimed
<1>9. ClaimEpoch(two) = 1
  <2>1. ClaimedAt(two, 2)
    BY <1>1, <1>4 DEF ClaimedAt
  <2>2. QED
    BY <2>1, <1>1, <1>4, LastEntryIsTheHolders
<1>10. ClaimEpoch(three) = 1
  <2>1. ClaimedAt(three, 2)
    BY <1>1, <1>6 DEF ClaimedAt
  <2>2. QED
    BY <2>1, <1>1, <1>6, LastEntryIsTheHolders
<1>11. CASE idle = TRUE
  BY <1>2, <1>5, <1>7, <1>8, <1>10, <1>11
<1>12. CASE idle = FALSE
  BY <1>2, <1>5, <1>7, <1>8, <1>9, <1>12
<1>13. QED
  BY <1>11, <1>12
-----------------------------------------------------------------------------

\* A Claim's write, and a Claim again of a Session at rest.
LEMMA ReclaimIsTakeOver ==
  ASSUME NEW log, NEW i, ~Running(log)
  PROVE  Reclaim(i, log) = TakeOver(i, log)
BY DEF Reclaim, TakeOver

\* A Writer that sends: what each batch leaves of the Claim.
LEMMA SendBatch ==
  ASSUME Inv, Batched, NEW i \in Name, NEW batch, NEW then,
         Send(i, batch, then), w[i].mem # <<>>, w[i].pc # "writing",
         \/ batch = TakeOver(i, w[i].mem)
         \/ /\ Holder(w[i].mem) = i
            /\ Claimed(w[i].mem)
            /\ \E kind \in {"released", "started", "ended"} :
                 /\ batch = Step(kind, i, w[i].mem)
                 /\ Running(w[i].mem) <=> kind = "ended"
                 /\ kind = "released" => then = "warm"
  PROVE  Batched'
<1> DEFINE v == [w[i] EXCEPT !.pc = "writing", !.batch = batch, !.then = then]
<1>1. w \in [Name -> Writer] /\ w[i] \in Writer
  BY DEF Inv, TypeOK
<1>2. w' = [w EXCEPT ![i] = v] /\ flight' = flight
  BY <1>1 DEF Send
<1>3. w'[i] = v /\ \A j \in Name \ {i} : w'[j] = w[j]
  BY <1>1, <1>2
<1>4. /\ v.pc = "writing" /\ v.batch = batch /\ v.then = then
      /\ v.mem = w[i].mem /\ v.epoch = w[i].epoch
  BY <1>1 DEF Writer
<1> HIDE DEF v
<1>5. Good(w[i].mem)
  BY CopyHolder DEF Inv, WritersOK
<1>6. BatchOK(i, v)
  BY <1>4 DEF BatchOK
<1>7. then # "warm" => Claimed(v.mem \o v.batch)
  <2>1. CASE batch = TakeOver(i, w[i].mem)
    BY <2>1, <1>4, <1>5, TakeOverClaims
  <2>2. CASE batch # TakeOver(i, w[i].mem)
    BY <2>2, <1>4, <1>5, StepClaims
  <2>3. QED
    BY <2>1, <2>2
<1>8. WriterBatch(i, v)
  BY <1>4, <1>6, <1>7 DEF WriterBatch, ClaimHeld
<1>9. QED
  BY <1>2, <1>3, <1>8 DEF Batched

\* A Writer that goes on, or is dropped, with nothing to send.
LEMMA PlaceBatch ==
  ASSUME Inv, Batched, NEW i \in Name, NEW v, w' = [w EXCEPT ![i] = v],
         v.pc # "writing", v.pc \in {"held", "running", "done"} => Claimed(v.mem),
         \A x \in flight' : x \in flight \/ (w[i].pc = "writing" /\ x = WriteOf(i))
  PROVE  Batched'
<1>1. w'[i] = v /\ \A j \in Name \ {i} : w'[j] = w[j]
  BY DEF Inv, TypeOK
<1>2. WriterBatch(i, v)
  BY DEF WriterBatch, ClaimHeld
<1>3. ASSUME w[i].pc = "writing"
      PROVE  BatchOK(i, WriteOf(i)) /\ WriteOf(i).by = i
  BY <1>3 DEF Batched, WriterBatch, BatchOK, WriteOf
<1>4. \A x \in flight' : BatchOK(x.by, x)
  BY <1>3 DEF Batched
<1>5. \A j \in Name : WriterBatch(j, w'[j])
  BY <1>1, <1>2 DEF Batched
<1>6. QED
  BY <1>4, <1>5 DEF Batched

LEMMA BatchedInit == Init => Batched
BY DEF Init, Batched, WriterBatch, ClaimHeld, NoWriter

LEMMA BatchedNext == Inv /\ Batched /\ [Next]_vars => Batched'
<1> SUFFICES ASSUME Inv, Batched, [Next]_vars
             PROVE  Batched'
  OBVIOUS
<1>1. w \in [Name -> Writer] /\ \A i \in Name : w[i] \in Writer
  BY DEF Inv, TypeOK
<1>2. NoWriter.pc = "idle"
  BY DEF NoWriter
<1>3. ASSUME w' = w, flight' \subseteq flight
      PROVE  Batched'
  BY <1>3 DEF Batched
<1>4. \A i \in Name : /\ CopyOK(w[i], rec, records, rows) /\ WriterOK(i, w[i], rows)
                     /\ WriterBatch(i, w[i])
  BY DEF Inv, WritersOK, Batched
<1>5. ASSUME NEW i \in Name, w' = [w EXCEPT ![i] = NoWriter],
             \A x \in flight' : x \in flight \/ (w[i].pc = "writing" /\ x = WriteOf(i))
      PROVE  Batched'
  BY <1>2, <1>5, PlaceBatch
<1>6. ASSUME NEW i \in Name, FirstBeat(i) \/ Expire(i) \/ LoadFails(i)
      PROVE  Batched'
  BY <1>3, <1>6 DEF FirstBeat, Expire, LoadFails
<1>7. ASSUME NEW i \in Name, Lapse(i) \/ Close(i)
      PROVE  Batched'
  <2>1. w' = [w EXCEPT ![i] = IF w[i].pc = "warm" THEN NoWriter ELSE w[i]]
        /\ flight' = flight
    BY <1>7 DEF Lapse, Close, GiveUpName, DropWarmOf
  <2>2. CASE w[i].pc = "warm"
    BY <1>5, <2>1, <2>2
  <2>3. CASE w[i].pc # "warm"
    <3>1. w' = w
      BY <1>1, <2>1, <2>3
    <3>2. QED
      BY <1>3, <2>1, <3>1
  <2>4. QED
    BY <2>2, <2>3
<1>8. ASSUME NEW i \in Name, Crash(i) \/ DropWarm(i)
      PROVE  Batched'
  BY <1>5, <1>8 DEF Crash, DropWarm
<1>9. ASSUME NEW i \in Name, WriteRefused(i) \/ WriteUnknown(i) \/ GuardRefuses(i)
      PROVE  Batched'
  <2>1. w' = [w EXCEPT ![i] = NoWriter]
    BY <1>9 DEF WriteRefused, WriteUnknown, GuardRefuses
  <2>2. \A x \in flight' : x \in flight \/ (w[i].pc = "writing" /\ x = WriteOf(i))
    BY <1>9 DEF WriteRefused, WriteUnknown, GuardRefuses
  <2>3. QED
    BY <1>5, <2>1, <2>2
<1>10. ASSUME NEW i \in Name, CreateSession(i)
       PROVE  Batched'
  <2> DEFINE x == [by |-> i, epoch |-> records + 1, mem |-> <<>>,
                   batch |-> StartWriting(i, records + 1, TRUE)]
  <2>1. w' = w /\ flight' = flight \cup {x}
    BY <1>10 DEF CreateSession
  <2>2. /\ x.mem = <<>> /\ x.by = i
        /\ \E idle \in BOOLEAN : x.batch = StartWriting(i, x.epoch, idle)
    OBVIOUS
  <2> HIDE DEF x
  <2>3. BatchOK(x.by, x)
    BY <2>2 DEF BatchOK
  <2>4. QED
    BY <2>1, <2>3 DEF Batched
<1>11. ASSUME NEW i \in Name, CreateForRun(i)
       PROVE  Batched'
  <2> DEFINE v == [NoWriter EXCEPT !.pc = "writing", !.epoch = 1, !.then = "held",
                                   !.batch = StartWriting(i, 1, FALSE)]
  <2>1. w' = [w EXCEPT ![i] = v] /\ flight' = flight
    BY <1>11 DEF CreateForRun
  <2>2. w'[i] = v /\ \A j \in Name \ {i} : w'[j] = w[j]
    BY <1>1, <2>1
  <2>3. /\ v.pc = "writing" /\ v.mem = <<>> /\ v.epoch = 1
        /\ v.batch = StartWriting(i, 1, FALSE)
    BY DEF NoWriter
  <2> HIDE DEF v
  <2>4. Claimed(v.mem \o v.batch)
    BY <2>3, StartClaims
  <2>5. WriterBatch(i, v)
    BY <2>3, <2>4 DEF WriterBatch, ClaimHeld, BatchOK
  <2>6. QED
    BY <2>1, <2>2, <2>5 DEF Batched
<1>12. ASSUME NEW i \in Name, NEW use, LoadInto(i, use), flight' = flight
       PROVE  Batched'
  <2> DEFINE v == [NoWriter EXCEPT !.pc = IF Holder(rec.log) = i THEN "checked" ELSE "loaded",
                                   !.epoch = rec.epoch, !.mem = rec.log, !.use = use]
  <2>1. w' = [w EXCEPT ![i] = v]
    BY <1>12 DEF LoadInto
  <2>2. v.pc \in {"checked", "loaded"}
    BY DEF NoWriter
  <2> HIDE DEF v
  <2>3. QED
    BY <1>12, <2>1, <2>2, PlaceBatch
<1>13. ASSUME NEW i \in Name, NEW use, Open(i, use)
       PROVE  Batched'
  BY <1>12, <1>13 DEF Open
<1>14. ASSUME NEW i \in Name, Repair(i)
       PROVE  Batched'
  <2>1. flight' = flight /\ (w' = w \/ LoadInto(i, "repair"))
    BY <1>14 DEF Repair
  <2>2. QED
    BY <1>3, <1>12, <2>1
<1>15. ASSUME NEW i \in Name, NEW pc \in Pc, NEW use,
              w' = [w EXCEPT ![i] = [w[i] EXCEPT !.pc = pc, !.use = use]],
              flight' = flight, pc \in {"checked", "judged"} \/ (pc = "done" /\ w[i].pc = "held")
       PROVE  Batched'
  <2> DEFINE v == [w[i] EXCEPT !.pc = pc, !.use = use]
  <2>1. w' = [w EXCEPT ![i] = v] /\ v.pc = pc /\ v.mem = w[i].mem
    BY <1>1, <1>15 DEF Writer
  <2> HIDE DEF v
  <2>2. w[i].pc = "held" => Claimed(w[i].mem)
    BY <1>4 DEF WriterBatch, ClaimHeld
  <2>3. v.pc # "writing" /\ (v.pc \in {"held", "running", "done"} => Claimed(v.mem))
    BY <1>15, <2>1, <2>2
  <2>4. QED
    BY <1>15, <2>1, <2>3, PlaceBatch
<1>16. ASSUME NEW i \in Name, HolderCheck(i)
       PROVE  Batched'
  <2>1. flight' = flight
    BY <1>16 DEF HolderCheck
  <2>2. CASE w' = [w EXCEPT ![i].pc = "checked"]
    <3>1. w' = [w EXCEPT ![i] = [w[i] EXCEPT !.pc = "checked", !.use = w[i].use]]
      BY <1>1, <2>2 DEF Writer
    <3>2. QED
      BY <1>15, <2>1, <3>1 DEF Pc
  <2>3. CASE w' = [w EXCEPT ![i] = NoWriter]
    BY <1>5, <2>1, <2>3
  <2>4. QED
    BY <1>16, <2>2, <2>3 DEF HolderCheck
<1>17. ASSUME NEW i \in Name, NEW use, Stale(i, use)
       PROVE  Batched'
  <2>1. flight' = flight
    BY <1>17 DEF Stale
  <2>2. CASE w' = [w EXCEPT ![i].pc = "judged", ![i].use = use]
    <3>1. w' = [w EXCEPT ![i] = [w[i] EXCEPT !.pc = "judged", !.use = use]]
      BY <1>1, <2>2 DEF Writer
    <3>2. QED
      BY <1>15, <2>1, <3>1 DEF Pc
  <2>3. CASE w' = [w EXCEPT ![i] = NoWriter]
    BY <1>5, <2>1, <2>3
  <2>4. QED
    BY <1>17, <2>2, <2>3 DEF Stale
<1>18. ASSUME NEW i \in Name, Delete(i)
       PROVE  Batched'
  <2>1. flight' = flight /\ w[i].pc = "held"
    BY <1>18 DEF Delete
  <2>2. CASE w' = [w EXCEPT ![i].pc = "done"]
    <3>1. w' = [w EXCEPT ![i] = [w[i] EXCEPT !.pc = "done", !.use = w[i].use]]
      BY <1>1, <2>2 DEF Writer
    <3>2. QED
      BY <1>15, <2>1, <3>1 DEF Pc
  <2>3. CASE w' = [w EXCEPT ![i] = NoWriter]
    BY <1>5, <2>1, <2>3
  <2>4. QED
    BY <1>18, <2>2, <2>3 DEF Delete
<1>19. ASSUME NEW i \in Name, Claim(i)
       PROVE  Batched'
  <2>1. w[i].pc = "checked" /\ Send(i, TakeOver(i, w[i].mem), "held")
    BY <1>19 DEF Claim
  <2>2. w[i].mem # <<>>
    BY <1>4, <2>1 DEF WriterOK
  <2>3. QED
    BY <2>1, <2>2, SendBatch
<1>20. ASSUME NEW i \in Name, Resume(i)
       PROVE  Batched'
  <2>1. w[i].pc = "judged" /\ Send(i, Reclaim(i, w[i].mem), "held")
    BY <1>20 DEF Resume
  <2>2. w[i].mem # <<>> /\ ~Running(w[i].mem)
    BY <1>4, <2>1 DEF WriterOK
  <2>3. QED
    BY <2>1, <2>2, SendBatch, ReclaimIsTakeOver
<1>21. ASSUME NEW i \in Name, StartRun(i) \/ EndRun(i) \/ Release(i)
       PROVE  Batched'
  <2>1. PICK kind \in {"released", "started", "ended"}, next \in Pc :
          /\ Send(i, Step(kind, i, w[i].mem), next)
          /\ w[i].pc \in {"held", "running", "done"}
          /\ w[i].pc = "running" <=> kind = "ended"
          /\ kind = "released" => next = "warm"
    BY <1>21 DEF StartRun, EndRun, Release, Pc
  <2>2. /\ w[i].mem # <<>> /\ Holder(w[i].mem) = i
        /\ Running(w[i].mem) <=> kind = "ended"
        /\ w[i].pc # "writing"
    BY <1>4, <2>1 DEF WriterOK
  <2>3. Claimed(w[i].mem)
    BY <1>4, <2>1 DEF WriterBatch, ClaimHeld
  <2>4. QED
    BY <2>1, <2>2, <2>3, SendBatch
<1>22. ASSUME NEW i \in Name, WriteOk(i)
       PROVE  Batched'
  <2> DEFINE v == Confirmed(i)
  <2>1. w' = [w EXCEPT ![i] = v] /\ flight' = flight /\ w[i].pc = "writing"
    BY <1>22 DEF WriteOk
  <2>2. v.pc = w[i].then /\ v.mem = w[i].mem \o w[i].batch
    BY <1>1 DEF Confirmed, Writer
  <2> HIDE DEF v
  <2>3. w[i].then \in {"held", "running", "done", "warm"}
    BY <1>4, <2>1 DEF WriterOK
  <2>4. w[i].then # "warm" => Claimed(w[i].mem \o w[i].batch)
    BY <1>4, <2>1 DEF WriterBatch, ClaimHeld
  <2>5. v.pc # "writing" /\ (v.pc \in {"held", "running", "done"} => Claimed(v.mem))
    BY <2>2, <2>3, <2>4
  <2>6. QED
    BY <2>1, <2>5, PlaceBatch
<1>23. ASSUME NEW x \in flight, LateLands(x) \/ LateLost(x)
       PROVE  Batched'
  BY <1>3, <1>23 DEF LateLands, LateLost
<1>24. CASE UNCHANGED vars
  BY <1>3, <1>24 DEF vars
<1>25. QED
  BY <1>6, <1>7, <1>8, <1>9, <1>10, <1>11, <1>13, <1>14, <1>16, <1>17, <1>18, <1>19,
     <1>20, <1>21, <1>22, <1>23, <1>24 DEF Next, Progress

-----------------------------------------------------------------------------

\* A write that lands is a Create, a Claim, or a step of the Session's owner.
LEMMA LandedKeepsPromise ==
  ASSUME Inv, Batched, NEW x \in Outstanding, Accepts(x), rec' = Landed(x), rows' = rows
  PROVE  Promise!Next
<1>1. /\ CopyOK(x, rec, records, rows) /\ SendOK(x.by, x, rows)
      /\ x.by \in Name /\ x.epoch \in Nat
  <2>1. x \in Write
    BY DEF Outstanding, Inv, TypeOK, WriteOf, Writer, Write
  <2>2. QED
    BY <2>1, OutstandingOK DEF Write
<1>2. BatchOK(x.by, x)
  BY DEF Outstanding, Batched, WriterBatch, BatchOK, WriteOf
<1>3. x.mem = rec.log /\ rec'.log = x.mem \o x.batch /\ rec'.epoch = x.epoch
  BY <1>1, Fenced DEF Landed
<1>4. Exists' /\ Holder(rec'.log) = x.by
  BY <1>1, <1>3 DEF Exists, SendOK
<1>5. {i \in Name : rows'[i] = "dead"} = {i \in Name : rows[i] = "dead"}
  OBVIOUS
<1>6. CASE x.mem = <<>>
  <2>1. PICK idle \in BOOLEAN : x.batch = StartWriting(x.by, x.epoch, idle)
    BY <1>2, <1>6 DEF BatchOK
  <2>2. ~Exists
    BY <1>6 DEF Accepts, Exists
  <2>3. ClaimEpoch(rec'.log) = 1 /\ ~Running(rec'.log) /\ Claimed(rec'.log) \in BOOLEAN
    BY <1>1, <1>3, <1>6, <2>1, StartClaims, StartGood DEF Claimed
  <2>4. Promise!Create(x.by)
    BY <1>4, <1>5, <2>2, <2>3 DEF Promise!Create, Exists
  <2>5. QED
    BY <1>1, <2>4 DEF Promise!Next
<1>7. CASE x.mem # <<>>
  <2>1. Exists /\ Good(rec.log) /\ Holder(rec.log) \in Name /\ Holder(rec.log) # Nobody
    <3>1. Exists
      BY <1>7 DEF Accepts, Exists
    <3>2. QED
      BY <3>1, <1>1, <1>3, <1>7, CopyHolder, ClaimsAssumption
  <2>2. CASE x.batch = TakeOver(x.by, x.mem)
    <3>1. /\ Claimed(rec'.log) /\ ~Running(rec'.log)
          /\ ClaimEpoch(rec'.log) =
               IF Holder(rec.log) = x.by THEN ClaimEpoch(rec.log) ELSE ClaimEpoch(rec.log) + 1
      BY SMTT(30), <1>1, <1>3, <2>1, <2>2, TakeOverClaims, TakeOverGood
    <3>2. \/ Holder(rec.log) = x.by
          \/ ~Claimed(rec.log) /\ ~Running(rec.log)
          \/ Holder(rec.log) \in {i \in Name : rows[i] = "dead"}
      BY <1>1, <1>3, <1>7, <2>1 DEF SendOK, MayClaim, Busy
    <3>3. Promise!Claim(x.by)
      BY <1>4, <1>5, <2>1, <3>1, <3>2 DEF Promise!Claim, Promise!Free, Exists
    <3>4. QED
      BY <1>1, <3>3 DEF Promise!Next
  <2>3. CASE x.batch # TakeOver(x.by, x.mem)
    <3>1. PICK kind \in {"released", "started", "ended"} :
            /\ x.batch = Step(kind, x.by, x.mem)
            /\ Running(rec.log) <=> kind = "ended"
            /\ Holder(rec.log) = x.by /\ Claimed(rec.log)
      BY <1>2, <1>3, <1>7, <2>3 DEF BatchOK
    <3>2. /\ Claimed(rec'.log) <=> kind # "released"
          /\ ClaimEpoch(rec'.log) = ClaimEpoch(rec.log)
          /\ Running(rec'.log) <=> kind = "started"
      <4>1. rec'.log = rec.log \o Step(kind, x.by, rec.log)
        BY <1>3, <3>1
      <4>2. /\ Claimed(rec.log \o Step(kind, x.by, rec.log)) <=> kind # "released"
            /\ ClaimEpoch(rec.log \o Step(kind, x.by, rec.log)) = ClaimEpoch(rec.log)
        BY <1>1, <2>1, <3>1, StepClaims
      <4>3. Running(rec.log \o Step(kind, x.by, rec.log)) <=> kind = "started"
        BY <1>1, <2>1, <3>1, StepGood
      <4>4. QED
        BY <4>1, <4>2, <4>3
    <3>3. CASE kind = "started"
      <4>1. Promise!Start(x.by)
        BY <1>4, <1>5, <2>1, <3>1, <3>2, <3>3 DEF Promise!Start, Exists
      <4>2. QED
        BY <1>1, <4>1 DEF Promise!Next
    <3>4. CASE kind = "ended"
      <4>1. Running(rec'.log) = FALSE /\ Claimed(rec'.log) = Claimed(rec.log)
        BY <3>1, <3>2, <3>4 DEF Running, Claimed
      <4>2. Promise!End(x.by)
        BY <1>4, <1>5, <2>1, <3>1, <3>2, <3>4, <4>1 DEF Promise!End, Exists
      <4>3. QED
        BY <1>1, <4>2 DEF Promise!Next
    <3>5. CASE kind = "released"
      <4>1. Claimed(rec'.log) = FALSE /\ Running(rec'.log) = Running(rec.log)
        BY <3>1, <3>2, <3>5 DEF Running, Claimed
      <4>2. Promise!Release(x.by)
        BY <1>4, <1>5, <2>1, <3>1, <3>2, <3>5, <4>1 DEF Promise!Release, Exists
      <4>3. QED
        BY <1>1, <4>2 DEF Promise!Next
    <3>6. QED
      BY <3>3, <3>4, <3>5
  <2>4. QED
    BY <2>2, <2>3
<1>8. QED
  BY <1>6, <1>7

\* A step that changes the Record leaves the rows.
LEMMA RecordStepsKeepRows ==
  ASSUME Next, rec' # rec
  PROVE  rows' = rows
BY ZenonT(30) DEF Next, Progress, FirstBeat, Expire, Lapse, Close, GiveUpName, Crash, CreateSession,
       CreateForRun, LoadFails, DropWarm, HolderCheck, Repair, WriteRefused,
       GuardRefuses, Open, Stale, Claim, Resume, StartRun, EndRun, Release, Send,
       Delete, WriteOk, WriteUnknown, LateLands, LateLost

\* A row only ever dies, one at a time.
LEMMA RowSteps ==
  ASSUME Inv, [Next]_vars
  PROVE  LET dead == {i \in Name : rows[i] = "dead"}
         IN  dead' = dead \/ \E i \in Name : dead' = dead \cup {i}
<1> DEFINE dead == {i \in Name : rows[i] = "dead"}
<1>1. rows \in [Name -> {"none", "alive", "dead"}]
  BY DEF Inv, TypeOK
<1>2. ASSUME NEW i \in Name, FirstBeat(i)
      PROVE  dead' = dead
  BY <1>1, <1>2 DEF FirstBeat
<1>3. ASSUME NEW i \in Name, Expire(i) \/ Close(i)
      PROVE  dead' = dead \cup {i}
  <2>1. rows' = [rows EXCEPT ![i] = "dead"]
    BY <1>3 DEF Expire, Close
  <2>2. QED
    BY <1>1, <2>1
<1>4. ASSUME rows' = rows
      PROVE  dead' = dead
  BY <1>4
<1>5. \/ rows' = rows
      \/ \E i \in Name : FirstBeat(i) \/ Expire(i) \/ Close(i)
  BY ZenonT(30) DEF vars, Next, Progress, Lapse, GiveUpName, Crash, CreateSession,
         CreateForRun, LoadFails, DropWarm, HolderCheck, Repair, WriteRefused,
         GuardRefuses, Open, Stale, Claim, Resume, StartRun, EndRun, Release, Send,
         Delete, WriteOk, WriteUnknown, LateLands, LateLost
<1>6. QED
  BY <1>2, <1>3, <1>4, <1>5

\* Every step of the claims is a step of Ownership, or none.
LEMMA PromiseStep == Inv /\ Batched /\ [Next]_vars => [Promise!Next]_(Promise!vars)
<1> SUFFICES ASSUME Inv, Batched, [Next]_vars
             PROVE  [Promise!Next]_(Promise!vars)
  OBVIOUS
<1> DEFINE dead == {i \in Name : rows[i] = "dead"}
<1>1. CASE rec' = rec
  <2>1. CASE dead' = dead
    BY <1>1, <2>1 DEF Promise!vars, Exists
  <2>2. ASSUME NEW i \in Name, dead' = dead \cup {i}
        PROVE  Promise!Next
    BY <1>1, <2>2 DEF Promise!Next, Promise!Die, Exists
  <2>3. QED
    BY <2>1, <2>2, RowSteps
<1>2. CASE rec' # rec
  <2>1. Next /\ rows' = rows
    BY <1>2, RecordStepsKeepRows DEF vars
  <2>2. ASSUME rec' = NoRecord
        PROVE  Promise!Next
    <3>1. Exists /\ ~Exists'
      BY <1>2, <2>2 DEF Inv, TypeOK, Exists, NoRecord
    <3>2. Holder(rec.log) # Nobody
      BY <3>1, GoodHolder, ClaimsAssumption DEF Inv, RecordOK, Exists
    <3>3. Claimed(rec'.log) = FALSE /\ Running(rec'.log) = FALSE
      BY <2>2 DEF NoRecord, Claimed, Running
    <3>4. Promise!Delete
      BY <2>1, <3>1, <3>2, <3>3 DEF Promise!Delete, Exists
    <3>5. QED
      BY <3>4 DEF Promise!Next
  <2>3. ASSUME NEW x \in Outstanding, Accepts(x), rec' = Landed(x)
        PROVE  Promise!Next
    BY <2>1, <2>3, LandedKeepsPromise
  <2>4. QED
    BY <1>2, <2>1, <2>2, <2>3, RecordSteps
<1>3. QED
  BY <1>1, <1>2

\* The log, the two fences, the holder check and the Liveness rows implement
\* Ownership: one owner at a time, who alone starts, ends and releases, and a
\* Session in use that changes hands only when its owner is dead.
THEOREM OwnershipIsKept == Spec => KeepsOwnership
<1>1. Init => Promise!Init
  BY DEF Init, NoRecord, Promise!Init, Exists, Claimed, Running
<1>2. Inv /\ Batched /\ [Next]_vars => [Promise!Next]_(Promise!vars)
  BY PromiseStep
<1>3. QED
  BY <1>1, <1>2, Invariance, BatchedInit, BatchedNext, PTL DEF Spec, KeepsOwnership, Promise!Spec

=============================================================================
