------------------------ MODULE WarmSessionsProofs ------------------------
(***************************************************************************)
(* What the warm Sessions of an Instance keep, for any Sessions and calls, *)
(* any bounds, and any timers, failures, foreign writes and drains.        *)
(*                                                                         *)
(* No step but Put gives a Session a copy, and no step but BeginIdle lets  *)
(* a compaction begin: EntryStep says what every other step may do to the  *)
(* cache and to an entry.  The invariants are counts (the holds of an      *)
(* entry are its holders, an entry is put once for every call) and what a  *)
(* call's place says of it.  The locks play no part.                       *)
(***************************************************************************)
EXTENDS WarmSessions, Integers, FiniteSetTheorems, WellFoundedInduction, TLAPS

IdlePc == {"off", "armed", "fired", "acquire", "check", "compact", "unlock", "end"}

\* A copy.
Copy == [session : Session, holds : Int, dead : BOOLEAN, idle : IdlePc,
         ttl : {"off", "armed", "fired", "waits"}, canceled : BOOLEAN, failed : BOOLEAN]

CallPc == {"admit", "check", "evict", "evicting", "hold", "got", "holding", "lock", "take",
           "use", "keep", "put", "trim", "trimmed", "trimming", "release", "unhold", "over",
           "done"}

CallRec == [pc : CallPc, held : Entry \cup {NoEntry}, victim : Entry \cup {NoEntry}]

\* Every variable has its type; the locks may be what they like.
WarmTypes ==
  /\ cache \in [Session -> Entry \cup {NoEntry}]
  /\ entry \in [Entry -> Copy]
  /\ seq \in Nat
  /\ closed \in BOOLEAN
  /\ runs \in [Session -> SUBSET Call]
  /\ call \in [Call -> CallRec]
  /\ sweep \in [pc : {"idle", "list", "next", "waits", "closed"}, left : SUBSET Entry]
  /\ load \in [active : Nat, calls : SUBSET Call, fails : Nat, foreign : Nat, drains : Nat]

\* Where a call is past Put, and where it has no hold.
PastPut == {"trim", "trimmed", "trimming", "release", "unhold", "over", "done"}

NoHold == {"admit", "check", "evict", "evicting", "hold", "over", "done"}

\* What a call's place says of the entry it holds and of the one it drops.
PlaceInv ==
  \A c \in Call :
    /\ call[c].pc \in NoHold => call[c].held = NoEntry
    /\ call[c].pc \in {"got", "holding"} => call[c].held # NoEntry
    /\ call[c].pc \in {"evict", "evicting", "trimmed", "trimming"} => call[c].victim # NoEntry

\* An entry is put at most once for every call.
SeqInv == seq <= Cardinality({c \in Call : call[c].pc \in PastPut})

\* Entries to come are as at first; a cached one is its Session's, and did not fail.
CacheInv ==
  /\ \A e \in Entry : e > seq => entry[e].idle = "off" /\ ~entry[e].failed
  /\ \A s \in Session : cache[s] # NoEntry =>
       /\ cache[s] <= seq
       /\ entry[cache[s]].session = s
       /\ ~entry[cache[s]].failed

Holders(e) == {c \in Call : call[c].held = e /\ call[c].pc # "got"}

\* An entry's holds are its holders.
HoldsInv == \A e \in Entry : entry[e].holds = Cardinality(Holders(e))

\* A Run is in the table while it uses its Session, and a call that is not made
\* is over.
RunsInv ==
  \A c \in Call :
    /\ c \in Run /\ call[c].pc \notin {"admit", "evict", "evicting", "done"} =>
         c \in runs[SessionOf[c]]
    /\ c \in Run => call[c].pc # "check"
    /\ c \notin load.calls => call[c].pc = "done"

\* Close goes through all there is.
SweepInv ==
  /\ sweep.pc # "idle" => closed
  /\ sweep.pc \in {"next", "waits"} => Copies \subseteq sweep.left
  /\ sweep.pc = "closed" => Copies = {}

\* The Sessions in memory.
InMemory == {s \in Session : Busy(s) \/ cache[s] # NoEntry}

BoundInv ==
  (load.active > 0 /\ load.calls \cap Edit = {}) => Cardinality(InMemory) <= load.active

Inv ==
  /\ WarmTypes /\ PlaceInv /\ SeqInv /\ CacheInv /\ HoldsInv /\ HeldCopiesAreNotCompacted
  /\ RunsInv /\ SweepInv /\ BoundInv
---------------------------------------------------------------------------
(* The cache and its entries.                                              *)

\* What a step that puts nothing may do to an entry.
Calmed(x, y) ==
  /\ y.session = x.session
  /\ x.idle = "off" => y.idle = "off"
  /\ y.idle \in {"acquire", "check", "compact", "unlock", "end"} =>
       \/ x.idle \in {"acquire", "check", "compact", "unlock", "end"}
       \/ x.idle = "fired" /\ x.holds = 0

\* What dropping an entry leaves of it.
LEMMA DropFacts ==
  ASSUME NEW x \in Copy
  PROVE  /\ DropEntry(x) \in Copy /\ Calmed(x, DropEntry(x))
         /\ DropEntry(x).failed = x.failed /\ DropEntry(x).holds = x.holds
         /\ DropEntry(x).idle = "armed" => FALSE
<1> DEFINE i == IF x.idle = "armed" THEN "off" ELSE x.idle
           l == IF x.ttl = "armed" THEN "off" ELSE x.ttl
<1>1. /\ i \in IdlePc /\ l \in {"off", "armed", "fired", "waits"} /\ i # "armed"
      /\ x.idle = "off" => i = "off"
      /\ i \in {"acquire", "check", "compact", "unlock", "end"} => i = x.idle
  BY DEF Copy, IdlePc
<1>2. DropEntry(x) = [[x EXCEPT !.idle = i, !.ttl = l] EXCEPT !.dead = TRUE]
  BY DEF DropEntry, StopTimers
<1> HIDE DEF i, l
<1>3. DropEntry(x) = [x EXCEPT !.idle = i, !.ttl = l, !.dead = TRUE]
  BY <1>2 DEF Copy
<1>4. DropEntry(x) \in Copy
  BY <1>1, <1>3 DEF Copy
<1>5. /\ DropEntry(x).failed = x.failed /\ DropEntry(x).holds = x.holds
      /\ DropEntry(x).session = x.session /\ DropEntry(x).idle = i
  BY <1>3 DEF Copy
<1>6. QED
  BY <1>1, <1>4, <1>5 DEF Calmed

\* What a step that puts nothing does to the cache and to its entries.
Shrinks ==
  /\ seq' = seq
  /\ cache' \in [Session -> Entry \cup {NoEntry}]
  /\ \A s \in Session : cache'[s] = cache[s] \/ cache'[s] = NoEntry
  /\ entry' \in [Entry -> Copy]
  /\ \A e \in Entry :
       /\ Calmed(entry[e], entry'[e])
       /\ \/ entry'[e].failed = entry[e].failed
          \/ entry[e].idle # "off" /\ \A s \in Session : cache'[s] # e

SameHolds == \A e \in Entry : entry'[e].holds = entry[e].holds

\* The steps that change neither.
Quiet(c) ==
  \/ Admit(c) \/ CheckDraining(c) \/ GetEntry(c) \/ HoldWaited(c) \/ TakeLock(c) \/ Use(c)
  \/ KeepWarm(c) \/ TrimWarm(c) \/ Release(c) \/ Unregister(c)

LEMMA QuietFrame ==
  ASSUME NEW c, Quiet(c)
  PROVE  UNCHANGED <<cache, entry, seq>>
BY DEF Quiet, Admit, CheckDraining, GetEntry, HoldWaited, TakeLock, Use, KeepWarm, TrimWarm, Release,
  Unregister

\* One entry changes.
LEMMA OneChanges ==
  ASSUME WarmTypes, NEW e \in Entry, NEW v \in Copy, Calmed(entry[e], v),
         entry' = [entry EXCEPT ![e] = v], seq' = seq,
         cache' \in [Session -> Entry \cup {NoEntry}],
         \A s \in Session : cache'[s] = cache[s] \/ cache'[s] = NoEntry,
         \/ v.failed = entry[e].failed
         \/ entry[e].idle # "off" /\ \A s \in Session : cache'[s] # e
  PROVE  /\ Shrinks
         /\ v.holds = entry[e].holds => SameHolds
<1>1. entry \in [Entry -> Copy]
  BY DEF WarmTypes
<1>2. \A d \in Entry : entry'[d] = IF d = e THEN v ELSE entry[d]
  BY <1>1
<1>3. entry' \in [Entry -> Copy]
  BY <1>1
<1>4. \A d \in Entry : Calmed(entry[d], entry'[d])
  <2> SUFFICES ASSUME NEW d \in Entry PROVE Calmed(entry[d], entry'[d])
    OBVIOUS
  <2>1. CASE d = e
    BY <1>2, <2>1
  <2>2. CASE d # e
    BY <1>2, <2>2 DEF Calmed
  <2>3. QED
    BY <2>1, <2>2
<1>5. QED
  BY <1>2, <1>3, <1>4 DEF Shrinks, SameHolds

\* No entry changes.
LEMMA NoneChanges ==
  ASSUME WarmTypes, UNCHANGED <<cache, entry, seq>>
  PROVE  Shrinks /\ SameHolds
BY DEF WarmTypes, Shrinks, SameHolds, Calmed

\* Cache.Remove.
LEMMA RemovedFacts ==
  ASSUME WarmTypes, NEW e, Removed(e), seq' = seq
  PROVE  /\ Shrinks /\ SameHolds
         /\ CacheInv => \A s \in Session : cache'[s] # NoEntry => cache'[s] # e
<1>1. CASE e \notin Copies
  <2>1. UNCHANGED <<cache, entry, seq>>
    BY <1>1 DEF Removed
  <2>2. cache \in [Session -> Entry \cup {NoEntry}]
    BY DEF WarmTypes
  <2>3. QED
    BY <1>1, <2>1, <2>2, NoneChanges DEF Copies
<1>2. CASE e \in Copies
  <2>1. e \in Entry /\ entry[e] \in Copy /\ cache \in [Session -> Entry \cup {NoEntry}]
    BY <1>2 DEF Copies, WarmTypes
  <2>2. /\ cache' = [cache EXCEPT ![entry[e].session] = NoEntry]
        /\ entry' = [entry EXCEPT ![e] = DropEntry(entry[e])]
    BY <1>2 DEF Removed
  <2>3. /\ cache' \in [Session -> Entry \cup {NoEntry}]
        /\ \A s \in Session : cache'[s] = IF s = entry[e].session THEN NoEntry ELSE cache[s]
    BY <2>1, <2>2
  <2>4. Shrinks /\ SameHolds
    BY <2>1, <2>2, <2>3, DropFacts, OneChanges
  <2>5. CacheInv => \A s \in Session : cache'[s] # NoEntry => cache'[s] # e
    BY <2>3 DEF CacheInv
  <2>6. QED
    BY <2>4, <2>5
<1>3. QED
  BY <1>1, <1>2

\* A step that puts nothing.
LEMMA EntryStep ==
  ASSUME WarmTypes, PlaceInv, [Next]_warmVars, \A c \in Call : ~Put(c)
  PROVE  /\ Shrinks
         /\ (\A c \in Call : ~Hold(c) /\ ~Unhold(c)) => SameHolds
<1> DEFINE Goal == Shrinks /\ ((\A c \in Call : ~Hold(c) /\ ~Unhold(c)) => SameHolds)
<1>0. /\ entry \in [Entry -> Copy] /\ cache \in [Session -> Entry \cup {NoEntry}]
      /\ call \in [Call -> CallRec] /\ NoEntry \notin Entry
  BY DEF WarmTypes, NoEntry, Entry
\* One entry is changed in place.
<1>a. ASSUME NEW e \in Entry, NEW v \in Copy, Calmed(entry[e], v), v.failed = entry[e].failed,
             v.holds = entry[e].holds, entry' = [entry EXCEPT ![e] = v], UNCHANGED <<cache, seq>>
      PROVE  Goal
  BY <1>0, <1>a, OneChanges
<1>b. ASSUME NEW e \in Entry, CancelIdle(e), UNCHANGED <<cache, seq>>
      PROVE  Goal
  <2> DEFINE v == [entry[e] EXCEPT !.canceled = TRUE]
  <2>1. v \in Copy /\ Calmed(entry[e], v) /\ v.failed = entry[e].failed /\ v.holds = entry[e].holds
    BY <1>0 DEF Copy, Calmed
  <2>2. entry' = [entry EXCEPT ![e] = v]
    BY <1>0, <1>b DEF CancelIdle
  <2>3. QED
    BY <1>a, <1>b, <2>1, <2>2
<1>1. ASSUME NEW c \in Call, CallStep(c)
      PROVE  Goal
  <2>1. CASE Quiet(c)
    BY <2>1, QuietFrame, NoneChanges
  <2>2. CASE CancelVictim(c)
    <3>1. call[c].victim \in Entry
      BY <1>0, <2>2 DEF CancelVictim, PlaceInv, CallRec
    <3>2. QED
      BY <1>b, <2>2, <3>1 DEF CancelVictim
  <2>3. CASE DropVictim(c)
    BY <2>3, RemovedFacts DEF DropVictim
  <2>4. CASE Hold(c)
    <3> DEFINE e == call[c].held
               b == entry[e].canceled \/ Going(e)
               v == [entry[e] EXCEPT !.holds = entry[e].holds + 1, !.canceled = b]
    <3>1. e \in Entry
      BY <1>0, <2>4 DEF Hold, PlaceInv, CallRec
    <3>2. entry' = [entry EXCEPT ![e] = v] /\ UNCHANGED <<cache, seq>>
      BY <1>0, <2>4, <3>1 DEF Hold
    <3>3. b \in BOOLEAN /\ entry[e].holds + 1 \in Int
      BY <1>0, <3>1 DEF Copy
    <3> HIDE DEF b
    <3>4. v \in Copy /\ Calmed(entry[e], v) /\ v.failed = entry[e].failed
      BY ZenonT(30), <1>0, <3>1, <3>3 DEF Copy, Calmed
    <3> HIDE DEF v, e
    <3>5. Shrinks
      BY <1>0, <3>1, <3>2, <3>4, OneChanges
    <3>6. QED
      BY <2>4, <3>5
  <2>5. CASE Take(c)
    <3> DEFINE k == SessionOf[c]
               e == cache[k]
    <3>1. /\ cache' = [cache EXCEPT ![k] = NoEntry] /\ seq' = seq
          /\ entry' = IF e = NoEntry THEN entry ELSE [entry EXCEPT ![e] = DropEntry(entry[e])]
      BY <2>5 DEF Take
    <3>2. /\ cache' \in [Session -> Entry \cup {NoEntry}]
          /\ \A s \in Session : cache'[s] = cache[s] \/ cache'[s] = NoEntry
      BY <1>0, <3>1
    <3>3. CASE e \in Entry
      <4>1. entry[e] \in Copy /\ entry' = [entry EXCEPT ![e] = DropEntry(entry[e])]
        BY <1>0, <3>1, <3>3
      <4>2. QED
        BY <3>1, <3>2, <3>3, <4>1, DropFacts, OneChanges
    <3>4. CASE entry' = entry
      BY <1>0, <3>1, <3>2, <3>4 DEF Shrinks, SameHolds, Calmed
    <3>5. CASE e # NoEntry /\ e \notin Entry
      <4>1. k \notin Session
        BY <1>0, <3>5
      <4>2. entry' = entry
        BY <1>0, <3>1, <3>5
      <4>3. QED
        BY <3>4, <4>2
    <3>6. QED
      BY <3>1, <3>3, <3>4, <3>5
  <2>6. CASE Unhold(c)
    <3> DEFINE e == call[c].held
    <3>1. e \in Entry \cup {NoEntry} /\ UNCHANGED <<cache, seq>>
      BY <1>0, <2>6 DEF Unhold, CallRec
    <3>2. CASE e = NoEntry
      <4>1. entry' = entry
        BY <2>6, <3>2 DEF Unhold
      <4>2. QED
        BY <3>1, <4>1, NoneChanges
    <3>3. CASE e \in Entry
      <4> DEFINE v == [entry[e] EXCEPT !.holds = entry[e].holds - 1]
      <4>1. entry' = [entry EXCEPT ![e] = v]
        BY <1>0, <2>6, <3>3 DEF Unhold
      <4>2. entry[e].holds - 1 \in Int
        BY <1>0, <3>3 DEF Copy
      <4>3. v \in Copy /\ Calmed(entry[e], v) /\ v.failed = entry[e].failed
        BY <1>0, <3>3, <4>2 DEF Copy, Calmed
      <4> HIDE DEF v, e
      <4>4. Shrinks
        BY <1>0, <3>1, <3>3, <4>1, <4>3, OneChanges
      <4>5. QED
        BY <2>6, <4>4
    <3>4. QED
      BY <3>1, <3>2, <3>3
  <2>7. QED
    BY <1>1, <2>1, <2>2, <2>3, <2>4, <2>5, <2>6 DEF CallStep, Quiet
<1>2. ASSUME NEW e \in Entry, IdleStep(e) \/ TTLFires(e) \/ IdleFires(e)
      PROVE  Goal
  <2> DEFINE x == entry[e]
  <2>0. x \in Copy
    BY <1>0
  <2>1. CASE TTLFires(e)
    <3>1. entry' = [entry EXCEPT ![e] = [x EXCEPT !.ttl = "fired"]] /\ UNCHANGED <<cache, seq>>
      BY <1>0, <2>1 DEF TTLFires
    <3>2. LET v == [x EXCEPT !.ttl = "fired"]
          IN  v \in Copy /\ Calmed(x, v) /\ v.failed = x.failed /\ v.holds = x.holds
      BY <2>0 DEF Copy, Calmed
    <3>3. QED
      BY <1>a, <3>1, <3>2
  <2>2. ASSUME NEW i \in IdlePc, entry' = [entry EXCEPT ![e] = [x EXCEPT !.idle = i]],
               UNCHANGED <<cache, seq>>, x.idle # "off",
               i \in {"off", "armed", "fired"} \/ Going(e)
        PROVE  Goal
    <3>1. LET v == [x EXCEPT !.idle = i]
          IN  v \in Copy /\ Calmed(x, v) /\ v.failed = x.failed /\ v.holds = x.holds
      BY <2>0, <2>2 DEF Copy, Calmed, Going, IdlePc
    <3>2. QED
      BY <1>a, <2>2, <3>1
  <2>3. CASE IdleFires(e)
    BY <1>0, <2>2, <2>3 DEF IdleFires, IdlePc
  <2>4. CASE BeginIdle(e)
    <3> DEFINE i == IF MayBeginIdle(x) THEN "acquire" ELSE "off"
               v == [x EXCEPT !.idle = i, !.canceled = FALSE]
    <3>1. entry' = [entry EXCEPT ![e] = v] /\ UNCHANGED <<cache, seq>> /\ x.idle = "fired"
      BY <1>0, <2>4 DEF BeginIdle
    <3>2. i \in IdlePc /\ (i = "off" \/ x.holds = 0)
      BY DEF IdlePc, MayBeginIdle
    <3> HIDE DEF i
    <3>3. v \in Copy /\ Calmed(x, v) /\ v.failed = x.failed /\ v.holds = x.holds
      BY <2>0, <3>1, <3>2 DEF Copy, Calmed
    <3> HIDE DEF v
    <3>4. QED
      BY <1>a, <3>1, <3>3
  <2>5. CASE AcquireIdle(e)
    BY <1>0, <2>2, <2>5 DEF AcquireIdle, IdlePc, Going
  <2>6. CASE EndIdle(e)
    BY <1>0, <2>2, <2>6 DEF EndIdle, IdlePc, Going
  <2>7. CASE CheckCopy(e)
    <3>1. CASE entry' = [entry EXCEPT ![e].idle = "unlock"] /\ UNCHANGED cache
      BY <1>0, <2>2, <2>7, <3>1 DEF CheckCopy, IdlePc, Going
    <3>2. CASE entry' = [entry EXCEPT ![e].idle = "compact"] /\ UNCHANGED cache
      BY <1>0, <2>2, <2>7, <3>2 DEF CheckCopy, IdlePc, Going
    <3>3. CASE /\ cache' = [cache EXCEPT ![entry[e].session] = NoEntry]
               /\ entry' = [entry EXCEPT ![e] = [DropEntry(entry[e]) EXCEPT !.idle = "unlock"]]
      <4> DEFINE y == DropEntry(x)
                 v == [y EXCEPT !.idle = "unlock"]
      <4>1. y \in Copy /\ Calmed(x, y) /\ y.failed = x.failed /\ y.holds = x.holds
        BY <2>0, DropFacts
      <4>2. x.idle = "check" /\ seq' = seq
        BY <2>7 DEF CheckCopy
      <4> HIDE DEF y
      <4>3. v \in Copy /\ Calmed(x, v) /\ v.failed = x.failed /\ v.holds = x.holds
        BY <4>1, <4>2 DEF Copy, Calmed, IdlePc
      <4>4. entry' = [entry EXCEPT ![e] = v]
        BY <3>3 DEF y
      <4>5. /\ cache' \in [Session -> Entry \cup {NoEntry}]
            /\ \A s \in Session : cache'[s] = cache[s] \/ cache'[s] = NoEntry
        BY <1>0, <3>3
      <4> HIDE DEF v
      <4>6. QED
        BY <4>2, <4>3, <4>4, <4>5, OneChanges
    <3>4. QED
      BY <2>7, <3>1, <3>2, <3>3 DEF CheckCopy
  <2>8. CASE CompactIdle(e)
    <3>1. CASE entry' = [entry EXCEPT ![e].idle = "unlock"] /\ UNCHANGED cache
      BY <1>0, <2>2, <2>8, <3>1 DEF CompactIdle, IdlePc, Going
    <3> DEFINE y == IF e \in Copies THEN DropEntry(x) ELSE x
               v == [y EXCEPT !.idle = "unlock", !.failed = TRUE]
    <3>2. CASE /\ cache' = [s \in Session |-> IF cache[s] = e THEN NoEntry ELSE cache[s]]
               /\ entry' = [entry EXCEPT ![e] = v]
      <4>1. y \in Copy /\ y.session = x.session /\ y.holds = x.holds
        BY <2>0, DropFacts DEF Calmed
      <4>2. x.idle = "compact" /\ seq' = seq
        BY <2>8 DEF CompactIdle
      <4> HIDE DEF y
      <4>3. v \in Copy /\ Calmed(x, v) /\ v.holds = x.holds
        BY <4>1, <4>2 DEF Copy, Calmed, IdlePc
      <4>4. /\ cache' \in [Session -> Entry \cup {NoEntry}]
            /\ \A s \in Session : cache'[s] = cache[s] \/ cache'[s] = NoEntry
            /\ \A s \in Session : cache'[s] # e
        BY <1>0, <3>2
      <4> HIDE DEF v
      <4>5. QED
        BY <3>2, <4>2, <4>3, <4>4, OneChanges
    <3>3. QED
      BY <2>8, <3>1, <3>2 DEF CompactIdle
  <2>9. CASE Expire(e)
    <3>1. CASE entry' = [entry EXCEPT ![e].canceled = TRUE, ![e].ttl = "waits"] /\ UNCHANGED cache
      <4> DEFINE v == [x EXCEPT !.canceled = TRUE, !.ttl = "waits"]
      <4>1. entry' = [entry EXCEPT ![e] = v] /\ seq' = seq
        BY <1>0, <2>9, <3>1 DEF Expire
      <4>2. v \in Copy /\ Calmed(x, v) /\ v.failed = x.failed /\ v.holds = x.holds
        BY <2>0 DEF Copy, Calmed
      <4> HIDE DEF v
      <4>3. QED
        BY <1>a, <3>1, <4>1, <4>2
    <3>2. CASE /\ cache' = [s \in Session |-> IF cache[s] = e THEN NoEntry ELSE cache[s]]
               /\ entry' = [entry EXCEPT ![e] = [DropEntry(entry[e]) EXCEPT !.ttl = "off"]]
      <4> DEFINE y == DropEntry(x)
                 v == [y EXCEPT !.ttl = "off"]
      <4>1. y \in Copy /\ Calmed(x, y) /\ y.failed = x.failed /\ y.holds = x.holds
        BY <2>0, DropFacts
      <4>2. seq' = seq
        BY <2>9 DEF Expire
      <4> HIDE DEF y
      <4>3. v \in Copy /\ Calmed(x, v) /\ v.failed = x.failed /\ v.holds = x.holds
        BY <4>1 DEF Copy, Calmed
      <4>4. entry' = [entry EXCEPT ![e] = v]
        BY <3>2 DEF y
      <4>5. /\ cache' \in [Session -> Entry \cup {NoEntry}]
            /\ \A s \in Session : cache'[s] = cache[s] \/ cache'[s] = NoEntry
        BY <1>0, <3>2
      <4> HIDE DEF v
      <4>6. QED
        BY <4>2, <4>3, <4>4, <4>5, OneChanges
    <3>3. QED
      BY <2>9, <3>1, <3>2 DEF Expire
  <2>10. QED
    BY <1>2, <2>1, <2>3, <2>4, <2>5, <2>6, <2>7, <2>8, <2>9 DEF IdleStep
<1>3. CASE SweepEntry
  <2>1. ASSUME NEW e \in sweep.left, CancelIdle(e), UNCHANGED <<cache, seq>>
        PROVE  Goal
    <3>1. e \in Entry
      BY DEF WarmTypes
    <3>2. QED
      BY <1>b, <2>1, <3>1
  <2>2. ASSUME NEW e, Removed(e), seq' = seq
        PROVE  Goal
    BY <2>2, RemovedFacts
  <2>3. CASE UNCHANGED <<cache, entry, seq>>
    BY <2>3, NoneChanges
  <2>4. QED
    BY <1>3, <2>1, <2>2, <2>3 DEF SweepEntry
<1>4. CASE ListEntries \/ Drain \/ CloseCache \/ UNCHANGED warmVars
  <2>1. UNCHANGED <<cache, entry, seq>>
    BY <1>4 DEF ListEntries, Drain, CloseCache, warmVars
  <2>2. QED
    BY <2>1, NoneChanges
<1>5. QED
  BY <1>1, <1>2, <1>3, <1>4 DEF Next, Goes
---------------------------------------------------------------------------
(* A call's steps.                                                         *)

\* What PlaceInv says of one call.
Place(x) ==
  /\ x.pc \in NoHold => x.held = NoEntry
  /\ x.pc \in {"got", "holding"} => x.held # NoEntry
  /\ x.pc \in {"evict", "evicting", "trimmed", "trimming"} => x.victim # NoEntry

Registered == CallPc \ {"admit", "check", "evict", "evicting", "done"}

\* Where a call's step takes it.
Move(c, y) ==
  /\ Place(y)
  /\ call[c].pc # "done" /\ y.pc # "check"
  /\ call[c].pc \in PastPut => y.pc \in PastPut
  /\ y.held # NoEntry /\ y.pc \notin {"got", "holding"} =>
       y.held = call[c].held /\ call[c].pc # "got" /\ (call[c].pc = "holding" => ~Going(y.held))
  /\ y.pc \in Registered /\ call[c].pc \notin Registered => Admit(c) \/ CheckDraining(c)
  /\ CheckDraining(c) => call[c].pc = "check"
  /\ Hold(c) => call[c].pc = "got" /\ y.held = call[c].held /\ y.pc = "holding"
  /\ Unhold(c) => call[c].pc = "unhold" /\ y.held = NoEntry
  /\ ~Hold(c) /\ ~Unhold(c) =>
       \A e \in Entry : (y.held = e /\ y.pc # "got") <=> (call[c].held = e /\ call[c].pc # "got")

\* A nonempty set of naturals has a least element.
LEMMA Least ==
  ASSUME NEW T \in SUBSET Nat, T # {}
  PROVE  Min(T) \in T /\ \A y \in T : Min(T) <= y
<1>1. PICK x \in T : \A y \in T : ~ (<<y, x>> \in OpToRel(<, Nat))
  BY NatLessThanWellFounded, WFMin
<1>2. \A y \in T : x <= y
  <2> SUFFICES ASSUME NEW y \in T, y < x PROVE FALSE
    OBVIOUS
  <2>1. <<y, x>> \in Nat \X Nat /\ <<y, x>>[1] = y /\ <<y, x>>[2] = x
    OBVIOUS
  <2>2. <<y, x>> \in OpToRel(<, Nat)
    BY <2>1 DEF OpToRel
  <2>3. QED
    BY <1>1, <2>2
<1>3. QED
  BY <1>2 DEF Min

\* Victim is a copy when there is one.
LEMMA VictimIs ==
  ASSUME Victim # NoEntry
  PROVE  Victim \in Entry
<1>1. IdleCopies \in SUBSET Nat /\ IdleCopies \subseteq Entry
  BY FS_CardinalityType DEF IdleCopies, Copies, Entry
<1>2. IdleCopies # {}
  BY DEF Victim
<1>3. QED
  BY <1>1, <1>2, Least DEF Victim

\* A step of a call moves it, and nobody else.
LEMMA CallMoves ==
  ASSUME WarmAssumption, WarmTypes, PlaceInv, NEW c \in Call, CallStep(c)
  PROVE  \E y \in CallRec : call' = [call EXCEPT ![c] = y] /\ Move(c, y)
<1> DEFINE x == call[c]
           Goal == \E y \in CallRec : call' = [call EXCEPT ![c] = y] /\ Move(c, y)
<1>0. /\ call \in [Call -> CallRec] /\ x \in CallRec /\ Place(x) /\ NoEntry \notin Entry
      /\ cache \in [Session -> Entry \cup {NoEntry}] /\ SessionOf[c] \in Session
  BY DEF WarmTypes, WarmAssumption, PlaceInv, Place, NoEntry, Entry
<1>a. \A p : Goto(c, p) => call' = [call EXCEPT ![c] = [x EXCEPT !.pc = p]]
  BY <1>0 DEF Goto
<1>b. /\ x.pc # "got" => ~Hold(c)
      /\ x.pc # "unhold" => ~Unhold(c)
      /\ x.pc # "check" => ~CheckDraining(c)
  BY DEF Hold, Unhold, CheckDraining
\* A call that only moves.
<1>c. ASSUME NEW p \in CallPc, Goto(c, p), x.pc \notin {"got", "unhold", "check", "done"}, p # "got",
             p # "check", Place([x EXCEPT !.pc = p]), x.pc \in PastPut => p \in PastPut,
             x.pc = "holding" => ~Going(x.held),
             p \in Registered => x.pc \in Registered \/ Admit(c)
      PROVE  Goal
  <2> DEFINE y == [x EXCEPT !.pc = p]
  <2>1. y \in CallRec /\ y.pc = p /\ y.held = x.held
    BY <1>0 DEF CallRec
  <2>2. Move(c, y)
    BY <1>b, <1>c, <2>1 DEF Move
  <2>3. QED
    BY <1>a, <1>c, <2>1, <2>2
<1>d. ASSUME NEW p \in CallPc
      PROVE  LET y == [x EXCEPT !.pc = p] IN y.pc = p /\ y.held = x.held /\ y.victim = x.victim
  BY <1>0 DEF CallRec
<1> USE DEF Place, NoHold, PastPut, Registered, CallPc
<1>1. CASE Admit(c)
  <2>1. CASE call' = [call EXCEPT ![c].pc = "evict", ![c].victim = Victim] /\ Victim # NoEntry
    <3> DEFINE y == [x EXCEPT !.pc = "evict", !.victim = Victim]
    <3>0. Victim \in Entry
      BY <2>1, VictimIs
    <3>1. y \in CallRec /\ y.pc = "evict" /\ y.held = x.held /\ y.victim # NoEntry
      BY <1>0, <2>1, <3>0 DEF CallRec
    <3>2. Move(c, y)
      BY <1>0, <1>1, <1>b, <3>1 DEF Move, Admit
    <3>3. call' = [call EXCEPT ![c] = y]
      BY <1>0, <2>1
    <3>4. QED
      BY <3>1, <3>2, <3>3
  <2>2. CASE Goto(c, "done")
    BY <1>0, <1>1, <1>c, <1>d, <2>2 DEF Admit
  <2>3. CASE Goto(c, "hold")
    BY <1>0, <1>1, <1>c, <1>d, <2>3 DEF Admit
  <2>4. QED
    BY <1>1, <2>1, <2>2, <2>3 DEF Admit
<1>2. CASE CheckDraining(c)
  <2> DEFINE p == IF draining THEN "done" ELSE "hold"
             y == [x EXCEPT !.pc = p]
  <2>1. p \in {"done", "hold"} /\ Goto(c, p) /\ x.pc = "check"
    BY <1>2 DEF CheckDraining
  <2> HIDE DEF p
  <2>2. y \in CallRec /\ y.pc = p /\ y.held = x.held /\ y.victim = x.victim
    BY <1>0, <2>1 DEF CallRec
  <2>3. Move(c, y)
    BY <1>0, <1>2, <1>b, <2>1, <2>2 DEF Move
  <2>4. QED
    BY <1>a, <2>1, <2>2, <2>3
<1>3. CASE CancelVictim(c)
  <2>1. CASE x.pc = "evict" /\ Goto(c, "evicting")
    BY <1>0, <1>c, <1>d, <2>1
  <2>2. CASE x.pc = "trimmed" /\ Goto(c, "trimming")
    BY <1>0, <1>c, <1>d, <2>2
  <2>3. QED
    BY <1>3, <2>1, <2>2 DEF CancelVictim
<1>4. CASE DropVictim(c)
  <2> DEFINE p == IF x.pc = "evicting" THEN "admit" ELSE "trim"
             y == [x EXCEPT !.pc = p, !.victim = NoEntry]
  <2>1. call' = [call EXCEPT ![c] = y] /\ x.pc \in {"evicting", "trimming"}
    BY <1>0, <1>4 DEF DropVictim
  <2>2. y \in CallRec /\ y.pc = p /\ y.held = x.held
    BY <1>0 DEF CallRec
  <2>3. Move(c, y)
    BY <1>0, <1>b, <2>1, <2>2 DEF Move
  <2>4. QED
    BY <2>1, <2>2, <2>3
<1>5. CASE GetEntry(c)
  <2> DEFINE e == cache[SessionOf[c]]
             p == IF e = NoEntry THEN "lock" ELSE "got"
             y == [x EXCEPT !.pc = p, !.held = e]
  <2>1. call' = [call EXCEPT ![c] = y] /\ x.pc = "hold" /\ e \in Entry \cup {NoEntry}
    BY <1>0, <1>5 DEF GetEntry
  <2> HIDE DEF e
  <2>2. y \in CallRec /\ y.pc = p /\ y.held = e
    BY <1>0, <2>1 DEF CallRec
  <2>3. Move(c, y)
    BY <1>0, <1>b, <2>1, <2>2 DEF Move
  <2>4. QED
    BY <2>1, <2>2, <2>3
<1>6. CASE Hold(c)
  <2> DEFINE y == [x EXCEPT !.pc = "holding"]
  <2>1. Goto(c, "holding") /\ x.pc = "got"
    BY <1>6 DEF Hold
  <2>2. y \in CallRec /\ y.pc = "holding" /\ y.held = x.held /\ y.victim = x.victim
    BY <1>0 DEF CallRec
  <2>3. Move(c, y)
    BY <1>0, <1>6, <1>b, <2>1, <2>2 DEF Move
  <2>4. QED
    BY <1>a, <2>1, <2>2, <2>3
<1>7. CASE HoldWaited(c)
  BY <1>0, <1>7, <1>c, <1>d DEF HoldWaited
<1>8. CASE TakeLock(c)
  <2>1. x.pc = "lock" /\ (Goto(c, "take") \/ Goto(c, "unhold"))
    BY <1>8 DEF TakeLock
  <2>2. QED
    BY <1>0, <1>c, <1>d, <2>1
<1>9. CASE Take(c)
  <2>1. x.pc = "take" /\ (Goto(c, "use") \/ Goto(c, "release") \/ Goto(c, "keep"))
    BY <1>9 DEF Take
  <2>2. QED
    BY <1>0, <1>c, <1>d, <2>1
<1>10. CASE Use(c)
  <2>1. x.pc = "use" /\ (Goto(c, "release") \/ Goto(c, "keep"))
    BY <1>10 DEF Use
  <2>2. QED
    BY <1>0, <1>c, <1>d, <2>1
<1>11. CASE KeepWarm(c)
  <2>1. x.pc = "keep" /\ (Goto(c, "release") \/ Goto(c, "put"))
    BY <1>11 DEF KeepWarm
  <2>2. QED
    BY <1>0, <1>c, <1>d, <2>1
<1>12. CASE Put(c)
  <2>1. x.pc = "put" /\ (Goto(c, "release") \/ Goto(c, "trim"))
    BY <1>12 DEF Put
  <2>2. QED
    BY <1>0, <1>c, <1>d, <2>1
<1>13. CASE TrimWarm(c)
  <2>1. CASE call' = [call EXCEPT ![c].pc = "trimmed", ![c].victim = Victim] /\ Victim # NoEntry
    <3> DEFINE y == [x EXCEPT !.pc = "trimmed", !.victim = Victim]
    <3>0. Victim \in Entry
      BY <2>1, VictimIs
    <3>1. y \in CallRec /\ y.pc = "trimmed" /\ y.held = x.held /\ y.victim # NoEntry
      BY <1>0, <2>1, <3>0 DEF CallRec
    <3>2. Move(c, y)
      BY <1>0, <1>13, <1>b, <3>1 DEF Move, TrimWarm
    <3>3. call' = [call EXCEPT ![c] = y]
      BY <1>0, <2>1
    <3>4. QED
      BY <3>1, <3>2, <3>3
  <2>2. CASE Goto(c, "release")
    BY <1>0, <1>13, <1>c, <1>d, <2>2 DEF TrimWarm
  <2>3. QED
    BY <1>13, <2>1, <2>2 DEF TrimWarm
<1>14. CASE Release(c)
  BY <1>0, <1>14, <1>c, <1>d DEF Release
<1>15. CASE Unhold(c)
  <2> DEFINE y == [x EXCEPT !.pc = "over", !.held = NoEntry]
  <2>1. call' = [call EXCEPT ![c] = y] /\ x.pc = "unhold"
    BY <1>0, <1>15 DEF Unhold
  <2>2. y \in CallRec /\ y.pc = "over" /\ y.held = NoEntry
    BY <1>0 DEF CallRec
  <2>3. Move(c, y)
    BY <1>0, <1>15, <1>b, <2>1, <2>2 DEF Move
  <2>4. QED
    BY <2>1, <2>2, <2>3
<1>16. CASE Unregister(c)
  BY <1>0, <1>16, <1>c, <1>d DEF Unregister
<1>17. QED
  BY <1>1, <1>2, <1>3, <1>4, <1>5, <1>6, <1>7, <1>8, <1>9, <1>10, <1>11, <1>12, <1>13, <1>14, <1>15,
    <1>16 DEF CallStep
---------------------------------------------------------------------------
(* The invariants.                                                         *)

Past == {c \in Call : call[c].pc \in PastPut}

\* A call moves, or none does.
LEMMA Moves ==
  ASSUME WarmAssumption, WarmTypes, PlaceInv, [Next]_warmVars
  PROVE  \/ \E c \in Call : /\ CallStep(c)
                            /\ \E y \in CallRec : call' = [call EXCEPT ![c] = y] /\ Move(c, y)
         \/ UNCHANGED <<call, runs>>
<1>1. CASE \E c \in Call : CallStep(c)
  BY <1>1, CallMoves
<1>2. CASE ~\E c \in Call : CallStep(c)
  BY <1>2 DEF Next, Goes, IdleStep, BeginIdle, AcquireIdle, CheckCopy, CompactIdle, EndIdle, Expire,
    ListEntries, SweepEntry, TTLFires, IdleFires, Drain, CloseCache, warmVars
<1>3. QED
  BY <1>1, <1>2

\* Places, and that a call that put an entry does not put another.
LEMMA PlaceNext ==
  ASSUME WarmAssumption, WarmTypes, PlaceInv, [Next]_warmVars
  PROVE  /\ call' \in [Call -> CallRec] /\ PlaceInv'
         /\ IsFiniteSet(Past) /\ IsFiniteSet(Past') /\ Past \subseteq Past'
<1>0. call \in [Call -> CallRec]
  BY DEF WarmTypes
<1>1. /\ call' \in [Call -> CallRec] /\ PlaceInv' /\ Past \subseteq Past'
  <2>1. ASSUME NEW c \in Call, NEW y \in CallRec, call' = [call EXCEPT ![c] = y], Move(c, y)
        PROVE  /\ call' \in [Call -> CallRec] /\ PlaceInv' /\ Past \subseteq Past'
    <3>1. call' \in [Call -> CallRec] /\ \A d \in Call : call'[d] = IF d = c THEN y ELSE call[d]
      BY <1>0, <2>1
    <3>2. Place(y) /\ (call[c].pc \in PastPut => y.pc \in PastPut)
      BY <2>1 DEF Move
    <3>3. PlaceInv'
      BY <3>1, <3>2 DEF PlaceInv, Place
    <3>4. Past \subseteq Past'
      BY <3>1, <3>2 DEF Past
    <3>5. QED
      BY <3>1, <3>3, <3>4
  <2>2. CASE call' = call
    BY <1>0, <2>2 DEF PlaceInv, Past
  <2>3. QED
    BY <2>1, <2>2, Moves
<1>2. \A T \in SUBSET Call : IsFiniteSet(T)
  BY FS_Subset DEF WarmAssumption
<1>3. Past \in SUBSET Call /\ Past' \in SUBSET Call
  BY DEF Past
<1>4. QED
  BY <1>1, <1>2, <1>3

\* A step puts an entry, or the cache shrinks; the holds change by Hold and Unhold.
Puts(c) == Put(c) /\ ~closed

LEMMA CacheSteps ==
  ASSUME WarmAssumption, WarmTypes, PlaceInv, SeqInv, [Next]_warmVars
  PROVE  /\ seq' \in Nat /\ SeqInv'
         /\ cache' \in [Session -> Entry \cup {NoEntry}] /\ entry' \in [Entry -> Copy]
         /\ Shrinks \/ \E c \in Call : Puts(c)
         /\ SameHolds \/ \E c \in Call : Hold(c) \/ Unhold(c)
         /\ \A c \in Call : Puts(c) =>
              /\ seq' = seq + 1 /\ seq + 1 \in Entry /\ SessionOf[c] \in Session
              /\ cache' = [cache EXCEPT ![SessionOf[c]] = seq + 1]
              /\ \A e \in Entry : e # seq + 1 => entry'[e] = entry[e]
              /\ entry'[seq + 1].session = SessionOf[c] /\ entry'[seq + 1].idle = "armed"
              /\ entry'[seq + 1].failed = entry[seq + 1].failed
              /\ SameHolds
<1>0. /\ IsFiniteSet(Past) /\ IsFiniteSet(Past') /\ Past \subseteq Past' /\ Past' \subseteq Call
      /\ IsFiniteSet(Call) /\ seq \in Nat /\ seq <= Cardinality(Past)
  BY PlaceNext DEF WarmTypes, SeqInv, Past, WarmAssumption
<1>1. /\ Cardinality(Past) \in Nat /\ Cardinality(Past') \in Nat /\ Cardinality(Call) \in Nat
      /\ Cardinality(Past) <= Cardinality(Past') /\ Cardinality(Past') <= Cardinality(Call)
  BY <1>0, FS_CardinalityType, FS_Subset
<1>2. ASSUME NEW c \in Call, Puts(c)
      PROVE  /\ seq' = seq + 1 /\ seq + 1 \in Entry /\ SessionOf[c] \in Session
             /\ cache' = [cache EXCEPT ![SessionOf[c]] = seq + 1]
             /\ \A e \in Entry : e # seq + 1 => entry'[e] = entry[e]
             /\ entry'[seq + 1].session = SessionOf[c] /\ entry'[seq + 1].idle = "armed"
             /\ entry'[seq + 1].failed = entry[seq + 1].failed
             /\ SameHolds /\ entry' \in [Entry -> Copy] /\ seq' <= Cardinality(Past')
  <2>1. /\ seq' = seq + 1 /\ call[c].pc = "put" /\ Goto(c, "trim")
        /\ cache' = [cache EXCEPT ![SessionOf[c]] = seq + 1]
        /\ entry' = [entry EXCEPT ![seq + 1].session = SessionOf[c],
                                  ![seq + 1].idle = "armed", ![seq + 1].ttl = "armed"]
    BY <1>2 DEF Puts, Put
  <2>2. c \notin Past /\ c \in Past'
    BY <2>1 DEF Past, PastPut, Goto, WarmTypes, CallRec
  <2>3. Cardinality(Past \cup {c}) = Cardinality(Past) + 1 /\ IsFiniteSet(Past \cup {c})
    BY <1>0, <2>2, FS_AddElement
  <2>4. Past \cup {c} \subseteq Past'
    BY <1>0, <2>2
  <2>5. Cardinality(Past) + 1 <= Cardinality(Past')
    BY <1>0, <2>3, <2>4, FS_Subset
  <2>6. seq + 1 \in Entry /\ seq + 1 <= Cardinality(Past')
    BY <1>0, <1>1, <2>5 DEF Entry
  <2> DEFINE k == seq + 1
             v == [entry[k] EXCEPT !.session = SessionOf[c], !.idle = "armed", !.ttl = "armed"]
  <2>7. entry \in [Entry -> Copy] /\ SessionOf[c] \in Session /\ entry[k] \in Copy
    BY <2>6 DEF WarmTypes, WarmAssumption
  <2>8. entry' = [entry EXCEPT ![k] = v]
    BY <2>1, <2>6, <2>7
  <2>9. /\ v \in Copy /\ v.session = SessionOf[c] /\ v.idle = "armed"
        /\ v.failed = entry[k].failed /\ v.holds = entry[k].holds
    BY <2>7 DEF Copy, IdlePc
  <2> HIDE DEF v
  <2>10. \A e \in Entry : entry'[e] = IF e = k THEN v ELSE entry[e]
    BY <2>7, <2>8
  <2>11. entry' \in [Entry -> Copy]
    BY <2>7, <2>8, <2>9
  <2>12. SameHolds
    BY <2>9, <2>10 DEF SameHolds
  <2>13. QED
    BY <2>1, <2>6, <2>7, <2>9, <2>10, <2>11, <2>12
<1>3. CASE \E c \in Call : Puts(c)
  <2>1. PICK c \in Call : Puts(c)
    BY <1>3
  <2>2. cache' \in [Session -> Entry \cup {NoEntry}]
    BY <1>2, <2>1 DEF WarmTypes
  <2>3. seq' \in Nat /\ SeqInv'
    BY <1>0, <1>2, <2>1 DEF SeqInv, Past
  <2>4. QED
    BY <1>2, <2>1, <2>2, <2>3
<1>4. CASE \A c \in Call : ~Puts(c)
  <2>1. CASE \E c \in Call : Put(c)
    <3>1. UNCHANGED <<cache, entry, seq>>
      BY <1>4, <2>1 DEF Puts, Put
    <3>2. Shrinks /\ SameHolds
      BY <3>1, NoneChanges
    <3>3. QED
      BY <1>0, <1>1, <1>4, <3>2 DEF Shrinks, SeqInv, Past
  <2>2. CASE \A c \in Call : ~Put(c)
    <3>1. Shrinks /\ ((\A c \in Call : ~Hold(c) /\ ~Unhold(c)) => SameHolds)
      BY <2>2, EntryStep
    <3>2. QED
      BY <1>0, <1>1, <1>4, <3>1 DEF Shrinks, SeqInv, Past
  <2>3. QED
    BY <2>1, <2>2
<1>5. QED
  BY <1>3, <1>4

LEMMA TypesNext ==
  ASSUME WarmAssumption, WarmTypes, PlaceInv, SeqInv, [Next]_warmVars
  PROVE  WarmTypes'
<1>1. /\ call' \in [Call -> CallRec] /\ seq' \in Nat
      /\ cache' \in [Session -> Entry \cup {NoEntry}] /\ entry' \in [Entry -> Copy]
  BY PlaceNext, CacheSteps
<1>2. closed' \in BOOLEAN
  <2>1. closed' = closed \/ closed' = TRUE
    BY DEF Next, Goes, CallStep, IdleStep, Admit, CheckDraining, CancelVictim, DropVictim, GetEntry,
      Hold, HoldWaited, TakeLock, Take, Use, KeepWarm, Put, TrimWarm, Release, Unhold, Unregister,
      BeginIdle, AcquireIdle, CheckCopy, CompactIdle, EndIdle, Expire, ListEntries, SweepEntry,
      TTLFires, IdleFires, Drain, CloseCache, warmVars
  <2>2. QED
    BY <2>1 DEF WarmTypes
<1>3. runs' \in [Session -> SUBSET Call]
  <2>0. runs \in [Session -> SUBSET Call]
    BY DEF WarmTypes
  <2>1. CASE \E c \in Call : Admit(c) \/ Unregister(c)
    BY <2>0, <2>1 DEF Admit, Unregister
  <2>2. CASE ~\E c \in Call : Admit(c) \/ Unregister(c)
    <3>1. runs' = runs
      BY <2>2 DEF Next, Goes, CallStep, IdleStep, CheckDraining, CancelVictim, DropVictim, GetEntry,
        Hold, HoldWaited, TakeLock, Take, Use, KeepWarm, Put, TrimWarm, Release, Unhold,
        BeginIdle, AcquireIdle, CheckCopy, CompactIdle, EndIdle, Expire, ListEntries, SweepEntry,
        TTLFires, IdleFires, Drain, CloseCache, warmVars
    <3>2. QED
      BY <2>0, <3>1
  <2>3. QED
    BY <2>1, <2>2
<1> DEFINE LoadRec == [active : Nat, calls : SUBSET Call, fails : Nat, foreign : Nat, drains : Nat]
<1>4. load' \in LoadRec
  <2>0. load \in LoadRec
    BY DEF WarmTypes
  <2>1. \/ load' = load
        \/ load.fails > 0 /\ load' = [load EXCEPT !.fails = @ - 1]
        \/ load.foreign > 0 /\ load' = [load EXCEPT !.foreign = @ - 1]
    BY ZenonT(30) DEF Next, Goes, CallStep, IdleStep, Admit, CheckDraining, CancelVictim, DropVictim, GetEntry,
      Hold, HoldWaited, TakeLock, Take, Use, KeepWarm, Put, TrimWarm, Release, Unhold, Unregister,
      BeginIdle, AcquireIdle, CheckCopy, CompactIdle, EndIdle, Expire, ListEntries, SweepEntry,
      TTLFires, IdleFires, Drain, CloseCache, warmVars, Fail
  <2>2. QED
    BY <2>0, <2>1
<1>5. sweep' \in [pc : {"idle", "list", "next", "waits", "closed"}, left : SUBSET Entry]
  <2>0. sweep \in [pc : {"idle", "list", "next", "waits", "closed"}, left : SUBSET Entry]
    BY DEF WarmTypes
  <2>1. Copies \subseteq Entry
    BY DEF Copies
  <2>2. CASE CloseCache \/ ListEntries
    BY <2>0, <2>1, <2>2 DEF CloseCache, ListEntries
  <2>3. CASE SweepEntry
    BY <2>0, <2>3 DEF SweepEntry
  <2>4. CASE ~CloseCache /\ ~ListEntries /\ ~SweepEntry
    <3>1. sweep' = sweep
      BY <2>4 DEF Next, Goes, CallStep, IdleStep, Admit, CheckDraining, CancelVictim, DropVictim,
        GetEntry, Hold, HoldWaited, TakeLock, Take, Use, KeepWarm, Put, TrimWarm, Release, Unhold,
        Unregister, BeginIdle, AcquireIdle, CheckCopy, CompactIdle, EndIdle, Expire,
        TTLFires, IdleFires, Drain, warmVars
    <3>2. QED
      BY <2>0, <3>1
  <2>5. QED
    BY <2>2, <2>3, <2>4
<1>6. QED
  BY <1>1, <1>2, <1>3, <1>4, <1>5 DEF WarmTypes
\* Entries to come, and what is cached.
LEMMA CacheNext ==
  ASSUME WarmAssumption, WarmTypes, PlaceInv, SeqInv, CacheInv, [Next]_warmVars
  PROVE  CacheInv'
<1>0. /\ cache \in [Session -> Entry \cup {NoEntry}] /\ seq \in Nat /\ NoEntry \notin Entry
      /\ Entry \subseteq Nat
  BY DEF WarmTypes, NoEntry, Entry
<1>1. CASE Shrinks
  <2>1. \A e \in Entry : e > seq' => entry'[e].idle = "off" /\ ~entry'[e].failed
    <3> SUFFICES ASSUME NEW e \in Entry, e > seq
                 PROVE  entry'[e].idle = "off" /\ ~entry'[e].failed
      BY <1>1 DEF Shrinks
    <3>1. entry[e].idle = "off" /\ ~entry[e].failed
      BY DEF CacheInv
    <3>2. entry'[e].idle = "off"
      BY <1>1, <3>1 DEF Shrinks, Calmed
    <3>3. ~entry'[e].failed
      BY <1>1, <3>1 DEF Shrinks
    <3>4. QED
      BY <3>2, <3>3
  <2>2. ASSUME NEW s \in Session, cache'[s] # NoEntry
        PROVE  /\ cache'[s] <= seq' /\ entry'[cache'[s]].session = s
               /\ ~entry'[cache'[s]].failed
    <3>1. cache'[s] = cache[s] /\ cache[s] \in Entry /\ seq' = seq
      BY <1>0, <1>1, <2>2 DEF Shrinks
    <3>2. cache[s] <= seq /\ entry[cache[s]].session = s /\ ~entry[cache[s]].failed
      BY <2>2, <3>1 DEF CacheInv
    <3>3. /\ entry'[cache[s]].session = entry[cache[s]].session
          /\ entry'[cache[s]].failed = entry[cache[s]].failed
      BY <1>1, <3>1 DEF Shrinks, Calmed
    <3>4. QED
      BY <3>1, <3>2, <3>3
  <2>3. QED
    BY <2>1, <2>2 DEF CacheInv
<1>2. ASSUME NEW c \in Call, Puts(c)
      PROVE  CacheInv'
  <2>1. /\ seq' = seq + 1 /\ seq + 1 \in Entry /\ SessionOf[c] \in Session
        /\ cache' = [cache EXCEPT ![SessionOf[c]] = seq + 1]
        /\ \A e \in Entry : e # seq + 1 => entry'[e] = entry[e]
        /\ entry'[seq + 1].session = SessionOf[c]
        /\ entry'[seq + 1].failed = entry[seq + 1].failed
    BY <1>2, CacheSteps
  <2>2. ~entry'[seq + 1].failed
    BY <1>0, <2>1 DEF CacheInv
  <2>3. \A e \in Entry : e > seq' => entry'[e].idle = "off" /\ ~entry'[e].failed
    BY <1>0, <2>1 DEF CacheInv
  <2>4. ASSUME NEW s \in Session, cache'[s] # NoEntry
        PROVE  /\ cache'[s] <= seq' /\ entry'[cache'[s]].session = s
               /\ ~entry'[cache'[s]].failed
    <3>1. CASE s = SessionOf[c]
      BY <1>0, <2>1, <2>2, <3>1
    <3>2. CASE s # SessionOf[c]
      <4>1. cache'[s] = cache[s] /\ cache[s] \in Entry
        BY <1>0, <2>1, <2>4, <3>2
      <4>2. cache[s] <= seq /\ entry[cache[s]].session = s /\ ~entry[cache[s]].failed
        BY <2>4, <4>1 DEF CacheInv
      <4>3. \A n \in Nat : n <= seq => n # seq + 1 /\ n <= seq + 1
        BY <1>0
      <4>4. cache[s] \in Nat
        BY <1>0, <4>1
      <4>5. cache[s] # seq + 1 /\ cache[s] <= seq + 1
        BY <4>2, <4>3, <4>4
      <4>6. QED
        BY <2>1, <4>1, <4>2, <4>5
    <3>3. QED
      BY <3>1, <3>2
  <2>5. QED
    BY <2>3, <2>4 DEF CacheInv
<1>3. QED
  BY <1>1, <1>2, CacheSteps
\* The holds of an entry.
LEMMA HoldsNext ==
  ASSUME WarmAssumption, WarmTypes, PlaceInv, SeqInv, HoldsInv, [Next]_warmVars
  PROVE  HoldsInv'
<1>0. /\ call \in [Call -> CallRec] /\ entry \in [Entry -> Copy] /\ NoEntry \notin Entry
      /\ \A T \in SUBSET Call : IsFiniteSet(T)
  BY FS_Subset DEF WarmTypes, WarmAssumption, NoEntry, Entry
<1>1. ASSUME NEW c \in Call, Hold(c)
      PROVE  HoldsInv'
  <2>0. PICK k \in Entry : k = call[c].held
    BY <1>0, <1>1 DEF Hold, PlaceInv, CallRec
  <2>1. call[c].pc = "got"
    BY <1>1 DEF Hold
  <2>2. call' = [call EXCEPT ![c].pc = "holding"]
    BY <1>1 DEF Hold, Goto
  <2>3. \A e \in Entry : entry'[e].holds = IF e = k THEN entry[e].holds + 1 ELSE entry[e].holds
    BY <1>0, <1>1, <2>0 DEF Hold, Copy
  <2>4. \A d \in Call : call'[d].held = call[d].held /\ (d # c => call'[d] = call[d])
    BY <1>0, <2>2 DEF CallRec
  <2>5. call'[c].pc = "holding"
    BY <1>0, <2>2 DEF CallRec
  <2>6. c \notin Holders(k) /\ Holders(k)' = Holders(k) \cup {c}
    BY <2>0, <2>1, <2>4, <2>5 DEF Holders
  <2>7. \A e \in Entry : e # k => Holders(e)' = Holders(e)
    BY <2>0, <2>4 DEF Holders
  <2>8. Cardinality(Holders(k) \cup {c}) = Cardinality(Holders(k)) + 1
    <3>1. Holders(k) \in SUBSET Call
      BY DEF Holders
    <3>2. QED
      BY <1>0, <2>6, <3>1, FS_AddElement
  <2>9. ASSUME NEW e \in Entry
        PROVE  entry'[e].holds = Cardinality(Holders(e)')
    BY <2>3, <2>6, <2>7, <2>8 DEF HoldsInv
  <2>10. QED
    BY <2>9 DEF HoldsInv
<1>2. ASSUME NEW c \in Call, Unhold(c)
      PROVE  HoldsInv'
  <2>0. PICK k \in Entry \cup {NoEntry} : k = call[c].held
    BY <1>0 DEF CallRec
  <2>1. call[c].pc = "unhold"
    BY <1>2 DEF Unhold
  <2>2. call' = [call EXCEPT ![c].pc = "over", ![c].held = NoEntry]
    BY <1>2 DEF Unhold
  <2>3. \A e \in Entry : entry'[e].holds = IF e = k THEN entry[e].holds - 1 ELSE entry[e].holds
    BY <1>0, <1>2, <2>0 DEF Unhold, Copy
  <2>4. call'[c].held = NoEntry /\ \A d \in Call : d # c => call'[d] = call[d]
    BY <1>0, <2>2 DEF CallRec
  <2>5. \A e \in Entry : e # k => Holders(e)' = Holders(e)
    BY <1>0, <2>0, <2>4 DEF Holders
  <2>6. ASSUME k \in Entry
        PROVE  entry'[k].holds = Cardinality(Holders(k)')
    <3>1. c \in Holders(k) /\ Holders(k)' = Holders(k) \ {c} /\ Holders(k) \in SUBSET Call
      BY <1>0, <2>0, <2>1, <2>4, <2>6 DEF Holders
    <3>2. Cardinality(Holders(k) \ {c}) = Cardinality(Holders(k)) - 1
      BY <1>0, <3>1, FS_RemoveElement
    <3>3. QED
      BY <2>3, <2>6, <3>1, <3>2 DEF HoldsInv
  <2>7. ASSUME NEW e \in Entry
        PROVE  entry'[e].holds = Cardinality(Holders(e)')
    BY <2>3, <2>5, <2>6 DEF HoldsInv
  <2>8. QED
    BY <2>7 DEF HoldsInv
<1>3. CASE \A c \in Call : ~Hold(c) /\ ~Unhold(c)
  <2>1. SameHolds
    BY <1>3, CacheSteps
  <2>2. ASSUME NEW e \in Entry
        PROVE  Holders(e)' = Holders(e)
    <3>1. ASSUME NEW c \in Call, NEW y \in CallRec, call' = [call EXCEPT ![c] = y], Move(c, y)
          PROVE  Holders(e)' = Holders(e)
      <4>1. \A d \in Call : call'[d] = IF d = c THEN y ELSE call[d]
        BY <1>0, <3>1
      <4>2. (y.held = e /\ y.pc # "got") <=> (call[c].held = e /\ call[c].pc # "got")
        BY <1>3, <3>1 DEF Move
      <4>3. QED
        BY <4>1, <4>2 DEF Holders
    <3>2. CASE call' = call
      BY <3>2 DEF Holders
    <3>3. QED
      BY <3>1, <3>2, Moves
  <2>3. QED
    BY <2>1, <2>2 DEF HoldsInv, SameHolds
<1>4. QED
  BY <1>1, <1>2, <1>3

\* A copy that is held is not compacted.
LEMMA HeldNext ==
  ASSUME WarmAssumption, WarmTypes, PlaceInv, SeqInv, HoldsInv, HeldCopiesAreNotCompacted,
         [Next]_warmVars
  PROVE  HeldCopiesAreNotCompacted'
<1>0. /\ call \in [Call -> CallRec] /\ entry \in [Entry -> Copy] /\ NoEntry \notin Entry
      /\ \A T \in SUBSET Call : IsFiniteSet(T)
  BY FS_Subset DEF WarmTypes, WarmAssumption, NoEntry, Entry
<1> SUFFICES ASSUME NEW c \in Call, call'[c].held # NoEntry, call'[c].pc \notin {"got", "holding"}
             PROVE  ~Going(call[c].held)'
  BY DEF HeldCopiesAreNotCompacted
<1>e. PICK e : e = call[c].held
  OBVIOUS
<1>1. call'[c].held = e /\ e \in Entry /\ call[c].pc # "got" /\ ~Going(e)
  <2>1. ASSUME NEW d \in Call, NEW y \in CallRec, call' = [call EXCEPT ![d] = y], Move(d, y)
        PROVE  call'[c].held = e /\ call[c].pc # "got" /\ ~Going(e)
    <3>1. CASE d = c
      <4>1. call'[c] = y
        BY <1>0, <2>1, <3>1
      <4>2. y.held = e /\ call[c].pc # "got" /\ (call[c].pc = "holding" => ~Going(y.held))
        BY <1>e, <2>1, <3>1, <4>1 DEF Move
      <4>3. QED
        BY <1>e, <4>1, <4>2 DEF HeldCopiesAreNotCompacted
    <3>2. CASE d # c
      <4>1. call'[c] = call[c]
        BY <1>0, <2>1, <3>2
      <4>2. QED
        BY <1>e, <4>1 DEF HeldCopiesAreNotCompacted
    <3>3. QED
      BY <3>1, <3>2
  <2>2. ASSUME call' = call
        PROVE  call'[c].held = e /\ call[c].pc # "got" /\ ~Going(e)
    BY <1>e, <2>2 DEF HeldCopiesAreNotCompacted
  <2>3. call'[c].held = e /\ call[c].pc # "got" /\ ~Going(e)
    BY <2>1, <2>2, Moves
  <2>4. e \in Entry
    BY <1>0, <1>e, <2>3 DEF CallRec
  <2>5. QED
    BY <2>3, <2>4
<1>2. entry[e].holds # 0
  <2>1. c \in Holders(e) /\ Holders(e) \in SUBSET Call
    BY <1>1, <1>e DEF Holders
  <2>2. IsFiniteSet(Holders(e)) /\ Holders(e) # {}
    BY <1>0, <2>1
  <2>3. Cardinality(Holders(e)) # 0
    BY <2>2, FS_EmptySet
  <2>4. QED
    BY <1>1, <2>3 DEF HoldsInv
<1>3. entry'[e].idle \notin {"acquire", "check", "compact", "unlock", "end"}
  <2>1. CASE Shrinks
    <3>1. Calmed(entry[e], entry'[e])
      BY <1>1, <2>1 DEF Shrinks
    <3>2. QED
      BY <1>1, <1>2, <3>1 DEF Calmed, Going
  <2>2. ASSUME NEW d \in Call, Puts(d)
        PROVE  entry'[e].idle \notin {"acquire", "check", "compact", "unlock", "end"}
    <3>1. entry'[e] = entry[e] \/ entry'[e].idle = "armed"
      BY <1>1, <2>2, CacheSteps
    <3>2. QED
      BY <1>1, <3>1 DEF Going
  <2>3. QED
    BY <2>1, <2>2, CacheSteps
<1>4. QED
  BY <1>1, <1>3 DEF Going

\* A Run that uses its Session is in the table.
LEMMA RunsNext ==
  ASSUME WarmAssumption, WarmTypes, PlaceInv, RunsInv, [Next]_warmVars
  PROVE  RunsInv' /\ load'.calls = load.calls /\ load'.active = load.active
<1>0. /\ call \in [Call -> CallRec] /\ runs \in [Session -> SUBSET Call]
      /\ \A c \in Call : SessionOf[c] \in Session
  BY DEF WarmTypes, WarmAssumption
<1>1. load'.calls = load.calls /\ load'.active = load.active
  <2>1. load \in [active : Nat, calls : SUBSET Call, fails : Nat, foreign : Nat, drains : Nat]
    BY DEF WarmTypes
  <2>2. \/ load' = load
        \/ load' = [load EXCEPT !.fails = @ - 1]
        \/ load' = [load EXCEPT !.foreign = @ - 1]
    BY DEF Next, Goes, CallStep, IdleStep, Admit, CheckDraining, CancelVictim, DropVictim, GetEntry,
      Hold, HoldWaited, TakeLock, Take, Use, KeepWarm, Put, TrimWarm, Release, Unhold, Unregister,
      BeginIdle, AcquireIdle, CheckCopy, CompactIdle, EndIdle, Expire, ListEntries, SweepEntry,
      TTLFires, IdleFires, Drain, CloseCache, warmVars, Fail
  <2>3. QED
    BY <2>1, <2>2
<1>2. ASSUME NEW d \in Call, CallStep(d), NEW y \in CallRec, call' = [call EXCEPT ![d] = y], Move(d, y)
      PROVE  RunsInv'
  <2>1. \A c \in Call : call'[c] = IF c = d THEN y ELSE call[c]
    BY <1>0, <1>2
  <2>2. /\ \A c \in Call : c # d /\ c \in runs[SessionOf[c]] => c \in runs'[SessionOf[c]]
        /\ y.pc # "done" /\ d \in runs[SessionOf[d]] => d \in runs'[SessionOf[d]]
        /\ Admit(d) /\ y.pc \in Registered => d \in runs'[SessionOf[d]]
    <3>1. CASE Admit(d)
      <4>1. CASE runs' = runs /\ y.pc \in {"done", "evict"}
        BY <4>1 DEF Registered
      <4>2. CASE runs' = [runs EXCEPT ![SessionOf[d]] = @ \cup {d}]
        BY <1>0, <4>2
      <4>3. QED
        BY <1>0, <1>2, <2>1, <3>1, <4>1, <4>2 DEF Admit, Goto, CallRec
    <3>2. CASE Unregister(d)
      <4>1. call[d].pc = "over" /\ Goto(d, "done") /\ runs' = [runs EXCEPT ![SessionOf[d]] = @ \ {d}]
        BY <3>2 DEF Unregister
      <4>2. y.pc = "done" /\ ~Admit(d)
        BY <1>0, <2>1, <4>1 DEF Goto, CallRec, Admit
      <4>3. QED
        BY <1>0, <4>1, <4>2
    <3>3. CASE runs' = runs /\ ~Admit(d)
      BY <3>3
    <3>4. QED
      BY <1>2, <3>1, <3>2, <3>3 DEF CallStep, CheckDraining, CancelVictim, DropVictim, GetEntry,
        Hold, HoldWaited, TakeLock, Take, Use, KeepWarm, Put, TrimWarm, Release, Unhold
  <2>3. /\ call[d].pc # "done" /\ y.pc # "check"
        /\ y.pc \in Registered /\ call[d].pc \notin Registered => Admit(d) \/ CheckDraining(d)
        /\ CheckDraining(d) => call[d].pc = "check"
    BY <1>2 DEF Move
  <2>4. ASSUME NEW c \in Call
        PROVE  /\ c \in Run /\ call'[c].pc \notin {"admit", "evict", "evicting", "done"} =>
                    c \in runs'[SessionOf[c]]
               /\ c \in Run => call'[c].pc # "check"
               /\ c \notin load'.calls => call'[c].pc = "done"
    <3>1. CASE c # d
      BY <1>1, <2>1, <2>2, <3>1 DEF RunsInv
    <3>2. CASE c = d
      <4>1. /\ c \in Run => call[c].pc # "check"
            /\ c \in Run /\ call[c].pc \in Registered => c \in runs[SessionOf[c]]
            /\ c \in load.calls
        BY <2>3, <3>2 DEF RunsInv, Registered
      <4>2. y.pc \notin {"admit", "evict", "evicting", "done"} => y.pc \in Registered
        BY <2>3 DEF Registered, CallRec
      <4>3. QED
        BY <1>1, <2>1, <2>2, <2>3, <3>2, <4>1, <4>2
    <3>3. QED
      BY <3>1, <3>2
  <2>5. QED
    BY <2>4 DEF RunsInv
<1>3. CASE UNCHANGED <<call, runs>>
  BY <1>1, <1>3 DEF RunsInv
<1>4. QED
  BY <1>1, <1>2, <1>3, Moves

\* A step that puts nothing adds no copy.
LEMMA ShrinkingCopies ==
  ASSUME WarmTypes, Shrinks
  PROVE  Copies' \subseteq Copies
<1>1. NoEntry \notin Entry
  BY DEF NoEntry, Entry
<1>2. \A s \in Session : cache'[s] = cache[s] \/ cache'[s] = NoEntry
  BY DEF Shrinks
<1>3. QED
  BY <1>1, <1>2 DEF Copies

\* Close leaves no copy behind: none is added once the cache is closed.
LEMMA SweepNext ==
  ASSUME WarmAssumption, WarmTypes, PlaceInv, SeqInv, CacheInv, SweepInv, [Next]_warmVars
  PROVE  SweepInv'
<1>0. /\ sweep \in [pc : {"idle", "list", "next", "waits", "closed"}, left : SUBSET Entry]
      /\ closed \in BOOLEAN
  BY DEF WarmTypes
<1>1. CASE CloseCache
  <2>1. closed' = TRUE /\ sweep'.pc = "list"
    BY <1>0, <1>1 DEF CloseCache
  <2>2. QED
    BY <2>1 DEF SweepInv
<1>2. CASE ListEntries
  <2>1. closed' = closed /\ Copies' = Copies /\ sweep'.pc = "next" /\ sweep'.left = Copies
    BY <1>2 DEF ListEntries, Copies
  <2>2. closed
    BY <1>2 DEF ListEntries, SweepInv
  <2>3. QED
    BY <2>1, <2>2 DEF SweepInv
<1>3. CASE SweepEntry
  <2>0. closed' = closed /\ closed
    BY <1>3 DEF SweepEntry, SweepInv
  <2>1. ASSUME NEW e \in sweep.left, sweep.pc = "next", cache' = cache,
               sweep' = [pc |-> "waits", left |-> {e} \cup sweep.left]
        PROVE  SweepInv'
    <3>1. Copies' = Copies /\ sweep'.pc = "waits" /\ sweep.left \subseteq sweep'.left
      BY <2>1 DEF Copies
    <3>2. QED
      BY <2>0, <2>1, <3>1 DEF SweepInv
  <2>2. ASSUME NEW e, sweep.pc = "waits", Removed(e), seq' = seq,
               sweep' = [pc |-> "next", left |-> sweep.left \ {e}]
        PROVE  SweepInv'
    <3>1. Shrinks /\ \A s \in Session : cache'[s] # NoEntry => cache'[s] # e
      BY <2>2, RemovedFacts
    <3>2. Copies' \subseteq Copies /\ NoEntry \notin Entry
      BY <3>1, ShrinkingCopies DEF NoEntry, Entry
    <3>3. e \notin Copies'
      BY <3>1, <3>2 DEF Copies
    <3>4. Copies \subseteq sweep.left /\ sweep'.pc = "next" /\ sweep'.left = sweep.left \ {e}
      BY <2>2 DEF SweepInv
    <3>5. QED
      BY <2>0, <3>2, <3>3, <3>4 DEF SweepInv
  <2>3. CASE /\ sweep.pc = "next" /\ sweep.left = {} /\ cache' = cache
             /\ sweep' = [sweep EXCEPT !.pc = "closed"]
    <3>1. Copies' = Copies /\ sweep'.pc = "closed"
      BY <1>0, <2>3 DEF Copies
    <3>2. QED
      BY <2>0, <2>3, <3>1 DEF SweepInv
  <2>4. QED
    BY <1>3, <2>1, <2>2, <2>3 DEF SweepEntry
<1>4. CASE ~CloseCache /\ ~ListEntries /\ ~SweepEntry
  <2>1. sweep' = sweep /\ closed' = closed
    BY <1>4 DEF Next, Goes, CallStep, IdleStep, Admit, CheckDraining, CancelVictim, DropVictim,
      GetEntry, Hold, HoldWaited, TakeLock, Take, Use, KeepWarm, Put, TrimWarm, Release, Unhold,
      Unregister, BeginIdle, AcquireIdle, CheckCopy, CompactIdle, EndIdle, Expire,
      TTLFires, IdleFires, Drain, warmVars
  <2>2. CASE Shrinks
    BY <2>1, <2>2, ShrinkingCopies DEF SweepInv
  <2>3. CASE \E c \in Call : Puts(c)
    BY <2>1, <2>3 DEF SweepInv, Puts
  <2>4. QED
    BY <2>2, <2>3, CacheSteps
<1>5. QED
  BY <1>1, <1>2, <1>3, <1>4

\* What admission counts is the Sessions in memory: those with a Run, and each
\* idle copy for the one Session it is of.
LEMMA KeptIs ==
  ASSUME WarmAssumption, WarmTypes, CacheInv
  PROVE  IsFiniteSet(InMemory) /\ Kept = Cardinality(InMemory) /\ Kept \in Nat
<1> DEFINE B == {s \in Session : Busy(s)}
           W == {s \in Session : ~Busy(s) /\ cache[s] # NoEntry}
           f == [s \in W |-> cache[s]]
<1>0. cache \in [Session -> Entry \cup {NoEntry}] /\ NoEntry \notin Entry
  BY DEF WarmTypes, NoEntry, Entry
<1>1. IsFiniteSet(B) /\ IsFiniteSet(W) /\ IsFiniteSet(InMemory)
  BY FS_Subset DEF WarmAssumption, InMemory
<1>2. \A s \in Session : cache[s] # NoEntry => cache[s] \in Entry /\ entry[cache[s]].session = s
  BY <1>0 DEF CacheInv
<1>3. f \in [W -> IdleCopies]
  BY <1>2 DEF IdleCopies, Copies
<1>4. \A s, t \in W : f[s] = f[t] => s = t
  BY <1>2
<1>5. \A e \in IdleCopies : \E s \in W : f[s] = e
  BY <1>0, <1>2 DEF IdleCopies, Copies
<1>6. f \in Bijection(W, IdleCopies)
  BY <1>3, <1>4, <1>5 DEF Bijection, Injection, Surjection, IsInjective
<1>7. ExistsBijection(W, IdleCopies)
  BY <1>6 DEF ExistsBijection
<1>8. Cardinality(IdleCopies) = Cardinality(W)
  BY <1>1, <1>7, FS_Bijection
<1>9. InMemory = B \cup W /\ B \cap W = {}
  BY DEF InMemory
<1>10. Cardinality(B) \in Nat /\ Cardinality(W) \in Nat
  BY <1>1, FS_CardinalityType
<1>11. Cardinality(InMemory) = Cardinality(B) + Cardinality(W)
  <2> HIDE DEF B, W
  <2>1. Cardinality(B \cap W) = 0
    BY <1>9, FS_EmptySet
  <2>2. Cardinality(B \cup W) = Cardinality(B) + Cardinality(W) - Cardinality(B \cap W)
    BY <1>1, FS_Union
  <2>3. QED
    BY <1>9, <1>10, <2>1, <2>2
<1>12. Kept = Cardinality(B) + Cardinality(IdleCopies)
  BY DEF Kept
<1>13. QED
  <2> HIDE DEF B, W, f
  <2>1. QED
    BY <1>1, <1>8, <1>10, <1>11, <1>12

\* While nothing but Runs opens Sessions, only Admit adds one to memory.
LEMMA BoundNext ==
  ASSUME WarmAssumption, WarmTypes, PlaceInv, SeqInv, CacheInv, RunsInv, BoundInv, [Next]_warmVars
  PROVE  BoundInv'
<1>0. /\ runs \in [Session -> SUBSET Call] /\ load.active \in Nat
      /\ cache \in [Session -> Entry \cup {NoEntry}] /\ call \in [Call -> CallRec]
      /\ \A c \in Call : SessionOf[c] \in Session
  BY DEF WarmTypes, WarmAssumption
<1>1. load'.calls = load.calls /\ load'.active = load.active
  BY RunsNext
<1> SUFFICES ASSUME load.active > 0, load.calls \cap Edit = {}
             PROVE  Cardinality(InMemory') <= load.active
  BY <1>1 DEF BoundInv
<1>2. /\ Cardinality(InMemory) <= load.active /\ IsFiniteSet(InMemory)
      /\ Kept = Cardinality(InMemory) /\ Cardinality(InMemory) \in Nat
  BY KeptIs DEF BoundInv
<1>a. ASSUME InMemory' \subseteq InMemory
      PROVE  Cardinality(InMemory') <= load.active
  <2>1. Cardinality(InMemory') <= Cardinality(InMemory) /\ IsFiniteSet(InMemory')
    BY <1>2, <1>a, FS_Subset
  <2>2. Cardinality(InMemory') \in Nat
    BY <2>1, FS_CardinalityType
  <2>3. QED
    BY <1>0, <1>2, <2>1, <2>2
<1>3. ASSUME NEW c \in Call, runs' = [runs EXCEPT ![SessionOf[c]] = @ \cup {c}], cache' = cache,
             ~AtBound(SessionOf[c])
      PROVE  Cardinality(InMemory') <= load.active
  <2>0. PICK k \in Session : k = SessionOf[c]
    BY <1>0
  <2>1. InMemory' = InMemory \cup {k}
    BY <1>0, <1>3, <2>0 DEF InMemory, Busy
  <2>2. CASE k \in InMemory
    BY <1>a, <2>1, <2>2
  <2>3. CASE k \notin InMemory
    <3>1. ~(Kept >= load.active)
      BY <1>3, <2>0, <2>3 DEF AtBound, InMemory
    <3>2. Cardinality(InMemory) < load.active
      BY <1>0, <1>2, <3>1
    <3>3. Cardinality(InMemory \cup {k}) = Cardinality(InMemory) + 1
      BY <1>2, <2>3, FS_AddElement
    <3>4. QED
      BY <1>0, <1>2, <2>1, <3>2, <3>3
  <2>4. QED
    BY <2>2, <2>3
<1>4. CASE \E c \in Call : Puts(c)
  <2>1. PICK c \in Call : Puts(c)
    BY <1>4
  <2>2. c \in runs[SessionOf[c]]
    <3>1. call[c].pc = "put"
      BY <2>1 DEF Puts, Put
    <3>2. c \in load.calls /\ c \in Run
      BY <3>1 DEF RunsInv, Call
    <3>3. QED
      BY <3>1, <3>2 DEF RunsInv
  <2>3. cache' = [cache EXCEPT ![SessionOf[c]] = seq + 1] /\ runs' = runs
    BY <2>1, CacheSteps DEF Puts, Put
  <2>4. InMemory' \subseteq InMemory
    BY <1>0, <2>2, <2>3 DEF InMemory, Busy
  <2>5. QED
    BY <1>a, <2>4
<1>5. CASE Shrinks
  <2>0. \A s \in Session : cache'[s] = cache[s] \/ cache'[s] = NoEntry
    BY <1>5 DEF Shrinks
  <2>1. ASSUME \A s \in Session : runs'[s] \subseteq runs[s]
        PROVE  Cardinality(InMemory') <= load.active
    <3>1. InMemory' \subseteq InMemory
      BY <1>0, <2>0, <2>1 DEF InMemory, Busy
    <3>2. QED
      BY <1>a, <3>1
  <2>2. CASE runs' = runs
    BY <2>1, <2>2
  <2>3. CASE \E c \in Call : Admit(c)
    BY <1>3, <2>2, <2>3 DEF Admit
  <2>4. CASE \E c \in Call : Unregister(c)
    <3>1. \A s \in Session : runs'[s] \subseteq runs[s]
      BY <1>0, <2>4 DEF Unregister
    <3>2. QED
      BY <2>1, <3>1
  <2>5. CASE ~\E c \in Call : Admit(c) \/ Unregister(c)
    <3>1. runs' = runs
      BY <2>5 DEF Next, Goes, CallStep, IdleStep, CheckDraining, CancelVictim, DropVictim, GetEntry,
        Hold, HoldWaited, TakeLock, Take, Use, KeepWarm, Put, TrimWarm, Release, Unhold,
        BeginIdle, AcquireIdle, CheckCopy, CompactIdle, EndIdle, Expire, ListEntries, SweepEntry,
        TTLFires, IdleFires, Drain, CloseCache, warmVars
    <3>2. QED
      BY <2>2, <3>1
  <2>6. QED
    BY <2>3, <2>4, <2>5
<1>6. QED
  BY <1>4, <1>5, CacheSteps

\* The first state.
LEMMA InvInit ==
  ASSUME WarmAssumption, Init
  PROVE  Inv
<1>0. /\ cache = [s \in Session |-> NoEntry] /\ entry = [e \in Entry |-> NewEntry] /\ seq = 0
      /\ runs = [s \in Session |-> {}] /\ sweep = [pc |-> "idle", left |-> {}]
      /\ closed = FALSE /\ NoEntry \notin Entry
      /\ \A T \in SUBSET Call : IsFiniteSet(T) /\ Cardinality(T) \in Nat
  BY FS_Subset, FS_CardinalityType DEF Init, WarmAssumption, NoEntry, Entry
<1>1. NewEntry \in Copy /\ NewEntry.idle = "off" /\ NewEntry.holds = 0 /\ NewEntry.failed = FALSE
  <2>1. (CHOOSE s \in Session : TRUE) \in Session
    BY DEF WarmAssumption
  <2>2. QED
    BY <2>1 DEF NewEntry, Copy, IdlePc
<1> DEFINE pc0(c) == IF c \notin load.calls THEN "done" ELSE IF c \in Run THEN "admit" ELSE "check"
<1>2. call = [c \in Call |-> [pc |-> pc0(c), held |-> NoEntry, victim |-> NoEntry]]
  BY DEF Init
<1>3. /\ \A c \in Call : pc0(c) \in CallPc /\ pc0(c) \in {"done", "admit", "check"}
      /\ \A c \in Call : c \in Run => pc0(c) # "check"
      /\ \A c \in Call : c \notin load.calls => pc0(c) = "done"
  BY DEF CallPc
<1> HIDE DEF pc0
<1>4. \A c \in Call : call[c].pc = pc0(c) /\ call[c].held = NoEntry
  BY <1>2
<1>5. WarmTypes
  <2>1. call \in [Call -> CallRec]
    BY <1>2, <1>3 DEF CallRec
  <2>2. load \in [active : Nat, calls : SUBSET Call, fails : Nat, foreign : Nat, drains : Nat]
    BY DEF Init, WarmAssumption
  <2>3. /\ cache \in [Session -> Entry \cup {NoEntry}] /\ entry \in [Entry -> Copy] /\ seq \in Nat
        /\ closed \in BOOLEAN /\ runs \in [Session -> SUBSET Call]
    BY <1>0, <1>1
  <2>4. sweep \in [pc : {"idle", "list", "next", "waits", "closed"}, left : SUBSET Entry]
    BY <1>0
  <2>5. QED
    BY <2>1, <2>2, <2>3, <2>4 DEF WarmTypes
<1>6. PlaceInv
  BY <1>3, <1>4 DEF PlaceInv, NoHold
<1>7. SeqInv
  <2>1. Past \in SUBSET Call
    BY DEF Past
  <2>2. QED
    BY <1>0, <2>1 DEF SeqInv, Past
<1>8. CacheInv
  BY <1>0, <1>1 DEF CacheInv
<1>9. HoldsInv
  <2>1. \A e \in Entry : Holders(e) = {}
    BY <1>0, <1>4 DEF Holders
  <2>2. QED
    BY <1>0, <1>1, <2>1, FS_EmptySet DEF HoldsInv
<1>10. HeldCopiesAreNotCompacted
  BY <1>4 DEF HeldCopiesAreNotCompacted
<1>11. RunsInv
  BY <1>3, <1>4 DEF RunsInv
<1>12. SweepInv
  BY <1>0 DEF SweepInv
<1>13. BoundInv
  <2>1. InMemory = {}
    BY <1>0 DEF InMemory, Busy
  <2>2. load.active \in Nat
    BY <1>5 DEF WarmTypes
  <2>3. QED
    BY <2>1, <2>2, FS_EmptySet DEF BoundInv
<1>14. QED
  BY <1>5, <1>6, <1>7, <1>8, <1>9, <1>10, <1>11, <1>12, <1>13 DEF Inv
---------------------------------------------------------------------------
(* The theorems, of constants that are what WarmSessions says they are.    *)

\* The inductive invariant: the copies an Instance keeps, the calls that hold
\* them and the Runs in the table agree, whatever fires, fails or closes.
THEOREM WarmInvariance == WarmAssumption => (Spec => []Inv)
<1> SUFFICES ASSUME WarmAssumption
             PROVE  Spec => []Inv
  OBVIOUS
<1>1. Init => Inv
  BY InvInit
<1>2. Inv /\ [Next]_warmVars => Inv'
  BY TypesNext, PlaceNext, CacheSteps, CacheNext, HoldsNext, HeldNext, RunsNext, SweepNext, BoundNext
    DEF Inv
<1>3. QED
  BY <1>1, <1>2, PTL DEF Spec

\* Entry.Hold and BeginIdle: a caller that has waited for the compaction of the
\* copy it holds is served first; no compaction of it is going or begins until
\* the caller lets it go.
THEOREM HoldersAreServed == WarmAssumption => (Spec => []HeldCopiesAreNotCompacted)
<1> SUFFICES ASSUME WarmAssumption
             PROVE  Spec => []HeldCopiesAreNotCompacted
  OBVIOUS
<1>1. Inv => HeldCopiesAreNotCompacted
  BY DEF Inv
<1>2. QED
  BY <1>1, WarmInvariance, PTL

\* keepWarm and compactIdleLocked: a copy that may differ from the store is not
\* in the cache, so whoever takes the Session's lock does not find it.
THEOREM CopiesAreHealthy == WarmAssumption => (Spec => []KeptCopiesAreHealthy)
<1> SUFFICES ASSUME WarmAssumption
             PROVE  Spec => []KeptCopiesAreHealthy
  OBVIOUS
<1>1. Inv => KeptCopiesAreHealthy
  BY DEF Inv, CacheInv, KeptCopiesAreHealthy
<1>2. QED
  BY <1>1, WarmInvariance, PTL

\* Table.Admit: MaxActiveSessions bounds the Sessions with a Run and the idle
\* copies, as long as nothing but Runs opens Sessions.
THEOREM MemoryIsBounded == WarmAssumption => (Spec => []ActiveSessionsBounded)
<1> SUFFICES ASSUME WarmAssumption
             PROVE  Spec => []ActiveSessionsBounded
  OBVIOUS
<1>1. Inv => ActiveSessionsBounded
  BY KeptIs DEF Inv, BoundInv, ActiveSessionsBounded
<1>2. QED
  BY <1>1, WarmInvariance, PTL

\* Runner.Close: once it has gone through the entries no copy is kept, and none
\* is put by a Run that was about to.
THEOREM CloseKeepsNothing == WarmAssumption => (Spec => []ClosedKeepsNothing)
<1> SUFFICES ASSUME WarmAssumption
             PROVE  Spec => []ClosedKeepsNothing
  OBVIOUS
<1>1. Inv => ClosedKeepsNothing
  BY DEF Inv, SweepInv, ClosedKeepsNothing
<1>2. QED
  BY <1>1, WarmInvariance, PTL
===========================================================================
