---------------------------- MODULE WarmSessions ----------------------------
(***************************************************************************)
(* The warm Sessions of one Instance: the copies a Runner keeps of the     *)
(* Sessions it wrote (host/warm.go, host/internal/warm), the compaction of *)
(* an idle one, its TTL, and the bounds admission puts on the Sessions in  *)
(* memory (host/admission.go, host/internal/runs).                         *)
(*                                                                         *)
(* A step is what happens under one of the locks Cache.mu, Entry.mu,       *)
(* Table.mu and the Session's.  An entry is named by its seq, so that the  *)
(* least of two went idle first.  Of a Writer it matters whether it failed *)
(* and whether the store's head is still its own.                          *)
(***************************************************************************)
EXTENDS Naturals, FiniteSets, FiniteSetsExt, Sequences

CONSTANTS
  Session,     \* Session ids
  Run,         \* calls of Run, which are admitted
  Edit,        \* calls of Compact, SetToolActive and Notice, which are not
  SessionOf,   \* the Session of each call
  Waits,       \* QueuePolicyWait
  MaxWarm,     \* Bounds.MaxWarmSessions
  Loads        \* the Instances: MaxActiveSessions (active, 0 for none) and, as
               \* bounds, the calls made, the fails (writes), the foreign writes
               \* met and the drains

Call == Run \cup Edit

Entry == 1 .. Cardinality(Call)

NoEntry == 0

VARIABLES
  cache,     \* Cache.entries: each Session's copy
  entry,     \* the copies there have been
  seq,       \* Cache.seq
  closed,    \* Cache.closed
  draining,  \* Table.draining
  lock,      \* who has the Session's lock: a call, an idle compaction or nobody
  runs,      \* Table.handles: each Session's admitted Runs
  call,      \* where each call is, the entry it holds and the one it drops
  sweep,     \* Runner.Close: where it is, and the entries still to drop
  load       \* the Instance's bound, and what is left of the others

warmVars == <<cache, entry, seq, closed, draining, lock, runs, call, sweep, load>>

-----------------------------------------------------------------------------
(* The cache.                                                              *)

Copies == {e \in Entry : \E s \in Session : cache[s] = e}

Len_ == Cardinality(Copies)

Busy(s) == runs[s] # {}

IdleCopies == {e \in Copies : ~Busy(entry[e].session)}

\* activeLocked and Idle: the Sessions the Instance keeps.
Kept == Cardinality({s \in Session : Busy(s)}) + Cardinality(IdleCopies)

\* Cache.Victim: the longest-idle copy whose Session has no admitted Run.
Victim == IF IdleCopies = {} THEN NoEntry ELSE Min(IdleCopies)

Going(e) == entry[e].idle \in {"acquire", "check", "compact", "unlock", "end"}

\* stopTimers: a timer that has fired is not called back.
StopTimers(x) ==
  [x EXCEPT !.idle = IF x.idle = "armed" THEN "off" ELSE x.idle,
            !.ttl = IF x.ttl = "armed" THEN "off" ELSE x.ttl]

\* Cache.drop.
DropEntry(x) == [StopTimers(x) EXCEPT !.dead = TRUE]

\* Cache.Remove: only if it is still its Session's copy.
Removed(e) ==
  IF e \in Copies
  THEN /\ cache' = [cache EXCEPT ![entry[e].session] = NoEntry]
       /\ entry' = [entry EXCEPT ![e] = DropEntry(entry[e])]
  ELSE UNCHANGED <<cache, entry>>

\* CancelIdle, up to its wait.
CancelIdle(e) == entry' = [entry EXCEPT ![e].canceled = TRUE]

Goto(c, where) == call' = [call EXCEPT ![c].pc = where]

Fail == load.fails > 0 /\ load' = [load EXCEPT !.fails = @ - 1]

-----------------------------------------------------------------------------
(* dropEntry, by its three callers: cancel, wait for the compaction to let *)
(* go of the Writer, remove.                                               *)

\* Admission at the bound and trimWarm drop a victim.
CancelVictim(c) ==
  /\ call[c].pc \in {"evict", "trimmed"}
  /\ CancelIdle(call[c].victim)
  /\ Goto(c, IF call[c].pc = "evict" THEN "evicting" ELSE "trimming")
  /\ UNCHANGED <<cache, seq, closed, draining, lock, runs, sweep, load>>

DropVictim(c) ==
  /\ call[c].pc \in {"evicting", "trimming"}
  /\ ~Going(call[c].victim)
  /\ Removed(call[c].victim)
  /\ call' = [call EXCEPT ![c].pc = IF @ = "evicting" THEN "admit" ELSE "trim",
                          ![c].victim = NoEntry]
  /\ UNCHANGED <<seq, closed, draining, lock, runs, sweep, load>>

\* The TTL timer fires: expire.
TTLFires(e) ==
  /\ entry[e].ttl = "armed"
  /\ entry' = [entry EXCEPT ![e].ttl = "fired"]
  /\ UNCHANGED <<cache, seq, closed, draining, lock, runs, call, sweep, load>>

Expire(e) ==
  /\ \/ /\ entry[e].ttl = "fired"
        /\ entry' = [entry EXCEPT ![e].canceled = TRUE, ![e].ttl = "waits"]
        /\ UNCHANGED cache
     \/ /\ entry[e].ttl = "waits"
        /\ ~Going(e)
        /\ cache' = [s \in Session |-> IF cache[s] = e THEN NoEntry ELSE cache[s]]
        /\ entry' = [entry EXCEPT ![e] = [DropEntry(entry[e]) EXCEPT !.ttl = "off"]]
  /\ UNCHANGED <<seq, closed, draining, lock, runs, call, sweep, load>>

\* Runner.Close: the cache is closed, and then dropAllWarm takes its entries.
Drain ==
  /\ ~draining /\ load.drains > 0
  /\ draining' = TRUE
  /\ UNCHANGED <<cache, entry, seq, closed, lock, runs, call, sweep, load>>

\* Wrong: the entries are listed before the cache is closed.
CloseCacheLate ==
  /\ draining /\ ~closed /\ sweep.pc = "idle"
  /\ sweep' = [pc |-> "next", left |-> Copies]
  /\ UNCHANGED <<cache, entry, seq, closed, draining, lock, runs, call, load>>

CloseCache ==
  /\ draining /\ ~closed /\ sweep.pc = "idle"
  /\ closed' = TRUE
  /\ sweep' = [sweep EXCEPT !.pc = "list"]
  /\ UNCHANGED <<cache, entry, seq, draining, lock, runs, call, load>>

ListEntries ==
  /\ sweep.pc = "list"
  /\ sweep' = [pc |-> "next", left |-> Copies]
  /\ UNCHANGED <<cache, entry, seq, closed, draining, lock, runs, call, load>>

SweepEntry ==
  \/ \E e \in sweep.left :
       /\ sweep.pc = "next"
       /\ CancelIdle(e)
       /\ sweep' = [pc |-> "waits", left |-> {e} \cup sweep.left]
       /\ e = Min(sweep.left)
       /\ UNCHANGED <<cache, seq, closed, draining, lock, runs, call, load>>
  \/ /\ sweep.pc = "waits"
     /\ LET e == Min(sweep.left)
        IN /\ ~Going(e)
           /\ Removed(e)
           /\ sweep' = [pc |-> "next", left |-> sweep.left \ {e}]
     /\ UNCHANGED <<seq, closed, draining, lock, runs, call, load>>
  \/ /\ sweep.pc = "next" /\ sweep.left = {}
     /\ sweep' = [sweep EXCEPT !.pc = "closed"]
     /\ UNCHANGED <<cache, entry, seq, closed, draining, lock, runs, call, load>>

-----------------------------------------------------------------------------
(* A call.                                                                 *)

\* Wrong: a copy that can be evicted is not counted.
AtBoundActive(s) ==
  /\ load.active > 0
  /\ ~Busy(s) /\ cache[s] = NoEntry
  /\ Cardinality({t \in Session : Busy(t)}) >= load.active

\* The Run would activate a Session past the bound.
AtBound(s) ==
  /\ load.active > 0
  /\ ~Busy(s) /\ cache[s] = NoEntry
  /\ Kept >= load.active

\* Table.Admit: a draining Instance refuses, then the memory bound, which asks
\* for a victim first.
Admit(c) ==
  /\ call[c].pc = "admit"
  /\ LET s == SessionOf[c]
     IN \/ /\ draining \/ (AtBound(s) /\ Victim = NoEntry)
           /\ Goto(c, "done")
           /\ UNCHANGED runs
        \/ /\ ~draining /\ AtBound(s) /\ Victim # NoEntry
           /\ call' = [call EXCEPT ![c].pc = "evict", ![c].victim = Victim]
           /\ UNCHANGED runs
        \/ /\ ~draining /\ ~AtBound(s)
           /\ runs' = [runs EXCEPT ![s] = @ \cup {c}]
           /\ Goto(c, "hold")
  /\ UNCHANGED <<cache, entry, seq, closed, draining, lock, sweep, load>>

\* Compact, SetToolActive and Notice are refused by a draining Instance only.
CheckDraining(c) ==
  /\ call[c].pc = "check"
  /\ Goto(c, IF draining THEN "done" ELSE "hold")
  /\ UNCHANGED <<cache, entry, seq, closed, draining, lock, runs, sweep, load>>

\* holdWarm: Get.  The entry may be replaced before Hold.
GetEntry(c) ==
  /\ call[c].pc = "hold"
  /\ call' = [call EXCEPT ![c].pc = IF cache[SessionOf[c]] = NoEntry THEN "lock" ELSE "got",
                          ![c].held = cache[SessionOf[c]]]
  /\ UNCHANGED <<cache, entry, seq, closed, draining, lock, runs, sweep, load>>

\* Entry.Hold: counted, then a compaction that is going is canceled.
Hold(c) ==
  /\ call[c].pc = "got"
  /\ entry' = [entry EXCEPT ![call[c].held].holds = @ + 1,
                            ![call[c].held].canceled = @ \/ Going(call[c].held)]
  /\ Goto(c, "holding")
  /\ UNCHANGED <<cache, seq, closed, draining, lock, runs, sweep, load>>

HoldWaited(c) ==
  /\ call[c].pc = "holding"
  /\ ~Going(call[c].held)
  /\ Goto(c, "lock")
  /\ UNCHANGED <<cache, entry, seq, closed, draining, lock, runs, sweep, load>>

\* sessionLock: a busy Session is waited for or refused.
TakeLock(c) ==
  /\ call[c].pc = "lock"
  /\ \/ /\ lock[SessionOf[c]] = <<>>
        /\ lock' = [lock EXCEPT ![SessionOf[c]] = <<c>>]
        /\ Goto(c, "take")
     \/ /\ lock[SessionOf[c]] # <<>> /\ ~Waits
        /\ Goto(c, "unhold")
        /\ UNCHANGED lock
  /\ UNCHANGED <<cache, entry, seq, closed, draining, runs, sweep, load>>

\* acquire: the copy is taken.  A stale one, or one whose claim fails, is let go;
\* a caller that gave up, or is refused by the store, puts it back.
Take(c) ==
  /\ call[c].pc = "take"
  /\ LET e == cache[SessionOf[c]]
     IN /\ cache' = [cache EXCEPT ![SessionOf[c]] = NoEntry]
        /\ entry' = IF e = NoEntry THEN entry ELSE [entry EXCEPT ![e] = DropEntry(entry[e])]
  /\ \/ Goto(c, "use") /\ UNCHANGED load
     \/ cache[SessionOf[c]] # NoEntry /\ Fail /\ Goto(c, "release")
     \/ cache[SessionOf[c]] # NoEntry /\ Fail /\ Goto(c, "keep")
  /\ UNCHANGED <<seq, closed, draining, lock, runs, sweep>>

\* The Session is used and released.  A Writer that failed keeps nothing.
Use(c) ==
  /\ call[c].pc = "use"
  /\ \/ Goto(c, "keep") /\ UNCHANGED load
     \/ Goto(c, "release") /\ Fail
  /\ UNCHANGED <<cache, entry, seq, closed, draining, lock, runs, sweep>>

\* keepWarm: a draining Runner keeps nothing.
KeepWarm(c) ==
  /\ call[c].pc = "keep"
  /\ Goto(c, IF draining THEN "release" ELSE "put")
  /\ UNCHANGED <<cache, entry, seq, closed, draining, lock, runs, sweep, load>>

\* Cache.Put, with its timers.
Put(c) ==
  /\ call[c].pc = "put"
  /\ IF closed
     THEN Goto(c, "release") /\ UNCHANGED <<cache, entry, seq>>
     ELSE /\ seq' = seq + 1
          /\ cache' = [cache EXCEPT ![SessionOf[c]] = seq + 1]
          /\ entry' = [entry EXCEPT ![seq + 1].session = SessionOf[c],
                                    ![seq + 1].idle = "armed", ![seq + 1].ttl = "armed"]
          /\ Goto(c, "trim")
  /\ UNCHANGED <<closed, draining, lock, runs, sweep, load>>

\* trimWarm.
TrimWarm(c) ==
  /\ call[c].pc = "trim"
  /\ IF Len_ <= MaxWarm \/ Victim = NoEntry
     THEN Goto(c, "release")
     ELSE call' = [call EXCEPT ![c].pc = "trimmed", ![c].victim = Victim]
  /\ UNCHANGED <<cache, entry, seq, closed, draining, lock, runs, sweep, load>>

Release(c) ==
  /\ call[c].pc = "release"
  /\ lock' = [lock EXCEPT ![SessionOf[c]] = <<>>]
  /\ Goto(c, "unhold")
  /\ UNCHANGED <<cache, entry, seq, closed, draining, runs, sweep, load>>

Unhold(c) ==
  /\ call[c].pc = "unhold"
  /\ entry' = IF call[c].held = NoEntry THEN entry
              ELSE [entry EXCEPT ![call[c].held].holds = @ - 1]
  /\ call' = [call EXCEPT ![c].pc = "over", ![c].held = NoEntry]
  /\ UNCHANGED <<cache, seq, closed, draining, lock, runs, sweep, load>>

\* unregisterHandle.
Unregister(c) ==
  /\ call[c].pc = "over"
  /\ runs' = [runs EXCEPT ![SessionOf[c]] = @ \ {c}]
  /\ Goto(c, "done")
  /\ UNCHANGED <<cache, entry, seq, closed, draining, lock, sweep, load>>

-----------------------------------------------------------------------------
(* An idle compaction.                                                     *)

IdleFires(e) ==
  /\ entry[e].idle = "armed"
  /\ entry' = [entry EXCEPT ![e].idle = "fired"]
  /\ UNCHANGED <<cache, seq, closed, draining, lock, runs, call, sweep, load>>

\* Wrong: a caller that holds the entry is not looked for.
MayBeginIdleHeld(x) == ~x.dead

\* An idle run is refused when a caller holds the entry or it is dead.
MayBeginIdle(x) == x.holds = 0 /\ ~x.dead

BeginIdle(e) ==
  /\ entry[e].idle = "fired"
  /\ entry' = [entry EXCEPT ![e].idle = IF MayBeginIdle(entry[e]) THEN "acquire" ELSE "off",
                            ![e].canceled = FALSE]
  /\ UNCHANGED <<cache, seq, closed, draining, lock, runs, call, sweep, load>>

\* locks.acquire without waiting.
AcquireIdle(e) ==
  /\ entry[e].idle = "acquire"
  /\ LET s == entry[e].session
     IN \/ /\ lock[s] = <<>>
           /\ lock' = [lock EXCEPT ![s] = <<e>>]
           /\ entry' = [entry EXCEPT ![e].idle = "check"]
        \/ /\ lock[s] # <<>>
           /\ entry' = [entry EXCEPT ![e].idle = "end"]
           /\ UNCHANGED lock
  /\ UNCHANGED <<cache, seq, closed, draining, runs, call, sweep, load>>

\* compactIdleLocked: the copy is still the cached one, nobody canceled, and the
\* store's head is the copy's; below the minimum nothing is written.  Else the
\* copy of another Instance's Session is dropped.
CheckCopy(e) ==
  /\ entry[e].idle = "check"
  /\ \/ /\ entry' = [entry EXCEPT ![e].idle = "unlock"]
        /\ UNCHANGED <<cache, load>>
     \/ /\ e \in Copies /\ ~entry[e].canceled
        /\ entry' = [entry EXCEPT ![e].idle = "compact"]
        /\ UNCHANGED <<cache, load>>
     \/ /\ e \in Copies /\ ~entry[e].canceled
        /\ load.foreign > 0
        /\ load' = [load EXCEPT !.foreign = @ - 1]
        /\ cache' = [cache EXCEPT ![entry[e].session] = NoEntry]
        /\ entry' = [entry EXCEPT ![e] = [DropEntry(entry[e]) EXCEPT !.idle = "unlock"]]
  /\ UNCHANGED <<seq, closed, draining, lock, runs, call, sweep>>

\* Wrong: a copy that could not be written is left to serve the next Run.
CompactIdleKeeps(e) ==
  /\ entry[e].idle = "compact"
  /\ \/ /\ entry' = [entry EXCEPT ![e].idle = "unlock"]
        /\ UNCHANGED load
     \/ /\ Fail
        /\ entry' = [entry EXCEPT ![e].idle = "unlock", ![e].failed = TRUE]
  /\ UNCHANGED <<cache, seq, closed, draining, lock, runs, call, sweep>>

\* Resume, Compact and release; a failure drops the copy.
CompactIdle(e) ==
  /\ entry[e].idle = "compact"
  /\ \/ /\ entry' = [entry EXCEPT ![e].idle = "unlock"]
        /\ UNCHANGED <<cache, load>>
     \/ /\ Fail
        /\ cache' = [s \in Session |-> IF cache[s] = e THEN NoEntry ELSE cache[s]]
        /\ entry' = [entry EXCEPT ![e] = [(IF e \in Copies THEN DropEntry(entry[e]) ELSE entry[e])
                                           EXCEPT !.idle = "unlock", !.failed = TRUE]]
  /\ UNCHANGED <<seq, closed, draining, lock, runs, call, sweep>>

\* Wrong: who waits for the compaction is not told of its end.
EndIdleSilently(e) ==
  /\ entry[e].idle = "unlock"
  /\ lock' = [lock EXCEPT ![entry[e].session] = <<>>]
  /\ entry' = [entry EXCEPT ![e].idle = "end"]
  /\ UNCHANGED <<cache, seq, closed, draining, runs, call, sweep, load>>

\* The lock is given back, then those who wait for the compaction go on.
EndIdle(e) ==
  /\ \/ /\ entry[e].idle = "unlock"
        /\ lock' = [lock EXCEPT ![entry[e].session] = <<>>]
        /\ entry' = [entry EXCEPT ![e].idle = "end"]
     \/ /\ entry[e].idle = "end"
        /\ entry' = [entry EXCEPT ![e].idle = "off"]
        /\ UNCHANGED lock
  /\ UNCHANGED <<cache, seq, closed, draining, runs, call, sweep, load>>

-----------------------------------------------------------------------------
NewEntry == [session |-> CHOOSE s \in Session : TRUE, holds |-> 0, dead |-> FALSE,
             idle |-> "off", ttl |-> "off", canceled |-> FALSE, failed |-> FALSE]

\* What the constants are.
WarmAssumption ==
  /\ IsFiniteSet(Session) /\ IsFiniteSet(Call) /\ Session # {}
  /\ SessionOf \in [Call -> Session]
  /\ Loads \subseteq [active : Nat, calls : SUBSET Call, fails : Nat, foreign : Nat, drains : Nat]

Init ==
  /\ load \in Loads
  /\ cache = [s \in Session |-> NoEntry]
  /\ entry = [e \in Entry |-> NewEntry]
  /\ seq = 0 /\ closed = FALSE /\ draining = FALSE
  /\ lock = [s \in Session |-> <<>>]
  /\ runs = [s \in Session |-> {}]
  /\ call = [c \in Call |-> [pc |-> IF c \notin load.calls THEN "done"
                                   ELSE IF c \in Run THEN "admit" ELSE "check",
                             held |-> NoEntry, victim |-> NoEntry]]
  /\ sweep = [pc |-> "idle", left |-> {}]

CallStep(c) ==
  \/ Admit(c) \/ CheckDraining(c) \/ CancelVictim(c) \/ DropVictim(c) \/ GetEntry(c)
  \/ Hold(c) \/ HoldWaited(c) \/ TakeLock(c) \/ Take(c) \/ Use(c) \/ KeepWarm(c) \/ Put(c)
  \/ TrimWarm(c) \/ Release(c) \/ Unhold(c) \/ Unregister(c)

IdleStep(e) ==
  BeginIdle(e) \/ AcquireIdle(e) \/ CheckCopy(e) \/ CompactIdle(e) \/ EndIdle(e) \/ Expire(e)

Goes ==
  \/ \E c \in Call : CallStep(c)
  \/ \E e \in Entry : IdleStep(e)
  \/ ListEntries \/ SweepEntry

Next ==
  \/ Goes
  \/ \E e \in Entry : TTLFires(e) \/ IdleFires(e)
  \/ Drain \/ CloseCache

\* What has begun goes on while anything can.  No timer must fire.
Progress == WF_warmVars(Goes)

Spec == Init /\ [][Next]_warmVars /\ Progress

-----------------------------------------------------------------------------
(* Properties.                                                             *)

\* A caller that holds a copy, past its wait, is served first: no compaction of
\* that copy is going, nor begins, until the caller lets it go (warm.go Hold,
\* BeginIdle).
HeldCopiesAreNotCompacted ==
  \A c \in Call :
    (call[c].held # NoEntry /\ call[c].pc \notin {"got", "holding"}) => ~Going(call[c].held)

\* [DATA-LOSS] A copy that may differ from the store never serves a Run: whoever
\* may take the Session's lock finds no failed copy (warm.go keepWarm,
\* compactIdleLocked).
KeptCopiesAreHealthy ==
  \A s \in Session : (lock[s] = <<>> /\ cache[s] # NoEntry) => ~entry[cache[s]].failed

\* MaxActiveSessions "is the hard limit on the Sessions this Instance keeps": the
\* ones with a Run, and the warm ones (host/host.go Bounds).  It is so while
\* nothing but Runs opens Sessions: Compact opens one that nobody admits.
ActiveSessionsBounded ==
  (load.active > 0 /\ load.calls \cap Edit = {}) => Kept <= load.active

\* After Runner.Close no copy is kept, also not by a Run that was about to keep
\* one as the cache was closed (warm.go Put, Close).
ClosedKeepsNothing == sweep.pc = "closed" => Copies = {}

AllDone == \A c \in Call : call[c].pc = "done"

\* Every call ends: Hold waits for a compaction that never waits for the caller.
WarmCallsEnd == <>[]AllDone
=============================================================================
