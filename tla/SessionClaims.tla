--------------------------- MODULE SessionClaims ---------------------------
(***************************************************************************)
(* One Session's Record in the store, the Liveness rows, and the Instances *)
(* that claim, write, release, delete and create it again.                 *)
(*                                                                         *)
(* A Record is an append-only log.  A Claim is an Entry of it, written at  *)
(* the position after the head its Instance read, so the store's two       *)
(* checks on an append (the Record epoch and the position) are all the     *)
(* coordination there is: store/memory.go Append, store/writer.go,         *)
(* record/writing.go, host/open.go and host/release.go.                    *)
(*                                                                         *)
(* An actor is a NAME of a Liveness row.  A process whose row expired goes *)
(* on under a new name, which is another actor here; a Writer of the old   *)
(* name is refused by its guard (host/internal/heartbeat Guard).  Within a *)
(* process the Session lock serializes the operations on the Session, so   *)
(* each name has one Writer at a time.                                     *)
(***************************************************************************)
EXTENDS Integers, Sequences

CONSTANTS
  Name,        \* the names of Liveness rows
  Nobody,      \* the holder of a Session that does not exist
  MaxRecords,  \* bound: how often the ID is created
  MaxLog,      \* bound: no operation but a repair starts on a longer log
  MaxFaults,   \* bound: failed store calls, and refusals of a stale guard
  LateWrites   \* whether a write may land after its Writer gave up on it

ASSUME ClaimsAssumption ==
  /\ Nobody \notin Name
  /\ MaxRecords \in Nat
  /\ MaxLog \in Nat
  /\ MaxFaults \in Nat
  /\ LateWrites \in BOOLEAN

VARIABLES
  rec,      \* the stored Record: its Record epoch (0: none) and its log
  records,  \* the number of Record epochs handed out
  rows,     \* each name's Liveness row: "none" yet, "alive", "dead"
  proc,     \* each name's process: "up", "lapsed" (its name is dead), "crashed"
  w,        \* each name's Writer of the Session, if any
  flight,   \* the writes no Writer waits for that may still land
  marked,   \* the names in use that remember the Session as unreleased
  faults    \* the faults so far

vars == <<rec, records, rows, proc, w, flight, marked, faults>>

-----------------------------------------------------------------------------
(* Entries, and what a load rebuilds from them.                            *)

Kind == {"created", "claimed", "released", "started", "ended"}

\* An Entry: its kind, the Instance that wrote it, and its number: the
\* Record epoch of a "created", the Claim's Epoch of any other.
Entry == [kind : Kind, by : Name, n : Nat]

EntryOf(kind, i, n) == [kind |-> kind, by |-> i, n |-> n]

\* The position of the last Claim (record.Record.claim, by its SessionClaimed).
LastClaim(log) ==
  CHOOSE k \in DOMAIN log :
    /\ log[k].kind = "claimed"
    /\ \A m \in DOMAIN log : m > k => log[m].kind # "claimed"

Holder(log) == log[LastClaim(log)].by

ClaimEpoch(log) == log[LastClaim(log)].n

\* A Run that started and never ended (record.Record.running).
Running(log) ==
  \E k \in DOMAIN log :
    /\ log[k].kind = "started"
    /\ \A m \in DOMAIN log : m > k => log[m].kind # "ended"

\* Claimed and not released since (record.Record.busy).
Claimed(log) ==
  \E k \in DOMAIN log :
    /\ log[k].kind = "claimed"
    /\ \A m \in DOMAIN log : m > k => log[m].kind # "released"

\* Attach's busy: the holder is using the Session.
Busy(log) == Claimed(log) \/ Running(log)

-----------------------------------------------------------------------------
(* The batches a Writer writes.                                            *)

\* StartWriting: the Record's state, the first Claim and, when nothing is to
\* run against the Record, its release, in one write.
StartWriting(i, e, idle) ==
  <<EntryOf("created", i, e), EntryOf("claimed", i, 1)>>
    \o (IF idle THEN <<EntryOf("released", i, 1)>> ELSE <<>>)

\* Wrong: a takeover that keeps the Epoch of the Claim it takes.
ClaimForKeepsEpoch(i, log) == EntryOf("claimed", i, ClaimEpoch(log))

\* claimFor: a new holder takes the next Epoch, the same one keeps its own.
ClaimFor(i, log) ==
  EntryOf("claimed", i, IF Holder(log) = i THEN ClaimEpoch(log) ELSE ClaimEpoch(log) + 1)

\* Wrong: a takeover that leaves the lost writer's Run open.
TakeOverLeavesRun(i, log) == <<ClaimFor(i, log)>>

\* TakeOver: the Claim, and the end of the Run the last writer left.
TakeOver(i, log) ==
  IF Running(log)
  THEN <<ClaimFor(i, log), EntryOf("ended", i, ClaimFor(i, log).n)>>
  ELSE <<ClaimFor(i, log)>>

\* Reclaim, of a warm copy: the Claim again.
Reclaim(i, log) == <<ClaimFor(i, log)>>

\* A Writer's own step under the Claim it holds.
Step(kind, i, log) == <<EntryOf(kind, i, ClaimEpoch(log))>>

-----------------------------------------------------------------------------
(* Writers and writes.                                                     *)

Pc == {"idle",      \* no Writer
       "warm",      \* released, and kept in memory with its Record
       "judged",    \* a warm copy that Stale found current
       "loaded",    \* the Record is loaded, its holder not checked yet
       "checked",   \* free to claim, by the holder check or as the holder
       "held",      \* claimed, with nothing started
       "running",   \* a Run is going
       "done",      \* what it was claimed for is over: release is next
       "writing"}   \* waits for the store

\* A write: who makes it, the Record epoch in its Header, the log its Writer
\* built it from (empty: a Create), and the Entries.
Write == [by : Name, epoch : Nat, mem : Seq(Entry), batch : Seq(Entry)]

\* What a Writer is opened for: a Run (or a change that only writes), a
\* DeleteSession, or the heartbeat's repair of a release.
Use == {"run", "delete", "repair"}

\* A Writer: its write in the making, what follows when the write succeeds,
\* and what it is for.
Writer == [pc : Pc, epoch : Nat, mem : Seq(Entry), batch : Seq(Entry),
           then : Pc, use : Use]

NoWriter == [pc |-> "idle", epoch |-> 0, mem |-> <<>>, batch |-> <<>>,
             then |-> "idle", use |-> "run"]

NoRecord == [epoch |-> 0, log |-> <<>>]

WriteOf(i) ==
  [by |-> i, epoch |-> w[i].epoch, mem |-> w[i].mem, batch |-> w[i].batch]

\* Wrong: a store that compares positions and not Record epochs.
AcceptsAnyEpoch(x) ==
  IF x.mem = <<>> THEN rec.epoch = 0 ELSE rec.epoch # 0 /\ Len(rec.log) = Len(x.mem)

\* Wrong: a store that appends wherever the writer believes the end is.
AcceptsAnyPosition(x) ==
  IF x.mem = <<>> THEN rec.epoch = 0 ELSE rec.epoch # 0 /\ rec.epoch = x.epoch

\* The store takes a Create while the ID is free, and an Append to the Record
\* its Header names, after the Record's last position.
Accepts(x) ==
  IF x.mem = <<>>
  THEN rec.epoch = 0
  ELSE /\ rec.epoch # 0
       /\ rec.epoch = x.epoch
       /\ Len(rec.log) = Len(x.mem)

Landed(x) == [epoch |-> x.epoch, log |-> rec.log \o x.batch]

Exists == rec.epoch # 0

\* The row is there, and the process has not learned that it expired
\* (heartbeat Live).
Live(i) == rows[i] # "none" /\ proc[i] = "up"

\* The guard before every write: the name is current and not known expired.
Guard(i) == proc[i] = "up"

\* Wrong: a failed release that nobody remembers.
RememberNothing(i, cond) == marked

\* markUnreleased, of a name that is still in use.
Remember(i, cond) == IF cond /\ proc[i] = "up" THEN marked \cup {i} ELSE marked

\* Writer i sends batch, and goes on at next when the store confirms it.
Send(i, batch, next) ==
  /\ Guard(i)
  /\ w' = [w EXCEPT ![i].pc = "writing", ![i].batch = batch, ![i].then = next]
  /\ UNCHANGED <<rec, records, rows, proc, flight, marked, faults>>

-----------------------------------------------------------------------------
(* Processes and their Liveness rows.                                      *)

\* Wrong: a store whose Beat brings an expired row back.
BeatRevives(i) ==
  /\ rows[i] # "alive"
  /\ proc[i] = "up"
  /\ rows' = [rows EXCEPT ![i] = "alive"]
  /\ UNCHANGED <<rec, records, proc, w, flight, marked, faults>>

\* The first Beat of a name creates its row.
FirstBeat(i) ==
  /\ rows[i] = "none"
  /\ proc[i] = "up"
  /\ rows' = [rows EXCEPT ![i] = "alive"]
  /\ UNCHANGED <<rec, records, proc, w, flight, marked, faults>>

\* No renewal reached the store for a TTL: the row is dead for good.
Expire(i) ==
  /\ rows[i] = "alive"
  /\ rows' = [rows EXCEPT ![i] = "dead"]
  /\ UNCHANGED <<rec, records, proc, w, flight, marked, faults>>

\* The warm copies go when the name does (OnRename, Close).
DropWarmOf(i) == [w EXCEPT ![i] = IF w[i].pc = "warm" THEN NoWriter ELSE w[i]]

\* The name is given up.  The heartbeat goes on under another one, whose beats
\* forget the marks of this one, since its Claims are not theirs to release.
GiveUpName(i) ==
  /\ proc' = [proc EXCEPT ![i] = "lapsed"]
  /\ w' = DropWarmOf(i)
  /\ marked' = marked \ {i}
  /\ UNCHANGED <<rec, records, flight, faults>>

\* A renewal finds the row expired (renew, reregister).
Lapse(i) ==
  /\ rows[i] = "dead"
  /\ proc[i] = "up"
  /\ GiveUpName(i)
  /\ UNCHANGED rows

\* Close removes the row, and the guard refuses from then on.
Close(i) ==
  /\ Live(i)
  /\ GiveUpName(i)
  /\ rows' = [rows EXCEPT ![i] = "dead"]

\* The process stops with whatever it was doing; a write it had sent may
\* still land, and its row stays until it expires.
Crash(i) ==
  /\ rows[i] # "none"
  /\ proc[i] # "crashed"
  /\ proc' = [proc EXCEPT ![i] = "crashed"]
  /\ w' = [w EXCEPT ![i] = NoWriter]
  /\ flight' = IF w[i].pc = "writing" THEN flight \cup {WriteOf(i)} ELSE flight
  /\ marked' = marked \ {i}
  /\ UNCHANGED <<rec, records, rows, faults>>

-----------------------------------------------------------------------------
(* Creating, opening and resuming.                                         *)

\* CreateSession with an ID of the caller's: a released Record.  Nothing waits
\* for the Writer, so the write is simply under way.
CreateSession(i) ==
  /\ Live(i)
  /\ records < MaxRecords
  /\ records' = records + 1
  /\ flight' = flight \cup {[by |-> i, epoch |-> records + 1, mem |-> <<>>,
                              batch |-> StartWriting(i, records + 1, TRUE)]}
  /\ UNCHANGED <<rec, rows, proc, w, marked, faults>>

\* A Run that creates its Session: a fresh ID, held from the first write on.
CreateForRun(i) ==
  /\ Live(i)
  /\ records = 0
  /\ MaxRecords > 0
  /\ w[i].pc = "idle"
  /\ records' = 1
  /\ w' = [w EXCEPT ![i] = [NoWriter EXCEPT
             !.pc = "writing", !.epoch = 1, !.then = "held",
             !.batch = StartWriting(i, 1, FALSE)]]
  /\ UNCHANGED <<rec, rows, proc, flight, marked, faults>>

\* OpenWriter's load, and Attach: the holder check is for another's Claim.
LoadInto(i, use) ==
  w' = [w EXCEPT ![i] = [NoWriter EXCEPT
          !.pc = IF Holder(rec.log) = i THEN "checked" ELSE "loaded",
          !.epoch = rec.epoch, !.mem = rec.log, !.use = use]]

Open(i, use) ==
  /\ Live(i)
  /\ w[i].pc = "idle"
  /\ Exists
  /\ Len(rec.log) < MaxLog
  /\ LoadInto(i, use)
  /\ UNCHANGED <<rec, records, rows, proc, flight, marked, faults>>

\* A load that fails is a store failure like any other, so open remembers the
\* Session, claimed or not.
LoadFails(i) ==
  /\ Live(i)
  /\ w[i].pc = "idle"
  /\ faults < MaxFaults
  /\ faults' = faults + 1
  /\ marked' = Remember(i, TRUE)
  /\ UNCHANGED <<rec, records, rows, proc, w, flight>>

\* Wrong: a holder check that waits for a Run and not for a claimed Session.
MayTakeOverUnstarted(i) == Running(w[i].mem) => rows[Holder(w[i].mem)] # "alive"

\* holderCheck: a busy Session of a live holder is waited for, by opening it
\* again.  A draining Runner, and one whose caller gave up, refuse at any time.
MayTakeOver(i) == Busy(w[i].mem) => rows[Holder(w[i].mem)] # "alive"

HolderCheck(i) ==
  /\ w[i].pc = "loaded"
  /\ \/ /\ MayTakeOver(i)
        /\ w' = [w EXCEPT ![i].pc = "checked"]
        /\ UNCHANGED marked
     \/ /\ w' = [w EXCEPT ![i] = NoWriter]
        /\ marked' = Remember(i, w[i].use = "repair")
  /\ UNCHANGED <<rec, records, rows, proc, flight, faults>>

\* OpenWriter's first write.
Claim(i) ==
  /\ w[i].pc = "checked"
  /\ Send(i, TakeOver(i, w[i].mem), "held")

\* acquire looks at a warm copy: a Record that is gone keeps the copy, and
\* Entries after the copy's head drop it.  Stale does not compare epochs.
Stale(i, use) ==
  /\ w[i].pc = "warm"
  /\ Exists
  /\ Len(rec.log) < MaxLog
  /\ w' = IF Len(rec.log) > Len(w[i].mem)
          THEN [w EXCEPT ![i] = NoWriter]
          ELSE [w EXCEPT ![i].pc = "judged", ![i].use = use]
  /\ UNCHANGED <<rec, records, rows, proc, flight, marked, faults>>

Resume(i) ==
  /\ w[i].pc = "judged"
  /\ Send(i, Reclaim(i, w[i].mem), "held")

\* The TTL of a warm copy, or an eviction.
DropWarm(i) ==
  /\ w[i].pc = "warm"
  /\ w' = [w EXCEPT ![i] = NoWriter]
  /\ UNCHANGED <<rec, records, rows, proc, flight, marked, faults>>

-----------------------------------------------------------------------------
(* Under the Claim.                                                        *)

StartRun(i) ==
  /\ w[i].pc = "held"
  /\ w[i].use = "run"
  /\ Send(i, Step("started", i, w[i].mem), "running")

EndRun(i) ==
  /\ w[i].pc = "running"
  /\ Send(i, Step("ended", i, w[i].mem), "done")

Release(i) ==
  /\ w[i].pc \in {"held", "done"}
  /\ Send(i, Step("released", i, w[i].mem), "warm")

\* Wrong: a Delete that leaves the log behind under the ID.
DeleteKeepsLog(i) ==
  /\ w[i].pc = "held"
  /\ w[i].use = "delete"
  /\ Exists
  /\ rec' = [rec EXCEPT !.epoch = 0]
  /\ w' = [w EXCEPT ![i] = NoWriter]
  /\ UNCHANGED <<records, rows, proc, flight, marked, faults>>

\* DeleteSession, once it holds the Claim: the store's Delete has no
\* condition and no guard.  A Delete that fails, done or not, and one that
\* finds no Record go on to the release.
Delete(i) ==
  /\ w[i].pc = "held"
  /\ w[i].use = "delete"
  /\ \/ /\ Exists
        /\ rec' = NoRecord
        /\ w' = [w EXCEPT ![i] = NoWriter]
        /\ UNCHANGED faults
     \/ /\ Exists
        /\ faults < MaxFaults
        /\ faults' = faults + 1
        /\ rec' \in {rec, NoRecord}
        /\ w' = [w EXCEPT ![i].pc = "done"]
     \/ /\ ~Exists
        /\ w' = [w EXCEPT ![i].pc = "done"]
        /\ UNCHANGED <<rec, faults>>
  /\ UNCHANGED <<records, rows, proc, flight, marked>>

-----------------------------------------------------------------------------
(* The store answers, or does not.                                         *)

\* The Writer after a write that the store confirmed.  A released Session
\* stays warm, until it is dropped (keepWarm).
Confirmed(i) ==
  [w[i] EXCEPT !.pc = w[i].then, !.mem = w[i].mem \o w[i].batch,
               !.batch = <<>>, !.then = "idle",
               !.use = IF w[i].then = "warm" THEN "run" ELSE w[i].use]

WriteOk(i) ==
  /\ w[i].pc = "writing"
  /\ Accepts(WriteOf(i))
  /\ rec' = Landed(WriteOf(i))
  /\ w' = [w EXCEPT ![i] = Confirmed(i)]
  /\ UNCHANGED <<records, rows, proc, flight, marked, faults>>

\* ErrConflict, ErrNotFound or ErrExists: another Instance wrote, deleted or
\* created first, and there is nothing of this one's to give back (settle).
\* A repair is tried again, unless its open found no Record.
WriteRefused(i) ==
  /\ w[i].pc = "writing"
  /\ ~Accepts(WriteOf(i))
  /\ w' = [w EXCEPT ![i] = NoWriter]
  /\ marked' = Remember(i, /\ w[i].use = "repair"
                            /\ ~ (w[i].then = "held" /\ rec.epoch # w[i].epoch))
  /\ UNCHANGED <<rec, records, rows, proc, flight, faults>>

\* A failed store call: the write landed, or did not, or may still.  The
\* Writer stops for good and its Session is remembered as unreleased, except
\* that a create has no settle (host/open.go create).
WriteUnknown(i) ==
  /\ w[i].pc = "writing"
  /\ faults < MaxFaults
  /\ faults' = faults + 1
  /\ \/ UNCHANGED <<rec, flight>>
     \/ /\ Accepts(WriteOf(i))
        /\ rec' = Landed(WriteOf(i))
        /\ UNCHANGED flight
     \/ /\ LateWrites
        /\ flight' = flight \cup {WriteOf(i)}
        /\ UNCHANGED rec
  /\ w' = [w EXCEPT ![i] = NoWriter]
  /\ marked' = Remember(i, w[i].mem # <<>>)
  /\ UNCHANGED <<records, rows, proc>>

\* The guard refuses a write: the name lapsed, or the last renewal is older
\* than the guard allows.  An open that is refused has claimed nothing; any
\* other Writer is settled as failed.
GuardRefuses(i) ==
  /\ w[i].pc \in {"checked", "judged", "held", "running", "done"}
  /\ \/ /\ ~Guard(i)
        /\ UNCHANGED faults
     \/ /\ Guard(i)
        /\ faults < MaxFaults
        /\ faults' = faults + 1
  /\ w' = [w EXCEPT ![i] = NoWriter]
  /\ marked' = Remember(i, w[i].pc # "checked" \/ w[i].use = "repair")
  /\ UNCHANGED <<rec, records, rows, proc, flight>>

LateLands(x) ==
  /\ rec' = IF Accepts(x) THEN Landed(x) ELSE rec
  /\ flight' = flight \ {x}
  /\ UNCHANGED <<records, rows, proc, w, marked, faults>>

LateLost(x) ==
  /\ flight' = flight \ {x}
  /\ UNCHANGED <<rec, records, rows, proc, w, marked, faults>>

\* repairReleases, on a heartbeat: the mark is cleared, and a Session that is
\* still busy under this name is opened again, to be released.  A warm copy
\* is stale then.
Repair(i) ==
  /\ i \in marked
  /\ w[i].pc \in {"idle", "warm"}
  /\ marked' = marked \ {i}
  /\ IF Live(i) /\ Exists /\ Busy(rec.log) /\ Holder(rec.log) = i
     THEN LoadInto(i, "repair")
     ELSE UNCHANGED w
  /\ UNCHANGED <<rec, records, rows, proc, flight, faults>>

-----------------------------------------------------------------------------

Init ==
  /\ rec = NoRecord
  /\ records = 0
  /\ rows = [i \in Name |-> "none"]
  /\ proc = [i \in Name |-> "up"]
  /\ w = [i \in Name |-> NoWriter]
  /\ flight = {}
  /\ marked = {}
  /\ faults = 0

\* What a Writer that holds, or is after, the Claim does by itself.
Progress(i) ==
  \/ HolderCheck(i) \/ Claim(i) \/ Resume(i)
  \/ EndRun(i) \/ Release(i)
  \/ WriteOk(i) \/ WriteRefused(i)
  \/ Repair(i)

Next ==
  \/ \E i \in Name :
       \/ FirstBeat(i) \/ Expire(i) \/ Lapse(i) \/ Close(i) \/ Crash(i)
       \/ CreateSession(i) \/ CreateForRun(i) \/ LoadFails(i) \/ DropWarm(i)
       \/ \E use \in {"run", "delete"} : Open(i, use) \/ Stale(i, use)
       \/ StartRun(i) \/ Delete(i)
       \/ WriteUnknown(i) \/ GuardRefuses(i)
       \/ Progress(i)
  \/ \E x \in flight : LateLands(x) \/ LateLost(x)

Spec == Init /\ [][Next]_vars

-----------------------------------------------------------------------------
(* Properties.                                                             *)

\* Every variable has its type: the stored Record, the rows, the processes,
\* the Writers and the writes under way.
TypeOK ==
  /\ rec \in [epoch : Nat, log : Seq(Entry)]
  /\ rec.epoch = 0 <=> rec.log = <<>>
  /\ records \in Nat
  /\ rows \in [Name -> {"none", "alive", "dead"}]
  /\ proc \in [Name -> {"up", "lapsed", "crashed"}]
  /\ w \in [Name -> Writer]
  /\ flight \subseteq Write
  /\ marked \subseteq Name
  /\ faults \in Nat

\* Every write that may still reach the store.
Outstanding == flight \cup {WriteOf(i) : i \in {j \in Name : w[j].pc = "writing"}}

\* The two fences of Append are enough: whatever the store would take now was
\* built from exactly the log the store holds, however old its Writer is and
\* however often the Record was deleted and created again.
FencedWritesAreCurrent ==
  \A x \in Outstanding : Accepts(x) => x.mem = rec.log

\* One writer at a time: the Instance that writes changes only at a Claim, so
\* every Entry is the last claimant's.
OneWriterAtATime ==
  \A k \in DOMAIN rec.log :
    k > 1 /\ rec.log[k].kind # "claimed" => rec.log[k].by = rec.log[k-1].by

\* The Epoch of a Claim grows by one with every new holder, and an Instance
\* that claims again keeps its own, so an Epoch names one holder.
EpochNamesTheHolder ==
  \A j, k \in DOMAIN rec.log :
    /\ j < k
    /\ j > 1
    => \/ rec.log[j].n < rec.log[k].n
       \/ rec.log[j].n = rec.log[k].n /\ rec.log[j].by = rec.log[k].by

\* A Run starts only when no Run is going, and ends once: a takeover ends the
\* Run a lost writer left, in the write that claims, and never twice.
RunsDoNotOverlap ==
  \A k \in DOMAIN rec.log :
    /\ rec.log[k].kind = "started" =>
         \A j \in 1..(k-1) :
           rec.log[j].kind = "started" =>
             \E m \in (j+1)..(k-1) : rec.log[m].kind = "ended"
    /\ rec.log[k].kind = "ended" =>
         \E j \in 1..(k-1) :
           /\ rec.log[j].kind = "started"
           /\ \A m \in (j+1)..(k-1) : rec.log[m].kind # "ended"

\* A busy Session of another Instance is taken over only when that Instance's
\* row is dead, at the moment the Claim lands, though it was read long before.
BusySessionsStayWithLiveHolders ==
  [][/\ Exists
     /\ rec'.epoch = rec.epoch
     /\ Busy(rec.log)
     /\ Holder(rec'.log) # Holder(rec.log)
     => rows[Holder(rec.log)] # "alive"]_vars

\* The doc's "A delete claims the Session first, so it never removes a Record
\* from under a Run on another Instance" (specs/store.md): no step deletes a
\* Record with a Run going whose holder is alive.
DeleteSparesRuns ==
  [][Exists /\ rec'.epoch = 0
     => ~ (Running(rec.log) /\ rows[Holder(rec.log)] = "alive")]_vars

-----------------------------------------------------------------------------
(* What the claims promise, and when a Session is given back.              *)

Promise == INSTANCE Ownership WITH
  owner   <- IF Exists THEN Holder(rec.log) ELSE Nobody,
  epoch   <- IF Exists THEN ClaimEpoch(rec.log) ELSE 0,
  busy    <- Claimed(rec.log),
  running <- Running(rec.log),
  dead    <- {i \in Name : rows[i] = "dead"}

\* The log, the fences, the holder check and the Liveness rows together keep
\* the promise of Ownership: a Session has one owner, and only it writes.
KeepsOwnership == Promise!Spec

\* Writers go on, the heartbeat repairs, a crashed Instance's row expires and
\* a write under way ends.  Nobody is obliged to open, run or delete.
Fairness ==
  /\ \A i \in Name : WF_vars(Progress(i))
  /\ \A i \in Name : WF_vars(proc[i] = "crashed" /\ Expire(i))
  /\ WF_vars(\E x \in flight : LateLands(x) \/ LateLost(x))

FairSpec == Spec /\ Fairness

\* The Session is kept from every other Instance by i, whose row is alive.
KeptBy(i) ==
  Exists /\ Busy(rec.log) /\ Holder(rec.log) = i /\ rows[i] = "alive"

\* A Session claimed since it was created is given back: after a failed write,
\* a lost release or a crash, it is released or its holder's row dies.
ClaimsAreGivenBack ==
  \A i \in Name : (KeptBy(i) /\ Len(rec.log) > 2) ~> ~KeptBy(i)

\* "Every exit that claims a Session ends with" the settle (host/release.go):
\* a Session is given back, the Claim of its creation included.
EveryClaimIsGivenBack == \A i \in Name : KeptBy(i) ~> ~KeptBy(i)


=============================================================================
