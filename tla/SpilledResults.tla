--------------------------- MODULE SpilledResults ---------------------------
(***************************************************************************)
(* The bodies of spilled Tool Results (record/spilled.go, originals.go,    *)
(* recordepoch.go, record.go forkedSpills, segments.go inheritSegments,    *)
(* read_result.go) of a Session and of one that was forked from it: where  *)
(* they are read from once they are no longer in the Context, out of which *)
(* log, and through which cache, while the logs are pruned and the parent  *)
(* is deleted and created again under its ID.  A step reads the store once *)
(* at most: what a read found or checked in one call may have changed in   *)
(* the next.                                                               *)
(*                                                                         *)
(* What a call returned is told by the call itself: a body is the call it  *)
(* is of.  Compaction has the refs and pages that lead here.               *)
(***************************************************************************)
EXTENDS Naturals, Sequences, FiniteSets, FiniteSetsExt

CONSTANTS
  CacheLimit,   \* defaultSpillCacheBytes, in bodies
  SpillLoads    \* bounds: of each Session's results and of the Segments closed,
                \* the prunes, the deletes, the reads and the loads, and whether
                \* the Session is forked

VARIABLES
  logs,      \* by ID: the epoch of the Record, its Entries and how many of the
             \* first are pruned; the epoch is 0 when there is no Record
  rec,       \* the live Record: its ID, tail and Segments, and the position of
             \* the last Entry that is stored
  cache,     \* spillCache: positions and bodies, the oldest first
  pending,   \* Entries that are numbered and wait for their write
  said,      \* the calls of the conversation whose results were spilled
  lost,      \* the calls whose Entries were pruned or deleted
  reading,   \* the read in progress or done: its call, its ref, the Segment it is
             \* at, what it gave; and whether the parent was created again after
             \* its epoch was checked for the last time
  spillLoad

spillVars == <<logs, rec, cache, pending, said, lost, reading, spillLoad>>

Removed == <<"removed">>
Failed == <<"failed">>

Spends(what) == spillLoad[what] > 0 /\ spillLoad' = [spillLoad EXCEPT ![what] = @ - 1]

Entry(kind, call) == [kind |-> kind, call |-> call]

\* SpilledResult: a position, in the Record's own log or that of the Session it
\* names, with its epoch.
Own(seq) == [seq |-> seq, session |-> "own", epoch |-> 0]

NoRead == [at |-> "none", call |-> <<>>, ref |-> Own(0), segment |-> 0, got |-> <<>>, swapped |-> FALSE]

\* A Record begins with its session_created.
NewLog(epoch, entries) ==
  [epoch |-> epoch, entries |-> <<Entry("created", <<>>)>> \o entries, pruned |-> 0]

Init ==
  /\ spillLoad \in SpillLoads
  /\ logs = [i \in {"parent", "child"} |->
               IF i = "parent" THEN NewLog(1, <<>>) ELSE [epoch |-> 0, entries |-> <<>>, pruned |-> 0]]
  /\ rec = [id |-> "parent", tail |-> <<>>, segments |-> <<>>, head |-> 1]
  /\ cache = <<>>
  /\ pending = <<>>
  /\ said = {}
  /\ lost = {}
  /\ reading = NoRead

-----------------------------------------------------------------------------
(* spillCache.                                                             *)

Cached(seq) == \E k \in DOMAIN cache : cache[k].seq = seq

Put(kept, seq, body) ==
  IF \E k \in DOMAIN kept : kept[k].seq = seq THEN kept
  ELSE Append(kept, [seq |-> seq, body |-> body])

\* trim: the oldest of the bodies that the store holds, until the rest fits.
Trim(kept, stored) ==
  LET held == {k \in DOMAIN kept : kept[k].seq <= stored}
      goes(k) == k \in held /\ Cardinality({j \in held : j < k}) < Len(kept) - CacheLimit
      stays == {k \in DOMAIN kept : ~goes(k)}
  IN [n \in 1 .. Cardinality(stays) |->
        kept[CHOOSE k \in stays : Cardinality({j \in stays : j < k}) = n - 1]]

-----------------------------------------------------------------------------
(* Reading a result back.                                                  *)

\* SameRecord.
SameRecord(id, epoch) == epoch = 0 \/ logs[id].epoch = epoch

\* findSpilled: the latest spilled body of the call, up to maxSeq.
FindIn(id, call, maxSeq) ==
  {n \in DOMAIN logs[id].entries : /\ n > logs[id].pruned
                                   /\ logs[id].entries[n] = Entry("spilled", call)
                                   /\ maxSeq > 0 => n <= maxSeq}

\* readSpilled; a Record that is not there is one whose Entry was removed (result).
ReadSpilled(id, seq) ==
  IF logs[id].epoch = 0 \/ seq \notin DOMAIN logs[id].entries \/ seq <= logs[id].pruned
  THEN Removed
  ELSE IF logs[id].entries[seq].kind # "spilled" THEN Failed
  ELSE logs[id].entries[seq].call

NoReader == reading.at \in {"none", "over"}

Gives(got) == reading' = [reading EXCEPT !.at = "over", !.got = got]

\* recordOriginals.result: the ref in the tail (SpilledResults), or FindSpilled once
\* there is a Segment; what is found nowhere is in a Segment whose Entries are gone
\* (find), which Compaction has.
Result(call) ==
  /\ NoReader /\ Spends("reads")
  /\ LET inTail == {k \in DOMAIN rec.tail : rec.tail[k].call = call}
         asks == [NoRead EXCEPT !.call = call]
     IN reading' = IF inTail # {}
                   THEN [asks EXCEPT !.at = "body", !.ref = rec.tail[Max(inTail)].ref]
                   ELSE [asks EXCEPT !.at = IF rec.segments = <<>> THEN "nowhere" ELSE "own"]
  /\ UNCHANGED <<logs, rec, cache, pending, said, lost>>

\* FindSpilled, in the Record's own log first.
FindOwn ==
  /\ reading.at = "own"
  /\ LET mine == FindIn(rec.id, reading.call, 0)
     IN reading' = IF mine # {} THEN [reading EXCEPT !.at = "body", !.ref = Own(Max(mine))]
                   ELSE [reading EXCEPT !.at = "segment", !.segment = Len(rec.segments)]
  /\ UNCHANGED <<logs, rec, cache, pending, said, lost, spillLoad>>

\* Then, newest Segment first, in the logs that the Segments name: SameRecord ...
FindCheck ==
  /\ reading.at = "segment"
  /\ LET k == reading.segment
         other == rec.segments[k].session \notin {"own", rec.id}
     IN reading' = IF k = 0 THEN [reading EXCEPT !.at = "nowhere"]
                   ELSE IF other /\ SameRecord(rec.segments[k].session, rec.segments[k].epoch)
                   THEN [reading EXCEPT !.at = "search"]
                   ELSE [reading EXCEPT !.segment = k - 1]
  /\ UNCHANGED <<logs, rec, cache, pending, said, lost, spillLoad>>

\* ... and findSpilled.
FindSpilled ==
  /\ reading.at = "search"
  /\ LET of == rec.segments[reading.segment]
         found == FindIn(of.session, reading.call, of.to)
     IN reading' = IF found = {} THEN [reading EXCEPT !.at = "segment", !.segment = @ - 1]
                   ELSE [reading EXCEPT !.at = "body",
                           !.ref = [seq |-> Max(found), session |-> of.session, epoch |-> of.epoch]]
  /\ UNCHANGED <<logs, rec, cache, pending, said, lost, spillLoad>>

NotFound ==
  /\ reading.at = "nowhere"
  /\ Gives(Removed)
  /\ UNCHANGED <<logs, rec, cache, pending, said, lost, spillLoad>>

\* SpilledBody of an Entry of the Record: from the cache, or read and cached.
SpilledBody ==
  LET ref == reading.ref
      got == ReadSpilled(rec.id, ref.seq)
  IN /\ reading.at = "body" /\ ref.session \in {"own", rec.id}
     /\ IF Cached(ref.seq)
        THEN /\ Gives((CHOOSE c \in {cache[k] : k \in DOMAIN cache} : c.seq = ref.seq).body)
             /\ UNCHANGED cache
        ELSE /\ Gives(got)
             /\ cache' = IF got \in {Removed, Failed} THEN cache
                         ELSE Trim(Put(cache, ref.seq, got), rec.head)
     /\ UNCHANGED <<logs, rec, pending, said, lost, spillLoad>>

\* SpilledBody of an Entry of another Record: SameRecord ...
SpilledCheck ==
  /\ reading.at = "body" /\ reading.ref.session \notin {"own", rec.id}
  /\ IF SameRecord(reading.ref.session, reading.ref.epoch)
     THEN reading' = [reading EXCEPT !.at = "log"] ELSE Gives(Removed)
  /\ UNCHANGED <<logs, rec, cache, pending, said, lost, spillLoad>>

\* ... and readSpilled, which asks for no epoch.
SpilledRead ==
  /\ reading.at = "log"
  /\ Gives(ReadSpilled(reading.ref.session, reading.ref.seq))
  /\ UNCHANGED <<logs, rec, cache, pending, said, lost, spillLoad>>

Reads == FindOwn \/ FindCheck \/ FindSpilled \/ NotFound \/ SpilledBody \/ SpilledCheck \/ SpilledRead

-----------------------------------------------------------------------------
(* The Session.                                                            *)

Live == logs[rec.id].epoch # 0

\* The calls of each Record, by their position.
Call(seq) == <<rec.id, logs[rec.id].epoch, seq>>

\* Record.Write numbers the body and caches it; it waits for its write.
Spill ==
  /\ Live
  /\ Spends("results")
  /\ LET seq == rec.head + Len(pending) + 1
     IN /\ pending' = pending \o <<Entry("spilled", Call(seq)), Entry("result", Call(seq))>>
        /\ cache' = Put(cache, seq, Call(seq))
        /\ rec' = [rec EXCEPT !.tail = Append(@, [call |-> Call(seq), ref |-> Own(seq)])]
        /\ said' = said \cup {Call(seq)}
  /\ UNCHANGED <<logs, lost, reading>>

\* The write, and Stored.
Store ==
  /\ Live
  /\ pending # <<>>
  /\ logs' = [logs EXCEPT ![rec.id].entries = @ \o pending]
  /\ rec' = [rec EXCEPT !.head = @ + Len(pending)]
  /\ cache' = Trim(cache, rec.head + Len(pending))
  /\ pending' = <<>>
  /\ UNCHANGED <<said, lost, reading, spillLoad>>

\* CloseSegment over the tail, once it is written.
CloseSegment ==
  /\ Spends("segments")
  /\ pending = <<>>
  /\ rec.tail # <<>>
  /\ rec' = [rec EXCEPT !.tail = <<>>,
               !.segments = Append(@, [session |-> "own", epoch |-> 0, to |-> rec.head])]
  /\ UNCHANGED <<logs, cache, pending, said, lost, reading>>

\* Fork, as the host does it: of what is stored.  What names no Record names the
\* parent's, with its epoch (forkedSpills, inheritSegments).
Fork ==
  /\ Spends("forks")
  /\ pending = <<>> /\ NoReader
  /\ Live
  /\ LET of == logs[rec.id].epoch
         named(x) == IF x.session = "own" THEN [x EXCEPT !.session = rec.id, !.epoch = of] ELSE x
     IN rec' = [id |-> "child", head |-> 1,
                tail |-> [k \in DOMAIN rec.tail |-> [rec.tail[k] EXCEPT !.ref = named(@)]],
                segments |-> [k \in DOMAIN rec.segments |-> named(rec.segments[k])]]
  /\ logs' = [logs EXCEPT !["child"] = NewLog(9, <<>>)]
  /\ cache' = <<>>
  /\ UNCHANGED <<pending, said, lost, reading>>

\* The Record is loaded anew: the cache is empty.
Load ==
  /\ pending = <<>> /\ NoReader
  /\ cache # <<>>
  /\ Spends("loads")
  /\ cache' = <<>>
  /\ UNCHANGED <<logs, rec, pending, said, lost, reading>>

-----------------------------------------------------------------------------
(* What a team does to the logs.                                           *)

CallsIn(id, first, last) ==
  {logs[id].entries[n].call : n \in {m \in DOMAIN logs[id].entries : first < m /\ m <= last}}

Prune(id) ==
  /\ Spends("prunes")
  /\ \E n \in logs[id].pruned + 1 .. Len(logs[id].entries) :
       /\ logs' = [logs EXCEPT ![id].pruned = n]
       /\ lost' = lost \cup CallsIn(id, 0, n)
  /\ UNCHANGED <<rec, cache, pending, said, reading>>

\* The parent of a fork is deleted.
Delete ==
  /\ rec.id = "child"
  /\ logs["parent"].epoch # 0
  /\ Spends("deletes")
  /\ lost' = lost \cup CallsIn("parent", 0, Len(logs["parent"].entries))
  /\ logs' = [logs EXCEPT !["parent"] = [epoch |-> 0, entries |-> <<>>, pruned |-> 0]]
  /\ UNCHANGED <<rec, cache, pending, said, reading>>

\* Another Session is created under its ID, and has results of its own there.
CreateAgain ==
  /\ rec.id = "child"
  /\ logs["parent"].epoch = 0
  /\ LET call == <<"parent", 2, 2>>
     IN logs' = [logs EXCEPT !["parent"] = NewLog(2, <<Entry("spilled", call), Entry("result", call)>>)]
  /\ reading' = [reading EXCEPT !.swapped = @ \/ reading.at = "log"]
  /\ UNCHANGED <<rec, cache, pending, said, lost, spillLoad>>

Goes == Store \/ Reads

Next ==
  \/ Spill \/ Store \/ CloseSegment \/ Fork \/ Load \/ Delete \/ CreateAgain \/ Reads
  \/ (\E call \in said : Result(call)) \/ (\E id \in DOMAIN logs : Prune(id))

SpillSpec == Init /\ [][Next]_spillVars

-----------------------------------------------------------------------------

\* A fork that closes a Segment over what it inherited names its own log in it,
\* which does not have the bodies (segment_build.go stamps): they are found no more.
Inherited(call) ==
  /\ rec.id = "child" /\ call[1] = "parent"
  /\ \A k \in DOMAIN rec.tail : rec.tail[k].call # call
  /\ \A k \in DOMAIN rec.segments : rec.segments[k].session = "parent" => call[3] > rec.segments[k].to

\* A read of a call of the conversation gives what it returned, from the cache before
\* it is stored, from the Record's log or from that of the Record it was forked
\* from; it says removed only when its Entries were, or when a fork closed a
\* Segment over it.  A Record created again under the parent's ID is not read for
\* it (spilled.go SpilledBody, recordepoch.go SameRecord), unless that happened after
\* the epoch was checked and before the log was read.
ResultsReadBack ==
  reading.at = "over" =>
    \/ reading.got = reading.call
    \/ reading.got = Removed /\ (reading.call \in lost \/ Inherited(reading.call))
    \/ reading.swapped

\* What a reference to another Record's log leads to is of the Record that it meant,
\* or nothing (recordepoch.go: "so that a Record deleted and created again under the
\* same ID is not read as the one the reference meant").
OnlyItsRecordIsRead ==
  reading.at = "over" => reading.got \in {reading.call, Removed, Failed}

\* What is written gets stored, and what is read is given.
SpillsAreStored == pending = <<>> /\ NoReader
=============================================================================
