----------------------------- MODULE RecordFold -----------------------------
(***************************************************************************)
(* A Record in its writer's memory and the same Record rebuilt from its    *)
(* log: record/record.go, record_log.go, events.go, writing.go, run.go,    *)
(* segments.go, compact.go, merge.go.                                      *)
(*                                                                         *)
(* A writer changes the Record in memory and stores an Entry for the       *)
(* change; a load folds the facts from the last Checkpoint on (apply).     *)
(* Every load has to give the Record its writer had, whatever the writer   *)
(* was in the middle of when it stopped.                                   *)
(*                                                                         *)
(* A Message is its ID and what a rebuild reads of it.  IDs are numbers:   *)
(* the number of the Entry that first names it; RepairID of a call, and    *)
(* SegmentID of a Segment, are above those.                                *)
(***************************************************************************)
EXTENDS Naturals, Sequences, FiniteSets, SequencesExt

CONSTANTS
  Tool,           \* Tools the model calls and loads: 1 .. n
  Cap,            \* bound: Entries of a log
  RecordLoads     \* of every operation, how often it happens

VARIABLES
  log,            \* the stored Entries; the number of an Entry is its position
  mem,            \* the Record in the writer's memory
  streaming,      \* [id, text]: the reply that the Run has kept parts of; id 0 when there is none
  started,        \* the Tool calls of the Run that started
  left            \* the load that is left

vars == <<log, mem, streaming, started, left>>

-----------------------------------------------------------------------------
(* Messages, Segments and Entries.                                         *)

CallID(reply, tool) == reply * 10 + tool
RepairID(call) == 1000 + call
SegmentID(n) == 900 + n

User(id) == [id |-> id, role |-> "user", calls |-> {}, answers |-> 0, ran |-> FALSE]
Reply(id, calls) == [id |-> id, role |-> "assistant", calls |-> calls, answers |-> 0, ran |-> FALSE]
Result(id, call) == [id |-> id, role |-> "tool_result", calls |-> {}, answers |-> call, ran |-> TRUE]
Rendered(n) == [id |-> SegmentID(n), role |-> "user", calls |-> {}, answers |-> 0, ran |-> FALSE]

\* repairResult: the result of a call that has none, worked out by every load.
Repaired(call, ran) ==
  [id |-> RepairID(call), role |-> "tool_result", calls |-> {}, answers |-> call, ran |-> ran]

\* A Record: state that its facts hold.
Empty ==
  [messages |-> <<>>, used |-> <<>>, closed |-> {}, loaded |-> {}, notices |-> <<>>, meta |-> 0,
   running |-> 0, runs |-> {}, base |-> 0, busy |-> FALSE, holder |-> 0, queued |-> {},
   positions |-> {}, started |-> {}, parts |-> <<>>, cutOff |-> <<>>]

Segment(s, n) == CHOOSE g \in s.closed : g.n = n

MaxSegment(s) == IF s.closed = {} THEN 0
                 ELSE CHOOSE n \in {g.n : g \in s.closed} : \A g \in s.closed : g.n <= n

Prefix(s) == [i \in DOMAIN s.used |-> Rendered(s.used[i])]

\* Tail: the Messages after those that render the used Segments.
TailOf(s) == SubSeq(s.messages, Len(s.used) + 1, Len(s.messages))

\* The state a Checkpoint holds: not the messages queued to a Run.
CheckpointOf(s, kind) ==
  [kind |-> kind, tail |-> TailOf(s), segments |-> s.used, meta |-> s.meta, loaded |-> s.loaded,
   runs |-> s.base + Cardinality(s.runs), running |-> s.running, notices |-> s.notices,
   holder |-> s.holder,
   positions |-> {p \in s.positions : \E i \in DOMAIN TailOf(s) : TailOf(s)[i].id = p[1]}]

\* storedLayers: what a rebuild reads.
Facts ==
  {"session_created", "compaction_ended", "segment_closed", "message_committed",
   "notice_committed", "reply_ended", "reply_cut_off", "reply_part_kept",
   "tool_result_committed", "tool_started", "metadata_changed", "tool_loaded", "tool_unloaded",
   "run_started", "run_ended", "message_queued", "message_dropped", "notice_queued",
   "session_claimed", "session_released"}

Checkpoints == {"session_created", "compaction_ended"}

-----------------------------------------------------------------------------
(* apply: one Entry folded into a Record that is being rebuilt.            *)

\* closeParts: the replies that streamed text and have no Message, but the one
\* committed, become Cut-off replies.
ClosedParts(s, committed) ==
  LET open == SelectSeq(s.parts, LAMBDA p : p.id # committed /\ p.text)
  IN [i \in DOMAIN open |-> Reply(open[i].id, {})]

AddMessage(s, m, n) ==
  [s EXCEPT !.messages = (@ \o ClosedParts(s, m.id)) \o <<m>>, !.parts = <<>>,
            !.positions = {p \in @ : p[1] # m.id} \cup {<<m.id, n>>}]

AddPart(parts, e) ==
  IF \E i \in DOMAIN parts : parts[i].id = e.id
  THEN [i \in DOMAIN parts |->
          IF parts[i].id = e.id THEN [parts[i] EXCEPT !.text = @ \/ e.text] ELSE parts[i]]
  ELSE Append(parts, [run |-> e.run, id |-> e.id, text |-> e.text])

\* Wrong: the notices that wait are not part of a Checkpoint.
RestoreForgetful(s, e) ==
  [s EXCEPT !.messages = e.tail, !.used = e.segments, !.meta = e.meta, !.loaded = e.loaded,
            !.base = e.runs - Cardinality(s.runs), !.running = e.running, !.notices = <<>>,
            !.positions = e.positions, !.started = {}, !.parts = <<>>,
            !.holder = IF e.holder = 0 THEN @ ELSE e.holder,
            !.busy = @ \/ e.holder # 0]

\* restore, restoreTotals and startContext.
Restore(s, e) ==
  [s EXCEPT !.messages = e.tail, !.used = e.segments, !.meta = e.meta, !.loaded = e.loaded,
            !.base = e.runs - Cardinality(s.runs), !.running = e.running, !.notices = e.notices,
            !.positions = e.positions, !.started = {}, !.parts = <<>>,
            !.holder = IF e.holder = 0 THEN @ ELSE e.holder,
            !.busy = @ \/ e.holder # 0]

\* endRun: a Run whose start was not read is one the Checkpoint counts.
EndRun(s, run) ==
  [s EXCEPT !.base = IF run \in s.runs THEN @ ELSE @ - 1, !.runs = @ \cup {run},
            !.running = IF @ = run THEN 0 ELSE @]

DropNotice(s, id) == [s EXCEPT !.notices = SelectSeq(@, LAMBDA m : m # id)]

Apply(s, n, e) ==
  CASE e.kind \in Checkpoints        -> Restore(s, e)
    [] e.kind = "segment_closed"     -> [s EXCEPT !.closed = @ \cup {e.segment}]
    [] e.kind = "message_queued"     -> [s EXCEPT !.queued = @ \cup {n}]
    [] e.kind = "message_committed"  -> [AddMessage(s, e.message, n) EXCEPT !.queued = @ \ {e.message.id}]
    [] e.kind = "notice_queued"      -> [s EXCEPT !.notices = Append(@, n)]
    [] e.kind = "notice_committed"   -> DropNotice(AddMessage(s, e.message, n), e.message.id)
    [] e.kind = "message_dropped"    -> [DropNotice(s, e.id) EXCEPT !.queued = @ \ {e.id}]
    [] e.kind \in {"reply_ended", "reply_cut_off", "tool_result_committed"} ->
                                        AddMessage(s, e.message, n)
    [] e.kind = "tool_started"       -> [s EXCEPT !.started = @ \cup {e.call}]
    [] e.kind = "reply_part_kept"    -> [s EXCEPT !.parts = AddPart(@, e)]
    [] e.kind = "metadata_changed"   -> [s EXCEPT !.meta = e.value]
    [] e.kind = "tool_loaded"        -> [s EXCEPT !.loaded = @ \cup {e.tool}]
    [] e.kind = "tool_unloaded"      -> [s EXCEPT !.loaded = @ \ {e.tool}]
    [] e.kind = "session_claimed"    -> [s EXCEPT !.holder = e.by, !.busy = TRUE]
    [] e.kind = "session_released"   -> [s EXCEPT !.busy = FALSE]
    [] e.kind = "run_started"        -> [s EXCEPT !.runs = @ \cup {n}, !.running = n]
    [] e.kind = "run_ended"          -> [EndRun(s, e.run) EXCEPT
                                           !.parts = SelectSeq(@, LAMBDA p : p.run # e.run)]

-----------------------------------------------------------------------------
(* rebuildRecord.                                                          *)

\* repair: after the results of a reply come those of its calls without one.
RECURSIVE Repair(_, _)
Repair(messages, ran) ==
  IF messages = <<>> THEN <<>>
  ELSE LET reply  == Head(messages)
           rest   == Tail(messages)
           ends   == {i \in 0 .. Len(rest) : \A j \in 1 .. i : rest[j].role = "tool_result"}
           end    == CHOOSE i \in ends : \A j \in ends : j <= i
           missing == {c \in reply.calls : \A j \in 1 .. end : rest[j].answers # c}
       IN IF reply.role # "assistant" \/ reply.calls = {}
          THEN <<reply>> \o Repair(rest, ran)
          ELSE <<reply>> \o SubSeq(rest, 1, end)
               \o [i \in 1 .. Cardinality(missing) |->
                     Repaired(SetToSortSeq(missing, <)[i], SetToSortSeq(missing, <)[i] \in ran)]
               \o Repair(SubSeq(rest, end + 1, Len(rest)), ran)

FoldFrom(s, from) ==
  LET Step(acc, n) == IF log[n].kind \in Facts THEN Apply(acc, n, log[n]) ELSE acc
  IN FoldLeft(Step, s, [i \in 1 .. Len(log) - from + 1 |-> from + i - 1])

\* closeParts, resolveSegments and repair, at the end of a rebuild.
Finished(s) ==
  LET cut == ClosedParts(s, 0)
  IN [s EXCEPT !.messages = Repair(Prefix(s) \o s.messages \o cut, s.started),
               !.cutOff = cut, !.parts = <<>>, !.started = {}]

LastCheckpoint == CHOOSE n \in DOMAIN log :
  /\ log[n].kind \in Checkpoints
  /\ \A k \in n + 1 .. Len(log) : log[k].kind \notin Checkpoints

\* FromLoaded: the facts from the last Checkpoint on, and the segment_closed
\* Entries from before it.
Loaded ==
  LET before == {log[n].segment : n \in {k \in 1 .. LastCheckpoint - 1 : log[k].kind = "segment_closed"}}
  IN Finished(FoldFrom([Empty EXCEPT !.closed = before], LastCheckpoint))

\* View: the whole log.
Viewed == Finished(FoldFrom(Empty, 1))

-----------------------------------------------------------------------------
(* The writer.  Each operation changes the Record and stores its Entries.  *)

Number == Len(log) + 1

Has(op) == left[op] > 0 /\ Len(log) < Cap

Uses(op) == left' = [left EXCEPT ![op] = @ - 1]

Stores(entries) == log' = log \o entries

\* The Transcript's Append and Write's indexMessage.
Appends(s, m, n) ==
  [s EXCEPT !.messages = Append(@, m),
            !.positions = {p \in @ : p[1] # m.id} \cup {<<m.id, n>>}]

Running == mem.running # 0

\* The calls of the last reply that have no result yet.
OpenCalls ==
  {c \in UNION {mem.messages[i].calls : i \in DOMAIN mem.messages} :
     \A j \in DOMAIN mem.messages : mem.messages[j].answers # c}

Settled == OpenCalls = {} /\ streaming.id = 0

Init ==
  /\ left \in RecordLoads
  /\ mem = [Empty EXCEPT !.holder = 1, !.busy = TRUE]
  /\ log = <<[CheckpointOf(Empty, "session_created") EXCEPT !.holder = 0],
             [kind |-> "session_claimed", by |-> 1]>>
  /\ streaming = [id |-> 0, text |-> FALSE] /\ started = {}

StartRun ==
  /\ Has("run") /\ ~Running /\ mem.busy
  /\ Stores(<<[kind |-> "run_started"],
              [kind |-> "message_committed", message |-> User(Number + 1)]>>)
  /\ mem' = Appends([mem EXCEPT !.runs = @ \cup {Number}, !.running = Number],
                    User(Number + 1), Number + 1)
  /\ Uses("run") /\ UNCHANGED <<streaming, started>>

\* A message is accepted for the Run, and committed between its Turns.
QueueMessage ==
  /\ Has("queue") /\ Running
  /\ Stores(<<[kind |-> "message_queued"]>>)
  /\ mem' = mem
  /\ Uses("queue") /\ UNCHANGED <<streaming, started>>

Waiting ==
  {n \in DOMAIN log : /\ log[n].kind = "message_queued"
                      /\ \A k \in DOMAIN log :
                           /\ log[k].kind = "message_committed" => log[k].message.id # n
                           /\ log[k].kind = "message_dropped" => log[k].id # n}

CommitQueued ==
  /\ Running /\ Settled
  /\ \E id \in Waiting :
       /\ Stores(<<[kind |-> "message_committed", message |-> User(id)]>>)
       /\ mem' = Appends(mem, User(id), Number)
  /\ UNCHANGED <<left, streaming, started>>

\* A service's notice, which waits in the Record for a Run to commit it.
QueueNotice ==
  /\ Has("notice")
  /\ Stores(<<[kind |-> "notice_queued"]>>)
  /\ mem' = [mem EXCEPT !.notices = Append(@, Number)]
  /\ Uses("notice") /\ UNCHANGED <<streaming, started>>

CommitNotice ==
  /\ Running /\ Settled /\ mem.notices # <<>>
  /\ LET m == User(Head(mem.notices))
     IN /\ Stores(<<[kind |-> "notice_committed", message |-> m]>>)
        /\ mem' = DropNotice(Appends(mem, m, Number), m.id)
  /\ UNCHANGED <<left, streaming, started>>

\* writePart: a part of the reply that is streaming is stored.
KeepPart ==
  /\ Has("part") /\ Running /\ OpenCalls = {}
  /\ \E text \in BOOLEAN :
       LET id == IF streaming.id = 0 THEN Number ELSE streaming.id
       IN /\ Stores(<<[kind |-> "reply_part_kept", run |-> mem.running, id |-> id, text |-> text]>>)
          /\ streaming' = [id |-> id, text |-> text \/ streaming.text]
  /\ mem' = mem
  /\ Uses("part") /\ UNCHANGED started

\* The reply ends, with Tool calls or not, or is cut off and sent again.
EndReply ==
  /\ Has("reply") /\ Running /\ OpenCalls = {}
  /\ LET id == IF streaming.id = 0 THEN Number ELSE streaming.id
     IN \E tools \in SUBSET Tool, kind \in {"reply_ended", "reply_cut_off"} :
          /\ kind = "reply_cut_off" => tools = {} /\ streaming.text
          /\ LET m == Reply(id, {CallID(id, t) : t \in tools})
             IN Stores(<<[kind |-> kind, message |-> m]>>) /\ mem' = Appends(mem, m, Number)
  /\ streaming' = [id |-> 0, text |-> FALSE]
  /\ Uses("reply") /\ UNCHANGED started

\* A cut-off reply that has only reasoning is dropped, and a new one starts.
DropReply ==
  /\ streaming.id # 0 /\ ~streaming.text
  /\ streaming' = [id |-> 0, text |-> FALSE]
  /\ UNCHANGED <<log, mem, left, started>>

StartTool ==
  /\ Running /\ Len(log) < Cap
  /\ \E call \in OpenCalls \ started :
       /\ Stores(<<[kind |-> "tool_started", call |-> call]>>)
       /\ started' = started \cup {call}
  /\ UNCHANGED <<mem, left, streaming>>

\* A result in any order of the calls; of one that did not start too (denied).
CommitResult ==
  /\ Running /\ OpenCalls # {}
  /\ \E call \in OpenCalls :
       /\ Stores(<<[kind |-> "tool_result_committed", message |-> Result(Number, call)]>>)
       /\ mem' = Appends(mem, Result(Number, call), Number)
  /\ UNCHANGED <<left, streaming, started>>

\* load_tool, and Set of a metadata value.
LoadTool ==
  /\ Has("load") /\ Running
  /\ \E t \in Tool \ mem.loaded :
       /\ Stores(<<[kind |-> "tool_loaded", tool |-> t]>>)
       /\ mem' = [mem EXCEPT !.loaded = @ \cup {t}]
  /\ Uses("load") /\ UNCHANGED <<streaming, started>>

SetMeta ==
  /\ Has("meta")
  /\ Stores(<<[kind |-> "metadata_changed", value |-> mem.meta + 1]>>)
  /\ mem' = [mem EXCEPT !.meta = @ + 1]
  /\ Uses("meta") /\ UNCHANGED <<streaming, started>>

\* The Run ends: what it left queued is dropped, and its open calls answered.
FinishRun ==
  /\ Running /\ OpenCalls = {} /\ (streaming.text => Len(log) < Cap)
  /\ Stores(SetToSeq({[kind |-> "message_dropped", id |-> id] : id \in Waiting})
            \o <<[kind |-> "run_ended", run |-> mem.running]>>)
  /\ mem' = EndRun(mem, mem.running)
  /\ streaming' = [id |-> 0, text |-> FALSE]
  /\ started' = {} /\ UNCHANGED left

Release ==
  /\ ~Running /\ mem.busy
  /\ Stores(<<[kind |-> "session_released"]>>)
  /\ mem' = [mem EXCEPT !.busy = FALSE]
  /\ UNCHANGED <<left, streaming, started>>

\* Reclaim: the warm copy is used again.
Reclaim ==
  /\ Has("reuse") /\ ~mem.busy
  /\ Stores(<<[kind |-> "session_claimed", by |-> mem.holder]>>)
  /\ mem' = [mem EXCEPT !.busy = TRUE]
  /\ Uses("reuse") /\ UNCHANGED <<streaming, started>>

-----------------------------------------------------------------------------
(* Compaction: between Turns, or of a Session that no Run uses.            *)

\* turnCut: the tail starts with a Message that is not a Tool result.
TurnStart(tail, i) == i > Len(tail) \/ tail[i].role # "tool_result"

\* lastTurnStart: in a Run the Run's last reply, or its first Message, stays.
KeepsTurn(tail, i) ==
  Running =>
    LET mine    == {j \in DOMAIN tail : \E p \in mem.positions :
                      p[1] = tail[j].id /\ p[2] > mem.running}
        replies == {j \in mine : tail[j].role = "assistant"}
        floor   == IF replies # {} THEN {j \in replies : \A k \in replies : k <= j}
                   ELSE {j \in mine : \A k \in mine : j <= k}
    IN \A j \in floor : i <= j

\* stamps: the Entries that the closed Messages lie between.
Numbers(messages) ==
  {p[2] : p \in {q \in mem.positions : q[2] > 0 /\ \E i \in DOMAIN messages : messages[i].id = q[1]}}

Lowest(S) == IF S = {} THEN 0 ELSE CHOOSE n \in S : \A k \in S : n <= k
Highest(S) == IF S = {} THEN 0 ELSE CHOOSE n \in S : \A k \in S : n >= k

SegmentOf(n, closed) ==
  [n |-> n, from |-> Lowest(Numbers(closed)), to |-> Highest(Numbers(closed)), merged |-> {},
   own |-> TRUE, of |-> {closed[i].id : i \in DOMAIN closed}]

ToolsCalled(messages) ==
  {t \in Tool : \E i \in DOMAIN messages : CallID(messages[i].id, t) \in messages[i].calls}

\* checkpointSegments: the Segments, then the tail.
Checkpointed(s, segments, tail) ==
  [s EXCEPT !.used = segments, !.messages = [i \in DOMAIN segments |-> Rendered(segments[i])] \o tail,
            !.positions = {p \in @ : \E i \in DOMAIN tail : tail[i].id = p[1]}]

\* Compact and CloseSegment: the Segment and the Checkpoint that lists it are
\* stored in one step; the Tools that the stretch did not call are unloaded.
Compact ==
  /\ Has("compact") /\ Settled /\ mem.busy
  /\ LET tail == TailOf(mem)
         kept == mem.loaded \cap ToolsCalled(tail)
     IN \E cut \in {c \in 1 .. Len(tail) : TurnStart(tail, c + 1) /\ KeepsTurn(tail, c + 1)} :
          LET segment == SegmentOf(MaxSegment(mem) + 1, SubSeq(tail, 1, cut))
              closed  == [mem EXCEPT !.closed = @ \cup {segment}, !.loaded = kept]
              done    == Checkpointed(closed, Append(mem.used, segment.n),
                                      SubSeq(tail, cut + 1, Len(tail)))
          IN /\ mem' = done
             /\ Stores(<<[kind |-> "compaction_started"],
                         [kind |-> "segment_closed", segment |-> segment],
                         CheckpointOf(done, "compaction_ended")>>
                       \o SetToSeq({[kind |-> "tool_unloaded", tool |-> t] :
                                      t \in mem.loaded \ kept}))
  /\ Uses("compact") /\ UNCHANGED <<streaming, started>>

\* A compaction whose part fails leaves an Entry that a rebuild does not read.
FailCompact ==
  /\ Has("compact") /\ Settled /\ mem.busy
  /\ Stores(<<[kind |-> "compaction_started"], [kind |-> "compaction_failed"]>>)
  /\ mem' = mem
  /\ Uses("compact") /\ UNCHANGED <<streaming, started>>

\* mergeOldest and MergeSegments: the first Segments become one, which keeps
\* where each of them is in the log and comes first.
Merge ==
  /\ Has("merge") /\ Settled /\ mem.busy /\ Len(mem.used) >= 2
  /\ \E count \in 2 .. Len(mem.used) :
       LET replaced == {Segment(mem, mem.used[i]) : i \in 1 .. count}
           parts  == UNION {IF g.merged = {} THEN {[n |-> g.n, from |-> g.from, to |-> g.to, of |-> g.of]}
                            ELSE g.merged : g \in replaced}
           merged == [n |-> MaxSegment(mem) + 1, from |-> 0, to |-> 0, merged |-> parts, own |-> TRUE,
                      of |-> UNION {g.of : g \in replaced}]
           closed == [mem EXCEPT !.closed = @ \cup {merged}]
           done   == Checkpointed(closed, <<merged.n>> \o SubSeq(mem.used, count + 1, Len(mem.used)),
                                  TailOf(mem))
       IN /\ mem' = done
          /\ Stores(<<[kind |-> "compaction_started"],
                      [kind |-> "segment_closed", segment |-> merged],
                      CheckpointOf(done, "compaction_ended")>>)
  /\ Uses("merge") /\ UNCHANGED <<streaming, started>>

-----------------------------------------------------------------------------
(* Another writer takes the Record over, or a fork is made of it.          *)

\* The writer stopped at any point: what it had not ended is settled.
Settles(s) ==
  SetToSeq({[kind |-> "reply_cut_off", message |-> s.cutOff[i]] : i \in DOMAIN s.cutOff})
  \o (IF s.running = 0 THEN <<>>
      ELSE SetToSeq({[kind |-> "message_dropped", id |-> id] : id \in s.queued})
           \o <<[kind |-> "run_ended", run |-> s.running]>>)

\* Attach and TakeOver on a Record loaded from its last Checkpoint.
TakeOver ==
  /\ Has("crash")
  /\ Stores(<<[kind |-> "session_claimed", by |-> mem.holder + 1]>> \o Settles(Loaded))
  /\ LET s == [Loaded EXCEPT !.busy = TRUE, !.holder = mem.holder + 1, !.cutOff = <<>>, !.queued = {}]
     IN mem' = IF s.running = 0 THEN s ELSE EndRun(s, s.running)
  /\ streaming' = [id |-> 0, text |-> FALSE] /\ started' = {}
  /\ Uses("crash")

\* Fork of the Record as a reader sees it, and the fork's first write
\* (StartWriting): the parent's Segments keep their numbers and name it.
Fork ==
  /\ Has("fork")
  /\ LET parent == Viewed
         inherited == {[g EXCEPT !.own = FALSE] : g \in {h \in parent.closed : \E i \in DOMAIN parent.used :
                                                          parent.used[i] = h.n}}
         child == [Empty EXCEPT !.messages = parent.messages, !.used = parent.used,
                                !.closed = inherited, !.loaded = parent.loaded, !.meta = parent.meta,
                                !.positions = {<<p[1], 0>> : p \in parent.positions}]
         first == CheckpointOf(child, "session_created")
     IN /\ mem' = [child EXCEPT !.holder = 1, !.busy = TRUE, !.positions = first.positions]
        /\ log' = <<first>>
                  \o [i \in DOMAIN child.used |->
                        [kind |-> "segment_closed", segment |-> Segment(child, child.used[i])]]
                  \o <<[kind |-> "session_claimed", by |-> 1]>>
  /\ streaming' = [id |-> 0, text |-> FALSE] /\ started' = {}
  /\ Uses("fork")

-----------------------------------------------------------------------------

Next ==
  \/ StartRun \/ QueueMessage \/ CommitQueued \/ QueueNotice \/ CommitNotice
  \/ KeepPart \/ EndReply \/ DropReply \/ StartTool \/ CommitResult
  \/ LoadTool \/ SetMeta \/ FinishRun \/ Release \/ Reclaim
  \/ Compact \/ FailCompact \/ Merge \/ TakeOver \/ Fork

Spec == Init /\ [][Next]_vars

-----------------------------------------------------------------------------

\* What two Records of a Session have to agree on.
Same(s) ==
  [messages |-> s.messages, used |-> s.used, loaded |-> s.loaded, notices |-> s.notices,
   meta |-> s.meta, running |-> s.running, runs |-> s.base + Cardinality(s.runs),
   busy |-> s.busy, holder |-> s.holder, last |-> MaxSegment(s)]

\* The Record in memory, as a load that comes now has to find it: the reply
\* that streams is cut off and the open calls are answered.
AsLoaded(s) ==
  [s EXCEPT !.messages =
     Repair(@ \o (IF streaming.text THEN <<Reply(streaming.id, {})>> ELSE <<>>), started)]

\* A load gives the Record that its writer has in memory, from the last
\* Checkpoint on as from the whole log, wherever the writer is in a Run or a
\* compaction and whoever wrote before it (rebuildRecord, apply, FromLoaded).
LoadsGiveTheRecord ==
  /\ Same(Loaded) = Same(AsLoaded(mem))
  /\ Same(Viewed) = Same(Loaded)

\* A message that was accepted is committed or dropped in the log once the Run
\* it was queued to is over (record.go dropQueued).  But for one that was queued
\* before a compaction in the Run: the Checkpoint does not keep what is queued, so
\* that who loads from it and ends the Run does not know of the message.
QueuedMessagesAreResolved ==
  ~Running => \A n \in Waiting : \E k \in n .. Len(log) : log[k].kind = "compaction_ended"

\* A Segment names the Entries that hold every Message it closed, so that
\* read_segment gives them all (record/originals.go Segment).  Of the Cut-off
\* replies it need not: TakeOver stores them without noting their position.
SegmentsReadBack ==
  \A g \in mem.closed : g.own /\ g.merged = {} =>
    \A id \in g.of : \A n \in DOMAIN log :
      (log[n].kind \in {"message_committed", "notice_committed", "reply_ended",
                        "tool_result_committed"} /\ log[n].message.id = id)
        => n \in g.from .. g.to
=============================================================================
