----------------------------- MODULE Compaction -----------------------------
(***************************************************************************)
(* The compaction of one Session and what reads the conversation back:     *)
(* record/auto_compact.go, compact*.go, compactor.go, merge.go, recap.go,  *)
(* segment_build.go, originals.go, read_*.go, spilled.go, committed.go,    *)
(* gotato/spill.go and the part of gotato/loop.go that calls the preparer. *)
(*                                                                         *)
(* Before a Model call the Messages since the last Checkpoint, less a kept *)
(* tail, are closed into a Segment, and the oldest Segments are merged     *)
(* when they pass their budget.  A Segment keeps a part of what it closed; *)
(* the rest is read back by a number or a ref.  Parts of a Compactor are   *)
(* the user's and may fail, the Store may fail, the Run may be stopped.    *)
(*                                                                         *)
(* Sizes are in tokens and add up.  A Message is known by the number of    *)
(* its Entry; Entries that are neither a Message nor a spilled body are    *)
(* left out.                                                               *)
(***************************************************************************)
EXTENDS Integers, Sequences, FiniteSets, FiniteSetsExt, SequencesExt

CONSTANTS
  CompactLoads,   \* settings of the Compactor and what may happen
  Overhead,       \* requestOverhead: the instruction and the Tools
  ReserveTokens,  \* defaultReserveTokens
  DefaultBudget,  \* defaultSegmentsBudgetTokens
  DefaultTail,    \* defaultTailTokens
  MessageTokens,  \* the most a Segment keeps of a Message
  ToolLines,      \* the call lines that a Segment shows
  DigestRefs      \* the refs of one kind that a digest keeps of a Segment

VARIABLES
  entries,        \* the log: Messages and spilled bodies
  pruned,         \* how many of the first Entries were removed
  checkpoint,     \* the Entries before the last Checkpoint
  tail,           \* the Messages after the Segments: [at, usage]
  segments,       \* the Segments of the Context, oldest first
  closed,         \* history: the Messages that Segment n closed
  session,        \* the Run, its Turn and where it is
  prepared,       \* AutoCompactor.turn and started
  events,         \* the compaction Events since the Turn began
  config          \* the load that is left

compactVars == <<entries, pruned, checkpoint, tail, segments, closed, session, prepared, events, config>>

-----------------------------------------------------------------------------
(* The numbers: CompactPolicy.                                             *)

DefaultCeiling(window) ==
  IF window <= 0 THEN 0 ELSE Max({window - Max({window \div 10, ReserveTokens}), 0})

EffectiveCeiling ==
  IF config.ceiling > 0 THEN config.ceiling
  ELSE IF config.ceiling < 0 THEN 0 ELSE DefaultCeiling(config.window)

SegmentsBudget(ceiling) == IF ceiling > 0 THEN Max({ceiling \div 2, 1}) ELSE DefaultBudget

EffectiveBudget == IF config.budget > 0 THEN config.budget ELSE SegmentsBudget(EffectiveCeiling)

-----------------------------------------------------------------------------
(* Sizes.                                                                  *)

Role(m) == entries[m.at].kind

Total(s) == LET sum[i \in 0 .. Len(s)] == IF i = 0 THEN 0 ELSE sum[i - 1] + s[i] IN sum[Len(s)]

EstimateTokens(messages) == Total([i \in DOMAIN messages |-> entries[messages[i].at].size])

SegmentTokens(gs) == Total([i \in DOMAIN gs |-> gs[i].size])

Estimate == SegmentTokens(segments) + EstimateTokens(tail) + Overhead

\* size: what the last reply reported and an estimate of what came after it.
Size ==
  LET reported == {i \in DOMAIN tail : tail[i].usage > 0}
      last == Max(reported)
  IN IF reported = {} THEN Estimate
     ELSE tail[last].usage + EstimateTokens(SubSeq(tail, last + 1, Len(tail)))

\* CeilingTrigger.Due.
Due(overflow, turn) ==
  CASE overflow -> "overflow"
    [] ~overflow /\ EffectiveCeiling > 0 /\ Size > EffectiveCeiling -> "past_ceiling"
    [] ~overflow /\ ~(EffectiveCeiling > 0 /\ Size > EffectiveCeiling)
       /\ turn = 1 /\ SegmentTokens(segments) > EffectiveBudget -> "past_budget"
    [] OTHER -> "no"

-----------------------------------------------------------------------------
(* The cut: how many of the Messages since the last Checkpoint are closed. *)

\* Wrong: a cut at a tool result.
TurnCutAnywhere(s, want) == IF want <= 0 THEN 0 ELSE Min({want, Len(s)})

\* The first Turn that starts at want or after it.
TurnCut(s, want) ==
  IF want <= 0 THEN 0
  ELSE Min({i \in want .. Len(s) - 1 : Role(s[i + 1]) # "tool_result"} \cup {Len(s)})

\* The Run's last reply, or the Run's first Message.
LastTurnStart(s, id) ==
  LET own == {i \in 0 .. Len(s) - 1 : entries[s[i + 1].at].run = id}
      replies == {i \in own : Role(s[i + 1]) = "assistant"}
      starts == {i \in 0 .. Len(s) - 1 : Role(s[i + 1]) # "tool_result"}
  IN IF replies # {} THEN Max(replies)
     ELSE IF own # {} THEN Min(own) ELSE Max(starts \cup {0})

WithinBudget(s, budget, floor) ==
  Min({i \in floor .. Len(s) : EstimateTokens(SubSeq(s, i + 1, Len(s))) <= budget} \cup {Len(s)})

\* Where the latest Run begins, not counting the Run that starts.
RunStart(s, skip) ==
  LET known == {i \in DOMAIN s : entries[s[i].at].run # skip}
      latest == entries[s[Max(known)].at].run
      users == {i \in DOMAIN s : Role(s[i]) = "user"}
      of == {i \in DOMAIN s : entries[s[i].at].run = latest}
  IN IF known = {} THEN (IF users = {} THEN 0 ELSE Max(users) - 1)
     ELSE Min({i \in of : i .. Max(of) \subseteq of}) - 1

\* The most that the tail holds.
TailTokens ==
  LET base == IF config.window > 0 THEN config.window ELSE EffectiveCeiling
  IN IF base > 0 THEN Min({DefaultTail, base \div 4}) ELSE DefaultTail

\* TailBudget.Cut, as a set of one.
TailBudget(s, current) ==
  { IF config.keep > 0 THEN TurnCut(s, Len(s) - config.keep)
    ELSE TurnCut(s, WithinBudget(s, TailTokens, floor)) : floor \in {RunStart(s, current)} }

\* cutOf: the frame's rules for what the Cutter returned.
CutOf(s, raw, job) ==
  IF job.keepLastTurn THEN Min({TurnCut(s, raw), LastTurnStart(s, job.run)}) ELSE TurnCut(s, raw)

-----------------------------------------------------------------------------
(* Segments: CodeSegments, the merged Segment and its digest.              *)

MessageRef(n) == [kind |-> "msg", id |-> n]
ResultRef(call) == [kind |-> "result", id |-> call]

\* finalReplies: of each Run, the last reply without calls that was not cut off.
FinalReplies(s) ==
  LET plain == {i \in DOMAIN s : /\ Role(s[i]) = "assistant" /\ entries[s[i].at].calls = <<>>
                                 /\ ~entries[s[i].at].cutOff}
  IN {i \in plain : \A j \in plain : entries[s[j].at].run = entries[s[i].at].run => j <= i}

\* collect and limitLines: the Messages kept whole and the call lines shown.  A notice
\* of a service is kept, and has no ref; one of the runtime's own is not.
Quoted(s) == {i \in DOMAIN s : Role(s[i]) = "user"} \cup FinalReplies(s)

KeptWhole(s) == Quoted(s) \cup {i \in DOMAIN s : Role(s[i]) = "service_notice"}

CallLines(s) == FlattenSeq([i \in DOMAIN s |-> entries[s[i].at].calls])

ShownLines(s) == SubSeq(CallLines(s), 1, Min({ToolLines, Len(CallLines(s))}))

SegmentRefs(s) ==
  { MessageRef(s[i].at) : i \in Quoted(s) } \cup { ResultRef(c) : c \in Range(ShownLines(s)) }

\* stamps: the Entries that a Segment covers.
Stamps(s) ==
  [from |-> Min({s[i].at : i \in DOMAIN s}), to |-> Max({s[i].at : i \in DOMAIN s})]

SegmentSize(s, recap) ==
  1 + Total([i \in DOMAIN s |-> IF i \in KeptWhole(s) THEN Min({MessageTokens, entries[s[i].at].size})
                                ELSE 0])
    + Len(ShownLines(s)) + (IF recap THEN 1 ELSE 0)

NextSegment == Len(closed) + 1

\* segmentOf.
SegmentOf(s, recap) ==
  [number |-> NextSegment, source |-> Stamps(s), merged |-> <<>>, refs |-> SegmentRefs(s),
   recap |-> recap, size |-> SegmentSize(s, recap)]

\* Numbers and refsOf: the Segments that a Segment stands for.
Parts(g) == IF g.merged = <<>> THEN <<[number |-> g.number, source |-> g.source]>> ELSE g.merged

\* digestRefs: of each kind, the first refs of a Segment.
FirstRefs(g, kind) ==
  LET refs == {r \in g.refs : r.kind = kind}
  IN {r \in refs : Cardinality({q \in refs : q.id < r.id}) < DigestRefs}

DigestRefsOf(g) ==
  IF g.merged # <<>> THEN g.refs ELSE FirstRefs(g, "msg") \cup FirstRefs(g, "result")

\* buildMerged.
MergedOf(gs) ==
  [number |-> NextSegment, source |-> [from |-> gs[1].source.from, to |-> gs[Len(gs)].source.to],
   merged |-> FlattenSeq([i \in DOMAIN gs |-> Parts(gs[i])]),
   refs |-> UNION {DigestRefsOf(gs[i]) : i \in DOMAIN gs}, recap |-> TRUE, size |-> 2]

\* OldestToHalf.Pick: how many of the oldest Segments are merged.
OldestToHalf(gs, budget) ==
  LET fits == {n \in 2 .. Len(gs) :
                 \A k \in n .. Len(gs) - 1 : SegmentTokens(SubSeq(gs, k + 1, Len(gs))) <= budget \div 2}
  IN IF Len(gs) < 2 \/ SegmentTokens(gs) <= budget THEN 0 ELSE Min(fits)

-----------------------------------------------------------------------------
(* Reading back: OriginalsOf and the read tools.                           *)

Removed == [found |-> FALSE, why |-> "removed"]
NoOriginal == [found |-> FALSE, why |-> "none"]
Found(n) == [found |-> TRUE, at |-> n]

IsMessage(n) == entries[n].kind # "spilled"

\* refsOf: every Segment the Context stands for.
RefsOf == FlattenSeq([i \in DOMAIN segments |-> Parts(segments[i])])

\* CommittedMessages: the Messages in a range of Entries that are left.
CommittedMessages(source) == {n \in source.from .. source.to : n > pruned /\ IsMessage(n)}

\* readSegment.
ReadSegment(number) ==
  LET found == {i \in DOMAIN RefsOf : RefsOf[i].number = number}
      source == RefsOf[CHOOSE i \in found : TRUE].source
  IN IF found = {} THEN NoOriginal
     ELSE [found |-> TRUE, messages |-> CommittedMessages(source), complete |-> source.from > pruned]

\* find: the latest Message in the Context, and then in each Segment, newest first.
Find(match) ==
  LET inTail == {m.at : m \in Range(tail)} \cap match
      holds == {i \in DOMAIN RefsOf : CommittedMessages(RefsOf[i].source) \cap match # {}}
      gap == \E i \in DOMAIN RefsOf : RefsOf[i].source.from <= pruned
  IN IF inTail # {} THEN Found(Max(inTail))
     ELSE IF holds # {} THEN Found(Max(CommittedMessages(RefsOf[Max(holds)].source) \cap match))
     ELSE IF gap THEN Removed ELSE NoOriginal

\* FindSpilled: the Entry of the latest spilled body of a call, 0 for none.
FindSpilled(call) ==
  Max({n \in DOMAIN entries : n > pruned /\ entries[n].kind = "spilled" /\ entries[n].call = call}
      \cup {0})

\* recordOriginals.result: a spilled body by its position, or the Message.
ReadResult(call) ==
  LET inTail == {m.at : m \in {t \in Range(tail) : Role(t) = "tool_result"
                                                   /\ entries[t.at].call = call
                                                   /\ entries[t.at].spilled > 0}}
      at == IF inTail # {} THEN entries[Max(inTail)].spilled
            ELSE IF segments # <<>> THEN FindSpilled(call) ELSE 0
  IN IF at = 0
     THEN Find({n \in DOMAIN entries : entries[n].kind = "tool_result" /\ entries[n].call = call})
     ELSE IF at <= pruned THEN Removed ELSE Found(at)

ReadRef(r) ==
  IF r.kind = "result" THEN ReadResult(r.id)
  ELSE Find({n \in DOMAIN entries : n = r.id /\ entries[n].kind \in {"user", "assistant"}})

-----------------------------------------------------------------------------
(* The Run: gotato/loop.go's callModel, as far as a preparer sees it.      *)

NewMessage(kind, calls, call, size, spilled) ==
  [kind |-> kind, run |-> session.run, calls |-> calls, call |-> call, size |-> size,
   spilled |-> spilled, cutOff |-> FALSE]

NoJob ==
  [why |-> "none", run |-> 0, current |-> 0, keepLastTurn |-> FALSE, cut |-> 0, recap |-> FALSE,
   merge |-> "none", replaced |-> FALSE, dropped |-> FALSE, budget |-> 0]

Commit(m, usage) ==
  /\ entries' = Append(entries, m)
  /\ tail' = Append(tail, [at |-> Len(entries) + 1, usage |-> usage])

Spend(what) == config[what] > 0 /\ config' = [config EXCEPT ![what] = @ - 1]

At(place) == session.at = place
Goto(place) == session' = [session EXCEPT !.at = place]

\* The Run is over; a Run that is stopped leaves no call open (ToolBatch).
Ends == [session EXCEPT !.at = "idle", !.turn = 0, !.open = <<>>, !.job = NoJob, !.canceled = FALSE,
                        !.refused = FALSE, !.changed = FALSE]

Init ==
  /\ config \in CompactLoads
  /\ entries = <<>> /\ pruned = 0 /\ checkpoint = 0 /\ tail = <<>> /\ segments = <<>> /\ closed = <<>> /\ events = <<>>
  /\ session = [at |-> "idle", run |-> 0, turn |-> 0, open |-> <<>>, job |-> NoJob,
                canceled |-> FALSE, refused |-> FALSE, changed |-> FALSE]
  /\ prepared = [run |-> 0, turn |-> 0, started |-> FALSE]

\* commitPrompt.
StartRun ==
  /\ At("idle") /\ Spend("runs")
  /\ session' = [session EXCEPT !.at = "prepare", !.run = @ + 1, !.turn = 1]
  /\ Commit([NewMessage("user", <<>>, 0, 1, 0) EXCEPT !.run = session.run + 1], 0)
  /\ events' = <<>>
  /\ UNCHANGED <<pruned, checkpoint, segments, closed, prepared>>

\* Abort, or the Run's deadline.
Cancel ==
  /\ ~At("idle") /\ ~session.canceled /\ Spend("cancels")
  /\ session' = [session EXCEPT !.canceled = TRUE]
  /\ UNCHANGED <<entries, pruned, checkpoint, tail, segments, closed, prepared, events>>

\* callModel after the preparers: a refusal that nothing shortened stands.
SendRequest ==
  /\ At("prepared")
  /\ session' = IF session.canceled \/ (session.refused /\ ~session.changed) THEN Ends
                ELSE [session EXCEPT !.at = "sent", !.changed = FALSE, !.job = NoJob]
  /\ UNCHANGED <<entries, pruned, checkpoint, tail, segments, closed, prepared, events, config>>

\* The provider refuses the request as too long; one shorter request is sent.
ModelRefuses ==
  /\ At("sent") /\ Spend("refusals")
  /\ session' = IF session.refused THEN Ends ELSE [session EXCEPT !.at = "prepare", !.refused = TRUE]
  /\ UNCHANGED <<entries, pruned, checkpoint, tail, segments, closed, prepared, events>>

CallID(i) == IF config.reuse THEN i ELSE 2 * Len(entries) + i

\* A reply that calls Tools; it may report what the request came to.
ReplyCalls ==
  /\ At("sent") /\ config.calls # <<>>
  /\ LET calls == [i \in 1 .. Head(config.calls) |-> CallID(i)]
     IN /\ \E usage \in {0, Estimate + 1} : Commit(NewMessage("assistant", calls, 0, 1, 0), usage)
        /\ session' = [session EXCEPT !.at = "tools", !.open = calls]
  /\ config' = [config EXCEPT !.calls = Tail(@)]
  /\ UNCHANGED <<pruned, checkpoint, segments, closed, prepared, events>>

\* A final reply ends the Run.
ReplyEnds ==
  /\ At("sent") /\ config.calls = <<>>
  /\ Commit(NewMessage("assistant", <<>>, 0, 1, 0), 0)
  /\ session' = Ends
  /\ UNCHANGED <<pruned, checkpoint, segments, closed, prepared, events, config>>

CutOffReply == [NewMessage("assistant", <<>>, 0, 1, 0) EXCEPT !.cutOff = TRUE]

\* The Model call of a Run that was stopped: the text it had sent is kept as a cut-off
\* reply.
StopCall ==
  /\ At("sent") /\ session.canceled
  /\ Commit(CutOffReply, 0) \/ UNCHANGED <<entries, tail>>
  /\ session' = Ends
  /\ UNCHANGED <<pruned, checkpoint, segments, closed, prepared, events, config>>

\* afterModelError of a call that an Interrupt cut short: it starts the next Turn.
Interrupt ==
  /\ At("sent") /\ ~session.canceled /\ Spend("interrupts")
  /\ \E cut \in {<<>>, <<CutOffReply>>} :
       LET new == Append(cut, NewMessage("user", <<>>, 0, 1, 0))
       IN /\ entries' = entries \o new
          /\ tail' = tail \o [i \in DOMAIN new |-> [at |-> Len(entries) + i, usage |-> 0]]
  /\ session' = [session EXCEPT !.at = "prepare", !.turn = @ + 1, !.refused = FALSE]
  /\ events' = <<>>
  /\ UNCHANGED <<pruned, checkpoint, segments, closed, prepared>>

\* commitResult and spill: a result longer than a page is stored on its own
\* first, and its Message holds a preview and where the body is.  A Run that was
\* stopped closes the calls that are open.
CommitResult ==
  /\ At("tools") /\ session.open # <<>>
  /\ LET call == Head(session.open)
     IN \E size \in IF session.canceled THEN {1} ELSE config.results :
          LET spills == size > config.page
              body == NewMessage("spilled", <<>>, call, 0, 0)
              stored == IF spills THEN Append(entries, body) ELSE entries
              result == NewMessage("tool_result", <<>>, call, IF spills THEN 1 ELSE size,
                                IF spills THEN Len(stored) ELSE 0)
          IN /\ entries' = Append(stored, result)
             /\ tail' = Append(tail, [at |-> Len(stored) + 1, usage |-> 0])
  /\ session' = [session EXCEPT !.open = Tail(@)]
  /\ UNCHANGED <<pruned, checkpoint, segments, closed, prepared, events, config>>

\* The next Turn; a Steer or a notice may be committed before it.
NextTurn ==
  /\ At("tools") /\ session.open = <<>>
  /\ session' = IF session.canceled THEN Ends
                ELSE [session EXCEPT !.at = "prepare", !.turn = @ + 1, !.refused = FALSE]
  /\ \/ /\ ~session.canceled /\ config.steers # <<>>
        /\ Commit(NewMessage(Head(config.steers), <<>>, 0, 1, 0), 0)
        /\ config' = [config EXCEPT !.steers = Tail(@)]
     \/ UNCHANGED <<entries, tail, config>>
  /\ events' = <<>>
  /\ UNCHANGED <<pruned, checkpoint, segments, closed, prepared>>

\* A team removes Entries that come before the last Checkpoint.
Prune ==
  /\ At("idle") /\ checkpoint > pruned /\ Spend("prunes")
  /\ pruned' = checkpoint
  /\ UNCHANGED <<entries, checkpoint, tail, segments, closed, session, prepared, events>>

-----------------------------------------------------------------------------
(* AutoCompactor.PrepareTurn, and Compact on demand.                       *)

Started == Append(events, "started")
Failed == Append(events, "failed")
Mark(s) ==
  prepared' = IF session.job.why = "on_demand" THEN prepared ELSE [prepared EXCEPT !.started = s]

\* A job that is done gives the preparer's answer, or ends the call of Compact.
Answers(job, changed) ==
  IF job.why = "on_demand" THEN Ends
  ELSE [session EXCEPT !.at = "prepared", !.job = job, !.changed = changed]

ThisTurn == [run |-> session.run, turn |-> session.turn, started |-> FALSE]

Fresh == IF <<prepared.run, prepared.turn>> = <<session.run, session.turn>> THEN prepared ELSE ThisTurn

\* The budget in force; on an overflow the limit that the refusal names counts too.
JobBudget ==
  IF session.refused /\ config.limit > 0 THEN Min({EffectiveBudget, config.limit}) ELSE EffectiveBudget

PrepareTurn ==
  /\ At("prepare")
  /\ \E why \in {Due(session.refused, session.turn)} :
     LET job == [NoJob EXCEPT !.why = why, !.run = session.run, !.keepLastTurn = TRUE,
                              !.current = IF session.turn = 1 THEN session.run ELSE 0,
                              !.budget = JobBudget]
     IN /\ prepared' = Fresh
        /\ session' =
             CASE Fresh.started \/ why = "no" -> Answers(job, FALSE)
               [] ~Fresh.started /\ why = "past_budget" ->
                    [session EXCEPT !.at = "merge", !.job = [job EXCEPT !.merge = "only"]]
               [] OTHER -> [session EXCEPT !.at = "cut", !.job = job]
  /\ UNCHANGED <<entries, pruned, checkpoint, tail, segments, closed, events, config>>

\* What the Run staged cannot be written before the compaction.
FlushFails ==
  /\ At("prepare") /\ ~Fresh.started /\ Due(session.refused, session.turn) # "no" /\ Spend("fails")
  /\ prepared' = Fresh
  /\ session' = Ends
  /\ UNCHANGED <<entries, pruned, checkpoint, tail, segments, closed, events>>

\* due: a Trigger that panics, or does not say why, drops the Turn's compaction.
TriggerFails ==
  /\ At("prepare") /\ ~Fresh.started /\ Spend("parts")
  /\ prepared' = [Fresh EXCEPT !.started = TRUE]
  /\ session' = Answers(NoJob, FALSE)
  /\ UNCHANGED <<entries, pruned, checkpoint, tail, segments, closed, events>>

\* record.Compact, which the host calls between Runs.
CompactOnDemand ==
  /\ At("idle") /\ Spend("demands")
  /\ EstimateTokens(tail) >= config.minTokens
  /\ session' = [session EXCEPT !.at = "cut",
                                !.job = [NoJob EXCEPT !.why = "on_demand", !.budget = EffectiveBudget]]
  /\ events' = <<>>
  /\ UNCHANGED <<entries, pruned, checkpoint, tail, segments, closed, prepared>>

\* runCompact up to compaction_started.
Cuts ==
  /\ At("cut")
  /\ \E raw \in TailBudget(tail, session.job.current) :
     \E cut \in {CutOf(tail, raw, session.job)} :
        IF cut <= 0
        THEN /\ session' = IF session.job.why = "on_demand" THEN Ends
                           ELSE [session EXCEPT !.at = "merge", !.job.merge = "alone"]
             /\ Mark(FALSE) /\ UNCHANGED events
        ELSE /\ session' = [session EXCEPT !.at = "recap", !.job.cut = cut]
             /\ events' = Started
             /\ UNCHANGED prepared
  /\ UNCHANGED <<entries, pruned, checkpoint, tail, segments, closed, config>>

\* What a compaction that was dropped leaves: the Turn had its chance.
Dropped ==
  /\ Mark(TRUE)
  /\ session' = IF session.canceled \/ session.job.why = "on_demand" THEN Ends
                ELSE [session EXCEPT !.at = "verdict", !.job.dropped = TRUE]

CutterFails ==
  /\ At("cut") /\ Spend("parts")
  /\ events' = Started \o <<"failed">>
  /\ Dropped
  /\ UNCHANGED <<entries, pruned, checkpoint, tail, segments, closed>>

\* writeRecap: a Recap that fails costs the Segment its Recap.  On an overflow
\* the writer has no Context to ask a model with.
WriteRecap ==
  /\ At("recap")
  /\ IF session.canceled /\ config.recap
     THEN events' = Failed /\ Mark(TRUE) /\ session' = Ends
     ELSE /\ \E written \in BOOLEAN :
               /\ written => config.recap /\ session.job.why # "overflow"
               /\ session' = [session EXCEPT !.at = "close", !.job.recap = written]
          /\ UNCHANGED <<events, prepared>>
  /\ UNCHANGED <<entries, pruned, checkpoint, tail, segments, closed, config>>

\* keptTail: what a reply reported was for a request that is no more.
KeptTail(s) == [i \in DOMAIN s |-> [s[i] EXCEPT !.usage = 0]]

\* CloseSegment: the Segment and the Checkpoint that lists it, in one batch.
CloseSegment ==
  /\ At("close")
  /\ \E s \in {SubSeq(tail, 1, session.job.cut)} :
        /\ segments' = Append(segments, SegmentOf(s, session.job.recap))
        /\ closed' = Append(closed, {s[i].at : i \in DOMAIN s})
        /\ tail' = KeptTail(SubSeq(tail, session.job.cut + 1, Len(tail)))
  /\ session' = [session EXCEPT !.at = "merge", !.job.merge = "after", !.job.replaced = TRUE]
  /\ events' = Append(events, "closed")
  /\ checkpoint' = Len(entries)
  /\ Mark(TRUE)
  /\ UNCHANGED <<entries, pruned, config>>

\* The Builder fails, its Segment breaks a rule (checkSegment), or the Store fails.
CloseFails ==
  /\ At("close") /\ (Spend("parts") \/ Spend("fails"))
  /\ events' = Failed
  /\ Dropped
  /\ UNCHANGED <<entries, pruned, checkpoint, tail, segments, closed>>

\* What follows a merge, or a merge that did not happen.
AfterMerge(merged, failed) ==
  LET job == session.job
      changed == job.replaced \/ merged
  IN /\ Mark(IF job.replaced THEN TRUE ELSE merged \/ failed)
     /\ session' =
          CASE job.why = "on_demand" -> Ends
            [] job.why # "on_demand" /\ job.merge = "only" -> Answers(job, changed)
            [] job.why # "on_demand" /\ job.merge # "only" /\ session.refused /\ failed -> Ends
            [] OTHER -> [session EXCEPT !.at = "verdict", !.changed = changed]

\* mergeOldest.
MergeOldest ==
  /\ At("merge")
  /\ IF OldestToHalf(segments, session.job.budget) = 0
     THEN AfterMerge(FALSE, FALSE) /\ UNCHANGED events
     ELSE Goto("mergeRecap") /\ events' = Started /\ UNCHANGED prepared
  /\ UNCHANGED <<entries, pruned, checkpoint, tail, segments, closed, config>>

\* The Picker fails, or returns a count that the frame refuses.
PickerFails ==
  /\ At("merge") /\ OldestToHalf(segments, session.job.budget) > 0 /\ Spend("parts")
  /\ events' = Started \o <<"failed">>
  /\ AfterMerge(FALSE, TRUE)
  /\ UNCHANGED <<entries, pruned, checkpoint, tail, segments, closed>>

\* mergeRecap: the model's, where the Recap is a MergeRecapWriter; one that fails leaves
\* the Segments as they are.  The digest by code asks nobody, and a Run that was
\* stopped still commits it.
MergeRecap ==
  /\ At("mergeRecap")
  /\ \/ ~(config.mergeRecap /\ session.canceled) /\ Goto("mergeWrite") /\ UNCHANGED <<events, prepared>>
     \/ config.mergeRecap /\ session.canceled /\ events' = Failed /\ Mark(TRUE) /\ session' = Ends
     \/ config.mergeRecap /\ ~session.canceled /\ events' = Failed /\ AfterMerge(FALSE, TRUE)
  /\ UNCHANGED <<entries, pruned, checkpoint, tail, segments, closed, config>>

\* commitMerge: the merged Segment opens the Context.
CommitMerge ==
  /\ At("mergeWrite")
  /\ \E count \in {OldestToHalf(segments, session.job.budget)} :
        segments' = <<MergedOf(SubSeq(segments, 1, count))>>
                    \o SubSeq(segments, count + 1, Len(segments))
  /\ closed' = Append(closed, {})
  /\ tail' = KeptTail(tail)
  /\ events' = Append(events, "merged")
  /\ checkpoint' = Len(entries)
  /\ AfterMerge(TRUE, FALSE)
  /\ UNCHANGED <<entries, pruned, config>>

MergeFails ==
  /\ At("mergeWrite") /\ Spend("fails")
  /\ events' = Failed
  /\ AfterMerge(FALSE, TRUE)
  /\ UNCHANGED <<entries, pruned, checkpoint, tail, segments, closed>>

\* A Run that is still past the ceiling ends.
Verdict ==
  /\ At("verdict")
  /\ session' =
       IF ~session.refused /\ EffectiveCeiling > 0 /\ Estimate > EffectiveCeiling THEN Ends
       ELSE Answers(session.job, session.changed)
  /\ UNCHANGED <<entries, pruned, checkpoint, tail, segments, closed, prepared, events, config>>

Works ==
  \/ SendRequest \/ ReplyCalls \/ ReplyEnds \/ StopCall \/ CommitResult \/ NextTurn
  \/ PrepareTurn \/ Cuts \/ WriteRecap \/ CloseSegment \/ MergeOldest \/ MergeRecap \/ CommitMerge
  \/ Verdict

Next ==
  \/ Works \/ StartRun \/ Cancel \/ Interrupt \/ ModelRefuses \/ Prune \/ CompactOnDemand
  \/ FlushFails \/ TriggerFails \/ CutterFails \/ CloseFails \/ PickerFails \/ MergeFails

Spec == Init /\ [][Next]_compactVars /\ WF_compactVars(Works)

-----------------------------------------------------------------------------

Messages == {n \in DOMAIN entries : IsMessage(n)}
InTail == {m.at : m \in Range(tail)}
Settled == session.at \in {"idle", "prepared", "sent", "tools"}

\* Every Message that was committed is in the tail or in one Segment that can be
\* read back by its number, whatever was merged since, and reading that Segment
\* gives the Messages it closed, less those that were removed from the log.
SegmentsHoldTheRest ==
  LET numbers == [i \in DOMAIN RefsOf |-> RefsOf[i].number]
  IN /\ Messages = InTail \cup UNION {closed[numbers[i]] : i \in DOMAIN numbers}
     /\ \A i, j \in DOMAIN numbers : i < j => numbers[i] < numbers[j]
     /\ \A i \in DOMAIN numbers :
          LET read == ReadSegment(numbers[i])
          IN /\ read.messages = {n \in closed[numbers[i]] : n > pruned}
             /\ read.complete => read.messages = closed[numbers[i]]
             /\ closed[numbers[i]] \cap InTail = {}

\* The original of a call: its body where it was spilled, its Message otherwise.
Original(call) ==
  LET of == {n \in DOMAIN entries : entries[n].call = call /\ entries[n].kind \in {"tool_result", "spilled"}}
  IN Min(of)

UsedOnce(call) ==
  Cardinality({n \in DOMAIN entries : entries[n].kind = "tool_result" /\ entries[n].call = call}) = 1

\* A ref that a Segment carries reads the original it names; one that is gone is
\* said to be removed.
RefsReadTheirOriginal ==
  \A i \in DOMAIN segments : \A r \in segments[i].refs :
    LET read == ReadRef(r)
        at == IF r.kind = "msg" THEN r.id ELSE Original(r.id)
    IN (r.kind = "result" => UsedOnce(r.id)) => read = IF at > pruned THEN Found(at) ELSE Removed

\* A Tool result is never kept apart from its call, in the tail or in a Segment,
\* and what a Run sends still holds its last reply, be it one that was cut off, and all
\* that came after it.
TurnsStayWhole ==
  LET reply(n) == CHOOSE k \in 1 .. n : entries[k].kind = "assistant"
                    /\ \A j \in k + 1 .. n : entries[j].kind # "assistant"
      together == {InTail} \cup Range(closed)
      own == {n \in Messages : entries[n].run = session.run}
      replies == {n \in own : entries[n].kind = "assistant"}
      last == IF replies = {} THEN own ELSE {n \in own : n >= Max(replies)}
  IN /\ \A s \in together : \A n \in s : entries[n].kind = "tool_result" => reply(n) \in s
     /\ At("sent") => last \subseteq InTail

\* Every compaction_started has its ending before the Run goes on, and a Turn
\* closes one Segment at most.
OneCompactionPerTurn ==
  /\ \A i \in DOMAIN events : (events[i] = "started") = (i % 2 = 1)
  /\ Settled => Len(events) % 2 = 0
  /\ Cardinality({i \in DOMAIN events : events[i] = "closed"}) <= 1
  /\ Cardinality({i \in DOMAIN events : events[i] = "merged"}) <= 1

\* What compaction promises of a conversation.
ConversationIsKept ==
  SegmentsHoldTheRest /\ RefsReadTheirOriginal /\ TurnsStayWhole /\ OneCompactionPerTurn

\* A Run, or a call of Compact, comes to an end.
CompactionsEnd == At("idle")
=============================================================================
