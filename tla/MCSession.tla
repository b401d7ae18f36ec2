----------------------------- MODULE MCSession ------------------------------
(***************************************************************************)
(* The parts of a Session and of what it uses, for TLC, one of them in a   *)
(* behaviour: the variables of the others are Off, so that the states of   *)
(* the parts add up.  Each is checked on loads of a few calls and faults.  *)
(* SessionStreams, SessionLoop, Profiles, Serving and Subscription are     *)
(* extended, the others are instances.                                     *)
(***************************************************************************)
EXTENDS SessionStreams, SessionLoop, Profiles, Serving, Subscription, Integers, Sequences, TLC

CONSTANTS s1, s2, p1, p2, e1, e2, Off

VARIABLES
  part,
  step, grouped, upTo, tool, signals, outcome, ran, results, canceled, left,
  server, notices, sessions, conn, gen, told, cache, user, served, dials,
  mcpLoad,
  resolved, failed, fresh, sources, kept, loaded, parked, visible, recorded,
  phase, bound,
  log, mem, streaming, started, recordLoad,
  pc, sent, tries, restart, next, decoder, wire, reader, ended, result,
  modelLoad,
  entries, pruned, checkpoint, tail, segments, closed, session, prepared,
  events, config,
  hook, chain, transcript, view, turn, used, answered, heard, reports, extLoad,
  ids, nameMap, encoded, naming,
  writer, request, readReply, recap, recapLoad,
  logs, rec, bodies, pending, said, removed, reading, spillLoad,
  infos, entry, found, lister, touched, listLoad,
  top, building, batches, synced, proc, acked, deleted, early, plan

\* The messages: a Steer, an Interrupt, a FollowUp and a notice.
MessageSource == "s" :> "steer" @@ "i" :> "interrupt" @@ "f" :> "followUp" @@ "n" :> "notice"

LoopLoad(handoff, calls, aborts, closes, cancels, fails, refusals, turns) ==
  [handoff |-> handoff, calls |-> calls, aborts |-> aborts, closes |-> closes,
   cancels |-> cancels, fails |-> fails, refusals |-> refusals, turns |-> turns]

LoopLoads ==
  { LoopLoad(FALSE, {"p", "s", "i"}, 0, TRUE,  0, 0, 0, 0),
    LoopLoad(FALSE, {"p", "s"},      1, FALSE, 0, 0, 0, 1),
    LoopLoad(FALSE, {"p", "n", "f"}, 0, FALSE, 0, 0, 1, 0),
    LoopLoad(TRUE,  {"p", "s", "f"}, 0, FALSE, 0, 0, 0, 0),
    LoopLoad(FALSE, {"p", "q", "i"}, 0, FALSE, 0, 0, 0, 0),
    LoopLoad(FALSE, {"p", "c"},      0, TRUE,  1, 0, 1, 1),
    LoopLoad(FALSE, {"p", "i"},      1, FALSE, 0, 1, 0, 0),
    LoopLoad(TRUE,  {"p", "n"},      0, TRUE,  0, 1, 0, 0) }

\* The limit of each kind of queued control.
OneOfEach == [k \in {"steer", "followUp", "notice"} |-> 1]

BatchLoad(plans, fails, cancels, breaks) ==
  [plans |-> plans, fails |-> fails, cancels |-> cancels, breaks |-> breaks]

BatchLoads ==
  { BatchLoad(<<"parallel", "parallel", "sequential", "blocked">>, 1, 1, "never"),
    BatchLoad(<<"blocked", "parallel", "parallel", "parallel">>,   1, 1, "never"),
    BatchLoad(<<"sequential", "parallel">>,                        1, 0, "may") }

McpLoad(calls, changes, restarts, cancels, late, drops, closes) ==
  [calls |-> calls, changes |-> changes, restarts |-> restarts, cancels |-> cancels,
   late |-> late, drops |-> drops, closes |-> closes, sessions |-> 4]

\* l1, l2 and l3 list the Tools, c1 calls one.
McpLoads ==
  { McpLoad({"l1", "l2", "l3"}, 1, 0, 0, 0, 0, FALSE),
    McpLoad({"l1", "l2"},       0, 1, 0, 0, 0, FALSE),
    McpLoad({"l1", "c1"},       0, 1, 0, 0, 1, FALSE),
    McpLoad({"l1", "c1"},       0, 0, 1, 1, 0, TRUE) }

SetOfTool == "a1" :> "a" @@ "b1" :> "b" @@ "b2" :> "b"

CatalogLoads ==
  { [record |-> TRUE, runs |-> 3, restarts |-> 1], [record |-> FALSE, runs |-> 3, restarts |-> 0] }

FeedLoad(after, source, tailed, mixed, unwanted, until, own, foreign, deltas, again, ends) ==
  [hasAfter |-> after >= 0, after |-> IF after >= 0 THEN after ELSE 0, source |-> source,
   tail |-> tailed, mixed |-> mixed, unwanted |-> unwanted, until |-> until, own |-> own,
   foreign |-> foreign, deltas |-> deltas, again |-> again, ends |-> ends]

MCFeedLoads ==
  { FeedLoad(0,  TRUE,  TRUE,  FALSE, {2}, 0, 3, 1, 0, 0, 0),
    FeedLoad(1,  TRUE,  FALSE, FALSE, {},  0, 3, 1, 1, 0, 1),
    FeedLoad(-1, TRUE,  TRUE,  FALSE, {},  3, 3, 1, 1, 0, 0),
    FeedLoad(0,  TRUE,  TRUE,  FALSE, {},  0, 2, 0, 0, 2, 1),
    FeedLoad(-1, FALSE, FALSE, FALSE, {},  0, 5, 0, 0, 0, 0),
    FeedLoad(-1, TRUE,  FALSE, TRUE,  {1}, 0, 3, 0, 2, 0, 1) }

StreamLoad(o, foreign, known, drains, closes) ==
  [op |-> o, foreign |-> foreign, known |-> known, drains |-> drains, closes |-> closes]

MCStreamLoads ==
  { StreamLoad("open",   2, 0, FALSE, FALSE), StreamLoad("create", 1, 0, FALSE, FALSE),
    StreamLoad("delete", 1, 0, FALSE, FALSE), StreamLoad("none",   2, 0, TRUE,  TRUE),
    StreamLoad("open",   1, 1, TRUE,  FALSE) }

OneRun ==
  [run |-> 1, queue |-> 0, notice |-> 0, part |-> 0, reply |-> 0, load |-> 0, meta |-> 0,
   compact |-> 0, merge |-> 0, crash |-> 0, fork |-> 0, reuse |-> 0]

RecordLoads ==
  { [OneRun EXCEPT !.part = 2, !.reply = 1, !.crash = 1, !.queue = 1],
    [OneRun EXCEPT !.notice = 1, !.compact = 1, !.crash = 1, !.load = 1],
    [OneRun EXCEPT !.run = 2, !.compact = 2, !.merge = 1, !.fork = 1],
    [OneRun EXCEPT !.fork = 1, !.compact = 1, !.reuse = 1, !.meta = 1],
    [OneRun EXCEPT !.part = 1, !.reply = 1, !.compact = 1, !.crash = 1] }

\* The wire events of a reply.
WireEvent(kind, c, whole, stop) == [kind |-> kind, call |-> c, last |-> whole, stop |-> stop]
Text == WireEvent("text", 0, TRUE, "none")
Reasoning == WireEvent("reasoning", 0, TRUE, "none")
Signed == WireEvent("signed", 0, TRUE, "none")
Open(c) == WireEvent("open", c, FALSE, "none")
Args(c, whole) == WireEvent("args", c, whole, "none")
Shut(c) == WireEvent("close", c, FALSE, "none")
Stop(why) == WireEvent("stop", 0, FALSE, why)
Finished == WireEvent("done", 0, FALSE, "none")

ModelLoad(api, reply, held, limit, fails, cancels) ==
  [wire |-> api, reply |-> reply, session |-> held, limit |-> limit, fails |-> fails,
   cancels |-> cancels]

ModelLoads ==
  { ModelLoad("chat", <<Reasoning, Text, Text, Stop("end"), Finished>>, TRUE, 0, 3, 1),
    ModelLoad("chat", <<Text, Text, Stop("end")>>, FALSE, 0, 2, 0),
    ModelLoad("chat", <<Text, Open(1), Args(1, TRUE), Open(2), Args(2, TRUE), Stop("calls"),
              Finished>>, TRUE, 2, 1, 0),
    ModelLoad("anthropic", <<Reasoning, Signed, Text, Open(1), Args(1, TRUE), Shut(1), Stop("calls"),
              Finished>>, TRUE, 0, 2, 1),
    ModelLoad("anthropic", <<Text, Stop("overflow"), Finished>>, TRUE, 0, 1, 0),
    ModelLoad("responses", <<Reasoning, Signed, Text, Open(1), Args(1, TRUE), Shut(1), Open(2),
              Args(2, TRUE), Open(3), Args(3, FALSE), Stop("length"), Finished>>, TRUE, 0, 2, 0),
    ModelLoad("responses", <<Text, Stop("unknown"), Finished>>, TRUE, 0, 9, 0) }

OneConversation ==
  [ceiling |-> 6, window |-> 0, budget |-> 0, keep |-> 0, recap |-> FALSE, mergeRecap |-> FALSE,
   page |-> 2, results |-> {1}, runs |-> 1, calls |-> <<>>, steers |-> <<>>, interrupts |-> 0,
   refusals |-> 0, cancels |-> 0, prunes |-> 0, demands |-> 0, minTokens |-> 0, parts |-> 0,
   fails |-> 0, limit |-> 0, reuse |-> FALSE]

Conversations ==
  { [OneConversation EXCEPT !.runs = 3, !.calls = <<2, 1, 1>>, !.results = {1, 3}, !.recap = TRUE,
       !.mergeRecap = TRUE, !.steers = <<"user">>],
    [OneConversation EXCEPT !.runs = 2, !.calls = <<1, 1>>, !.budget = 3, !.interrupts = 1,
       !.steers = <<"service_notice", "own_notice">>, !.cancels = 1],
    [OneConversation EXCEPT !.runs = 2, !.calls = <<2, 1>>, !.results = {1, 3}, !.refusals = 2,
       !.limit = 3, !.fails = 1, !.parts = 1],
    [OneConversation EXCEPT !.runs = 3, !.calls = <<1>>, !.demands = 3, !.keep = 1, !.budget = 3,
       !.prunes = 2, !.results = {3}, !.ceiling = -1],
    [OneConversation EXCEPT !.runs = 3, !.calls = <<1, 1>>, !.demands = 1, !.ceiling = 0,
       !.window = 12, !.recap = TRUE, !.mergeRecap = TRUE, !.cancels = 1, !.parts = 1, !.budget = 3],
    [OneConversation EXCEPT !.runs = 3, !.calls = <<2, 1>>, !.results = {1, 3}, !.demands = 2,
       !.ceiling = 0, !.window = 16, !.reuse = TRUE, !.keep = 2, !.fails = 1, !.budget = 4] }

\* The Tools: r, x and z read, w writes, m1 is of the ToolSet m.
ToolEffects == "r" :> 1 @@ "x" :> 1 @@ "z" :> 1 @@ "m1" :> 2 @@ "w" :> 3
ToolsOfSet == "m" :> {"m1"}

Profile(name, tools, supplies, cap, timeout, tokens) ==
  [name |-> name, tools |-> tools, sources |-> supplies, sets |-> {"m"}, cap |-> cap,
   timeout |-> timeout, tokens |-> tokens]

All == [all |-> TRUE, names |-> {}]
Just(names) == [all |-> FALSE, names |-> names]

Task(tools, sets, cap, timeout, tokens) ==
  [name |-> "t", profile |-> "p", tools |-> tools, sets |-> sets, cap |-> cap,
   timeout |-> timeout, tokens |-> tokens]

Definitions ==
  [profiles |-> {Profile("p", {"r", "w"}, TRUE, 0, 0, 0), Profile("p", {"r"}, FALSE, 2, 5, 3),
                 Profile("q", {"w"}, FALSE, 0, -1, 0)},
   tasks |-> {Task(Just({}), All, 0, 0, 2), Task(Just({"r"}), Just({}), 1, 3, 0)},
   timeouts |-> {}, registers |-> 0, shares |-> 0, saves |-> 0, creates |-> 1, runs |-> 1,
   follows |-> 0, forks |-> 0,
   deletes |-> 0, switches |-> 0]

MCProfileLoads ==
  { [Definitions EXCEPT !.registers = 2],
    [Definitions EXCEPT !.shares = 1, !.saves = 3],
    [Definitions EXCEPT !.profiles = {Profile("p", {"r", "w"}, TRUE, 2, 0, 0)},
       !.tasks = {Task(All, All, 1, 0, 0)}, !.registers = 1, !.runs = 2, !.switches = 2],
    [Definitions EXCEPT !.timeouts = {2, 7}, !.registers = 1, !.shares = 1, !.saves = 1,
       !.follows = 2],
    [Definitions EXCEPT !.profiles = {Profile("p", {"r", "z"}, FALSE, 2, 0, 0)},
       !.tasks = {Task(Just({}), All, 1, 0, 0)}, !.registers = 2, !.switches = 1, !.forks = 1,
       !.deletes = 1] }

Asked(first, second, third) ==
  [kind |-> "a" :> first @@ "b" :> second @@ "c" :> third, forwards |-> TRUE, resends |-> 1,
   drops |-> 0, crashes |-> 0, lapses |-> 0, drains |-> 0, fails |-> 0, cuts |-> 0, full |-> 0]

MCServingLoads ==
  { [Asked("run", "message", "none") EXCEPT !.cuts = 1, !.crashes = 1],
    [Asked("run", "message", "notice") EXCEPT !.resends = 0],
    [Asked("stream", "notice", "none") EXCEPT !.fails = 1, !.drains = 1],
    [Asked("message", "abort", "bad") EXCEPT !.full = 1, !.drops = 1],
    [Asked("run", "message", "none") EXCEPT !.forwards = FALSE, !.lapses = 1, !.fails = 1],
    [Asked("run", "message", "abort") EXCEPT !.forwards = FALSE, !.resends = 0, !.fails = 1],
    [Asked("run", "notice", "run") EXCEPT !.forwards = FALSE, !.resends = 0, !.crashes = 1] }

Hooks(hooks, advisory) == [named |-> hooks, typed |-> hooks, advisory |-> advisory]

Extended(extensions, fails, refusals, rewrites) ==
  [extensions |-> extensions, fails |-> fails, refusals |-> refusals, rewrites |-> rewrites,
   search |-> FALSE]

HookLoads ==
  { Extended(<<Hooks({"Before", "After", "Transform", "Advisory"}, "yes"),
               Hooks({"Before", "After", "Stop"}, "no")>>, 1, 0, 0),
    Extended(<<Hooks({"PrepareTurn", "Transform", "Convert"}, "no"),
               Hooks({"PrepareTurn", "Transform", "Advisory"}, "panics"),
               Hooks({"PrepareTurn", "Advisory"}, "yes")>>, 1, 2, 2),
    Extended(<<Hooks({"After"}, "no"),
               [Hooks({"Before", "After"}, "no") EXCEPT !.typed = {"After"}]>>, 0, 0, 0),
    [Extended(<<Hooks({"Before"}, "no"), Hooks({"After", "Stop", "Advisory"}, "yes")>>, 1, 0, 0)
       EXCEPT !.search = TRUE] }

\* Of the Tool IDs, the provider takes a_b, a_b_2 and c; the hash of a.b is 2.
ProviderName == "a_b" :> "a_b" @@ "a.b" :> "a_b" @@ "a/b" :> "a_b" @@ "a_b_2" :> "a_b_2" @@ "c" :> "c"
HashedName ==
  "a_b" :> "a_b_1" @@ "a.b" :> "a_b_2" @@ "a/b" :> "a_b_3" @@ "a_b_2" :> "a_b_2_4" @@ "c" :> "c_5"

NameLoads ==
  { <<"a.b", "a_b", "a/b", "c">>, <<"a/b", "a.b", "a.b">>, <<"a.b", "a_b", "c", "a_b", "a.b">>,
    <<"a.b", "a_b", "a_b_2">>, <<"a_b_2", "a.b", "c">> }

Line(text) == [kind |-> "text", line |-> [heading |-> FALSE, text |-> text]]
Heading(text) == [kind |-> "text", line |-> [heading |-> TRUE, text |-> text]]
Used(n) == [kind |-> "usage", usage |-> n]
Ended(stop, n) == [kind |-> "done", stop |-> stop, usage |-> n]
Happened == <<Heading("What happened"), Line("x")>>

Asking(kind, context, read) ==
  [kind |-> kind, model |-> TRUE, context |-> context, why |-> "tokens", messages |-> <<"m1", "m2">>,
   events |-> read, fails |-> 1, cancels |-> 1]

Recaps ==
  { Asking("none", "none", <<>>), Asking("truncate", "none", <<>>), Asking("host", "built", <<>>),
    Asking("model", "fails", <<>>), Asking("model", "none", <<>>),
    [Asking("model", "none", <<>>) EXCEPT !.why = "overflow"],
    [Asking("model", "built", <<>>) EXCEPT !.model = FALSE],
    Asking("model", "built", Happened \o <<Used(1), Ended("end", 2)>>),
    Asking("model", "built", Happened \o <<Used(1), Ended("max_tokens", 0)>>),
    Asking("model", "built", Happened \o <<[kind |-> "call"], Ended("end", 2)>>),
    Asking("model", "built", <<Heading("Key facts"), Heading("Else"), Ended("end", 1)>>),
    Asking("model", "built", Happened) }

SpillLoad(spills, closes, forks, prunes, deletes, reads) ==
  [results |-> spills, segments |-> closes, forks |-> forks, prunes |-> prunes,
   deletes |-> deletes, reads |-> reads, loads |-> 1]

SpillLoads ==
  { SpillLoad(3, 1, 0, 1, 0, 2), SpillLoad(3, 1, 1, 0, 1, 1), SpillLoad(2, 2, 1, 1, 1, 1) }

ListLoad(files, limit, stored, updates, creates, deletes, fails) ==
  [file |-> files, limit |-> limit, records |-> stored, updates |-> updates, creates |-> creates,
   deletes |-> deletes, fails |-> fails]

ListLoads ==
  { ListLoad(FALSE, 1, <<1, 1, 2, 0>>, 1, 1, 1, 0), ListLoad(TRUE, 2, <<2, 1, 1, 1>>, 1, 0, 1, 1),
    ListLoad(TRUE, 0, <<1, 1, 1, 1>>, 1, 0, 0, 0), ListLoad(FALSE, -1, <<1, 0, 0, 0>>, 0, 0, 0, 0) }

FileLoad(first, second, fails, crashes, cuts, sweeps) ==
  [calls |-> p1 :> first @@ p2 :> second, fails |-> fails, crashes |-> crashes, cuts |-> cuts,
   sweeps |-> sweeps]

FileLoads ==
  { FileLoad(<<"create">>, <<"create", "append">>, 1, 0, 1, 0),
    FileLoad(<<"create", "append", "append">>, <<"append">>, 0, 0, 1, 0),
    FileLoad(<<"create", "delete">>, <<"append", "create">>, 0, 1, 1, 1),
    FileLoad(<<"create", "delete">>, <<"append">>, 1, 0, 1, 0) }

-----------------------------------------------------------------------------

ASSUME LoopAssumption

B == INSTANCE ToolBatch WITH
       Workers <- 2, ToolLoads <- BatchLoads

M == INSTANCE McpToolSet WITH
              Lister <- {"l1", "l2", "l3"}, Caller <- {"c1"}, ran <- served, spare
       <- mcpLoad

C == INSTANCE ToolCatalog WITH
              ToolSet <- {"a", "b"}, SetTool <- {"a1", "b1", "b2"}, SetOf <- SetOfTool,
       Active <- {"a"},
       Capped <- {}, SuppliedTool <- {"s1"}, Bounds <- CatalogLoads

ASSUME B!BatchAssumption /\ M!McpAssumption /\ C!CatalogAssumption

ASSUME FeedAssumption

ASSUME StreamsAssumption

R == INSTANCE RecordFold WITH
       Tool <- {1}, Cap <- 12, left <- recordLoad

D == INSTANCE ModelStream WITH
       MaxRetries <- 1, stream <- wire, load <- modelLoad

P == INSTANCE Compaction WITH
              CompactLoads <- Conversations, Overhead <- 1, ReserveTokens <- 2,
       DefaultBudget <- 6,
       DefaultTail <- 4, MessageTokens <- 2, ToolLines <- 2, DigestRefs <- 1

ASSUME ProfilesAssumption

ASSUME ServingAssumption

X == INSTANCE Extensions WITH
              ExtensionLoads <- HookLoads, at <- hook, ran <- used, result <-
       answered, said <- heard

N == INSTANCE FunctionNames WITH
       Rewritten <- ProviderName, Hashed <- HashedName, names <- nameMap

K == INSTANCE Recap WITH
       RecapLoads <- Recaps, reply <- readReply

W == INSTANCE SpilledResults WITH
       CacheLimit <- 1, cache <- bodies, lost <- removed

I == INSTANCE Listing WITH
       Record <- 1 .. 4, DefaultLimit <- 3, Times <- 1 .. 2, names <- entry

F == INSTANCE FileStore WITH
       Proc <- {p1, p2}, Epoch <- {e1, e2}, Batches <- 3

-----------------------------------------------------------------------------

LoopRest == LoopInit /\ budget = LoopLoad(TRUE, {"p", "n"}, 0, TRUE, 0, 1, 0, 0)

BatchOff ==
  /\ step = Off /\ grouped = Off /\ upTo = Off /\ tool = Off /\ signals = Off
  /\ outcome = Off /\ ran = Off /\ results = Off /\ canceled = Off /\ left = Off

McpOff ==
  /\ server = Off /\ notices = Off /\ sessions = Off /\ conn = Off /\ gen = Off
  /\ told = Off /\ cache = Off /\ user = Off /\ served = Off /\ dials = Off
  /\ mcpLoad = Off

CatalogOff ==
  /\ resolved = Off /\ failed = Off /\ fresh = Off /\ sources = Off /\ kept = Off
  /\ loaded = Off /\ parked = Off /\ visible = Off /\ recorded = Off /\ phase = Off
  /\ bound = Off

FeedRest == FeedInit /\ load = FeedLoad(-1, FALSE, FALSE, FALSE, {}, 0, 5, 0, 0, 0, 0)

\* The streams have all their variables here: at rest they are as they start.
StreamsRest == Init /\ spare = StreamLoad("none", 2, 0, TRUE, TRUE)

RecordOff ==
  /\ log = Off /\ mem = Off /\ streaming = Off /\ started = Off /\ recordLoad = Off

ModelOff ==
  /\ pc = Off /\ sent = Off /\ tries = Off /\ restart = Off /\ next = Off
  /\ decoder = Off /\ wire = Off /\ reader = Off /\ ended = Off /\ result = Off
  /\ modelLoad = Off

CompactOff ==
  /\ entries = Off /\ pruned = Off /\ checkpoint = Off /\ tail = Off
  /\ segments = Off /\ closed = Off /\ session = Off /\ prepared = Off
  /\ events = Off /\ config = Off

ProfilesRest == ProfilesInit /\ profileLoad = [Definitions EXCEPT !.registers = 2]

ServingRest ==
  ServingInit /\ servingLoad = [Asked("run", "message", "notice") EXCEPT !.resends = 0]

HooksOff ==
  /\ hook = Off /\ chain = Off /\ transcript = Off /\ view = Off /\ turn = Off
  /\ used = Off /\ answered = Off /\ heard = Off /\ reports = Off /\ extLoad = Off

NamesOff ==
  /\ ids = Off /\ nameMap = Off /\ encoded = Off /\ naming = Off

RecapOff ==
  /\ writer = Off /\ request = Off /\ readReply = Off /\ recap = Off
  /\ recapLoad = Off

SpillOff ==
  /\ logs = Off /\ rec = Off /\ bodies = Off /\ pending = Off /\ said = Off
  /\ removed = Off /\ reading = Off /\ spillLoad = Off

ListingOff ==
  /\ infos = Off /\ entry = Off /\ found = Off /\ lister = Off /\ touched = Off
  /\ listLoad = Off

FileOff ==
  /\ top = Off /\ building = Off /\ batches = Off /\ synced = Off /\ proc = Off
  /\ acked = Off /\ deleted = Off /\ early = Off /\ plan = Off

Parts ==
  /\ part \in {"loop", "batch", "mcp", "catalog", "feed", "streams", "record", "model", "compact", "profiles", "serving", "hooks", "names", "recap", "spill", "listing", "file"}
  /\ IF part = "loop" THEN LoopInit ELSE LoopRest
  /\ IF part = "batch" THEN B!BatchInit ELSE BatchOff
  /\ IF part = "mcp" THEN M!McpInit ELSE McpOff
  /\ IF part = "catalog" THEN C!CatalogInit ELSE CatalogOff
  /\ IF part = "feed" THEN FeedInit ELSE FeedRest
  /\ IF part = "streams" THEN Init ELSE StreamsRest
  /\ IF part = "record" THEN R!Init ELSE RecordOff
  /\ IF part = "model" THEN D!Init ELSE ModelOff
  /\ IF part = "compact" THEN P!Init ELSE CompactOff
  /\ IF part = "profiles" THEN ProfilesInit ELSE ProfilesRest
  /\ IF part = "serving" THEN ServingInit ELSE ServingRest
  /\ IF part = "hooks" THEN X!Init ELSE HooksOff
  /\ IF part = "names" THEN N!Init ELSE NamesOff
  /\ IF part = "recap" THEN K!Init ELSE RecapOff
  /\ IF part = "spill" THEN W!Init ELSE SpillOff
  /\ IF part = "listing" THEN I!Init ELSE ListingOff
  /\ IF part = "file" THEN F!Init ELSE FileOff

batchVars == <<step, grouped, upTo, tool, signals, outcome, ran, results, canceled,
  left>>

mcpVars == <<server, notices, sessions, conn, gen, told, cache, user, served, dials,
  mcpLoad>>

catalogVars == <<resolved, failed, fresh, sources, kept, loaded, parked, visible,
  recorded, phase, bound>>

streamsVars == <<epoch, newest, stream, starts, over, op, refs, spare>>

recordVars == <<log, mem, streaming, started, recordLoad>>

modelVars == <<pc, sent, tries, restart, next, decoder, wire, reader, ended, result,
  modelLoad>>

compactVars == <<entries, pruned, checkpoint, tail, segments, closed, session,
  prepared, events, config>>

hooksVars == <<hook, chain, transcript, view, turn, used, answered, heard, reports,
  extLoad>>

namesVars == <<ids, nameMap, encoded, naming>>

recapVars == <<writer, request, readReply, recap, recapLoad>>

spillVars == <<logs, rec, bodies, pending, said, removed, reading, spillLoad>>

listingVars == <<infos, entry, found, lister, touched, listLoad>>

fileVars == <<top, building, batches, synced, proc, acked, deleted, early, plan>>

allVars ==
  <<part, loopVars, batchVars, mcpVars, catalogVars, feedVars, streamsVars, recordVars, modelVars, compactVars, profileVars, servingVars, hooksVars, namesVars, recapVars, spillVars, listingVars, fileVars>>

PartsNext ==
  \/ /\ part = "loop" /\ LoopNext
     /\ UNCHANGED <<part, batchVars, mcpVars, catalogVars, feedVars, streamsVars, recordVars, modelVars, compactVars, profileVars, servingVars, hooksVars, namesVars, recapVars, spillVars, listingVars, fileVars>>
  \/ /\ part = "batch" /\ B!BatchNext
     /\ UNCHANGED <<part, loopVars, mcpVars, catalogVars, feedVars, streamsVars, recordVars, modelVars, compactVars, profileVars, servingVars, hooksVars, namesVars, recapVars, spillVars, listingVars, fileVars>>
  \/ /\ part = "mcp" /\ M!McpNext
     /\ UNCHANGED <<part, loopVars, batchVars, catalogVars, feedVars, streamsVars, recordVars, modelVars, compactVars, profileVars, servingVars, hooksVars, namesVars, recapVars, spillVars, listingVars, fileVars>>
  \/ /\ part = "catalog" /\ C!CatalogNext
     /\ UNCHANGED <<part, loopVars, batchVars, mcpVars, feedVars, streamsVars, recordVars, modelVars, compactVars, profileVars, servingVars, hooksVars, namesVars, recapVars, spillVars, listingVars, fileVars>>
  \/ /\ part = "feed" /\ FeedNext
     /\ UNCHANGED <<part, loopVars, batchVars, mcpVars, catalogVars, streamsVars, recordVars, modelVars, compactVars, profileVars, servingVars, hooksVars, namesVars, recapVars, spillVars, listingVars, fileVars>>
  \/ /\ part = "streams" /\ Next
     /\ UNCHANGED <<part, loopVars, batchVars, mcpVars, catalogVars, feedVars, recordVars, modelVars, compactVars, profileVars, servingVars, hooksVars, namesVars, recapVars, spillVars, listingVars, fileVars>>
  \/ /\ part = "record" /\ R!Next
     /\ UNCHANGED <<part, loopVars, batchVars, mcpVars, catalogVars, feedVars, streamsVars, modelVars, compactVars, profileVars, servingVars, hooksVars, namesVars, recapVars, spillVars, listingVars, fileVars>>
  \/ /\ part = "model" /\ D!Next
     /\ UNCHANGED <<part, loopVars, batchVars, mcpVars, catalogVars, feedVars, streamsVars, recordVars, compactVars, profileVars, servingVars, hooksVars, namesVars, recapVars, spillVars, listingVars, fileVars>>
  \/ /\ part = "compact" /\ P!Next
     /\ UNCHANGED <<part, loopVars, batchVars, mcpVars, catalogVars, feedVars, streamsVars, recordVars, modelVars, profileVars, servingVars, hooksVars, namesVars, recapVars, spillVars, listingVars, fileVars>>
  \/ /\ part = "profiles" /\ ProfilesNext
     /\ UNCHANGED <<part, loopVars, batchVars, mcpVars, catalogVars, feedVars, streamsVars, recordVars, modelVars, compactVars, servingVars, hooksVars, namesVars, recapVars, spillVars, listingVars, fileVars>>
  \/ /\ part = "serving" /\ ServingNext
     /\ UNCHANGED <<part, loopVars, batchVars, mcpVars, catalogVars, feedVars, streamsVars, recordVars, modelVars, compactVars, profileVars, hooksVars, namesVars, recapVars, spillVars, listingVars, fileVars>>
  \/ /\ part = "hooks" /\ X!Next
     /\ UNCHANGED <<part, loopVars, batchVars, mcpVars, catalogVars, feedVars, streamsVars, recordVars, modelVars, compactVars, profileVars, servingVars, namesVars, recapVars, spillVars, listingVars, fileVars>>
  \/ /\ part = "names" /\ N!Next
     /\ UNCHANGED <<part, loopVars, batchVars, mcpVars, catalogVars, feedVars, streamsVars, recordVars, modelVars, compactVars, profileVars, servingVars, hooksVars, recapVars, spillVars, listingVars, fileVars>>
  \/ /\ part = "recap" /\ K!Next
     /\ UNCHANGED <<part, loopVars, batchVars, mcpVars, catalogVars, feedVars, streamsVars, recordVars, modelVars, compactVars, profileVars, servingVars, hooksVars, namesVars, spillVars, listingVars, fileVars>>
  \/ /\ part = "spill" /\ W!Next
     /\ UNCHANGED <<part, loopVars, batchVars, mcpVars, catalogVars, feedVars, streamsVars, recordVars, modelVars, compactVars, profileVars, servingVars, hooksVars, namesVars, recapVars, listingVars, fileVars>>
  \/ /\ part = "listing" /\ I!Next
     /\ UNCHANGED <<part, loopVars, batchVars, mcpVars, catalogVars, feedVars, streamsVars, recordVars, modelVars, compactVars, profileVars, servingVars, hooksVars, namesVars, recapVars, spillVars, fileVars>>
  \/ /\ part = "file" /\ F!Next
     /\ UNCHANGED <<part, loopVars, batchVars, mcpVars, catalogVars, feedVars, streamsVars, recordVars, modelVars, compactVars, profileVars, servingVars, hooksVars, namesVars, recapVars, spillVars, listingVars>>

\* What the programs do by themselves goes on: of each part, all but the calls,
\* failures and changes that come from outside.
PartsGo ==
  \/ /\ part = "loop" /\ (Loop \/ Callers)
     /\ UNCHANGED <<part, batchVars, mcpVars, catalogVars, feedVars, streamsVars, recordVars, modelVars, compactVars, profileVars, servingVars, hooksVars, namesVars, recapVars, spillVars, listingVars, fileVars>>
  \/ /\ part = "batch" /\ B!BatchGoes
     /\ UNCHANGED <<part, loopVars, mcpVars, catalogVars, feedVars, streamsVars, recordVars, modelVars, compactVars, profileVars, servingVars, hooksVars, namesVars, recapVars, spillVars, listingVars, fileVars>>
  \/ /\ part = "mcp" /\ M!McpGoes
     /\ UNCHANGED <<part, loopVars, batchVars, catalogVars, feedVars, streamsVars, recordVars, modelVars, compactVars, profileVars, servingVars, hooksVars, namesVars, recapVars, spillVars, listingVars, fileVars>>
  \/ /\ part = "catalog" /\ C!CatalogGoes
     /\ UNCHANGED <<part, loopVars, batchVars, mcpVars, feedVars, streamsVars, recordVars, modelVars, compactVars, profileVars, servingVars, hooksVars, namesVars, recapVars, spillVars, listingVars, fileVars>>
  \/ /\ part = "feed" /\ FeedGoes
     /\ UNCHANGED <<part, loopVars, batchVars, mcpVars, catalogVars, streamsVars, recordVars, modelVars, compactVars, profileVars, servingVars, hooksVars, namesVars, recapVars, spillVars, listingVars, fileVars>>
  \/ /\ part = "streams" /\ Goes
     /\ UNCHANGED <<part, loopVars, batchVars, mcpVars, catalogVars, feedVars, recordVars, modelVars, compactVars, profileVars, servingVars, hooksVars, namesVars, recapVars, spillVars, listingVars, fileVars>>
  \/ /\ part = "model" /\ D!Goes
     /\ UNCHANGED <<part, loopVars, batchVars, mcpVars, catalogVars, feedVars, streamsVars, recordVars, compactVars, profileVars, servingVars, hooksVars, namesVars, recapVars, spillVars, listingVars, fileVars>>
  \/ /\ part = "compact" /\ P!Works
     /\ UNCHANGED <<part, loopVars, batchVars, mcpVars, catalogVars, feedVars, streamsVars, recordVars, modelVars, profileVars, servingVars, hooksVars, namesVars, recapVars, spillVars, listingVars, fileVars>>
  \/ /\ part = "profiles" /\ Serves
     /\ UNCHANGED <<part, loopVars, batchVars, mcpVars, catalogVars, feedVars, streamsVars, recordVars, modelVars, compactVars, servingVars, hooksVars, namesVars, recapVars, spillVars, listingVars, fileVars>>
  \/ /\ part = "serving" /\ ServingGoes
     /\ UNCHANGED <<part, loopVars, batchVars, mcpVars, catalogVars, feedVars, streamsVars, recordVars, modelVars, compactVars, profileVars, hooksVars, namesVars, recapVars, spillVars, listingVars, fileVars>>
  \/ /\ part = "hooks" /\ X!Goes
     /\ UNCHANGED <<part, loopVars, batchVars, mcpVars, catalogVars, feedVars, streamsVars, recordVars, modelVars, compactVars, profileVars, servingVars, namesVars, recapVars, spillVars, listingVars, fileVars>>
  \/ /\ part = "names" /\ N!Goes
     /\ UNCHANGED <<part, loopVars, batchVars, mcpVars, catalogVars, feedVars, streamsVars, recordVars, modelVars, compactVars, profileVars, servingVars, hooksVars, recapVars, spillVars, listingVars, fileVars>>
  \/ /\ part = "recap" /\ K!Goes
     /\ UNCHANGED <<part, loopVars, batchVars, mcpVars, catalogVars, feedVars, streamsVars, recordVars, modelVars, compactVars, profileVars, servingVars, hooksVars, namesVars, spillVars, listingVars, fileVars>>
  \/ /\ part = "spill" /\ W!Goes
     /\ UNCHANGED <<part, loopVars, batchVars, mcpVars, catalogVars, feedVars, streamsVars, recordVars, modelVars, compactVars, profileVars, servingVars, hooksVars, namesVars, recapVars, listingVars, fileVars>>
  \/ /\ part = "listing" /\ I!Goes
     /\ UNCHANGED <<part, loopVars, batchVars, mcpVars, catalogVars, feedVars, streamsVars, recordVars, modelVars, compactVars, profileVars, servingVars, hooksVars, namesVars, recapVars, spillVars, fileVars>>
  \/ /\ part = "file" /\ F!Goes
     /\ UNCHANGED <<part, loopVars, batchVars, mcpVars, catalogVars, feedVars, streamsVars, recordVars, modelVars, compactVars, profileVars, servingVars, hooksVars, namesVars, recapVars, spillVars, listingVars>>

PartsSpec == Parts /\ [][PartsNext]_allVars /\ WF_allVars(PartsGo)

-----------------------------------------------------------------------------

\* ToolBatch: every call gets one result, in order, and one that says that the
\* Tool was not executed is of a Tool that did not run.  McpToolSet: a list is not
\* kept beyond the notice that it changed, a call runs once at the server, and no
\* client session is left open.  ToolCatalog: a Tool that the Model loaded is there
\* while its ToolSet has it.  Extensions: a Tool runs when every hook let it pass,
\* and its result says what Core knows of it.
ToolsAreServed ==
  /\ part = "batch" => B!EveryCallAnswered /\ B!NotExecutedDidNotRun
  /\ part = "mcp" => M!CachedListIsCurrent /\ M!CallsRunOnce /\ M!NoSessionLeaks
  /\ part = "catalog" => C!LoadedToolsComeBack
  /\ part = "hooks" => X!HooksHold

\* ModelStream: a reply is of one attempt, whatever was sent before.
\* FunctionNames: it calls the Tools that the Model named.
RepliesAreTheModels ==
  /\ part = "model" => D!ReplyIsOneAttempt
  /\ part = "names" => N!CallsNameTheirTool /\ N!RefusedForHashesOnly

\* Compaction: what was said is in the tail or read back by what a Segment shows.
\* Recap: a Recap is a whole reply.  SpilledResults: a result reads back as it was,
\* in a fork too.
ConversationIsKept ==
  /\ part = "compact" => P!ConversationIsKept
  /\ part = "recap" => K!RecapsAreWhole
  /\ part = "spill" => W!ResultsReadBack


\* What was begun ends, in the part that goes: the Session closes when it is told
\* to, the batch, the calls and the subscription end, and no stream is left behind.
PartsEnd ==
  <>[]CASE part = "loop" -> SessionEnds
        [] part = "batch" -> B!BatchEnds
        [] part = "mcp" -> M!McpCallsEnd
        [] part = "feed" -> SubscriptionSettles
        [] part = "streams" -> StreamsSettle
        [] part = "model" -> D!ModelCallEnds
        [] part = "compact" -> P!CompactionsEnd
        [] part = "profiles" -> ProfilesSettle
        [] part = "serving" -> ServingSettles
        [] part = "hooks" -> X!TurnEnds
        [] part = "names" -> N!NamesEnd
        [] part = "recap" -> K!RecapEnds
        [] part = "spill" -> W!SpillsAreStored
        [] part = "listing" -> I!ListingEnds
        [] part = "file" -> F!FileCallsEnd
        [] OTHER -> TRUE
=============================================================================
