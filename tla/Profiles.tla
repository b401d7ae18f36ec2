------------------------------ MODULE Profiles ------------------------------
(***************************************************************************)
(* AgentProfiles and TaskSpecs, the Sessions opened for them and the Tools *)
(* a Run offers: profile/registry.go, task_spec*.go, agent_profile*.go,    *)
(* catalog.go, store/definitions*.go, host/profiles.go, host/build.go and  *)
(* host/tools.go, with what runopen.go and lifecycle.go do with them.      *)
(*                                                                         *)
(* A name is registered with a value or with a store of documents, which   *)
(* the service rewrites while Sessions run.  A Session opened for a        *)
(* TaskSpec keeps the TaskSpec as a document in its Record and is rebuilt  *)
(* from it, on any Instance, over the AgentProfile of that moment.         *)
(*                                                                         *)
(* The set {x} is an answer, {} is a refusal or nothing.  A Run holds its  *)
(* Session alone (SessionClaims, HostRuns), so what is done under the lock *)
(* is one step; a lookup made before it is a step of its own.              *)
(***************************************************************************)
EXTENDS Integers, FiniteSets

CONSTANTS
  Instance,        \* the Instances, each with a Registry
  Session,         \* the Session IDs
  Effect,          \* the effect of a Tool: 1 reads, more writes
  SetTools,        \* the Tools of a ToolSet
  SourceTool,      \* the Tools that a ToolSource may supply
  CatalogNames,    \* the names of Tools and ToolSets in the Catalog
  DefaultTimeout,  \* DefaultRunTimeout
  ModelTokens,     \* the output limit of the Model
  ProfileLoads     \* the definitions a service has and what may happen

VARIABLES
  registry,   \* of an Instance: where a name comes from
  docs,       \* store.Definitions: the document of an AgentProfile or TaskSpec
  records,    \* the metadata of a Session, {} when there is none
  asked,      \* history: the TaskSpec that a Session was opened for
  live,       \* the Session's Run: what it was built from and offers
  call,       \* a CreateSession or SetToolActive between its lookup and write
  profileLoad  \* what may still happen

profileVars == <<registry, docs, records, asked, live, call, profileLoad>>

None == [at |-> "none"]

\* A list of names to keep, nil for all of them.
KeepAll == [all |-> TRUE, names |-> {}]
Keep(names) == [all |-> FALSE, names |-> names]

The(answer) == CHOOSE x \in answer : TRUE

\* The Tools there are.
Tool == DOMAIN Effect

\* A list is nil, or has some names or none.
NameList == {k \in [all : BOOLEAN, names : SUBSET (Tool \cup DOMAIN SetTools)] : k.all => k.names = {}}

Name == UNION {{d.name : d \in l.profiles \cup l.tasks} : l \in ProfileLoads}

Agents == [name : Name, tools : SUBSET Tool, sources : BOOLEAN, sets : SUBSET DOMAIN SetTools,
           cap : Nat, timeout : Int, tokens : Nat]

\* As TaskSpec.validate leaves them: no deadline is negative.
Tasks == [name : Name, profile : Name, tools : NameList, sets : NameList, cap : Nat,
          timeout : Nat, tokens : Nat]

\* timeouts: what a RunRequest may bring; one that is negative is refused (run.go).
ProfileLoad == [profiles : SUBSET Agents, tasks : SUBSET Tasks, timeouts : SUBSET Nat, registers : Nat,
                shares : Nat, saves : Nat, creates : Nat, runs : Nat, follows : Nat, forks : Nat,
                deletes : Nat, switches : Nat]

ProfilesAssumption ==
  /\ Effect \in [Tool -> Nat] /\ SourceTool \subseteq Tool
  /\ SetTools \in [DOMAIN SetTools -> SUBSET Tool]
  /\ DefaultTimeout \in Nat /\ ModelTokens \in Nat
  /\ ProfileLoads \subseteq ProfileLoad
  /\ \A l \in ProfileLoads : \A t \in l.tasks : \E p \in l.profiles : p.name = t.profile

-----------------------------------------------------------------------------
(* Documents.                                                              *)

\* EncodeAgentProfile and DecodeAgentProfile: data only, so no ToolSource, and
\* the names it has are the Catalog's.
EncodeAgentProfile(p) == IF p.sources THEN {} ELSE {p}

DecodeAgentProfile(doc) == {p \in {doc} : p.tools \cup p.sets \subseteq CatalogNames}

\* Null for nil, and an empty list for one that keeps none.
ListOf(k) == IF k.all THEN {} ELSE {k.names}

EncodeTaskSpec(t) == [t EXCEPT !.tools = ListOf(@), !.sets = ListOf(@)]

DecodeTaskSpec(doc) ==
  LET kept(list) == IF list = {} THEN KeepAll ELSE Keep(The(list))
  IN [doc EXCEPT !.tools = kept(@), !.sets = kept(@)]

-----------------------------------------------------------------------------
(* Registry.                                                               *)

\* Where a name comes from: a value, or the store.
Inline(value) == [at |-> "inline", value |-> value]
Stored == [at |-> "store"]

AgentProfile(i, name) ==
  LET src == registry[i].agents[name]
  IN CASE src.at = "none" -> {}
       [] src.at = "inline" -> {src.value}
       [] src.at = "store" -> UNION {DecodeAgentProfile(d) : d \in docs.agents[name]}

TaskSpec(i, name) ==
  LET src == registry[i].tasks[name]
  IN CASE src.at = "none" -> {}
       [] src.at = "inline" -> {src.value}
       [] src.at = "store" -> {DecodeTaskSpec(d) : d \in docs.tasks[name]}

\* The deadline that p gives; a negative RunTimeout is none.
RunTimeout(p) == IF p.timeout = 0 THEN DefaultTimeout ELSE p.timeout

\* promptWithDeadline: the Timeout of the request, or what p gives.
RunDeadline(p, timeout) == IF timeout > 0 THEN timeout ELSE RunTimeout(p)

\* The output limit that a Session of p sends, 0 for none.
MaxTokens(p) == IF p.tokens > 0 THEN p.tokens ELSE ModelTokens

\* ToolEffect.Within; 0 is no cap.
Within(effect, cap) == cap = 0 \/ effect <= cap

\* TaskSpec.Narrow: t says less than p, in every bound it sets.
Narrow(t, p) ==
  /\ t.tools.names \subseteq p.tools
  /\ t.sets.names \subseteq p.sets
  /\ t.cap = 0 \/ Within(t.cap, p.cap)
  /\ t.timeout = 0 \/ RunTimeout(p) < 0 \/ t.timeout <= RunTimeout(p)
  /\ t.tokens = 0 \/ MaxTokens(p) = 0 \/ t.tokens <= MaxTokens(p)

\* TaskSpec.Apply: p as t runs it.
Apply(t, p) ==
  [p EXCEPT !.tools = IF t.tools.all THEN @ ELSE @ \cap t.tools.names,
            !.sources = @ /\ t.tools.all,
            !.sets = IF t.sets.all THEN @ ELSE @ \cap t.sets.names,
            !.cap = IF t.cap = 0 THEN @ ELSE t.cap,
            !.timeout = IF t.timeout = 0 THEN @ ELSE t.timeout,
            !.tokens = IF t.tokens = 0 THEN @ ELSE t.tokens]

Narrowed(i, t) == {Apply(t, p) : p \in {q \in AgentProfile(i, t.profile) : Narrow(t, q)}}

\* agentOf: as the TaskSpec of the Record narrows it, not the registered one.
AgentOf(i, r) ==
  IF r.task = {} THEN AgentProfile(i, r.agent)
  ELSE UNION {Narrowed(i, DecodeTaskSpec(d)) : d \in r.task}

\* resolveAgent: a Session of a TaskSpec keeps its AgentProfile.
ResolveAgent(i, r, agent) ==
  CASE agent = "" -> AgentOf(i, r)
    [] agent /= "" /\ r.task /= {} -> {}
    [] agent /= "" /\ r.task = {} -> AgentProfile(i, agent)

-----------------------------------------------------------------------------
(* Tools.                                                                  *)

ToolsOfSets(sets) == UNION {SetTools[n] : n \in sets}

\* sessionTools.allowed and active.
Allowed(p, tool) == Within(Effect[tool], p.cap)
ToolActive(r, tool) == tool \notin r.off

\* sessionTools.Tools and the ToolSets, as a Turn sees them: the Tools of p and
\* of its sources within the cap, less the ones the Session switched off.
Offered(p, r, supplied) ==
  {tool \in p.tools \cup supplied \cup ToolsOfSets(p.sets) : Allowed(p, tool) /\ ToolActive(r, tool)}

Supplied(p) == IF p.sources THEN SUBSET SourceTool ELSE {{}}

\* What SetToolActive finds: a Tool of the Agent or of one of its ToolSets.
Found(p, supplied) == {tool \in p.tools \cup supplied \cup ToolsOfSets(p.sets) : Allowed(p, tool)}

-----------------------------------------------------------------------------

ProfilesInit ==
  \E l \in ProfileLoads :
    /\ registry = [i \in Instance |->
         [agents |-> [n \in {p.name : p \in l.profiles} |-> None],
          tasks |-> [n \in {t.name : t \in l.tasks} |-> None]]]
    /\ docs = [agents |-> [n \in {p.name : p \in l.profiles} |-> {}],
               tasks |-> [n \in {t.name : t \in l.tasks} |-> {}]]
    /\ records = [s \in Session |-> {}]
    /\ asked = [s \in Session |-> {}]
    /\ live = [s \in Session |-> {}]
    /\ call = None
    /\ profileLoad = l

Use(what) == profileLoad[what] > 0 /\ profileLoad' = [profileLoad EXCEPT ![what] = @ - 1]

RegisterAgentProfileInline(i) ==
  /\ Use("registers")
  /\ \E p \in profileLoad.profiles : registry' = [registry EXCEPT ![i].agents[p.name] = Inline(p)]
  /\ UNCHANGED <<docs, records, asked, live, call>>

RegisterTaskSpecInline(i) ==
  /\ Use("registers")
  /\ \E t \in profileLoad.tasks : registry' = [registry EXCEPT ![i].tasks[t.name] = Inline(t)]
  /\ UNCHANGED <<docs, records, asked, live, call>>

\* RegisterAgentProfileWithStore and RegisterTaskSpecWithStore, at the start of
\* every Instance: the document is read at every lookup.
RegisterWithStore ==
  /\ Use("shares")
  /\ registry' = [i \in Instance |->
       [agents |-> [n \in DOMAIN docs.agents |-> Stored], tasks |-> [n \in DOMAIN docs.tasks |-> Stored]]]
  /\ UNCHANGED <<docs, records, asked, live, call>>

\* SaveDefinition replaces a document in one step.
SaveAgentProfile ==
  /\ Use("saves")
  /\ \E p \in profileLoad.profiles : \E d \in EncodeAgentProfile(p) :
       docs' = [docs EXCEPT !.agents[p.name] = {d}]
  /\ UNCHANGED <<registry, records, asked, live, call>>

SaveTaskSpec ==
  /\ Use("saves")
  /\ \E t \in profileLoad.tasks : docs' = [docs EXCEPT !.tasks[t.name] = {EncodeTaskSpec(t)}]
  /\ UNCHANGED <<registry, records, asked, live, call>>

-----------------------------------------------------------------------------
(* Sessions.                                                               *)

\* buildSession and promptWithDeadline: the Run keeps the profile it was built from,
\* and has the deadline of then.  History: the AgentProfile as the lookup gave it
\* (base), and whether it runs the prompt of a request or a message left by another.
Build(i, p, timeout, from) ==
  {[inst |-> i, spec |-> p, base |-> The(AgentProfile(i, p.name)), timeout |-> timeout,
    deadline |-> RunDeadline(p, timeout), from |-> from, offered |-> {}]}

Timeout == {0} \cup profileLoad.timeouts

\* resolveTask: the TaskSpec of CreateSession, or of a Run that opens a Session
\* (runs): a registered one, one the request carries, or none and an Agent.
ResolveTask(i, s) ==
  /\ call.at = "none" /\ Use("creates")
  /\ \E runs \in BOOLEAN, timeout \in Timeout :
       LET opens(task, agent) ==
             call' = [at |-> "create", inst |-> i, session |-> s, runs |-> runs, timeout |-> timeout,
                      task |-> task, agent |-> agent]
       IN /\ runs \/ timeout = 0
          /\ \/ \E n \in DOMAIN registry[i].tasks : \E t \in TaskSpec(i, n) : opens({t}, "")
             \/ \E t \in profileLoad.tasks : opens({t}, "")
             \/ \E n \in DOMAIN registry[i].agents : opens({}, n)
  /\ UNCHANGED <<registry, docs, records, asked, live>>

\* newSession and create: the profile is checked before anything is written, and
\* an ID that is taken is refused.
NewSession ==
  /\ call.at = "create"
  /\ LET i == call.inst
         s == call.session
         found == IF call.task = {} THEN AgentProfile(i, call.agent)
                  ELSE UNION {Narrowed(i, t) : t \in call.task}
     IN IF found = {} \/ records[s] /= {} THEN UNCHANGED <<records, asked, live>>
        ELSE /\ records' = [records EXCEPT ![s] =
                  {[agent |-> The(found).name, task |-> {EncodeTaskSpec(t) : t \in call.task}, off |-> {}]}]
             /\ asked' = [asked EXCEPT ![s] = call.task]
             /\ live' = IF call.runs THEN [live EXCEPT ![s] = Build(i, The(found), call.timeout, "request")]
                        ELSE live
  /\ call' = None
  /\ UNCHANGED <<registry, docs, profileLoad>>

\* openSession, resolveAgent, applyUpdate and startRun of a Run of an existing
\* Session, whose Agent the request may change.
OpenRun(i, s) ==
  /\ live[s] = {} /\ records[s] /= {} /\ Use("runs")
  /\ \E agent \in {""} \cup DOMAIN registry[i].agents, timeout \in Timeout :
       LET found == ResolveAgent(i, The(records[s]), agent)
       IN IF found = {} THEN UNCHANGED <<records, live>>
          ELSE /\ records' = [records EXCEPT ![s] = {[The(@) EXCEPT !.agent = The(found).name]}]
               /\ live' = [live EXCEPT ![s] = Build(i, The(found), timeout, "request")]
  /\ UNCHANGED <<registry, docs, asked, call>>

\* Wrong: the request of the Run that left the messages bounds them too.
FollowTimeoutKept(l) == l.timeout

\* The request of a Run that follows has a Session and a prompt alone.
FollowTimeout(l) == 0

\* followOn: a Run of the messages that one left, with no Timeout and no Agent of a
\* request: the Agent is the one the Record names, looked up again.
FollowOn(s) ==
  /\ live[s] /= {} /\ Use("follows")
  /\ LET l == The(live[s])
         found == AgentOf(l.inst, The(records[s]))
     IN live' = [live EXCEPT ![s] =
                   IF found = {} THEN {} ELSE Build(l.inst, The(found), FollowTimeout(l), "left")]
  /\ UNCHANGED <<registry, docs, records, asked, call>>

\* The Tools are read again at the start of a Turn.
Turn(s) ==
  /\ live[s] /= {}
  /\ LET l == The(live[s])
     IN \E supplied \in Supplied(l.spec) :
          live' = [live EXCEPT ![s] = {[l EXCEPT !.offered = Offered(l.spec, The(records[s]), supplied)]}]
  /\ UNCHANGED <<registry, docs, records, asked, call, profileLoad>>

RunEnds(s) ==
  /\ live[s] /= {}
  /\ live' = [live EXCEPT ![s] = {}]
  /\ UNCHANGED <<registry, docs, records, asked, call, profileLoad>>

\* Fork: the child has its parent's metadata.
Fork(s, child) ==
  /\ records[s] /= {} /\ records[child] = {} /\ Use("forks")
  /\ records' = [records EXCEPT ![child] = records[s]]
  /\ asked' = [asked EXCEPT ![child] = asked[s]]
  /\ UNCHANGED <<registry, docs, live, call>>

DeleteSession(s) ==
  /\ records[s] /= {} /\ live[s] = {} /\ Use("deletes")
  /\ records' = [records EXCEPT ![s] = {}]
  /\ asked' = [asked EXCEPT ![s] = {}]
  /\ UNCHANGED <<registry, docs, live, call>>

\* SetToolActive looks the Tool up before the Session lock.
FindTool(i, s) ==
  /\ call.at = "none" /\ records[s] /= {} /\ Use("switches")
  /\ \E p \in AgentOf(i, The(records[s])) : \E supplied \in Supplied(p) :
       \E tool \in Found(p, supplied), on \in BOOLEAN :
         call' = [at |-> "switch", inst |-> i, session |-> s, tool |-> tool, on |-> on]
  /\ UNCHANGED <<registry, docs, records, asked, live>>

\* And writes the switch under it; a Run in flight makes it busy.
SetToolActive ==
  /\ call.at = "switch"
  /\ records' = IF live[call.session] /= {} THEN records
                ELSE [records EXCEPT ![call.session] =
                        {[r EXCEPT !.off = IF call.on THEN @ \ {call.tool} ELSE @ \cup {call.tool}] : r \in @}]
  /\ call' = None
  /\ UNCHANGED <<registry, docs, asked, live, profileLoad>>

Serves == NewSession \/ SetToolActive \/ (\E s \in Session : RunEnds(s))

ProfilesNext ==
  \/ Serves
  \/ RegisterWithStore \/ SaveAgentProfile \/ SaveTaskSpec
  \/ \E i \in Instance : RegisterAgentProfileInline(i) \/ RegisterTaskSpecInline(i)
  \/ \E i \in Instance, s \in Session : ResolveTask(i, s) \/ OpenRun(i, s) \/ FindTool(i, s)
  \/ \E s \in Session : FollowOn(s) \/ Turn(s) \/ DeleteSession(s)
  \/ \E s, child \in Session : Fork(s, child)

ProfilesSpec == ProfilesInit /\ [][ProfilesNext]_profileVars /\ WF_profileVars(Serves)

-----------------------------------------------------------------------------

\* A deadline or limit that is no longer; a value of zero or less is none.
Shorter(a, b) == b <= 0 \/ (a > 0 /\ a <= b)

\* A Run of a Session that was opened for a TaskSpec is the AgentProfile of that
\* moment as the TaskSpec, as it was then, narrows it (taskRun, host/profiles.go),
\* however often definitions change, the Session moves or is forked: it is given
\* no Tool, cap or limit beyond the profile's, and no deadline beyond the profile's
\* or the TaskSpec's but the one its own request brings.  A Run that follows with the
\* messages of another is not under that request's (promptWithDeadline, followOn).
TasksKeepTheirBounds ==
  \A s \in Session : \A l \in live[s], t \in asked[s] :
    /\ l.spec = Apply(t, l.base)
    /\ l.spec.tools \subseteq l.base.tools /\ l.spec.sets \subseteq l.base.sets
    /\ l.from = "left" \/ l.timeout = 0 =>
         Shorter(l.deadline, RunTimeout(l.base)) /\ Shorter(l.deadline, t.timeout)
    /\ Shorter(MaxTokens(l.spec), MaxTokens(l.base))
    /\ \A r \in records[s] : r.agent = t.profile

\* A Tool above the cap of the AgentProfile, or of the TaskSpec, or one that the
\* Session switched off, is not offered (sessionTools), and a TaskSpec that names
\* Tools is offered no other Go Tool.
OfferedToolsAreAllowed ==
  \A s \in Session : \A l \in live[s], r \in records[s] : \A tool \in l.offered :
    /\ tool \notin r.off /\ Within(Effect[tool], l.base.cap)
    /\ \A t \in asked[s] :
         /\ t.cap = 0 \/ Effect[tool] <= t.cap
         /\ t.tools.all \/ tool \in t.tools.names \cup ToolsOfSets(l.base.sets)

\* What a definition says of a Session.
DefinitionsHold == TasksKeepTheirBounds /\ OfferedToolsAreAllowed

\* No call is left open and no Run goes on for good.
ProfilesSettle == call = None /\ \A s \in Session : live[s] = {}
=============================================================================
