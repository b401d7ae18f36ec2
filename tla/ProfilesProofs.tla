--------------------------- MODULE ProfilesProofs ---------------------------
(***************************************************************************)
(* A Run is what its AgentProfile and the TaskSpec of its Session say, for *)
(* any definitions, any Instances and Sessions, and any order of saves,    *)
(* registrations, Runs, forks and switches.  Its Tools: the ToolSet of an  *)
(* MCP server, and the Tools that the Model loaded from the catalog.       *)
(***************************************************************************)
EXTENDS Profiles, McpToolSet, ToolCatalog, TLAPS

-----------------------------------------------------------------------------
(* What the definitions are.                                               *)

\* The names that AgentProfiles and TaskSpecs are registered and saved under.
AgentNames == {p.name : p \in profileLoad.profiles}
TaskNames == {t.name : t \in profileLoad.tasks}

\* The TaskSpecs of AgentProfiles that have a name.
SoundTasks == {t \in Tasks : t.profile \in AgentNames}

LoadInv ==
  /\ profileLoad \in ProfileLoad
  /\ \A t \in profileLoad.tasks : t.profile \in AgentNames

AgentSource(src, n) ==
  src = None \/ src = Stored \/ \E p \in Agents : p.name = n /\ src = Inline(p)

TaskSource(src) ==
  src = None \/ src = Stored \/ \E t \in SoundTasks : src = Inline(t)

RegistryInv ==
  /\ registry = [i \in Instance |-> [agents |-> registry[i].agents, tasks |-> registry[i].tasks]]
  /\ \A i \in Instance :
       /\ registry[i].agents = [n \in AgentNames |-> registry[i].agents[n]]
       /\ registry[i].tasks = [n \in TaskNames |-> registry[i].tasks[n]]
       /\ \A n \in AgentNames : AgentSource(registry[i].agents[n], n)
       /\ \A n \in TaskNames : TaskSource(registry[i].tasks[n])

AgentDocs(d, n) == d = {} \/ \E p \in Agents : p.name = n /\ d = {p}

TaskDocs(d) == d = {} \/ \E t \in SoundTasks : d = {EncodeTaskSpec(t)}

DocsInv ==
  /\ docs = [agents |-> docs.agents, tasks |-> docs.tasks]
  /\ docs.agents = [n \in AgentNames |-> docs.agents[n]]
  /\ docs.tasks = [n \in TaskNames |-> docs.tasks[n]]
  /\ \A n \in AgentNames : AgentDocs(docs.agents[n], n)
  /\ \A n \in TaskNames : TaskDocs(docs.tasks[n])

-----------------------------------------------------------------------------
(* What a Session is.                                                      *)

\* What may be asked for: no TaskSpec, or one.
AskedOK(a) == a = {} \/ \E t \in SoundTasks : a = {t}

\* The metadata keeps the TaskSpec, encoded, and the Agent that it is of.
RecordOK(r, a) ==
  /\ r = [agent |-> r.agent, task |-> r.task, off |-> r.off]
  /\ r.agent \in AgentNames
  /\ r.task = {EncodeTaskSpec(t) : t \in a}
  /\ \A t \in a : r.agent = t.profile

\* A Run is its AgentProfile, or that as the TaskSpec narrows it.
Narrows(p, base, a) ==
  /\ base \in Agents
  /\ a = {} => p = base
  /\ \A t \in a : Narrow(t, base) /\ p = Apply(t, base)

\* What a Turn is offered: of the Run's profile, within its cap and not switched off.
OfferedOK(p, offered, r) ==
  \A tool \in offered :
    /\ tool \in p.tools \/ (p.sources /\ tool \in SourceTool) \/ tool \in ToolsOfSets(p.sets)
    /\ Allowed(p, tool) /\ tool \notin r.off

\* Only a request brings another deadline than the profile's, to its own Run.
DeadlineOK(l) == l.from = "left" \/ l.timeout = 0 => l.deadline = RunTimeout(l.spec)

LiveOK(l, a, r) ==
  /\ l = [inst |-> l.inst, spec |-> l.spec, base |-> l.base, timeout |-> l.timeout,
          deadline |-> l.deadline, from |-> l.from, offered |-> l.offered]
  /\ l.inst \in Instance
  /\ DeadlineOK(l)
  /\ Narrows(l.spec, l.base, a)
  /\ OfferedOK(l.spec, l.offered, r)

SessionOK(rs, a, ls) ==
  /\ AskedOK(a)
  /\ \/ rs = {} /\ a = {} /\ ls = {}
     \/ \E r :
          /\ rs = {r} /\ RecordOK(r, a)
          /\ ls = {} \/ \E l : ls = {l} /\ LiveOK(l, a, r)

SessionsInv ==
  /\ records = [s \in Session |-> records[s]]
  /\ asked = [s \in Session |-> asked[s]]
  /\ live = [s \in Session |-> live[s]]
  /\ \A s \in Session : SessionOK(records[s], asked[s], live[s])

Creates(c) ==
  /\ c.at = "create"
  /\ c = [at |-> "create", inst |-> c.inst, session |-> c.session, runs |-> c.runs,
          timeout |-> c.timeout, task |-> c.task, agent |-> c.agent]
  /\ c.inst \in Instance /\ c.session \in Session
  /\ c.timeout \in Nat /\ AskedOK(c.task) /\ (c.task = {} => c.agent \in AgentNames)

Switches(c) == c.at = "switch" /\ c.session \in Session

CallInv == call = None \/ Creates(call) \/ Switches(call)

Inv == LoadInv /\ RegistryInv /\ DocsInv /\ SessionsInv /\ CallInv

-----------------------------------------------------------------------------
(* Lemmas on the operators.                                                *)

LEMMA TheIs ==
  ASSUME NEW S, NEW x, S = {x}
  PROVE  The(S) = x
BY DEF The

\* What a list says is what its document says, a nil one and an empty one included.
LEMMA ListKept ==
  ASSUME NEW k \in NameList
  PROVE  (IF ListOf(k) = {} THEN KeepAll ELSE Keep(The(ListOf(k)))) = k
<1>1. CASE k.all
  <2>1. k = [all |-> TRUE, names |-> {}]
    BY <1>1 DEF NameList
  <2>2. QED
    BY <1>1, <2>1 DEF ListOf, KeepAll
<1>2. CASE ~k.all
  <2>1. k = [all |-> FALSE, names |-> k.names]
    BY <1>2 DEF NameList
  <2>2. ListOf(k) = {k.names} /\ The({k.names}) = k.names
    BY <1>2, TheIs DEF ListOf
  <2>3. QED
    BY <2>1, <2>2 DEF Keep
<1>3. QED
  BY <1>1, <1>2

\* A TaskSpec is read back from its document as it was.
LEMMA TaskKept ==
  ASSUME NEW t \in Tasks
  PROVE  DecodeTaskSpec(EncodeTaskSpec(t)) = t
<1> DEFINE doc == EncodeTaskSpec(t)
           list(x) == IF x = {} THEN KeepAll ELSE Keep(The(x))
<1>1. t.tools \in NameList /\ t.sets \in NameList
  BY DEF Tasks
<1>2. PICK n, p, tools, sets, cap, timeout, tokens :
        t = [name |-> n, profile |-> p, tools |-> tools, sets |-> sets, cap |-> cap,
             timeout |-> timeout, tokens |-> tokens]
  BY DEF Tasks
<1>3. doc = [t EXCEPT !.tools = ListOf(t.tools), !.sets = ListOf(t.sets)]
  BY DEF EncodeTaskSpec
<1>4. DecodeTaskSpec(doc) = [doc EXCEPT !.tools = list(doc.tools), !.sets = list(doc.sets)]
  BY DEF DecodeTaskSpec
<1>5. doc = [name |-> n, profile |-> p, tools |-> ListOf(tools), sets |-> ListOf(sets), cap |-> cap,
             timeout |-> timeout, tokens |-> tokens]
  BY <1>2, <1>3
<1>6. list(ListOf(tools)) = tools /\ list(ListOf(sets)) = sets
  BY <1>1, <1>2, ListKept
<1> HIDE DEF doc, list
<1>7. DecodeTaskSpec(doc) = [doc EXCEPT !.tools = tools, !.sets = sets]
  BY <1>4, <1>5, <1>6
<1>8. DecodeTaskSpec(doc) = t
  BY <1>2, <1>5, <1>7
<1>9. QED
  BY <1>8 DEF doc

\* What Apply gives, field by field.
LEMMA ApplyIs ==
  ASSUME NEW t \in Tasks, NEW p \in Agents
  PROVE  /\ Apply(t, p).name = p.name
         /\ Apply(t, p).tools = (IF t.tools.all THEN p.tools ELSE p.tools \cap t.tools.names)
         /\ Apply(t, p).sources = (p.sources /\ t.tools.all)
         /\ Apply(t, p).sets = (IF t.sets.all THEN p.sets ELSE p.sets \cap t.sets.names)
         /\ Apply(t, p).cap = (IF t.cap = 0 THEN p.cap ELSE t.cap)
         /\ Apply(t, p).timeout = (IF t.timeout = 0 THEN p.timeout ELSE t.timeout)
         /\ Apply(t, p).tokens = (IF t.tokens = 0 THEN p.tokens ELSE t.tokens)
BY DEF Apply, Agents

\* What a TaskSpec that narrows leaves of the bounds.
LEMMA NarrowBounds ==
  ASSUME ProfilesAssumption, NEW t \in Tasks, NEW p \in Agents, Narrow(t, p)
  PROVE  /\ Apply(t, p).tools \subseteq p.tools /\ Apply(t, p).sets \subseteq p.sets
         /\ Shorter(RunTimeout(Apply(t, p)), RunTimeout(p))
         /\ Shorter(RunTimeout(Apply(t, p)), t.timeout)
         /\ Shorter(MaxTokens(Apply(t, p)), MaxTokens(p))
         /\ \A e \in Nat : Within(e, Apply(t, p).cap) => Within(e, p.cap) /\ (t.cap = 0 \/ e <= t.cap)
<1> DEFINE q == Apply(t, p)
<1>1. /\ t.timeout \in Nat /\ t.tokens \in Nat /\ t.cap \in Nat
      /\ p.timeout \in Int /\ p.tokens \in Nat /\ p.cap \in Nat
      /\ DefaultTimeout \in Nat /\ ModelTokens \in Nat
  BY DEF Tasks, Agents, ProfilesAssumption
<1>2. /\ q.tools = (IF t.tools.all THEN p.tools ELSE p.tools \cap t.tools.names)
      /\ q.sets = (IF t.sets.all THEN p.sets ELSE p.sets \cap t.sets.names)
      /\ q.cap = (IF t.cap = 0 THEN p.cap ELSE t.cap)
      /\ q.timeout = (IF t.timeout = 0 THEN p.timeout ELSE t.timeout)
      /\ q.tokens = (IF t.tokens = 0 THEN p.tokens ELSE t.tokens)
  BY ApplyIs
<1> HIDE DEF q
<1>3. q.tools \subseteq p.tools /\ q.sets \subseteq p.sets
  BY <1>2
<1>4. Shorter(RunTimeout(q), RunTimeout(p)) /\ Shorter(RunTimeout(q), t.timeout)
  <2>1. t.timeout = 0 \/ RunTimeout(p) < 0 \/ t.timeout <= RunTimeout(p)
    BY DEF Narrow
  <2>2. QED
    BY <1>1, <1>2, <2>1 DEF Shorter, RunTimeout
<1>5. Shorter(MaxTokens(q), MaxTokens(p))
  <2>1. t.tokens = 0 \/ MaxTokens(p) = 0 \/ t.tokens <= MaxTokens(p)
    BY DEF Narrow
  <2>2. QED
    BY <1>1, <1>2, <2>1 DEF Shorter, MaxTokens
<1>6. ASSUME NEW e \in Nat, Within(e, q.cap)
      PROVE  Within(e, p.cap) /\ (t.cap = 0 \/ e <= t.cap)
  <2>1. t.cap = 0 \/ Within(t.cap, p.cap)
    BY DEF Narrow
  <2>2. QED
    BY <1>1, <1>2, <1>6, <2>1 DEF Within
<1>7. QED
  BY <1>3, <1>4, <1>5, <1>6 DEF q

-----------------------------------------------------------------------------
(* Lookups.                                                                *)

\* A lookup gives nothing, or the one AgentProfile of that name.
AgentAnswer(a, n) == a = {} \/ \E p \in Agents : p.name = n /\ a = {p}

LEMMA AgentLookup ==
  ASSUME RegistryInv, DocsInv, NEW i \in Instance, NEW n \in AgentNames
  PROVE  AgentAnswer(AgentProfile(i, n), n)
<1> DEFINE src == registry[i].agents[n]
<1>1. AgentSource(src, n) /\ AgentDocs(docs.agents[n], n)
  BY DEF RegistryInv, DocsInv
<1>2. CASE src = None
  <2>1. AgentProfile(i, n) = {}
    BY <1>2 DEF AgentProfile, None
  <2>2. QED
    BY <2>1 DEF AgentAnswer
<1>3. CASE src = Stored
  <2>1. AgentProfile(i, n) = UNION {DecodeAgentProfile(d) : d \in docs.agents[n]}
    BY <1>3 DEF AgentProfile, Stored
  <2>2. CASE docs.agents[n] = {}
    BY <2>1, <2>2 DEF AgentAnswer
  <2>3. CASE docs.agents[n] # {}
    <3>1. PICK p \in Agents : p.name = n /\ docs.agents[n] = {p}
      BY <1>1, <2>3 DEF AgentDocs
    <3>2. AgentProfile(i, n) = DecodeAgentProfile(p)
      BY <2>1, <3>1
    <3>3. AgentProfile(i, n) = {} \/ AgentProfile(i, n) = {p}
      BY <3>2 DEF DecodeAgentProfile
    <3>4. QED
      BY <3>1, <3>3 DEF AgentAnswer
  <2>4. QED
    BY <2>2, <2>3
<1>4. CASE \E p \in Agents : p.name = n /\ src = Inline(p)
  <2>1. PICK p \in Agents : p.name = n /\ src = Inline(p)
    BY <1>4
  <2>2. src.at = "inline" /\ src.value = p
    BY <2>1 DEF Inline
  <2>3. AgentProfile(i, n) = {p}
    BY <2>2 DEF AgentProfile
  <2>4. QED
    BY <2>1, <2>3 DEF AgentAnswer
<1>5. QED
  BY <1>1, <1>2, <1>3, <1>4 DEF AgentSource

\* One of a TaskSpec gives what was saved, or the value.
LEMMA TaskLookup ==
  ASSUME RegistryInv, DocsInv, NEW i \in Instance, NEW n \in TaskNames, NEW t \in TaskSpec(i, n)
  PROVE  t \in SoundTasks
<1> DEFINE src == registry[i].tasks[n]
<1>1. TaskSource(src) /\ TaskDocs(docs.tasks[n])
  BY DEF RegistryInv, DocsInv
<1>2. CASE src = None
  BY <1>2 DEF TaskSpec, None
<1>3. CASE src = Stored
  <2>1. TaskSpec(i, n) = {DecodeTaskSpec(d) : d \in docs.tasks[n]}
    BY <1>3 DEF TaskSpec, Stored
  <2>2. PICK u \in SoundTasks : docs.tasks[n] = {EncodeTaskSpec(u)}
    BY <1>1, <2>1 DEF TaskDocs
  <2>3. DecodeTaskSpec(EncodeTaskSpec(u)) = u
    BY TaskKept DEF SoundTasks
  <2>4. QED
    BY <2>1, <2>2, <2>3
<1>4. CASE \E u \in SoundTasks : src = Inline(u)
  <2>1. PICK u \in SoundTasks : src = Inline(u)
    BY <1>4
  <2>2. src.at = "inline" /\ src.value = u
    BY <2>1 DEF Inline
  <2>3. TaskSpec(i, n) = {u}
    BY <2>2 DEF TaskSpec
  <2>4. QED
    BY <2>3
<1>5. QED
  BY <1>1, <1>2, <1>3, <1>4 DEF TaskSource

\* A profile that was found for a: what buildSession makes a Run of.
FoundFor(i, p, a) ==
  /\ p.name \in AgentNames
  /\ Narrows(p, The(AgentProfile(i, p.name)), a)
  /\ \A t \in a : p.name = t.profile

LEMMA AgentFound ==
  ASSUME RegistryInv, DocsInv, NEW i \in Instance, NEW n \in AgentNames, AgentProfile(i, n) # {}
  PROVE  FoundFor(i, The(AgentProfile(i, n)), {})
<1>1. PICK p \in Agents : p.name = n /\ AgentProfile(i, n) = {p}
  BY AgentLookup DEF AgentAnswer
<1>2. The(AgentProfile(i, n)) = p
  BY <1>1, TheIs
<1>3. QED
  BY <1>1, <1>2 DEF FoundFor, Narrows

LEMMA TaskFound ==
  ASSUME RegistryInv, DocsInv, NEW i \in Instance, NEW t \in SoundTasks, Narrowed(i, t) # {}
  PROVE  FoundFor(i, The(Narrowed(i, t)), {t})
<1>1. t \in Tasks /\ t.profile \in AgentNames
  BY DEF SoundTasks
<1>2. PICK p \in Agents : p.name = t.profile /\ AgentProfile(i, t.profile) = {p}
  BY <1>1, AgentLookup DEF AgentAnswer, Narrowed
<1>3. Narrow(t, p) /\ Narrowed(i, t) = {Apply(t, p)}
  BY <1>2 DEF Narrowed
<1>4. The(Narrowed(i, t)) = Apply(t, p)
  BY <1>3, TheIs
<1>5. Apply(t, p).name = t.profile
  BY <1>1, <1>2, ApplyIs
<1>6. The(AgentProfile(i, t.profile)) = p
  BY <1>2, TheIs
<1>7. QED
  BY <1>1, <1>3, <1>4, <1>5, <1>6 DEF FoundFor, Narrows

-----------------------------------------------------------------------------
(* What a step leaves alone.                                               *)

\* The definitions that a service has do not change, nor do their names.
Same == profileLoad'.profiles = profileLoad.profiles /\ profileLoad'.tasks = profileLoad.tasks

Counters ==
  {"registers", "shares", "saves", "creates", "runs", "follows", "forks", "deletes", "switches"}

LEMMA UseKeeps ==
  ASSUME LoadInv, NEW w \in Counters, Use(w)
  PROVE  LoadInv' /\ Same
<1>1. profileLoad \in ProfileLoad
  BY DEF LoadInv
<1>2. profileLoad' = [profileLoad EXCEPT ![w] = profileLoad[w] - 1] /\ profileLoad[w] > 0
  BY DEF Use
<1>3. profileLoad' \in ProfileLoad /\ Same
  BY <1>1, <1>2 DEF Counters, ProfileLoad, Same
<1>4. AgentNames' = AgentNames
  BY <1>3 DEF Same, AgentNames
<1>5. QED
  BY <1>3, <1>4 DEF LoadInv, Same

LEMMA LoadNext ==
  ASSUME LoadInv, [ProfilesNext]_profileVars
  PROVE  LoadInv' /\ Same
<1>1. ASSUME UNCHANGED profileLoad PROVE LoadInv' /\ Same
  BY <1>1 DEF LoadInv, Same, AgentNames
<1>2. ASSUME \E w \in Counters : Use(w) PROVE LoadInv' /\ Same
  BY <1>2, UseKeeps
<1>3. CASE UNCHANGED profileVars
  BY <1>1, <1>3 DEF profileVars
<1>4. CASE Serves
  BY <1>1, <1>4 DEF Serves, NewSession, SetToolActive, RunEnds
<1>5. CASE RegisterWithStore \/ SaveAgentProfile \/ SaveTaskSpec
  BY <1>2, <1>5 DEF RegisterWithStore, SaveAgentProfile, SaveTaskSpec, Counters
<1>6. CASE \E i \in Instance : RegisterAgentProfileInline(i) \/ RegisterTaskSpecInline(i)
  BY <1>2, <1>6 DEF RegisterAgentProfileInline, RegisterTaskSpecInline, Counters
<1>7. CASE \E i \in Instance, s \in Session : ResolveTask(i, s) \/ OpenRun(i, s) \/ FindTool(i, s)
  BY <1>2, <1>7 DEF ResolveTask, OpenRun, FindTool, Counters
<1>8. CASE \E s \in Session : FollowOn(s) \/ Turn(s) \/ DeleteSession(s)
  BY <1>1, <1>2, <1>8 DEF FollowOn, Turn, DeleteSession, Counters
<1>9. CASE \E s, child \in Session : Fork(s, child)
  BY <1>2, <1>9 DEF Fork, Counters
<1>10. QED
  BY <1>3, <1>4, <1>5, <1>6, <1>7, <1>8, <1>9 DEF ProfilesNext

LEMMA SameNames ==
  ASSUME Same
  PROVE  AgentNames' = AgentNames /\ TaskNames' = TaskNames /\ SoundTasks' = SoundTasks
<1>1. AgentNames' = AgentNames /\ TaskNames' = TaskNames
  BY DEF Same, AgentNames, TaskNames
<1>2. QED
  BY <1>1 DEF SoundTasks

LEMMA RegistryKept ==
  ASSUME RegistryInv, Same, UNCHANGED registry
  PROVE  RegistryInv'
BY SameNames DEF RegistryInv, TaskSource

LEMMA DocsKept ==
  ASSUME DocsInv, Same, UNCHANGED docs
  PROVE  DocsInv'
BY SameNames DEF DocsInv, TaskDocs

LEMMA SessionKept ==
  ASSUME Same, NEW rs, NEW a, NEW ls, SessionOK(rs, a, ls)
  PROVE  SessionOK(rs, a, ls)'
BY SameNames DEF SessionOK, AskedOK, RecordOK

-----------------------------------------------------------------------------
(* The Registry and the documents.                                         *)

LEMMA RegistryNext ==
  ASSUME LoadInv, RegistryInv, DocsInv, [ProfilesNext]_profileVars
  PROVE  RegistryInv'
<1>1. Same /\ LoadInv'
  BY LoadNext
<1>2. AgentNames' = AgentNames /\ TaskNames' = TaskNames /\ SoundTasks' = SoundTasks
  BY <1>1, SameNames
<1>3. profileLoad.profiles \subseteq Agents /\ profileLoad.tasks \subseteq SoundTasks
  BY DEF LoadInv, ProfileLoad, SoundTasks
<1>4. ASSUME NEW i \in Instance, RegisterAgentProfileInline(i) PROVE RegistryInv'
  <2>1. PICK p \in profileLoad.profiles : registry' = [registry EXCEPT ![i].agents[p.name] = Inline(p)]
    BY <1>4 DEF RegisterAgentProfileInline
  <2>2. p \in Agents /\ p.name \in AgentNames
    BY <1>3 DEF AgentNames
  <2> DEFINE old == registry[i]
             new == [old.agents EXCEPT ![p.name] = Inline(p)]
  <2>3. registry' = [registry EXCEPT ![i] = [agents |-> new, tasks |-> old.tasks]]
    <3>1. registry' = [registry EXCEPT ![i] = [old EXCEPT !.agents = new]]
      BY <2>1
    <3>2. old = [agents |-> old.agents, tasks |-> old.tasks]
      BY DEF RegistryInv
    <3> HIDE DEF new, old
    <3>3. [old EXCEPT !.agents = new] = [agents |-> new, tasks |-> old.tasks]
      BY <3>2
    <3>4. QED
      BY <3>1, <3>3
  <2>4. /\ old.agents = [n \in AgentNames |-> old.agents[n]]
        /\ old.tasks = [n \in TaskNames |-> old.tasks[n]]
        /\ \A n \in AgentNames : AgentSource(old.agents[n], n)
        /\ \A n \in TaskNames : TaskSource(old.tasks[n])
    BY DEF RegistryInv
  <2>5. new = [n \in AgentNames |-> IF n = p.name THEN Inline(p) ELSE old.agents[n]]
    BY <2>4
  <2>6. AgentSource(Inline(p), p.name)
    BY <2>2 DEF AgentSource
  <2>7. new = [n \in AgentNames |-> new[n]] /\ \A n \in AgentNames : AgentSource(new[n], n)
    BY <2>4, <2>5, <2>6
  <2>8. registry'[i] = [agents |-> new, tasks |-> old.tasks]
    BY <2>3 DEF RegistryInv
  <2>9. \A j \in Instance : j # i => registry'[j] = registry[j]
    BY <2>3 DEF RegistryInv
  <2>10. registry' = [j \in Instance |-> [agents |-> registry'[j].agents, tasks |-> registry'[j].tasks]]
    BY <2>3 DEF RegistryInv
  <2> HIDE DEF new, old
  <2>11. ASSUME NEW j \in Instance
         PROVE  /\ registry'[j].agents = [n \in AgentNames |-> registry'[j].agents[n]]
                /\ registry'[j].tasks = [n \in TaskNames |-> registry'[j].tasks[n]]
                /\ \A n \in AgentNames : AgentSource(registry'[j].agents[n], n)
                /\ \A n \in TaskNames : TaskSource(registry'[j].tasks[n])
    <3>1. CASE j = i
      <4>1. registry'[j].agents = new /\ registry'[j].tasks = old.tasks
        BY <2>8, <3>1
      <4>2. QED
        BY <4>1, <2>4, <2>7
    <3>2. CASE j # i
      BY <2>9, <3>2 DEF RegistryInv
    <3>3. QED
      BY <3>1, <3>2
  <2>12. QED
    BY <1>2, <2>10, <2>11 DEF RegistryInv, TaskSource
<1>5. ASSUME NEW i \in Instance, RegisterTaskSpecInline(i) PROVE RegistryInv'
  <2>1. PICK t \in profileLoad.tasks : registry' = [registry EXCEPT ![i].tasks[t.name] = Inline(t)]
    BY <1>5 DEF RegisterTaskSpecInline
  <2>2. t \in SoundTasks /\ t.name \in TaskNames
    BY <1>3 DEF TaskNames
  <2> DEFINE old == registry[i]
             new == [old.tasks EXCEPT ![t.name] = Inline(t)]
  <2>3. registry' = [registry EXCEPT ![i] = [agents |-> old.agents, tasks |-> new]]
    <3>1. registry' = [registry EXCEPT ![i] = [old EXCEPT !.tasks = new]]
      BY <2>1
    <3>2. old = [agents |-> old.agents, tasks |-> old.tasks]
      BY DEF RegistryInv
    <3> HIDE DEF new, old
    <3>3. [old EXCEPT !.tasks = new] = [agents |-> old.agents, tasks |-> new]
      BY <3>2
    <3>4. QED
      BY <3>1, <3>3
  <2>4. /\ old.agents = [n \in AgentNames |-> old.agents[n]]
        /\ old.tasks = [n \in TaskNames |-> old.tasks[n]]
        /\ \A n \in AgentNames : AgentSource(old.agents[n], n)
        /\ \A n \in TaskNames : TaskSource(old.tasks[n])
    BY DEF RegistryInv
  <2>5. new = [n \in TaskNames |-> IF n = t.name THEN Inline(t) ELSE old.tasks[n]]
    BY <2>4
  <2>6. TaskSource(Inline(t))
    BY <2>2 DEF TaskSource
  <2>7. new = [n \in TaskNames |-> new[n]] /\ \A n \in TaskNames : TaskSource(new[n])
    BY <2>4, <2>5, <2>6
  <2>8. registry'[i] = [agents |-> old.agents, tasks |-> new]
    BY <2>3 DEF RegistryInv
  <2>9. \A j \in Instance : j # i => registry'[j] = registry[j]
    BY <2>3 DEF RegistryInv
  <2>10. registry' = [j \in Instance |-> [agents |-> registry'[j].agents, tasks |-> registry'[j].tasks]]
    BY <2>3 DEF RegistryInv
  <2> HIDE DEF new, old
  <2>11. ASSUME NEW j \in Instance
         PROVE  /\ registry'[j].agents = [n \in AgentNames |-> registry'[j].agents[n]]
                /\ registry'[j].tasks = [n \in TaskNames |-> registry'[j].tasks[n]]
                /\ \A n \in AgentNames : AgentSource(registry'[j].agents[n], n)
                /\ \A n \in TaskNames : TaskSource(registry'[j].tasks[n])
    <3>1. CASE j = i
      <4>1. registry'[j].agents = old.agents /\ registry'[j].tasks = new
        BY <2>8, <3>1
      <4>2. QED
        BY <4>1, <2>4, <2>7
    <3>2. CASE j # i
      BY <2>9, <3>2 DEF RegistryInv
    <3>3. QED
      BY <3>1, <3>2
  <2>12. QED
    BY <1>2, <2>10, <2>11 DEF RegistryInv, TaskSource
<1>6. CASE RegisterWithStore
  <2>1. DOMAIN docs.agents = AgentNames /\ DOMAIN docs.tasks = TaskNames
    BY DEF DocsInv
  <2>2. registry' = [i \in Instance |->
          [agents |-> [n \in AgentNames |-> Stored], tasks |-> [n \in TaskNames |-> Stored]]]
    BY <1>6, <2>1 DEF RegisterWithStore
  <2>3. QED
    BY <1>2, <2>2 DEF RegistryInv, AgentSource, TaskSource
<1>7. CASE UNCHANGED profileVars
  BY <1>1, <1>7, RegistryKept DEF profileVars
<1>8. CASE Serves
  BY <1>1, <1>8, RegistryKept DEF Serves, NewSession, SetToolActive, RunEnds
<1>9. CASE SaveAgentProfile \/ SaveTaskSpec
  BY <1>1, <1>9, RegistryKept DEF SaveAgentProfile, SaveTaskSpec
<1>10. CASE \E i \in Instance, s \in Session : ResolveTask(i, s) \/ OpenRun(i, s) \/ FindTool(i, s)
  BY <1>1, <1>10, RegistryKept DEF ResolveTask, OpenRun, FindTool
<1>11. CASE \E s \in Session : FollowOn(s) \/ Turn(s) \/ DeleteSession(s)
  BY <1>1, <1>11, RegistryKept DEF FollowOn, Turn, DeleteSession
<1>12. CASE \E s, child \in Session : Fork(s, child)
  BY <1>1, <1>12, RegistryKept DEF Fork
<1>13. QED
  BY <1>4, <1>5, <1>6, <1>7, <1>8, <1>9, <1>10, <1>11, <1>12 DEF ProfilesNext

LEMMA DocsNext ==
  ASSUME LoadInv, DocsInv, [ProfilesNext]_profileVars
  PROVE  DocsInv'
<1>1. Same /\ LoadInv'
  BY LoadNext
<1>2. AgentNames' = AgentNames /\ TaskNames' = TaskNames /\ SoundTasks' = SoundTasks
  BY <1>1, SameNames
<1>3. profileLoad.profiles \subseteq Agents /\ profileLoad.tasks \subseteq SoundTasks
  BY DEF LoadInv, ProfileLoad, SoundTasks
<1>4. CASE SaveAgentProfile
  <2>1. PICK p \in profileLoad.profiles :
          \E d \in EncodeAgentProfile(p) : docs' = [docs EXCEPT !.agents[p.name] = {d}]
    BY <1>4 DEF SaveAgentProfile
  <2>2. docs' = [docs EXCEPT !.agents[p.name] = {p}]
    BY <2>1 DEF EncodeAgentProfile
  <2>3. p \in Agents
    BY <1>3
  <2> DEFINE new == [docs.agents EXCEPT ![p.name] = {p}]
  <2>4. docs' = [agents |-> new, tasks |-> docs.tasks]
    BY <2>2 DEF DocsInv
  <2>5. new = [n \in AgentNames |-> IF n = p.name THEN {p} ELSE docs.agents[n]]
    BY DEF DocsInv
  <2>6. AgentDocs({p}, p.name)
    BY <2>3 DEF AgentDocs
  <2>7. new = [n \in AgentNames |-> new[n]] /\ \A n \in AgentNames : AgentDocs(new[n], n)
    BY <2>5, <2>6 DEF DocsInv
  <2> HIDE DEF new
  <2>8. docs'.agents = new /\ docs'.tasks = docs.tasks
    BY <2>4
  <2>9. QED
    BY <1>2, <2>4, <2>7, <2>8 DEF DocsInv, TaskDocs
<1>5. CASE SaveTaskSpec
  <2>1. PICK t \in profileLoad.tasks : docs' = [docs EXCEPT !.tasks[t.name] = {EncodeTaskSpec(t)}]
    BY <1>5 DEF SaveTaskSpec
  <2>2. t \in SoundTasks
    BY <1>3
  <2> DEFINE doc == EncodeTaskSpec(t)
             new == [docs.tasks EXCEPT ![t.name] = {doc}]
  <2>3. TaskDocs({doc})
    BY <2>2 DEF TaskDocs
  <2> HIDE DEF doc
  <2>4. docs' = [agents |-> docs.agents, tasks |-> new]
    BY <2>1 DEF DocsInv, doc
  <2>5. new = [n \in TaskNames |-> IF n = t.name THEN {doc} ELSE docs.tasks[n]]
    BY DEF DocsInv
  <2>6. new = [n \in TaskNames |-> new[n]] /\ \A n \in TaskNames : TaskDocs(new[n])
    BY <2>5, <2>3 DEF DocsInv
  <2> HIDE DEF new
  <2>7. docs'.agents = docs.agents /\ docs'.tasks = new
    BY <2>4
  <2>8. QED
    BY <1>2, <2>4, <2>6, <2>7 DEF DocsInv, TaskDocs
<1>6. CASE UNCHANGED docs
  BY <1>1, <1>6, DocsKept
<1>7. CASE Serves
  BY <1>6, <1>7 DEF Serves, NewSession, SetToolActive, RunEnds
<1>8. CASE \E i \in Instance, s \in Session : ResolveTask(i, s) \/ OpenRun(i, s) \/ FindTool(i, s)
  BY <1>6, <1>8 DEF ResolveTask, OpenRun, FindTool
<1>9. CASE RegisterWithStore \/ \E i \in Instance : RegisterAgentProfileInline(i) \/ RegisterTaskSpecInline(i)
  BY <1>6, <1>9 DEF RegisterWithStore, RegisterAgentProfileInline, RegisterTaskSpecInline
<1>10. CASE \E s \in Session : FollowOn(s) \/ Turn(s) \/ DeleteSession(s)
  BY <1>6, <1>10 DEF FollowOn, Turn, DeleteSession
<1>11. CASE \E s, child \in Session : Fork(s, child)
  BY <1>6, <1>11 DEF Fork
<1>12. CASE UNCHANGED profileVars
  BY <1>6, <1>12 DEF profileVars
<1>13. QED
  BY <1>4, <1>5, <1>7, <1>8, <1>9, <1>10, <1>11, <1>12 DEF ProfilesNext

-----------------------------------------------------------------------------
(* The Sessions.                                                           *)

\* A step that is of one Session.
LEMMA OneSession ==
  ASSUME SessionsInv, Same, NEW s \in Session,
         records' = [records EXCEPT ![s] = records'[s]],
         asked' = [asked EXCEPT ![s] = asked'[s]],
         live' = [live EXCEPT ![s] = live'[s]],
         SessionOK(records'[s], asked'[s], live'[s])
  PROVE  SessionsInv'
<1>1. /\ records' = [u \in Session |-> records'[u]]
      /\ asked' = [u \in Session |-> asked'[u]]
      /\ live' = [u \in Session |-> live'[u]]
      /\ \A u \in Session : u # s =>
           records'[u] = records[u] /\ asked'[u] = asked[u] /\ live'[u] = live[u]
  BY DEF SessionsInv
<1>2. ASSUME NEW u \in Session
      PROVE  SessionOK(records[u], asked[u], live[u])'
  <2>1. SessionOK(records'[u], asked'[u], live'[u])
    BY <1>1 DEF SessionsInv
  <2> DEFINE rs == records'[u]
             a == asked'[u]
             ls == live'[u]
  <2>2. QED
    BY <2>1, SameNames DEF SessionOK, AskedOK, RecordOK
<1>3. QED
  BY <1>1, <1>2 DEF SessionsInv

LEMMA SessionsKept ==
  ASSUME SessionsInv, Same, UNCHANGED <<records, asked, live>>
  PROVE  SessionsInv'
<1>1. ASSUME NEW u \in Session
      PROVE  SessionOK(records[u], asked[u], live[u])'
  <2>1. SessionOK(records[u], asked[u], live[u])
    BY DEF SessionsInv
  <2>2. QED
    BY <2>1, SameNames DEF SessionOK, AskedOK, RecordOK
<1>2. QED
  BY <1>1 DEF SessionsInv

\* What is built from a profile that was found for the TaskSpec of the Session.
LEMMA BuildOK ==
  ASSUME NEW i \in Instance, NEW p, NEW a, NEW r, AskedOK(a), FoundFor(i, p, a), RecordOK(r, a),
         NEW timeout \in Nat, NEW from, from = "left" => timeout = 0
  PROVE  SessionOK({r}, a, Build(i, p, timeout, from))
<1>1. PICK l : l = [inst |-> i, spec |-> p, base |-> The(AgentProfile(i, p.name)), timeout |-> timeout,
                    deadline |-> RunDeadline(p, timeout), from |-> from, offered |-> {}]
  OBVIOUS
<1>2. Build(i, p, timeout, from) = {l}
  BY <1>1 DEF Build
<1>3. /\ l.inst = i /\ l.spec = p /\ l.base = The(AgentProfile(i, p.name)) /\ l.offered = {}
      /\ l.timeout = timeout /\ l.deadline = RunDeadline(p, timeout) /\ l.from = from
  BY <1>1
<1>4. l = [inst |-> l.inst, spec |-> l.spec, base |-> l.base, timeout |-> l.timeout,
           deadline |-> l.deadline, from |-> l.from, offered |-> l.offered]
  BY <1>1
<1>5. DeadlineOK(l)
  <2>1. timeout = 0 => RunDeadline(p, timeout) = RunTimeout(p)
    BY DEF RunDeadline
  <2>2. QED
    BY <1>3, <2>1 DEF DeadlineOK
<1>6. LiveOK(l, a, r)
  BY <1>3, <1>4, <1>5 DEF LiveOK, FoundFor, OfferedOK
<1>7. QED
  BY <1>2, <1>6 DEF SessionOK

\* A request asks for no deadline, or for one of the load's.
LEMMA TimeoutsAre == ASSUME LoadInv PROVE \A d \in Timeout : d \in Nat
<1>1. profileLoad.timeouts \subseteq Nat
  BY DEF LoadInv, ProfileLoad
<1>2. QED
  BY <1>1 DEF Timeout

LEMMA NewSessionOK ==
  ASSUME RegistryInv, DocsInv, SessionsInv, CallInv, Same, NewSession
  PROVE  SessionsInv'
<1>1. Creates(call)
  BY DEF NewSession, CallInv, Switches, None
<1> DEFINE i == call.inst
           s == call.session
           a == call.task
           d == call.timeout
           found == IF a = {} THEN AgentProfile(i, call.agent) ELSE UNION {Narrowed(i, t) : t \in a}
<1>2. i \in Instance /\ s \in Session /\ d \in Nat /\ AskedOK(a) /\ (a = {} => call.agent \in AgentNames)
  BY <1>1 DEF Creates
<1>3. CASE found = {} \/ records[s] # {}
  BY <1>3, SessionsKept DEF NewSession
<1>4. CASE found # {} /\ records[s] = {}
  <2> DEFINE p == The(found)
             r == [agent |-> p.name, task |-> {EncodeTaskSpec(t) : t \in a}, off |-> {}]
  <2>1. FoundFor(i, p, a)
    <3>1. CASE a = {}
      <4>1. found = AgentProfile(i, call.agent)
        BY <3>1
      <4>2. QED
        BY <1>2, <1>4, <3>1, <4>1, AgentFound
    <3>2. CASE a # {}
      <4>1. PICK t \in SoundTasks : a = {t}
        BY <1>2, <3>2 DEF AskedOK
      <4>2. found = Narrowed(i, t)
        BY <4>1
      <4>3. QED
        BY <1>2, <1>4, <4>1, <4>2, TaskFound
    <3>3. QED
      BY <3>1, <3>2
  <2>2. /\ records' = [records EXCEPT ![s] = {r}]
        /\ asked' = [asked EXCEPT ![s] = a]
        /\ live' = IF call.runs THEN [live EXCEPT ![s] = Build(i, p, d, "request")] ELSE live
    BY <1>4 DEF NewSession
  <2> HIDE DEF found, p, i, s, a, d
  <2>3. RecordOK(r, a)
    <3>1. r.agent = p.name /\ r.task = {EncodeTaskSpec(t) : t \in a} /\ r.off = {}
      OBVIOUS
    <3>2. r = [agent |-> r.agent, task |-> r.task, off |-> r.off]
      OBVIOUS
    <3> HIDE DEF r
    <3>3. QED
      BY <2>1, <3>1, <3>2 DEF RecordOK, FoundFor
  <2> HIDE DEF r
  <2>4. SessionOK({r}, a, Build(i, p, d, "request")) /\ SessionOK({r}, a, {})
    BY <1>2, <2>1, <2>3, BuildOK DEF SessionOK
  <2>5. records'[s] = {r} /\ asked'[s] = a /\ live[s] = {}
    BY <1>2, <1>4, <2>2 DEF SessionsInv, SessionOK
  <2>6. live' = [live EXCEPT ![s] = live'[s]] /\ (live'[s] = Build(i, p, d, "request") \/ live'[s] = {})
    BY <1>2, <2>2, <2>5 DEF SessionsInv
  <2>7. QED
    BY <1>2, <2>2, <2>4, <2>5, <2>6, OneSession
<1>5. QED
  BY <1>3, <1>4

LEMMA AgentChanged ==
  ASSUME NEW r, NEW n, r = [agent |-> r.agent, task |-> r.task, off |-> r.off]
  PROVE  [r EXCEPT !.agent = n] = [agent |-> n, task |-> r.task, off |-> r.off]
<1>1. PICK x, y, z : x = r.agent /\ y = r.task /\ z = r.off
  OBVIOUS
<1>2. r \in [agent : {x}, task : {y}, off : {z}]
  BY <1>1
<1>3. [r EXCEPT !.agent = n] = [agent |-> n, task |-> y, off |-> z]
  BY <1>2
<1>4. QED
  BY <1>1, <1>3

\* What resolveAgent finds for a Record is found for the TaskSpec that it keeps.
LEMMA Resolved ==
  ASSUME RegistryInv, DocsInv, NEW i \in Instance, NEW a, AskedOK(a), NEW r, RecordOK(r, a),
         NEW name \in {""} \cup DOMAIN registry[i].agents, ResolveAgent(i, r, name) # {}
  PROVE  FoundFor(i, The(ResolveAgent(i, r, name)), a)
<1> DEFINE found == ResolveAgent(i, r, name)
<1>1. CASE a = {}
  <2>1. r.task = {} /\ r.agent \in AgentNames
    BY <1>1 DEF RecordOK
  <2>2. DOMAIN registry[i].agents = AgentNames
    BY DEF RegistryInv
  <2>3. PICK n \in AgentNames : found = AgentProfile(i, n)
    <3>1. CASE name = ""
      BY <2>1, <3>1 DEF ResolveAgent, AgentOf
    <3>2. CASE name # ""
      BY <2>1, <2>2, <3>2 DEF ResolveAgent
    <3>3. QED
      BY <3>1, <3>2
  <2>4. QED
    BY <1>1, <2>3, AgentFound
<1>2. CASE a # {}
  <2>1. PICK t \in SoundTasks : a = {t}
    BY <1>2 DEF AskedOK
  <2>2. r.task = {EncodeTaskSpec(t)}
    BY <2>1 DEF RecordOK
  <2>3. name = ""
    BY <2>2 DEF ResolveAgent
  <2>4. found = UNION {Narrowed(i, DecodeTaskSpec(d)) : d \in r.task}
    BY <2>2, <2>3 DEF ResolveAgent, AgentOf
  <2>5. DecodeTaskSpec(EncodeTaskSpec(t)) = t
    BY TaskKept DEF SoundTasks
  <2>6. found = Narrowed(i, t)
    BY <2>2, <2>4, <2>5
  <2>7. QED
    BY <2>1, <2>6, TaskFound
<1>3. QED
  BY <1>1, <1>2

LEMMA OpenRunOK ==
  ASSUME LoadInv, RegistryInv, DocsInv, SessionsInv, Same, NEW i \in Instance, NEW s \in Session,
         OpenRun(i, s)
  PROVE  SessionsInv'
<1>1. PICK name \in {""} \cup DOMAIN registry[i].agents, d \in Timeout :
        LET found == ResolveAgent(i, The(records[s]), name)
        IN IF found = {} THEN UNCHANGED <<records, live>>
           ELSE /\ records' = [records EXCEPT ![s] = {[The(records[s]) EXCEPT !.agent = The(found).name]}]
                /\ live' = [live EXCEPT ![s] = Build(i, The(found), d, "request")]
  BY DEF OpenRun
<1>2. asked' = asked /\ records[s] # {} /\ d \in Nat
  <2>1. d \in Nat
    BY TimeoutsAre
  <2>2. QED
    BY <2>1 DEF OpenRun
<1>3. PICK r : records[s] = {r} /\ RecordOK(r, asked[s])
  BY <1>2 DEF SessionsInv, SessionOK
<1>4. The(records[s]) = r
  BY <1>3, TheIs
<1> DEFINE a == asked[s]
           found == ResolveAgent(i, r, name)
           p == The(found)
<1>5. AskedOK(a)
  BY DEF SessionsInv, SessionOK
<1>6. CASE found = {}
  <2>1. UNCHANGED <<records, live>>
    BY <1>1, <1>4, <1>6
  <2>2. QED
    BY <1>2, <2>1, SessionsKept
<1>7. CASE found # {}
  <2>1. FoundFor(i, p, a)
    BY <1>3, <1>5, <1>7, Resolved
  <2> DEFINE q == [r EXCEPT !.agent = p.name]
             b == Build(i, p, d, "request")
  <2>2. records' = [records EXCEPT ![s] = {q}] /\ live' = [live EXCEPT ![s] = b]
    BY <1>1, <1>4, <1>7
  <2> HIDE DEF found, p, a
  <2>3. RecordOK(q, a)
    <3>1. q = [agent |-> p.name, task |-> r.task, off |-> r.off]
      <4>1. r = [agent |-> r.agent, task |-> r.task, off |-> r.off]
        BY <1>3 DEF RecordOK
      <4>2. QED
        BY <4>1, AgentChanged
    <3>2. q.agent = p.name /\ q.task = r.task /\ q = [agent |-> q.agent, task |-> q.task, off |-> q.off]
      BY <3>1
    <3> HIDE DEF q
    <3>3. QED
      BY <1>3, <2>1, <3>2 DEF RecordOK, FoundFor, a
  <2> HIDE DEF q
  <2>4. SessionOK({q}, a, b)
    BY <1>2, <1>5, <2>1, <2>3, BuildOK
  <2> HIDE DEF b
  <2>5. records'[s] = {q} /\ live'[s] = b /\ asked'[s] = a /\ asked' = [asked EXCEPT ![s] = asked'[s]]
    BY <1>2, <2>2 DEF SessionsInv, a
  <2>6. QED
    BY <2>2, <2>4, <2>5, OneSession
<1>8. QED
  BY <1>6, <1>7

LEMMA FollowOnOK ==
  ASSUME RegistryInv, DocsInv, SessionsInv, Same, NEW s \in Session, FollowOn(s)
  PROVE  SessionsInv'
<1>1. PICK r, l : /\ records[s] = {r} /\ RecordOK(r, asked[s])
                  /\ live[s] = {l} /\ LiveOK(l, asked[s], r)
  BY DEF SessionsInv, SessionOK, FollowOn
<1>2. The(records[s]) = r /\ The(live[s]) = l /\ l.inst \in Instance
  BY <1>1, TheIs DEF LiveOK
<1> DEFINE found == AgentOf(l.inst, r)
<1>3. live' = [live EXCEPT ![s] = IF found = {} THEN {} ELSE Build(l.inst, The(found), 0, "left")]
  BY <1>2 DEF FollowOn, FollowTimeout
<1>4. found = ResolveAgent(l.inst, r, "")
  BY DEF ResolveAgent
<1> HIDE DEF found
<1>5. AskedOK(asked[s])
  BY DEF SessionsInv, SessionOK
<1>6. /\ records' = [records EXCEPT ![s] = records'[s]] /\ records'[s] = {r}
      /\ asked' = [asked EXCEPT ![s] = asked'[s]] /\ asked'[s] = asked[s]
      /\ live' = [live EXCEPT ![s] = live'[s]]
      /\ live'[s] = IF found = {} THEN {} ELSE Build(l.inst, The(found), 0, "left")
  BY <1>1, <1>3 DEF FollowOn, SessionsInv
<1>7. CASE found = {}
  BY <1>1, <1>5, <1>6, <1>7, OneSession DEF SessionOK
<1>8. CASE found # {}
  <2>1. FoundFor(l.inst, The(found), asked[s])
    BY <1>1, <1>2, <1>4, <1>5, <1>8, Resolved
  <2>2. SessionOK({r}, asked[s], Build(l.inst, The(found), 0, "left"))
    BY <1>1, <1>2, <1>5, <2>1, BuildOK
  <2>3. QED
    BY <1>6, <1>8, <2>2, OneSession
<1>9. QED
  BY <1>7, <1>8

LEMMA TurnOK ==
  ASSUME SessionsInv, Same, NEW s \in Session, Turn(s)
  PROVE  SessionsInv'
<1>1. PICK r, l : /\ records[s] = {r} /\ RecordOK(r, asked[s])
                  /\ live[s] = {l} /\ LiveOK(l, asked[s], r)
  BY DEF SessionsInv, SessionOK, Turn
<1>2. The(records[s]) = r /\ The(live[s]) = l
  BY <1>1, TheIs
<1>3. PICK supplied \in Supplied(l.spec) :
        live' = [live EXCEPT ![s] = {[l EXCEPT !.offered = Offered(l.spec, r, supplied)]}]
  BY <1>2 DEF Turn
<1> DEFINE o == Offered(l.spec, r, supplied)
           m == [l EXCEPT !.offered = o]
<1>4. OfferedOK(l.spec, o, r)
  <2>1. supplied \subseteq SourceTool /\ (~l.spec.sources => supplied = {})
    BY DEF Supplied
  <2>2. QED
    BY <2>1 DEF Offered, OfferedOK, ToolActive
<1>5. live' = [live EXCEPT ![s] = {m}]
  BY <1>3
<1> HIDE DEF o
<1>6. LiveOK(m, asked[s], r)
  <2>1. PICK v, w, x, y, z, d, f :
          l = [inst |-> w, spec |-> x, base |-> y, timeout |-> v, deadline |-> d, from |-> f,
               offered |-> z]
    BY <1>1 DEF LiveOK
  <2>2. m = [inst |-> l.inst, spec |-> l.spec, base |-> l.base, timeout |-> l.timeout,
             deadline |-> l.deadline, from |-> l.from, offered |-> o]
    BY <2>1
  <2>3. /\ m.spec = l.spec /\ m.base = l.base /\ m.offered = o /\ m.inst = l.inst
        /\ m.timeout = l.timeout /\ m.deadline = l.deadline /\ m.from = l.from
        /\ m = [inst |-> m.inst, spec |-> m.spec, base |-> m.base, timeout |-> m.timeout,
                deadline |-> m.deadline, from |-> m.from, offered |-> m.offered]
    BY <2>2
  <2> HIDE DEF m
  <2>4. DeadlineOK(m)
    BY <1>1, <2>3 DEF LiveOK, DeadlineOK
  <2>5. QED
    BY <1>1, <1>4, <2>3, <2>4 DEF LiveOK
<1> HIDE DEF m
<1>7. AskedOK(asked[s]) /\ SessionOK({r}, asked[s], {m})
  BY <1>1, <1>6 DEF SessionsInv, SessionOK
<1>8. /\ records' = [records EXCEPT ![s] = records'[s]] /\ records'[s] = {r}
      /\ asked' = [asked EXCEPT ![s] = asked'[s]] /\ asked'[s] = asked[s]
      /\ live'[s] = {m}
  BY <1>1, <1>5 DEF Turn, SessionsInv
<1>9. QED
  BY <1>5, <1>7, <1>8, OneSession

LEMMA SwitchOK ==
  ASSUME SessionsInv, CallInv, Same, SetToolActive
  PROVE  SessionsInv'
<1> DEFINE s == call.session
<1>1. s \in Session
  BY DEF SetToolActive, CallInv, Creates, Switches, None
<1>2. UNCHANGED <<asked, live>>
  BY DEF SetToolActive
<1>3. CASE live[s] # {}
  BY <1>2, <1>3, SessionsKept DEF SetToolActive
<1>4. CASE live[s] = {}
  <2>1. records' = [records EXCEPT ![s] =
          {[r EXCEPT !.off = IF call.on THEN r.off \ {call.tool} ELSE r.off \cup {call.tool}] : r \in records[s]}]
    BY <1>4 DEF SetToolActive
  <2>2. CASE records[s] = {}
    <3>1. records' = records
      BY <2>1, <2>2 DEF SessionsInv
    <3>2. QED
      BY <1>2, <3>1, SessionsKept
  <2>3. CASE records[s] # {}
    <3>1. PICK r : records[s] = {r} /\ RecordOK(r, asked[s])
      BY <1>1, <2>3 DEF SessionsInv, SessionOK
    <3>2. PICK o : o = IF call.on THEN r.off \ {call.tool} ELSE r.off \cup {call.tool}
      OBVIOUS
    <3> DEFINE q == [r EXCEPT !.off = o]
    <3>3. records' = [records EXCEPT ![s] = {q}]
      BY <2>1, <3>1, <3>2
    <3>4. RecordOK(q, asked[s])
      <4>1. PICK x, y, z : r = [agent |-> x, task |-> y, off |-> z]
        BY <3>1 DEF RecordOK
      <4>2. q = [agent |-> r.agent, task |-> r.task, off |-> o]
        BY <4>1
      <4>3. q.agent = r.agent /\ q.task = r.task /\ q = [agent |-> q.agent, task |-> q.task, off |-> q.off]
        BY <4>2
      <4> HIDE DEF q
      <4>4. QED
        BY <3>1, <4>3 DEF RecordOK
    <3> HIDE DEF q
    <3>5. SessionOK({q}, asked[s], {})
      BY <1>1, <3>4 DEF SessionsInv, SessionOK
    <3>6. /\ records'[s] = {q} /\ live'[s] = {} /\ asked'[s] = asked[s]
          /\ live' = [live EXCEPT ![s] = live'[s]] /\ asked' = [asked EXCEPT ![s] = asked'[s]]
      BY <1>1, <1>2, <1>4, <3>3 DEF SessionsInv
    <3> HIDE DEF s
    <3>7. QED
      BY <1>1, <3>3, <3>5, <3>6, OneSession
  <2>4. QED
    BY <2>2, <2>3
<1>5. QED
  BY <1>3, <1>4

LEMMA EndsOK ==
  ASSUME SessionsInv, Same, NEW s \in Session, RunEnds(s)
  PROVE  SessionsInv'
<1>1. SessionOK(records[s], asked[s], {})
  BY DEF SessionsInv, SessionOK, RunEnds
<1>2. /\ records' = [records EXCEPT ![s] = records'[s]] /\ records'[s] = records[s]
      /\ asked' = [asked EXCEPT ![s] = asked'[s]] /\ asked'[s] = asked[s]
      /\ live' = [live EXCEPT ![s] = live'[s]] /\ live'[s] = {}
  BY DEF RunEnds, SessionsInv
<1>3. QED
  BY <1>1, <1>2, OneSession

LEMMA DeleteOK ==
  ASSUME SessionsInv, Same, NEW s \in Session, DeleteSession(s)
  PROVE  SessionsInv'
<1>1. SessionOK({}, {}, {})
  BY DEF SessionOK, AskedOK
<1>2. /\ records' = [records EXCEPT ![s] = records'[s]] /\ records'[s] = {}
      /\ asked' = [asked EXCEPT ![s] = asked'[s]] /\ asked'[s] = {}
      /\ live' = [live EXCEPT ![s] = live'[s]] /\ live'[s] = {}
  BY DEF DeleteSession, SessionsInv
<1>3. QED
  BY <1>1, <1>2, OneSession

LEMMA ForkOK ==
  ASSUME SessionsInv, Same, NEW s \in Session, NEW child \in Session, Fork(s, child)
  PROVE  SessionsInv'
<1>1. SessionOK(records[s], asked[s], {}) /\ live[child] = {}
  BY DEF SessionsInv, SessionOK, Fork
<1>2. /\ records' = [records EXCEPT ![child] = records'[child]] /\ records'[child] = records[s]
      /\ asked' = [asked EXCEPT ![child] = asked'[child]] /\ asked'[child] = asked[s]
      /\ live' = [live EXCEPT ![child] = live'[child]] /\ live'[child] = {}
  BY <1>1 DEF Fork, SessionsInv
<1>3. QED
  BY <1>1, <1>2, OneSession

LEMMA SessionsNext ==
  ASSUME LoadInv, RegistryInv, DocsInv, SessionsInv, CallInv, [ProfilesNext]_profileVars
  PROVE  SessionsInv'
<1>1. Same
  BY LoadNext
<1>2. CASE UNCHANGED <<records, asked, live>>
  BY <1>1, <1>2, SessionsKept
<1>3. CASE Serves
  BY <1>1, <1>3, NewSessionOK, SwitchOK, EndsOK DEF Serves
<1>4. CASE RegisterWithStore \/ SaveAgentProfile \/ SaveTaskSpec
  BY <1>2, <1>4 DEF RegisterWithStore, SaveAgentProfile, SaveTaskSpec
<1>5. CASE \E i \in Instance : RegisterAgentProfileInline(i) \/ RegisterTaskSpecInline(i)
  BY <1>2, <1>5 DEF RegisterAgentProfileInline, RegisterTaskSpecInline
<1>6. CASE \E i \in Instance, s \in Session : ResolveTask(i, s) \/ FindTool(i, s)
  BY <1>2, <1>6 DEF ResolveTask, FindTool
<1>7. CASE \E i \in Instance, s \in Session : OpenRun(i, s)
  BY <1>1, <1>7, OpenRunOK
<1>8. CASE \E s \in Session : FollowOn(s) \/ Turn(s) \/ DeleteSession(s)
  BY <1>1, <1>8, FollowOnOK, TurnOK, DeleteOK
<1>9. CASE \E s, child \in Session : Fork(s, child)
  BY <1>1, <1>9, ForkOK
<1>10. CASE UNCHANGED profileVars
  BY <1>2, <1>10 DEF profileVars
<1>11. QED
  BY <1>3, <1>4, <1>5, <1>6, <1>7, <1>8, <1>9, <1>10 DEF ProfilesNext

-----------------------------------------------------------------------------
(* Calls.                                                                  *)

LEMMA CallKept ==
  ASSUME CallInv, Same, UNCHANGED call
  PROVE  CallInv'
BY SameNames DEF CallInv, Creates, Switches, AskedOK

LEMMA ResolveOK ==
  ASSUME LoadInv, RegistryInv, DocsInv, Same, NEW i \in Instance, NEW s \in Session, ResolveTask(i, s)
  PROVE  CallInv'
<1>1. DOMAIN registry[i].tasks = TaskNames /\ DOMAIN registry[i].agents = AgentNames
  BY DEF RegistryInv
<1>2. profileLoad.tasks \subseteq SoundTasks
  BY DEF LoadInv, ProfileLoad, SoundTasks
<1>3. PICK runs, timeout, a, agent :
        /\ call' = [at |-> "create", inst |-> i, session |-> s, runs |-> runs, timeout |-> timeout,
                    task |-> a, agent |-> agent]
        /\ timeout \in Nat
        /\ AskedOK(a) /\ (a = {} => agent \in AgentNames)
  <2> DEFINE opens(b, d, task, agent) ==
               call' = [at |-> "create", inst |-> i, session |-> s, runs |-> b, timeout |-> d,
                        task |-> task, agent |-> agent]
  <2>1. PICK b \in BOOLEAN, d \in Timeout :
          \/ \E n \in DOMAIN registry[i].tasks : \E t \in TaskSpec(i, n) : opens(b, d, {t}, "")
          \/ \E t \in profileLoad.tasks : opens(b, d, {t}, "")
          \/ \E n \in DOMAIN registry[i].agents : opens(b, d, {}, n)
    BY DEF ResolveTask
  <2>0. d \in Nat
    BY TimeoutsAre
  <2>2. CASE \E t \in SoundTasks : opens(b, d, {t}, "")
    BY <2>0, <2>2 DEF AskedOK
  <2>3. CASE \E n \in AgentNames : opens(b, d, {}, n)
    BY <2>0, <2>3 DEF AskedOK
  <2>4. QED
    BY <1>1, <1>2, <2>1, <2>2, <2>3, TaskLookup
<1>4. /\ call'.at = "create" /\ call'.inst = i /\ call'.session = s /\ call'.task = a /\ call'.agent = agent
      /\ call'.timeout = timeout
      /\ call' = [at |-> "create", inst |-> call'.inst, session |-> call'.session, runs |-> call'.runs,
                  timeout |-> call'.timeout, task |-> call'.task, agent |-> call'.agent]
  BY <1>3
<1>5. QED
  BY <1>3, <1>4, SameNames DEF CallInv, Creates, AskedOK

LEMMA CallNext ==
  ASSUME LoadInv, RegistryInv, DocsInv, CallInv, [ProfilesNext]_profileVars
  PROVE  CallInv'
<1>1. Same
  BY LoadNext
<1>2. CASE UNCHANGED call
  BY <1>1, <1>2, CallKept
<1>3. CASE NewSession \/ SetToolActive
  BY <1>3 DEF NewSession, SetToolActive, CallInv
<1>4. CASE \E s \in Session : RunEnds(s) \/ FollowOn(s) \/ Turn(s) \/ DeleteSession(s)
  BY <1>2, <1>4 DEF RunEnds, FollowOn, Turn, DeleteSession
<1>5. CASE RegisterWithStore \/ SaveAgentProfile \/ SaveTaskSpec
  BY <1>2, <1>5 DEF RegisterWithStore, SaveAgentProfile, SaveTaskSpec
<1>6. CASE \E i \in Instance : RegisterAgentProfileInline(i) \/ RegisterTaskSpecInline(i)
  BY <1>2, <1>6 DEF RegisterAgentProfileInline, RegisterTaskSpecInline
<1>7. CASE \E i \in Instance, s \in Session : ResolveTask(i, s)
  BY <1>1, <1>7, ResolveOK
<1>8. CASE \E i \in Instance, s \in Session : OpenRun(i, s)
  BY <1>2, <1>8 DEF OpenRun
<1>9. ASSUME NEW i \in Instance, NEW s \in Session, FindTool(i, s) PROVE CallInv'
  <2>1. PICK tool, on : call' = [at |-> "switch", inst |-> i, session |-> s, tool |-> tool, on |-> on]
    BY <1>9 DEF FindTool
  <2>2. QED
    BY <2>1 DEF CallInv, Switches
<1>10. CASE \E s, child \in Session : Fork(s, child)
  BY <1>2, <1>10 DEF Fork
<1>11. CASE UNCHANGED profileVars
  BY <1>2, <1>11 DEF profileVars
<1>12. QED
  BY <1>3, <1>4, <1>5, <1>6, <1>7, <1>8, <1>9, <1>10, <1>11 DEF ProfilesNext, Serves

-----------------------------------------------------------------------------
(* The invariant, and what it says of a Run.                               *)

LEMMA InitInv ==
  ASSUME ProfilesAssumption, ProfilesInit
  PROVE  Inv
<1>1. PICK l \in ProfileLoads :
        /\ registry = [i \in Instance |->
             [agents |-> [n \in {p.name : p \in l.profiles} |-> None],
              tasks |-> [n \in {t.name : t \in l.tasks} |-> None]]]
        /\ docs = [agents |-> [n \in {p.name : p \in l.profiles} |-> {}],
                   tasks |-> [n \in {t.name : t \in l.tasks} |-> {}]]
        /\ records = [s \in Session |-> {}]
        /\ asked = [s \in Session |-> {}]
        /\ live = [s \in Session |-> {}]
        /\ call = None
        /\ profileLoad = l
  BY DEF ProfilesInit
<1>2. LoadInv
  <2>1. \A t \in l.tasks : t.profile \in AgentNames
    BY <1>1 DEF ProfilesAssumption, AgentNames
  <2>2. QED
    BY <1>1, <2>1 DEF LoadInv, ProfilesAssumption
<1>3. registry = [i \in Instance |->
        [agents |-> [n \in AgentNames |-> None], tasks |-> [n \in TaskNames |-> None]]]
  BY <1>1 DEF AgentNames, TaskNames
<1>4. docs = [agents |-> [n \in AgentNames |-> {}], tasks |-> [n \in TaskNames |-> {}]]
  BY <1>1 DEF AgentNames, TaskNames
<1>5. RegistryInv
  BY <1>3 DEF RegistryInv, AgentSource, TaskSource
<1>6. DocsInv
  BY <1>4 DEF DocsInv, AgentDocs, TaskDocs
<1>7. SessionsInv
  BY <1>1 DEF SessionsInv, SessionOK, AskedOK
<1>8. QED
  BY <1>1, <1>2, <1>5, <1>6, <1>7 DEF Inv, CallInv

\* A Session keeps the TaskSpec it was opened for, encoded, whatever is registered and
\* saved since (resolveTask, newSession, taskRun, fork), a Run is built from what a
\* lookup gave and the TaskSpec narrows (agentOf, buildSession), and is offered what
\* that allows (sessionTools).
THEOREM ProfilesInvariance == ProfilesAssumption => (ProfilesSpec => []Inv)
<1> SUFFICES ASSUME ProfilesAssumption PROVE ProfilesSpec => []Inv
  OBVIOUS
<1>1. ProfilesInit => Inv
  BY InitInv
<1>2. Inv /\ [ProfilesNext]_profileVars => Inv'
  BY LoadNext, RegistryNext, DocsNext, SessionsNext, CallNext DEF Inv
<1>3. QED
  BY <1>1, <1>2, PTL DEF ProfilesSpec

LEMMA BoundsKept ==
  ASSUME ProfilesAssumption, SessionsInv
  PROVE  TasksKeepTheirBounds
<1> SUFFICES ASSUME NEW s \in Session, NEW l \in live[s], NEW t \in asked[s]
             PROVE  /\ l.spec = Apply(t, l.base)
                    /\ l.spec.tools \subseteq l.base.tools /\ l.spec.sets \subseteq l.base.sets
                    /\ l.from = "left" \/ l.timeout = 0 =>
                         Shorter(l.deadline, RunTimeout(l.base)) /\ Shorter(l.deadline, t.timeout)
                    /\ Shorter(MaxTokens(l.spec), MaxTokens(l.base))
                    /\ \A r \in records[s] : r.agent = t.profile
  BY DEF TasksKeepTheirBounds
<1>1. PICK r : /\ records[s] = {r} /\ RecordOK(r, asked[s]) /\ LiveOK(l, asked[s], r)
  BY DEF SessionsInv, SessionOK
<1>2. t \in Tasks
  BY DEF SessionsInv, SessionOK, AskedOK, SoundTasks
<1>3. l.base \in Agents /\ Narrow(t, l.base) /\ l.spec = Apply(t, l.base)
  BY <1>1 DEF LiveOK, Narrows
<1>4. PICK base : base = l.base
  OBVIOUS
<1>5. /\ Apply(t, base).tools \subseteq base.tools /\ Apply(t, base).sets \subseteq base.sets
      /\ Shorter(RunTimeout(Apply(t, base)), RunTimeout(base))
      /\ Shorter(RunTimeout(Apply(t, base)), t.timeout)
      /\ Shorter(MaxTokens(Apply(t, base)), MaxTokens(base))
  BY <1>2, <1>3, <1>4, NarrowBounds
<1>6. \A q \in records[s] : q.agent = t.profile
  BY <1>1 DEF RecordOK
<1>7. DeadlineOK(l)
  BY <1>1 DEF LiveOK
<1>8. l.from = "left" \/ l.timeout = 0 => l.deadline = RunTimeout(Apply(t, base))
  BY <1>3, <1>4, <1>7 DEF DeadlineOK
<1>9. QED
  BY <1>3, <1>4, <1>5, <1>6, <1>8

LEMMA OffersKept ==
  ASSUME ProfilesAssumption, SessionsInv
  PROVE  OfferedToolsAreAllowed
<1> SUFFICES ASSUME NEW s \in Session, NEW l \in live[s], NEW r \in records[s], NEW tool \in l.offered
             PROVE  /\ tool \notin r.off /\ Within(Effect[tool], l.base.cap)
                    /\ \A t \in asked[s] :
                         /\ t.cap = 0 \/ Effect[tool] <= t.cap
                         /\ t.tools.all \/ tool \in t.tools.names \cup ToolsOfSets(l.base.sets)
  BY DEF OfferedToolsAreAllowed
<1>1. LiveOK(l, asked[s], r) /\ AskedOK(asked[s])
  BY DEF SessionsInv, SessionOK
<1>2. PICK base, p : base = l.base /\ p = l.spec
  OBVIOUS
<1>3. Narrows(p, base, asked[s]) /\ base \in Agents
  BY <1>1, <1>2 DEF LiveOK, Narrows
<1>4. /\ tool \in p.tools \/ (p.sources /\ tool \in SourceTool) \/ tool \in ToolsOfSets(p.sets)
      /\ Within(Effect[tool], p.cap) /\ tool \notin r.off
  BY <1>1, <1>2 DEF LiveOK, OfferedOK, Allowed
<1>5. CASE asked[s] = {}
  BY <1>2, <1>3, <1>4, <1>5 DEF Narrows
<1>6. CASE asked[s] # {}
  <2>1. PICK t \in SoundTasks : asked[s] = {t}
    BY <1>1, <1>6 DEF AskedOK
  <2>2. t \in Tasks /\ Narrow(t, base) /\ p = Apply(t, base)
    BY <1>3, <2>1 DEF Narrows, SoundTasks
  <2>3. /\ p.tools \subseteq base.tools /\ p.sets \subseteq base.sets
        /\ \A e \in Nat : Within(e, p.cap) => Within(e, base.cap) /\ (t.cap = 0 \/ e <= t.cap)
    BY <1>3, <2>2, NarrowBounds
  <2>4. /\ p.tools = (IF t.tools.all THEN base.tools ELSE base.tools \cap t.tools.names)
        /\ p.sources = (base.sources /\ t.tools.all)
    BY <1>3, <2>2, ApplyIs
  <2>5. ToolsOfSets(p.sets) \subseteq ToolsOfSets(base.sets)
    BY <2>3 DEF ToolsOfSets
  <2>6. Effect[tool] \in Nat
    <3>1. base.tools \subseteq Tool /\ base.sets \subseteq DOMAIN SetTools
      BY <1>3 DEF Agents
    <3>2. ToolsOfSets(base.sets) \subseteq Tool
      BY <3>1 DEF ToolsOfSets, ProfilesAssumption
    <3>3. tool \in Tool
      BY <1>4, <2>3, <2>5, <3>1, <3>2 DEF ProfilesAssumption
    <3>4. QED
      BY <3>3 DEF ProfilesAssumption
  <2>7. Within(Effect[tool], base.cap) /\ (t.cap = 0 \/ Effect[tool] <= t.cap)
    BY <1>4, <2>3, <2>6
  <2>8. t.tools.all \/ tool \in t.tools.names \cup ToolsOfSets(base.sets)
    BY <1>4, <2>4, <2>5
  <2>9. QED
    BY <1>2, <1>4, <2>1, <2>7, <2>8
<1>7. QED
  BY <1>5, <1>6

\* However often definitions are saved and registered, Sessions opened, forked and
\* moved and Tools switched: a Run of a Session that was opened for a TaskSpec is the
\* AgentProfile of its start as that TaskSpec narrows it, within its bounds, and is
\* offered no Tool above a cap, none that was switched off and none that the TaskSpec
\* leaves out (TaskSpec.Narrow, TaskSpec.Apply, agentOf, sessionTools).
THEOREM RunsAreAsDefined == ProfilesAssumption => (ProfilesSpec => []DefinitionsHold)
<1> SUFFICES ASSUME ProfilesAssumption PROVE ProfilesSpec => []DefinitionsHold
  OBVIOUS
<1>1. Inv => DefinitionsHold
  BY BoundsKept, OffersKept DEF Inv, DefinitionsHold
<1>2. QED
  BY <1>1, ProfilesInvariance, PTL

-----------------------------------------------------------------------------
(* McpToolSet: the calls of a ToolSet, its one session and its list.       *)

\* A call of Tools or of Execute.
UserRec ==
  [at : {"out", "connect", "awaits", "dials", "lists", "reads", "caches", "calls", "over"},
   session : Nat, gen : Nat, tries : Nat, list : Nat, told : Nat,
   waitsFor : User \cup {NoCaller}, ended : BOOLEAN,
   how : {"none", "cached", "closed", "canceled", "timeout", "connected", "failed", "listed", "called"}]

\* A session of a client.
SessionRec == [boot : Nat, open : BOOLEAN]

\* The dials given up, and the sessions they got.
DialRec == [going : Nat, got : SUBSET Nat]

\* Every variable has its type.
McpTypes ==
  /\ server \in [boot : Nat, version : Nat]
  /\ notices \in SUBSET [boot : Nat, version : Nat]
  /\ sessions \in Seq(SessionRec)
  /\ conn \in [session : Nat, closed : BOOLEAN, dialer : User \cup {NoCaller}]
  /\ gen \in Nat /\ told \in Nat
  /\ cache \in [have : BOOLEAN, gen : Nat, version : Nat]
  /\ user \in [User -> UserRec]
  /\ ran \in [Caller -> Nat]
  /\ dials \in DialRec
  /\ spare \in McpLoadRec

\* The session in use is the only one open, but for those of dials given up, and
\* who dials is the only one who may put another in use: there is none meanwhile.
ConnInv ==
  /\ conn.session <= Len(sessions)
  /\ dials.got \subseteq ClientSession
  /\ NoSessionLeaks
  /\ conn.closed \/ conn.dialer # NoCaller => conn.session = NoSession
  /\ \A u \in User : user[u].at = "dials" => conn.dialer = u

\* What the place of a call says of it.
PlaceInv ==
  \A u \in User :
    /\ user[u].at \in {"lists", "reads", "caches", "calls"} => user[u].session \in ClientSession
    /\ user[u].at = "calls" => u \in Caller
    /\ user[u].how = "cached" => user[u].at = "over"

\* A call that has not returned was not run.
RanInv == \A u \in Caller : ran[u] = 0 \/ (ran[u] = 1 /\ user[u].at = "over")

\* What is listed or cached under the gen of now is no older than what the ToolSet
\* was told of: gen grows whenever that does.
ListInv ==
  /\ told <= server.version
  /\ \A n \in notices : n.version <= server.version
  /\ cache.gen <= gen
  /\ cache.have /\ cache.gen = gen => cache.version >= told
  /\ \A u \in User :
       /\ user[u].gen <= gen
       /\ user[u].at = "caches" /\ user[u].gen = gen => user[u].list >= told
  /\ CachedListIsCurrent

McpInv == McpTypes /\ ConnInv /\ PlaceInv /\ RanInv /\ ListInv

\* Everything holds at the start.
LEMMA McpInvInit ==
  ASSUME McpAssumption, McpInit
  PROVE  McpInv
<1>1. McpTypes
  BY DEF McpAssumption, McpInit, McpTypes, UserRec, SessionRec, DialRec, NoSession
<1>2. ConnInv /\ PlaceInv
  BY DEF McpInit, ConnInv, PlaceInv, NoSessionLeaks, ClientSession, NoSession, NoCaller, User
<1>3. RanInv /\ ListInv
  BY DEF McpInit, RanInv, ListInv, CachedListIsCurrent, NoCaller, User
<1>4. QED
  BY <1>1, <1>2, <1>3 DEF McpInv

\* One call moves, and nothing else that the invariant speaks of.
LEMMA OneMoves ==
  ASSUME McpInv, NEW u \in User, NEW r \in UserRec, user' = [user EXCEPT ![u] = r],
         UNCHANGED <<server, notices, gen, told, cache, dials>>,
         sessions' \in Seq(SessionRec), Len(sessions') = Len(sessions),
         spare' \in McpLoadRec,
         conn' \in [session : Nat, closed : BOOLEAN, dialer : User \cup {NoCaller}],
         ran' \in [Caller -> Nat],
         ConnInv',
         r.at \in {"lists", "reads", "caches", "calls"} => r.session \in ClientSession,
         r.at = "calls" => u \in Caller,
         r.how = "cached" => r.at = "over" /\ r.list >= r.told,
         \A w \in Caller : w # u => ran'[w] = ran[w],
         u \in Caller => ran'[u] = 0 \/ (ran'[u] = 1 /\ r.at = "over"),
         r.gen <= gen,
         r.at = "caches" /\ r.gen = gen => r.list >= told
  PROVE  McpInv'
<1>1. McpTypes'
  BY DEF McpInv, McpTypes
<1>2. \A w \in User : user'[w] = IF w = u THEN r ELSE user[w]
  BY DEF McpInv, McpTypes
<1>3. PlaceInv'
  BY <1>2 DEF McpInv, PlaceInv, ClientSession
<1>4. RanInv'
  BY <1>2 DEF McpInv, RanInv, User
<1>5. ListInv'
  <2>1. CachedListIsCurrent'
    BY <1>2 DEF McpInv, ListInv, CachedListIsCurrent, User
  <2>2. QED
    BY <1>2, <2>1 DEF McpInv, ListInv
<1>6. QED
  BY <1>1, <1>3, <1>4, <1>5 DEF McpInv

\* A call that does not begin to dial moves, and the connection stays.
LEMMA ConnStays ==
  ASSUME McpInv, NEW u \in User, NEW r \in UserRec, user' = [user EXCEPT ![u] = r],
         UNCHANGED <<sessions, conn, dials>>, r.at = "dials" => user[u].at = "dials"
  PROVE  /\ ConnInv' /\ sessions' \in Seq(SessionRec) /\ Len(sessions') = Len(sessions)
         /\ conn' \in [session : Nat, closed : BOOLEAN, dialer : User \cup {NoCaller}]
BY DEF McpInv, McpTypes, ConnInv, NoSessionLeaks, ClientSession

\* fromCache: what is served under the gen of now is no older than what was told.
LEMMA FromCacheKeeps ==
  ASSUME McpInv, NEW u \in User, FromCache(u)
  PROVE  McpInv'
<1>1. CASE cache.have /\ cache.gen = gen
  <2>1. PICK r : r = [user[u] EXCEPT !.at = "over", !.how = "cached", !.list = cache.version,
                                     !.told = told]
    OBVIOUS
  <2>2. r \in UserRec /\ r.at = "over" /\ r.list = cache.version /\ r.told = told /\ r.gen = user[u].gen
    BY ZenonT(30), <2>1 DEF McpInv, McpTypes, UserRec
  <2>3. user' = [user EXCEPT ![u] = r]
    BY <1>1, <2>1 DEF FromCache, McpInv, McpTypes
  <2>4. r.list >= r.told /\ r.gen <= gen /\ (u \in Caller => ran[u] = 0 \/ ran[u] = 1)
    BY <1>1, <2>2 DEF McpInv, ListInv, RanInv
  <2>5. /\ UNCHANGED <<server, notices, sessions, conn, gen, told, cache, ran, dials, spare>>
        /\ spare' \in McpLoadRec /\ ran' \in [Caller -> Nat]
    BY DEF FromCache, McpInv, McpTypes
  <2>6. QED
    BY <2>2, <2>3, <2>4, <2>5, ConnStays, OneMoves
<1>2. CASE ~(cache.have /\ cache.gen = gen)
  <2>1. PICK r : r = [user[u] EXCEPT !.at = "connect"]
    OBVIOUS
  <2>2. /\ r \in UserRec /\ r.at = "connect" /\ r.gen = user[u].gen /\ r.how = user[u].how
        /\ user[u].at = "out"
    BY ZenonT(30), <2>1 DEF McpInv, McpTypes, UserRec, FromCache
  <2>3. user' = [user EXCEPT ![u] = r]
    BY <1>2, <2>1 DEF FromCache, Goto, McpInv, McpTypes
  <2>4. r.how # "cached" /\ r.gen <= gen /\ (u \in Caller => ran[u] = 0)
    BY <2>2 DEF McpInv, ListInv, RanInv, PlaceInv
  <2>5. /\ UNCHANGED <<server, notices, sessions, conn, gen, told, cache, ran, dials, spare>>
        /\ spare' \in McpLoadRec /\ ran' \in [Caller -> Nat]
    BY DEF FromCache, McpInv, McpTypes
  <2>6. QED
    BY <2>2, <2>3, <2>4, <2>5, ConnStays, OneMoves
<1>3. QED
  BY <1>1, <1>2

\* A call that has not returned and moves on, without a list and not to begin to dial.
LEMMA MovesOn ==
  ASSUME McpInv, NEW u \in User, NEW r \in UserRec, user[u].at # "over", user' = [user EXCEPT ![u] = r],
         UNCHANGED <<server, notices, sessions, conn, gen, told, cache, ran, dials>>,
         spare' \in McpLoadRec,
         r.at \in {"lists", "reads", "calls"} => r.session \in ClientSession,
         r.at = "calls" => u \in Caller,
         r.at = "dials" => user[u].at = "dials",
         r.gen = user[u].gen \/ r.gen = gen, 
         r.at = "caches" => user[u].at = "caches" /\ r.list = user[u].list /\ r.gen = user[u].gen
                            /\ r.session = user[u].session,
         r.how # "cached"
  PROVE  McpInv'
<1>1. /\ r.gen <= gen /\ (u \in Caller => ran[u] = 0) /\ gen \in Nat
      /\ r.at = "caches" => r.session \in ClientSession
      /\ r.at = "caches" /\ r.gen = gen => r.list >= told
  BY DEF McpInv, McpTypes, ListInv, RanInv, PlaceInv
<1>2. ran' \in [Caller -> Nat]
  BY DEF McpInv, McpTypes
<1>3. QED
  BY <1>1, <1>2, ConnStays, OneMoves

\* Execute, AwaitEnds, LoadGen and a context that ends.
LEMMA SimpleMoves ==
  ASSUME McpInv, NEW u \in User, Execute(u) \/ AwaitEnds(u) \/ LoadGen(u) \/ ContextEnds(u)
  PROVE  McpInv'
<1>1. user[u] \in UserRec /\ user \in [User -> UserRec] /\ spare \in McpLoadRec /\ gen \in Nat
  BY DEF McpInv, McpTypes
<1>2. /\ user[u].how = "cached" => user[u].at = "over"
      /\ user[u].at \in {"lists", "reads", "caches", "calls"} => user[u].session \in ClientSession
      /\ user[u].at = "calls" => u \in Caller
  BY DEF McpInv, PlaceInv
<1>3. CASE Execute(u)
  <2>1. PICK r : r = [user[u] EXCEPT !.at = "connect"]
    OBVIOUS
  <2>2. r \in UserRec /\ r.at = "connect" /\ r.gen = user[u].gen /\ r.how = user[u].how
    BY <1>1, <2>1 DEF UserRec
  <2>3. user' = [user EXCEPT ![u] = r] /\ user[u].at = "out"
    BY <1>1, <1>3, <2>1 DEF Execute, Goto
  <2>4. UNCHANGED <<server, notices, sessions, conn, gen, told, cache, ran, dials, spare>>
    BY <1>3 DEF Execute
  <2>5. QED
    BY <1>1, <1>2, <2>2, <2>3, <2>4, MovesOn
<1>4. CASE AwaitEnds(u)
  <2>1. PICK r : r = [user[u] EXCEPT !.at = "over", !.how = "canceled"]
    OBVIOUS
  <2>2. r \in UserRec /\ r.at = "over" /\ r.gen = user[u].gen /\ r.how = "canceled"
    BY <1>1, <2>1 DEF UserRec
  <2>3. user' = [user EXCEPT ![u] = r] /\ user[u].at = "awaits"
    BY <1>1, <1>4, <2>1 DEF AwaitEnds, Ends
  <2>4. UNCHANGED <<server, notices, sessions, conn, gen, told, cache, ran, dials, spare>>
    BY <1>4 DEF AwaitEnds
  <2>5. QED
    BY <1>1, <1>2, <2>2, <2>3, <2>4, MovesOn
<1>5. CASE LoadGen(u)
  <2>1. PICK r : r = [user[u] EXCEPT !.at = "reads", !.gen = gen]
    OBVIOUS
  <2>2. /\ r \in UserRec /\ r.at = "reads" /\ r.gen = gen /\ r.how = user[u].how
        /\ r.session = user[u].session
    BY <1>1, <2>1 DEF UserRec
  <2>3. user' = [user EXCEPT ![u] = r] /\ user[u].at = "lists"
    BY <1>1, <1>5, <2>1 DEF LoadGen
  <2>4. UNCHANGED <<server, notices, sessions, conn, gen, told, cache, ran, dials, spare>>
    BY <1>5 DEF LoadGen
  <2>5. QED
    BY <1>1, <1>2, <2>2, <2>3, <2>4, MovesOn
<1>6. CASE ContextEnds(u)
  <2>1. PICK r : r = [user[u] EXCEPT !.ended = TRUE]
    OBVIOUS
  <2>2. /\ r \in UserRec /\ r.at = user[u].at /\ r.gen = user[u].gen /\ r.how = user[u].how
        /\ r.session = user[u].session /\ r.list = user[u].list
    BY <1>1, <2>1 DEF UserRec
  <2>3. user' = [user EXCEPT ![u] = r] /\ user[u].at # "over"
    BY <1>1, <1>6, <2>1 DEF ContextEnds
  <2>4. /\ UNCHANGED <<server, notices, sessions, conn, gen, told, cache, ran, dials>>
        /\ spare' \in McpLoadRec
    BY <1>1, <1>6 DEF ContextEnds, McpLoadRec
  <2>5. QED
    BY <1>1, <1>2, <2>2, <2>3, <2>4, MovesOn
<1>7. QED
  BY <1>3, <1>4, <1>5, <1>6

\* connect: who dials is the only one, and there is no session meanwhile.
LEMMA ConnectKeeps ==
  ASSUME McpAssumption, McpInv, NEW u \in User, Connect(u)
  PROVE  McpInv'
<1>1. /\ user[u] \in UserRec /\ user \in [User -> UserRec] /\ spare \in McpLoadRec /\ gen \in Nat
      /\ conn \in [session : Nat, closed : BOOLEAN, dialer : User \cup {NoCaller}]
      /\ sessions \in Seq(SessionRec)
  BY DEF McpInv, McpTypes
<1>2. /\ user[u].at = "connect" /\ user[u].how # "cached"
      /\ UNCHANGED <<server, notices, sessions, gen, told, cache, ran, dials, spare>>
  BY DEF McpInv, PlaceInv, Connect
<1>3. CASE conn.closed
  <2>1. PICK r : r = [user[u] EXCEPT !.at = "over", !.how = "closed"]
    OBVIOUS
  <2>2. r \in UserRec /\ r.at = "over" /\ r.gen = user[u].gen /\ r.how = "closed"
    BY <1>1, <2>1 DEF UserRec
  <2>3. user' = [user EXCEPT ![u] = r] /\ UNCHANGED conn
    BY <1>1, <1>3, <2>1 DEF Connect, Ends
  <2>4. QED
    BY <1>1, <1>2, <2>2, <2>3, MovesOn
<1>4. CASE ~conn.closed /\ conn.session # NoSession
  <2>1. PICK r : r = [user[u] EXCEPT !.at = Ready(u), !.session = conn.session]
    OBVIOUS
  <2>2. Ready(u) \in {"lists", "calls"} /\ (Ready(u) = "calls" => u \in Caller)
    BY DEF Ready, User
  <2>3. /\ r \in UserRec /\ r.at = Ready(u) /\ r.gen = user[u].gen /\ r.how = user[u].how
        /\ r.session = conn.session
    BY <1>1, <2>1, <2>2 DEF UserRec
  <2>4. user' = [user EXCEPT ![u] = r] /\ UNCHANGED conn
    BY <1>1, <1>4, <2>1 DEF Connect
  <2>5. conn.session \in ClientSession
    BY <1>1, <1>4 DEF McpInv, ConnInv, ClientSession, NoSession
  <2>6. QED
    BY <1>1, <1>2, <2>2, <2>3, <2>4, <2>5, MovesOn
<1>5. CASE ~conn.closed /\ conn.session = NoSession /\ conn.dialer # NoCaller
  <2>1. PICK r : r = [user[u] EXCEPT !.at = "awaits", !.waitsFor = conn.dialer]
    OBVIOUS
  <2>2. r \in UserRec /\ r.at = "awaits" /\ r.gen = user[u].gen /\ r.how = user[u].how
    BY <1>1, <2>1 DEF UserRec
  <2>3. user' = [user EXCEPT ![u] = r] /\ UNCHANGED conn
    BY <1>1, <1>5, <2>1 DEF Connect
  <2>4. QED
    BY <1>1, <1>2, <2>2, <2>3, MovesOn
<1>6. CASE ~conn.closed /\ conn.session = NoSession /\ conn.dialer = NoCaller
  <2>1. PICK r : r = [user[u] EXCEPT !.at = "dials"]
    OBVIOUS
  <2>2. r \in UserRec /\ r.at = "dials" /\ r.gen = user[u].gen /\ r.how = user[u].how
    BY <1>1, <2>1 DEF UserRec
  <2>3. user' = [user EXCEPT ![u] = r] /\ conn' = [conn EXCEPT !.dialer = u]
    BY <1>1, <1>6, <2>1 DEF Connect, Goto
  <2>4. ConnInv'
    <3>1. \A w \in User : user[w].at # "dials"
      BY <1>6 DEF McpInv, ConnInv, McpAssumption
    <3>2. conn'.session = conn.session /\ conn'.dialer = u /\ conn'.closed = conn.closed
      BY <1>1, <2>3
    <3>3. \A w \in User : user'[w].at = "dials" => w = u
      BY <1>1, <2>3, <3>1
    <3>4. NoSessionLeaks'
      BY <1>2, <3>2 DEF McpInv, ConnInv, NoSessionLeaks, ClientSession
    <3>5. conn.session <= Len(sessions) /\ dials.got \subseteq ClientSession
      BY DEF McpInv, ConnInv
    <3>6. UNCHANGED <<ClientSession, sessions, dials>>
      BY <1>2 DEF ClientSession
    <3>7. conn'.session <= Len(sessions') /\ dials'.got \subseteq ClientSession'
      BY <3>2, <3>5, <3>6
    <3>8. conn'.session = NoSession /\ \A w \in User : user'[w].at = "dials" => conn'.dialer = w
      BY <1>6, <3>2, <3>3
    <3>9. QED
      BY <3>4, <3>7, <3>8 DEF ConnInv, NoSession
  <2>5. /\ conn' \in [session : Nat, closed : BOOLEAN, dialer : User \cup {NoCaller}]
        /\ ran' \in [Caller -> Nat] /\ r.gen <= gen /\ (u \in Caller => ran[u] = 0)
    BY <1>1, <1>2, <2>2, <2>3 DEF McpInv, McpTypes, ListInv, RanInv
  <2>6. QED
    BY <1>1, <1>2, <2>2, <2>3, <2>4, <2>5, OneMoves
<1>7. QED
  BY <1>3, <1>4, <1>5, <1>6

\* Tools, at its end: the list is cached under the gen it was asked for.
LEMMA StoreListKeeps ==
  ASSUME McpInv, NEW u \in User, StoreList(u)
  PROVE  McpInv'
<1>1. /\ user[u] \in UserRec /\ user \in [User -> UserRec] /\ gen \in Nat /\ told \in Nat
      /\ cache \in [have : BOOLEAN, gen : Nat, version : Nat]
  BY DEF McpInv, McpTypes
<1>2. /\ user[u].at = "caches"
      /\ UNCHANGED <<server, notices, sessions, conn, gen, told, ran, dials, spare>>
  BY DEF StoreList
<1>3. /\ cache' \in [have : BOOLEAN, gen : Nat, version : Nat]
      /\ cache'.gen <= gen /\ (cache'.have /\ cache'.gen = gen => cache'.version >= told)
  <2>1. /\ user[u].gen <= gen /\ (user[u].gen = gen => user[u].list >= told)
        /\ cache.gen <= gen /\ (cache.have /\ cache.gen = gen => cache.version >= told)
    BY <1>2 DEF McpInv, ListInv
  <2>2. user[u].gen \in Nat /\ user[u].list \in Nat
    BY <1>1 DEF UserRec
  <2>3. CASE user[u].gen >= cache.gen
    <3>1. cache' = [have |-> TRUE, gen |-> user[u].gen, version |-> user[u].list]
      BY <2>3 DEF StoreList
    <3>2. QED
      BY <2>1, <2>2, <3>1
  <2>4. CASE ~(user[u].gen >= cache.gen)
    <3>1. cache' = cache
      BY <2>4 DEF StoreList
    <3>2. QED
      BY <1>1, <2>1, <3>1
  <2>5. QED
    BY <2>3, <2>4
<1>4. PICK r : r = [user[u] EXCEPT !.at = "over", !.how = "listed"]
  OBVIOUS
<1>5. r \in UserRec /\ r.at = "over" /\ r.gen = user[u].gen /\ r.how = "listed"
  BY <1>1, <1>4 DEF UserRec
<1>6. /\ user' = [user EXCEPT ![u] = r]
      /\ \A w \in User : user'[w] = IF w = u THEN r ELSE user[w]
  BY <1>1, <1>4 DEF StoreList, Ends
<1>7. McpTypes'
  BY <1>1, <1>2, <1>3, <1>5, <1>6 DEF McpInv, McpTypes
<1>8. ConnInv'
  BY <1>2, <1>5, <1>6, ConnStays
<1>9. PlaceInv' /\ RanInv'
  BY <1>2, <1>5, <1>6 DEF McpInv, PlaceInv, RanInv, ClientSession, User
<1>10. ListInv'
  <2>1. CachedListIsCurrent'
    BY <1>5, <1>6 DEF McpInv, ListInv, CachedListIsCurrent, User
  <2>2. QED
    BY <1>2, <1>3, <1>5, <1>6, <2>1 DEF McpInv, ListInv
<1>11. QED
  BY <1>7, <1>8, <1>9, <1>10 DEF McpInv

\* drop: the session that is gone is not open, and not in use.
LEMMA DropKeeps ==
  ASSUME McpInv, NEW u \in User, NEW r \in UserRec, user' = [user EXCEPT ![u] = r], r.at # "dials",
         NEW x \in ClientSession, Drop(x), UNCHANGED dials
  PROVE  /\ ConnInv' /\ sessions' \in Seq(SessionRec) /\ Len(sessions') = Len(sessions)
         /\ conn' \in [session : Nat, closed : BOOLEAN, dialer : User \cup {NoCaller}]
<1>1. /\ sessions \in Seq(SessionRec) /\ user \in [User -> UserRec]
      /\ conn \in [session : Nat, closed : BOOLEAN, dialer : User \cup {NoCaller}]
  BY DEF McpInv, McpTypes
<1>2. /\ sessions' \in Seq(SessionRec) /\ Len(sessions') = Len(sessions)
      /\ \A y \in 1 .. Len(sessions) : sessions'[y].open => y # x /\ sessions[y].open
  <2>1. sessions[x] \in SessionRec /\ x \in 1 .. Len(sessions)
    BY <1>1 DEF ClientSession
  <2>2. PICK z : z = [sessions[x] EXCEPT !.open = FALSE]
    OBVIOUS
  <2>3. z \in SessionRec /\ ~z.open
    BY <2>1, <2>2 DEF SessionRec
  <2>4. sessions' = [sessions EXCEPT ![x] = z]
    BY <1>1, <2>2 DEF Drop
  <2>5. QED
    BY <1>1, <2>1, <2>3, <2>4
<1>3. /\ conn' \in [session : Nat, closed : BOOLEAN, dialer : User \cup {NoCaller}]
      /\ conn'.closed = conn.closed /\ conn'.dialer = conn.dialer
      /\ conn'.session = IF conn.session = x THEN NoSession ELSE conn.session
  BY <1>1 DEF Drop, NoSession
<1>4. NoSessionLeaks' /\ dials'.got \subseteq ClientSession'
  <2>1. NoSession \notin dials.got
    BY <1>1 DEF McpInv, ConnInv, ClientSession, NoSession
  <2>2. QED
    <3>1. ClientSession = 1 .. Len(sessions) /\ ClientSession' = ClientSession
      BY <1>1, <1>2 DEF ClientSession
    <3>2. /\ \A y \in ClientSession : sessions[y].open => y = conn.session \/ y \in dials.got
          /\ conn.session \notin dials.got /\ dials.got \subseteq ClientSession
      BY DEF McpInv, ConnInv, NoSessionLeaks
    <3>3. \A y \in ClientSession' : sessions'[y].open => y = conn'.session \/ y \in dials'.got
      BY <1>2, <1>3, <3>1, <3>2
    <3>4. conn'.session \notin dials'.got /\ dials'.got \subseteq ClientSession'
      BY <1>3, <2>1, <3>1, <3>2
    <3>5. QED
      BY <3>3, <3>4 DEF NoSessionLeaks
<1>5. \A w \in User : user'[w].at = "dials" => user[w].at = "dials"
  BY <1>1
<1>6. conn.session <= Len(sessions) /\ 0 <= Len(sessions)
  BY <1>1 DEF McpInv, ConnInv
<1>7. QED
  BY <1>2, <1>3, <1>4, <1>5, <1>6 DEF McpInv, ConnInv, NoSession

\* list: what it gets is the server's list of now.
LEMMA ReadListKeeps ==
  ASSUME McpInv, NEW u \in User, ReadList(u)
  PROVE  McpInv'
<1>1. /\ user[u] \in UserRec /\ user \in [User -> UserRec] /\ spare \in McpLoadRec /\ gen \in Nat
      /\ server \in [boot : Nat, version : Nat] /\ ran \in [Caller -> Nat] /\ told \in Nat
  BY DEF McpInv, McpTypes
<1>2. /\ user[u].at = "reads" /\ user[u].how # "cached" /\ user[u].session \in ClientSession
      /\ UNCHANGED <<server, notices, gen, told, cache, ran, dials, spare>>
      /\ u \in Caller => ran[u] = 0
  BY DEF McpInv, PlaceInv, RanInv, ReadList
<1>3. user[u].gen <= gen /\ told <= server.version
  BY DEF McpInv, ListInv
<1>4. CASE Alive(user[u].session)
  <2>1. PICK r : r = [user[u] EXCEPT !.at = "caches", !.list = server.version]
    OBVIOUS
  <2>2. /\ r \in UserRec /\ r.at = "caches" /\ r.gen = user[u].gen /\ r.how = user[u].how
        /\ r.list = server.version /\ r.session = user[u].session
    BY <1>1, <2>1 DEF UserRec
  <2>3. user' = [user EXCEPT ![u] = r] /\ UNCHANGED <<conn, sessions>>
    BY <1>1, <1>4, <2>1 DEF ReadList
  <2>4. r.list >= told
    BY <1>1, <1>3, <2>2
  <2>5. QED
    BY <1>1, <1>2, <1>3, <2>2, <2>3, <2>4, ConnStays, OneMoves
<1>5. CASE ~Alive(user[u].session)
  <2>1. PICK r : r = IF user[u].tries = 0 /\ ~user[u].ended
                     THEN [user[u] EXCEPT !.at = "connect", !.tries = 1]
                     ELSE [user[u] EXCEPT !.at = "over", !.how = "failed"]
    OBVIOUS
  <2>2. r \in UserRec /\ r.at \in {"connect", "over"} /\ r.gen = user[u].gen /\ r.how # "cached"
    BY <1>1, <1>2, <2>1 DEF UserRec
  <2>3. user' = [user EXCEPT ![u] = r] /\ Drop(user[u].session)
    BY <1>1, <1>5, <2>1 DEF ReadList, Ends
  <2>4. QED
    BY <1>1, <1>2, <1>3, <2>2, <2>3, DropKeeps, OneMoves
<1>6. QED
  BY <1>4, <1>5

\* Execute's CallTool: a call is sent again only when the server ran nothing.
LEMMA CallToolKeeps ==
  ASSUME McpInv, NEW u \in User, CallTool(u)
  PROVE  McpInv'
<1>1. /\ user[u] \in UserRec /\ user \in [User -> UserRec] /\ spare \in McpLoadRec /\ gen \in Nat
      /\ ran \in [Caller -> Nat]
  BY DEF McpInv, McpTypes
<1>2. /\ user[u].at = "calls" /\ user[u].how # "cached" /\ user[u].session \in ClientSession
      /\ UNCHANGED <<server, notices, gen, told, cache, dials>>
      /\ u \in Caller /\ ran[u] = 0
  BY DEF McpInv, PlaceInv, RanInv, CallTool
<1>3. user[u].gen <= gen
  BY DEF McpInv, ListInv
<1>4. \/ /\ ran' = [ran EXCEPT ![u] = @ + 1] /\ UNCHANGED <<conn, sessions, spare>>
         /\ user' = [user EXCEPT ![u].at = "over", ![u].how = "called"]
      \/ /\ Drop(user[u].session) /\ UNCHANGED <<ran, spare>>
         /\ \/ user' = [user EXCEPT ![u].at = "connect", ![u].tries = 1]
            \/ user' = [user EXCEPT ![u].at = "over", ![u].how = "failed"]
      \/ /\ Drop(user[u].session) /\ ran' = [ran EXCEPT ![u] = @ + 1]
         /\ spare.drops > 0 /\ spare' = [spare EXCEPT !.drops = @ - 1]
         /\ user' = [user EXCEPT ![u].at = "over", ![u].how = "failed"]
  BY DEF CallTool, Resend, Ends
<1>5. \/ /\ ran' = [ran EXCEPT ![u] = @ + 1] /\ UNCHANGED <<conn, sessions>> /\ spare' \in McpLoadRec
         /\ \E r \in UserRec : /\ user' = [user EXCEPT ![u] = r] /\ r.at = "over"
                               /\ r.how # "cached" /\ r.gen = user[u].gen
      \/ /\ Drop(user[u].session) /\ UNCHANGED ran /\ spare' \in McpLoadRec
         /\ \E r \in UserRec : /\ user' = [user EXCEPT ![u] = r] /\ r.at \in {"connect", "over"}
                               /\ r.how # "cached" /\ r.gen = user[u].gen
      \/ /\ Drop(user[u].session) /\ ran' = [ran EXCEPT ![u] = @ + 1] /\ spare' \in McpLoadRec
         /\ \E r \in UserRec : /\ user' = [user EXCEPT ![u] = r] /\ r.at = "over"
                               /\ r.how # "cached" /\ r.gen = user[u].gen
  <2>1. PICK a, b, c : /\ a = [user[u] EXCEPT !.at = "over", !.how = "called"]
                       /\ b = [user[u] EXCEPT !.at = "connect", !.tries = 1]
                       /\ c = [user[u] EXCEPT !.at = "over", !.how = "failed"]
    OBVIOUS
  <2>2. /\ a \in UserRec /\ a.at = "over" /\ a.how # "cached" /\ a.gen = user[u].gen
        /\ b \in UserRec /\ b.at = "connect" /\ b.how # "cached" /\ b.gen = user[u].gen
        /\ c \in UserRec /\ c.at = "over" /\ c.how # "cached" /\ c.gen = user[u].gen
    BY <1>1, <1>2, <2>1 DEF UserRec
  <2>3. /\ user' = [user EXCEPT ![u].at = "over", ![u].how = "called"] => user' = [user EXCEPT ![u] = a]
        /\ user' = [user EXCEPT ![u].at = "connect", ![u].tries = 1] => user' = [user EXCEPT ![u] = b]
        /\ user' = [user EXCEPT ![u].at = "over", ![u].how = "failed"] => user' = [user EXCEPT ![u] = c]
    BY <1>1, <2>1
  <2>4. spare' = spare \/ (spare.drops > 0 /\ spare' = [spare EXCEPT !.drops = @ - 1])
          => spare' \in McpLoadRec
    BY <1>1 DEF McpLoadRec
  <2>5. QED
    BY <1>4, <2>2, <2>3, <2>4
<1>6. ran' = [ran EXCEPT ![u] = @ + 1] =>
        ran' \in [Caller -> Nat] /\ ran'[u] = 1 /\ \A w \in Caller : w # u => ran'[w] = ran[w]
  BY <1>1, <1>2
<1>7. CASE /\ ran' = [ran EXCEPT ![u] = @ + 1] /\ UNCHANGED <<conn, sessions>> /\ spare' \in McpLoadRec
           /\ \E r \in UserRec : /\ user' = [user EXCEPT ![u] = r] /\ r.at = "over"
                                 /\ r.how # "cached" /\ r.gen = user[u].gen
  BY <1>2, <1>3, <1>6, <1>7, ConnStays, OneMoves
<1>8. CASE /\ Drop(user[u].session) /\ UNCHANGED ran /\ spare' \in McpLoadRec
           /\ \E r \in UserRec : /\ user' = [user EXCEPT ![u] = r] /\ r.at \in {"connect", "over"}
                                 /\ r.how # "cached" /\ r.gen = user[u].gen
  BY <1>1, <1>2, <1>3, <1>8, DropKeeps, OneMoves
<1>9. CASE /\ Drop(user[u].session) /\ ran' = [ran EXCEPT ![u] = @ + 1] /\ spare' \in McpLoadRec
           /\ \E r \in UserRec : /\ user' = [user EXCEPT ![u] = r] /\ r.at = "over"
                                 /\ r.how # "cached" /\ r.gen = user[u].gen
  BY <1>2, <1>3, <1>6, <1>9, DropKeeps, OneMoves
<1>10. QED
  BY <1>5, <1>7, <1>8, <1>9

\* What becomes of a call that dialed or waited for who did.
Resumed(w, r) ==
  /\ user[w].at \in {"dials", "awaits"} /\ r \in UserRec
  /\ r.at \in {"lists", "calls", "connect", "over"}
  /\ r.at \in {"lists", "calls"} => r.session \in 1 .. Len(sessions')
  /\ r.at = "calls" => w \in Caller
  /\ r.how # "cached" /\ r.gen = user[w].gen

\* Several calls move as an attempt to connect ends.
LEMMA ManyMove ==
  ASSUME McpInv, user' \in [User -> UserRec], \A w \in User : user'[w] = user[w] \/ Resumed(w, user'[w]),
         sessions' \in Seq(SessionRec), Len(sessions) <= Len(sessions'),
         conn' \in [session : Nat, closed : BOOLEAN, dialer : User \cup {NoCaller}], ConnInv',
         spare' \in McpLoadRec, dials' \in DialRec, UNCHANGED <<server, notices, cache, ran>>,
         \/ gen' = gen /\ told' = told
         \/ gen' = gen + 1 /\ told' = server.version
  PROVE  McpInv'
<1>1. /\ gen \in Nat /\ told \in Nat /\ server.version \in Nat /\ user \in [User -> UserRec]
      /\ Len(sessions) \in Nat /\ Len(sessions') \in Nat /\ cache.gen \in Nat
  BY DEF McpInv, McpTypes
<1>2. McpTypes'
  BY <1>1 DEF McpInv, McpTypes
<1>3. PlaceInv'
  <2>1. ClientSession = 1 .. Len(sessions) /\ ClientSession' = 1 .. Len(sessions')
    BY DEF McpInv, McpTypes, ClientSession
  <2>2. ClientSession \subseteq ClientSession'
    BY <1>1, <2>1
  <2>3. SUFFICES ASSUME NEW w \in User
                 PROVE  /\ user'[w].at \in {"lists", "reads", "caches", "calls"} =>
                             user'[w].session \in ClientSession'
                        /\ user'[w].at = "calls" => w \in Caller
                        /\ user'[w].how = "cached" => user'[w].at = "over"
    BY DEF PlaceInv
  <2>4. CASE user'[w] = user[w]
    BY <2>2, <2>4 DEF McpInv, PlaceInv
  <2>5. CASE Resumed(w, user'[w])
    BY <2>1, <2>5 DEF Resumed
  <2>6. QED
    BY <2>4, <2>5
<1>4. RanInv'
  BY DEF McpInv, RanInv, Resumed, User
<1>5. ListInv'
  <2>1. \A w \in User : user'[w].gen = user[w].gen /\ (user'[w].at = "caches" => user'[w] = user[w])
    BY DEF Resumed
  <2>2. \A w \in User : user[w].gen \in Nat /\ user[w].gen <= gen
    BY <1>1 DEF McpInv, ListInv, UserRec
  <2>3. told' <= server.version /\ gen' \in Nat /\ gen <= gen' /\ (gen' = gen => told' = told)
    BY <1>1 DEF McpInv, ListInv
  <2>4. CachedListIsCurrent'
    BY DEF McpInv, ListInv, CachedListIsCurrent, Resumed, User
  <2>5. cache.gen <= gen' /\ (cache.have /\ cache.gen = gen' => cache.version >= told')
    BY <1>1, <2>3 DEF McpInv, ListInv
  <2>6. \A w \in User : /\ user'[w].gen <= gen'
                        /\ user'[w].at = "caches" /\ user'[w].gen = gen' => user'[w].list >= told'
    BY <1>1, <2>1, <2>2, <2>3 DEF McpInv, ListInv
  <2>7. QED
    BY <2>3, <2>4, <2>5, <2>6 DEF McpInv, ListInv
<1>6. QED
  BY <1>2, <1>3, <1>4, <1>5 DEF McpInv

\* What those who wait do with the end of an attempt.
LEMMA SettlesIs ==
  ASSUME McpInv, NEW u \in User, user[u].at = "dials", NEW x \in 0 .. Len(sessions'),
         Len(sessions') \in Nat,
         NEW h \in {"closed", "canceled", "timeout", "connected"}, Settles(u, x, h)
  PROVE  /\ user' \in [User -> UserRec]
         /\ \A w \in User : user'[w] = user[w] \/ Resumed(w, user'[w])
         /\ user'[u].at # "dials"
         /\ \A w \in User : user'[w].at = "dials" => user[w].at = "dials"
<1>1. user \in [User -> UserRec] /\ x \in Nat
  BY DEF McpInv, McpTypes
<1>2. \A w \in User : user[w].at \in {"dials", "awaits"} => user[w].how # "cached"
  BY DEF McpInv, PlaceInv
<1>3. ASSUME NEW w \in User, user[w].at \in {"dials", "awaits"}, NEW r, r = Resume(w, x, h)
      PROVE  Resumed(w, r)
  <2>1. user[w] \in UserRec
    BY <1>1
  <2>2. CASE x # NoSession
    <3>1. Ready(w) \in {"lists", "calls"} /\ (Ready(w) = "calls" => w \in Caller)
      BY DEF Ready, User
    <3>2. r = [user[w] EXCEPT !.at = Ready(w), !.session = x]
      BY <1>3, <2>2 DEF Resume
    <3>3. /\ r \in UserRec /\ r.at = Ready(w) /\ r.session = x /\ r.how = user[w].how
          /\ r.gen = user[w].gen
      BY <1>1, <2>1, <3>1, <3>2 DEF UserRec
    <3>4. QED
      BY <1>1, <1>2, <1>3, <2>2, <3>1, <3>3 DEF Resumed, NoSession
  <2>3. CASE x = NoSession
    <3>1. \/ r = [user[w] EXCEPT !.at = "connect"]
          \/ r = [user[w] EXCEPT !.at = "over", !.how = h]
      BY <1>3, <2>3 DEF Resume
    <3>2. r \in UserRec /\ r.at \in {"connect", "over"} /\ r.how # "cached" /\ r.gen = user[w].gen
      BY <1>2, <1>3, <2>1, <3>1 DEF UserRec
    <3>3. QED
      BY <1>3, <3>2 DEF Resumed
  <2>4. QED
    BY <2>2, <2>3
<1>4. PICK z : z = [user[u] EXCEPT !.at = "over", !.how = h]
  OBVIOUS
<1>5. Resumed(u, z)
  <2>1. z \in UserRec /\ z.at = "over" /\ z.how # "cached" /\ z.gen = user[u].gen
    BY <1>1, <1>4 DEF UserRec
  <2>2. QED
    BY <2>1 DEF Resumed
<1>6. ASSUME NEW w \in User
      PROVE  /\ user'[w] = user[w] \/ Resumed(w, user'[w])
             /\ w = u => Resumed(w, user'[w])
  <2>1. user'[w] = IF w = u /\ x = NoSession THEN z
                   ELSE IF w = u \/ w \in Waiters(u) THEN Resume(w, x, h) ELSE user[w]
    BY <1>4 DEF Settles
  <2>2. w \in Waiters(u) => user[w].at = "awaits"
    BY DEF Waiters
  <2>3. QED
    BY <1>3, <1>5, <2>1, <2>2
<1>7. \A w \in User : user'[w] \in UserRec
  BY <1>1, <1>6 DEF Resumed
<1>8. user' = [w \in User |-> user'[w]]
  BY DEF Settles
<1>9. user' \in [User -> UserRec]
  BY <1>7, <1>8
<1>10. QED
  BY <1>6, <1>9 DEF Resumed

\* dial: the ToolSet uses the session, or closes it when it was closed itself.
LEMMA DialedKeeps ==
  ASSUME McpAssumption, McpInv, NEW u \in User, Dialed(u)
  PROVE  McpInv'
<1>1. /\ sessions \in Seq(SessionRec) /\ Len(sessions) \in Nat /\ server.boot \in Nat
      /\ conn \in [session : Nat, closed : BOOLEAN, dialer : User \cup {NoCaller}]
      /\ dials \in DialRec /\ spare \in McpLoadRec
  BY DEF McpInv, McpTypes
<1>2. /\ user[u].at = "dials" /\ UNCHANGED <<server, notices, cache, ran, dials, spare>>
      /\ conn.dialer = u /\ conn.dialer # NoCaller /\ conn.session = NoSession
      /\ \A w \in User : user[w].at = "dials" => w = u
  BY DEF Dialed, McpInv, ConnInv, McpAssumption
<1>3. PICK z : z = [boot |-> server.boot, open |-> ~conn.closed]
  OBVIOUS
<1>4. /\ sessions' \in Seq(SessionRec) /\ Len(sessions') = Len(sessions) + 1
      /\ \A x \in 1 .. Len(sessions) : sessions'[x] = sessions[x]
      /\ sessions'[Len(sessions) + 1] = z
  <2>1. z \in SessionRec
    BY <1>1, <1>3 DEF SessionRec
  <2>2. sessions' = Append(sessions, z)
    BY <1>3 DEF Dialed
  <2>3. QED
    BY <1>1, <2>1, <2>2
<1>5. /\ \A x \in 1 .. Len(sessions) : sessions[x].open => x \in dials.got
      /\ dials.got \subseteq 1 .. Len(sessions)
  BY <1>1, <1>2 DEF McpInv, ConnInv, NoSessionLeaks, ClientSession, NoSession
<1>6. CASE conn.closed
  <2>1. /\ conn' \in [session : Nat, closed : BOOLEAN, dialer : User \cup {NoCaller}]
        /\ conn'.session = NoSession /\ conn'.dialer = NoCaller
    BY <1>1, <1>2, <1>6 DEF Dialed
  <2>2. Settles(u, NoSession, "closed") /\ UNCHANGED <<gen, told>>
    BY <1>6 DEF Dialed
  <2>3. /\ user' \in [User -> UserRec]
        /\ \A w \in User : user'[w] = user[w] \/ Resumed(w, user'[w])
        /\ \A w \in User : user'[w].at # "dials"
    BY <1>1, <1>2, <1>4, <2>2, SettlesIs DEF NoSession
  <2>4. NoSessionLeaks' /\ dials'.got \subseteq ClientSession'
    <3>1. ~z.open
      BY <1>1, <1>3, <1>6
    <3>2. ClientSession' = 1 .. Len(sessions) + 1
      BY <1>1, <1>4 DEF ClientSession
    <3>3. NoSession \notin dials.got
      BY <1>1, <1>5 DEF NoSession
    <3>4. QED
      BY SMTT(30), <1>1, <1>2, <1>4, <1>5, <2>1, <3>1, <3>2, <3>3 DEF NoSessionLeaks
  <2>5. ConnInv'
    BY <1>1, <1>4, <2>1, <2>3, <2>4 DEF ConnInv, NoSession
  <2>6. QED
    BY <1>1, <1>2, <1>4, <2>1, <2>2, <2>3, <2>5, ManyMove
<1>7. CASE ~conn.closed
  <2>1. /\ conn' \in [session : Nat, closed : BOOLEAN, dialer : User \cup {NoCaller}]
        /\ conn'.session = Len(sessions) + 1 /\ conn'.dialer = NoCaller /\ ~conn'.closed
    <3>1. PICK n \in Nat : n = Len(sessions) + 1
      BY <1>1
    <3>2. conn' = [conn EXCEPT !.dialer = NoCaller, !.session = n]
      BY <1>7, <3>1 DEF Dialed
    <3>3. QED
      BY <1>1, <1>7, <3>1, <3>2
  <2>2. /\ Settles(u, Len(sessions) + 1, "connected")
        /\ gen' = gen + 1 /\ told' = server.version
    BY <1>7 DEF Dialed
  <2>3. /\ user' \in [User -> UserRec]
        /\ \A w \in User : user'[w] = user[w] \/ Resumed(w, user'[w])
        /\ \A w \in User : user'[w].at # "dials"
    BY <1>1, <1>2, <1>4, <2>2, SettlesIs
  <2>4. NoSessionLeaks' /\ dials'.got \subseteq ClientSession'
    <3>1. ClientSession' = 1 .. Len(sessions) + 1
      BY <1>1, <1>4 DEF ClientSession
    <3>2. QED
      BY SMTT(30), <1>1, <1>2, <1>4, <1>5, <2>1, <3>1 DEF NoSessionLeaks
  <2>5. ConnInv'
    BY <1>1, <1>4, <2>1, <2>3, <2>4 DEF ConnInv, NoSession
  <2>6. QED
    BY <1>1, <1>2, <1>4, <2>1, <2>2, <2>3, <2>5, ManyMove
<1>8. QED
  BY <1>6, <1>7

\* A dial that is given up leaves nothing in use.
LEMMA DialGivenUpKeeps ==
  ASSUME McpAssumption, McpInv, NEW u \in User, DialGivenUp(u)
  PROVE  McpInv'
<1>1. /\ sessions \in Seq(SessionRec) /\ Len(sessions) \in Nat
      /\ conn \in [session : Nat, closed : BOOLEAN, dialer : User \cup {NoCaller}]
      /\ dials \in DialRec /\ spare \in McpLoadRec
  BY DEF McpInv, McpTypes
<1>2. /\ user[u].at = "dials" /\ UNCHANGED <<server, notices, sessions, gen, told, cache, ran>>
      /\ dials' = [dials EXCEPT !.going = @ + 1]
      /\ conn.dialer = u /\ conn.session = NoSession /\ \A w \in User : user[w].at = "dials" => w = u
  BY DEF DialGivenUp, McpInv, ConnInv, McpAssumption
<1>3. spare' \in McpLoadRec
  <2>1. CASE UNCHANGED spare
    BY <1>1, <2>1
  <2>2. CASE spare.late > 0 /\ spare' = [spare EXCEPT !.late = @ - 1]
    <3>1. PICK k \in Nat : k = spare.late - 1
      BY <1>1, <2>2 DEF McpLoadRec
    <3>2. spare' = [spare EXCEPT !.late = k]
      BY <2>2, <3>1
    <3>3. QED
      BY <1>1, <3>2 DEF McpLoadRec
  <2>3. QED
    BY <2>1, <2>2 DEF DialGivenUp
<1>4. \E h \in {"canceled", "timeout"} : Settles(u, NoSession, h)
  BY DEF DialGivenUp
<1>5. /\ user' \in [User -> UserRec]
      /\ \A w \in User : user'[w] = user[w] \/ Resumed(w, user'[w])
      /\ \A w \in User : user'[w].at # "dials"
  BY <1>1, <1>2, <1>4, SettlesIs DEF NoSession
<1>6. /\ conn' \in [session : Nat, closed : BOOLEAN, dialer : User \cup {NoCaller}]
      /\ conn'.session = NoSession /\ conn'.dialer = NoCaller
  BY <1>1, <1>2 DEF DialGivenUp
<1>7. dials' \in DialRec /\ dials'.got = dials.got
  BY <1>1, <1>2 DEF DialRec
<1>8. ConnInv'
  <2>1. NoSessionLeaks' /\ dials'.got \subseteq ClientSession'
    BY <1>2, <1>6, <1>7 DEF McpInv, ConnInv, NoSessionLeaks, ClientSession
  <2>2. QED
    BY <1>1, <1>2, <1>5, <1>6, <2>1 DEF ConnInv, NoSession
<1>9. QED
  BY <1>1, <1>2, <1>3, <1>5, <1>6, <1>7, <1>8, ManyMove

\* Close leaves no session open.
LEMMA CloseKeeps ==
  ASSUME McpInv, Close
  PROVE  McpInv'
<1>1. /\ sessions \in Seq(SessionRec) /\ Len(sessions) \in Nat
      /\ conn \in [session : Nat, closed : BOOLEAN, dialer : User \cup {NoCaller}]
  BY DEF McpInv, McpTypes
<1>2. UNCHANGED <<server, notices, gen, told, cache, user, ran, dials, spare>>
  BY DEF Close
<1>3. /\ sessions' \in Seq(SessionRec) /\ Len(sessions') = Len(sessions)
      /\ \A x \in 1 .. Len(sessions) : sessions'[x].open => x # conn.session /\ sessions[x].open
  <2>1. CASE conn.session = NoSession
    BY <1>1, <2>1 DEF Close, NoSession
  <2>2. CASE conn.session # NoSession
    <3>1. conn.session \in 1 .. Len(sessions)
      BY <1>1, <2>2 DEF McpInv, ConnInv, NoSession
    <3>2. PICK z : z = [sessions[conn.session] EXCEPT !.open = FALSE]
      OBVIOUS
    <3>3. sessions[conn.session] \in SessionRec
      BY <1>1, <3>1
    <3>4. z \in SessionRec /\ ~z.open
      BY <3>2, <3>3 DEF SessionRec
    <3>5. sessions' = [sessions EXCEPT ![conn.session] = z]
      BY <1>1, <2>2, <3>2 DEF Close
    <3>6. QED
      BY <1>1, <3>1, <3>4, <3>5
  <2>3. QED
    BY <2>1, <2>2
<1>4. /\ conn' \in [session : Nat, closed : BOOLEAN, dialer : User \cup {NoCaller}]
      /\ conn'.session = NoSession /\ conn'.dialer = conn.dialer
  BY <1>1 DEF Close, NoSession
<1>5. ConnInv'
  <2>1. NoSession \notin dials.got
    BY <1>1 DEF McpInv, ConnInv, ClientSession, NoSession
  <2>2. NoSessionLeaks' /\ dials'.got \subseteq ClientSession'
    BY <1>1, <1>2, <1>3, <1>4, <2>1 DEF McpInv, ConnInv, NoSessionLeaks, ClientSession
  <2>3. QED
    BY <1>1, <1>2, <1>3, <1>4, <2>2 DEF McpInv, ConnInv, NoSession
<1>6. PlaceInv'
  <2>1. ClientSession' = ClientSession
    BY <1>1, <1>3 DEF ClientSession
  <2>2. QED
    BY <1>2, <2>1 DEF McpInv, PlaceInv
<1>7. McpTypes' /\ RanInv' /\ ListInv'
  BY <1>2, <1>3, <1>4 DEF McpInv, McpTypes, RanInv, ListInv, CachedListIsCurrent
<1>8. QED
  BY <1>5, <1>6, <1>7 DEF McpInv

\* A dial that was given up ends: what it got is held to be closed, and closed.
LEMMA LateKeeps ==
  ASSUME McpInv, LateDial \/ LateClose
  PROVE  McpInv'
<1>1. /\ sessions \in Seq(SessionRec) /\ Len(sessions) \in Nat /\ server.boot \in Nat
      /\ conn.session \in Nat /\ dials \in DialRec
  BY DEF McpInv, McpTypes
<1>2. UNCHANGED <<server, notices, conn, gen, told, cache, user, ran, spare>>
  BY DEF LateDial, LateClose
<1>3. /\ ClientSession = 1 .. Len(sessions) /\ dials.got \subseteq 1 .. Len(sessions)
      /\ conn.session <= Len(sessions) /\ conn.session \notin dials.got
      /\ \A x \in 1 .. Len(sessions) : sessions[x].open => x = conn.session \/ x \in dials.got
  BY <1>1 DEF McpInv, ConnInv, NoSessionLeaks, ClientSession
<1>4. /\ sessions' \in Seq(SessionRec) /\ Len(sessions) <= Len(sessions') /\ dials' \in DialRec
      /\ dials'.got \subseteq 1 .. Len(sessions') /\ conn.session \notin dials'.got
      /\ \A x \in 1 .. Len(sessions') : sessions'[x].open => x = conn.session \/ x \in dials'.got
  <2>1. CASE LateDial /\ UNCHANGED sessions
    <3>1. dials' \in DialRec /\ dials'.got = dials.got
      <4>1. PICK k \in Nat, t \in Nat : k = dials.going - 1 /\ t = Len(sessions) + 1
        BY <1>1, <2>1 DEF LateDial, DialRec
      <4>2. sessions' # Append(sessions, [boot |-> server.boot, open |-> TRUE])
        BY <1>1, <2>1
      <4>3. dials' = [dials EXCEPT !.going = k]
        BY <2>1, <4>1, <4>2 DEF LateDial
      <4>4. QED
        BY <1>1, <4>3 DEF DialRec
    <3>2. QED
      BY <1>1, <1>3, <2>1, <3>1
  <2>2. CASE LateDial /\ ~UNCHANGED sessions
    <3>1. PICK k \in Nat, t \in Nat : k = dials.going - 1 /\ t = Len(sessions) + 1
      BY <1>1, <2>2 DEF LateDial, DialRec
    <3>2. PICK z \in SessionRec : z = [boot |-> server.boot, open |-> TRUE]
      BY <1>1 DEF SessionRec
    <3>3. sessions' = Append(sessions, z) /\ dials' = [going |-> k, got |-> dials.got \cup {t}]
      BY <2>2, <3>1, <3>2 DEF LateDial
    <3>4. /\ sessions' \in Seq(SessionRec) /\ Len(sessions') = t
          /\ \A x \in 1 .. Len(sessions) : sessions'[x] = sessions[x]
      BY <1>1, <3>1, <3>2, <3>3
    <3>5. dials' \in DialRec /\ dials'.got = dials.got \cup {t}
      BY <1>1, <3>1, <3>3 DEF DialRec
    <3>6. QED
      BY SMTT(30), <1>1, <1>3, <3>1, <3>4, <3>5
  <2>3. CASE LateClose
    <3>1. PICK x \in dials.got : /\ dials' = [dials EXCEPT !.got = @ \ {x}]
                                 /\ sessions' = [sessions EXCEPT ![x].open = FALSE]
      BY <2>3 DEF LateClose
    <3>2. x \in 1 .. Len(sessions) /\ sessions[x] \in SessionRec
      BY <1>1, <1>3
    <3>3. PICK z : z = [sessions[x] EXCEPT !.open = FALSE]
      OBVIOUS
    <3>4. z \in SessionRec /\ ~z.open
      BY <3>2, <3>3 DEF SessionRec
    <3>5. sessions' = [sessions EXCEPT ![x] = z]
      BY <1>1, <3>1, <3>3
    <3>6. /\ sessions' \in Seq(SessionRec) /\ Len(sessions') = Len(sessions)
          /\ \A y \in 1 .. Len(sessions) : sessions'[y].open => y # x /\ sessions[y].open
      BY <1>1, <3>2, <3>4, <3>5
    <3>7. dials' \in DialRec /\ dials'.got = dials.got \ {x}
      BY <1>1, <3>1 DEF DialRec
    <3>8. QED
      BY <1>1, <1>3, <3>6, <3>7
  <2>4. QED
    BY <2>1, <2>2, <2>3
<1>5. ClientSession' = 1 .. Len(sessions') /\ ClientSession \subseteq ClientSession'
  BY <1>1, <1>3, <1>4 DEF ClientSession
<1>6. ConnInv'
  <2>1. conn.session <= Len(sessions')
    BY <1>1, <1>3, <1>4
  <2>2. QED
    BY <1>2, <1>4, <1>5, <2>1 DEF McpInv, ConnInv, NoSessionLeaks
<1>7. McpTypes' /\ PlaceInv' /\ RanInv' /\ ListInv'
  BY <1>2, <1>4, <1>5 DEF McpInv, McpTypes, PlaceInv, RanInv, ListInv, CachedListIsCurrent
<1>8. QED
  BY <1>6, <1>7 DEF McpInv

\* The server's list changes, or it starts again.
LEMMA ServerKeeps ==
  ASSUME McpInv, ServerChanges \/ ServerRestarts
  PROVE  McpInv'
<1>1. /\ server \in [boot : Nat, version : Nat] /\ told \in Nat /\ spare \in McpLoadRec
      /\ notices \in SUBSET [boot : Nat, version : Nat]
  BY DEF McpInv, McpTypes
<1>2. UNCHANGED <<sessions, conn, gen, told, cache, user, ran, dials>>
  BY DEF ServerChanges, ServerRestarts
<1>3. PICK v \in Nat : v = server.version + 1
  BY <1>1
<1>4. /\ server' \in [boot : Nat, version : Nat] /\ server'.version = v
      /\ notices' \subseteq notices \cup {[boot |-> server.boot, version |-> v]}
  BY <1>1, <1>3 DEF ServerChanges, ServerRestarts
<1>5. McpTypes'
  <2>1. spare' \in McpLoadRec
    BY <1>1 DEF ServerChanges, ServerRestarts, McpLoadRec
  <2>2. notices' \in SUBSET [boot : Nat, version : Nat]
    BY <1>1, <1>3, <1>4
  <2>3. QED
    BY <1>2, <1>4, <2>1, <2>2 DEF McpInv, McpTypes
<1>6. ConnInv' /\ PlaceInv' /\ RanInv'
  BY <1>2 DEF McpInv, ConnInv, PlaceInv, RanInv, NoSessionLeaks, ClientSession
<1>7. ListInv'
  <2>1. told' <= server'.version /\ \A n \in notices' : n.version <= server'.version
    BY <1>1, <1>2, <1>3, <1>4 DEF McpInv, ListInv
  <2>2. QED
    BY <1>2, <2>1 DEF McpInv, ListInv, CachedListIsCurrent
<1>8. QED
  BY <1>5, <1>6, <1>7 DEF McpInv

\* ToolListChangedHandler: gen grows, so that no list asked for before is served.
LEMMA NotifiedKeeps ==
  ASSUME McpInv, NEW n \in notices, Notified(n)
  PROVE  McpInv'
<1>1. /\ server.version \in Nat /\ told \in Nat /\ gen \in Nat /\ n.version \in Nat
      /\ cache.gen \in Nat /\ user \in [User -> UserRec]
  BY DEF McpInv, McpTypes
<1>2. UNCHANGED <<server, sessions, conn, cache, user, ran, dials, spare>> /\ notices' \subseteq notices
  BY DEF Notified
<1>3. \/ gen' = gen /\ told' = told
      \/ gen' = gen + 1 /\ told' \in {n.version, told}
  BY DEF Notified
<1>4. /\ gen' \in Nat /\ told' \in Nat /\ told' <= server.version /\ gen <= gen'
      /\ gen' = gen => told' = told
  BY <1>1, <1>3 DEF McpInv, ListInv
<1>5. McpTypes'
  BY <1>2, <1>4 DEF McpInv, McpTypes
<1>6. ConnInv' /\ PlaceInv' /\ RanInv'
  BY <1>2 DEF McpInv, ConnInv, PlaceInv, RanInv, NoSessionLeaks, ClientSession
<1>7. ListInv'
  <2>1. \A w \in User : user[w].gen \in Nat /\ user[w].gen <= gen
    BY <1>1 DEF McpInv, ListInv, UserRec
  <2>2. \A w \in User : /\ user[w].gen <= gen'
                        /\ user[w].at = "caches" /\ user[w].gen = gen' => user[w].list >= told'
    BY <1>1, <1>4, <2>1 DEF McpInv, ListInv
  <2>3. cache.gen <= gen' /\ (cache.have /\ cache.gen = gen' => cache.version >= told')
    BY <1>1, <1>4 DEF McpInv, ListInv
  <2>4. CachedListIsCurrent'
    BY <1>2 DEF McpInv, ListInv, CachedListIsCurrent
  <2>5. QED
    BY <1>2, <1>4, <2>2, <2>3, <2>4 DEF McpInv, ListInv
<1>8. QED
  BY <1>5, <1>6, <1>7 DEF McpInv

\* Every step keeps the invariant.
LEMMA McpInvNext ==
  ASSUME McpAssumption, McpInv, [McpNext]_mcpVars
  PROVE  McpInv'
<1>1. CASE UNCHANGED mcpVars
  BY <1>1 DEF McpInv, McpTypes, ConnInv, PlaceInv, RanInv, ListInv, NoSessionLeaks, ClientSession,
    CachedListIsCurrent, mcpVars
<1>2. CASE LateDial \/ LateClose
  BY <1>2, LateKeeps
<1>3. ASSUME NEW u \in User,
             \/ FromCache(u) \/ Execute(u) \/ Connect(u) \/ Dialed(u) \/ DialGivenUp(u) \/ AwaitEnds(u)
             \/ LoadGen(u) \/ ReadList(u) \/ StoreList(u) \/ CallTool(u) \/ ContextEnds(u)
      PROVE  McpInv'
  BY <1>3, FromCacheKeeps, SimpleMoves, ConnectKeeps, DialedKeeps, DialGivenUpKeeps, ReadListKeeps,
    StoreListKeeps, CallToolKeeps
<1>4. QED
  BY <1>1, <1>2, <1>3, CloseKeeps, ServerKeeps, NotifiedKeeps DEF McpNext, McpGoes, Around

\* The invariant of a ToolSet and its calls, whatever its server does: who may
\* put a session in use, where each call is, and what a list was asked for under
\* (connect, dial, drop, list, Execute, Close).
THEOREM McpInvariance == McpAssumption => (McpSpec => []McpInv)
<1> SUFFICES ASSUME McpAssumption PROVE McpSpec => []McpInv
  OBVIOUS
<1>1. McpInit => McpInv
  BY McpInvInit
<1>2. McpInv /\ [McpNext]_mcpVars => McpInv'
  BY McpInvNext
<1>3. QED
  BY <1>1, <1>2, PTL DEF McpSpec

\* A list served from the cache is no older than what the ToolSet was told of
\* (fromCache, list, ToolListChangedHandler).
THEOREM CachedListsAreCurrent == McpAssumption => (McpSpec => []CachedListIsCurrent)
<1> SUFFICES ASSUME McpAssumption PROVE McpSpec => []CachedListIsCurrent
  OBVIOUS
<1>1. McpInv => CachedListIsCurrent
  BY DEF McpInv, ListInv
<1>2. QED
  BY <1>1, McpInvariance, PTL

\* The server runs a call at most once, though Execute sends one again (tool.go).
THEOREM McpCallsRunOnce == McpAssumption => (McpSpec => []CallsRunOnce)
<1> SUFFICES ASSUME McpAssumption PROVE McpSpec => []CallsRunOnce
  OBVIOUS
<1>1. McpInv => CallsRunOnce
  BY DEF McpInv, RanInv, CallsRunOnce
<1>2. QED
  BY <1>1, McpInvariance, PTL

\* No session is open but the one in use and those that the goroutines of given-up
\* dials are about to close; none of a closed ToolSet is in use (dial, drop, Close).
THEOREM McpSessionsDoNotLeak ==
  McpAssumption => (McpSpec => [](NoSessionLeaks /\ (conn.closed => conn.session = NoSession)))
<1> SUFFICES ASSUME McpAssumption
             PROVE  McpSpec => [](NoSessionLeaks /\ (conn.closed => conn.session = NoSession))
  OBVIOUS
<1>1. McpInv => NoSessionLeaks /\ (conn.closed => conn.session = NoSession)
  BY DEF McpInv, ConnInv
<1>2. QED
  BY <1>1, McpInvariance, PTL

-----------------------------------------------------------------------------
(* ToolCatalog: the Tools that were loaded.                                *)

\* Every variable has its type, and a ToolSet that failed has no Tools.
CatalogTypes ==
  /\ bound \in [record : BOOLEAN, runs : Nat, restarts : Nat]
  /\ phase \in {"new", "idle", "run"}
  /\ failed \subseteq ToolSet
  /\ Resolves(resolved, failed)

\* What was loaded needs loading; without a Record it is loaded or parked, at all
\* times.
RecordedInv ==
  /\ \A t \in recorded : SetOf[t] \notin Active
  /\ ~bound.record => recorded = loaded \cup parked

\* During a Run what is loaded is there, and what was is loaded or parked.
LoadedInv ==
  phase = "run" =>
    /\ loaded \subseteq Catalog(resolved)
    /\ \A t \in recorded : IF SetOf[t] \in failed THEN t \in parked ELSE t \in loaded
    /\ loaded \subseteq recorded
    /\ visible = Rebuild(resolved, sources, kept, loaded)

CatalogInv == CatalogTypes /\ RecordedInv /\ LoadedInv

\* What is in the catalog is of a ToolSet that did not fail.
LEMMA CatalogIs ==
  ASSUME NEW res, NEW bad, Resolves(res, bad), NEW t \in Catalog(res)
  PROVE  SetOf[t] \notin bad
BY DEF Resolves, Catalog

\* The Model sees what it loaded, what needs no loading and what a source has.
LEMMA VisibleIs ==
  ASSUME CatalogInv
  PROVE  LoadedToolsComeBack
<1>1. SUFFICES ASSUME phase = "run" PROVE \A t \in visible \ sources : t \in recorded \/ SetOf[t] \in Active
  BY DEF CatalogInv, LoadedInv, LoadedToolsComeBack
<1>2. QED
  BY <1>1 DEF CatalogInv, LoadedInv, Rebuild

\* Everything holds at the start.
LEMMA CatalogInvInit ==
  ASSUME CatalogAssumption, CatalogInit
  PROVE  CatalogInv
<1>1. CatalogTypes
  BY DEF CatalogAssumption, CatalogInit, CatalogTypes, Resolves
<1>2. QED
  BY <1>1 DEF CatalogInit, CatalogInv, RecordedInv, LoadedInv

\* A registry made anew loads what the Record says and is there.
LEMMA NewKeeps ==
  ASSUME CatalogInv, New
  PROVE  CatalogInv'
<1>1. bound' \in [record : BOOLEAN, runs : Nat, restarts : Nat] /\ bound'.record = bound.record
  BY DEF CatalogInv, CatalogTypes, New
<1>2. CatalogTypes'
  BY <1>1 DEF CatalogTypes, New
<1>3. RecordedInv'
  BY <1>1 DEF CatalogInv, RecordedInv, New
<1>4. QED
  BY <1>2, <1>3 DEF CatalogInv, LoadedInv, New

\* refreshToolSets: what is gone is given up, what failed is parked, the rest loaded.
LEMMA RefreshKeeps ==
  ASSUME CatalogInv, Refresh
  PROVE  CatalogInv'
<1>1. bound' \in [record : BOOLEAN, runs : Nat, restarts : Nat] /\ bound'.record = bound.record
  BY DEF CatalogInv, CatalogTypes, Refresh
<1>2. CatalogTypes'
  BY <1>1 DEF CatalogInv, CatalogTypes, Refresh
<1>3. /\ \A t \in recorded : SetOf[t] \notin Active
      /\ bound.record \in BOOLEAN /\ Candidates = recorded
  BY DEF CatalogInv, CatalogTypes, RecordedInv, Candidates
<1>4. PICK gone : gone = {t \in recorded : SetOf[t] \notin failed' /\ t \notin Catalog(resolved')}
  OBVIOUS
<1>5. /\ parked' = {t \in recorded : SetOf[t] \in failed'}
      /\ loaded' = {t \in recorded : t \in Catalog(resolved')}
      /\ recorded' = recorded \ gone
  BY <1>3, <1>4 DEF Refresh, Known
<1>6. RecordedInv'
  BY <1>1, <1>3, <1>4, <1>5 DEF RecordedInv
<1>7. LoadedInv'
  <2>1. visible' = Rebuild(resolved', sources', kept', loaded')
    BY DEF Refresh
  <2>2. \A t \in recorded' : IF SetOf[t] \in failed' THEN t \in parked' ELSE t \in loaded'
    BY <1>4, <1>5
  <2>3. loaded' \subseteq recorded' /\ loaded' \subseteq Catalog(resolved')
    BY <1>4, <1>5
  <2>4. visible' = Rebuild(resolved, sources, kept, loaded)'
    BY <2>1 DEF Rebuild, Catalog, Indexable
  <2>5. QED
    BY <2>2, <2>3, <2>4 DEF LoadedInv, Catalog
<1>8. QED
  BY <1>2, <1>6, <1>7 DEF CatalogInv

\* A Turn, a search or a call, a compaction, and the end of a Run.
LEMMA RunKeeps ==
  ASSUME CatalogInv, NEW ts, RefreshSources \/ EndRun \/ Load(ts) \/ SyncLoaded(ts)
  PROVE  CatalogInv'
<1>1. /\ UNCHANGED <<resolved, failed, parked, bound>> /\ phase' \in {"run", "idle"} /\ phase = "run"
  BY DEF RefreshSources, EndRun, Load, SyncLoaded
<1>2. CatalogTypes'
  BY <1>1 DEF CatalogInv, CatalogTypes, Resolves
<1>3. /\ loaded \subseteq Catalog(resolved) /\ loaded \subseteq recorded
      /\ \A t \in recorded : IF SetOf[t] \in failed THEN t \in parked ELSE t \in loaded
      /\ visible = Rebuild(resolved, sources, kept, loaded)
      /\ \A t \in recorded : SetOf[t] \notin Active
      /\ ~bound.record => recorded = loaded \cup parked
      /\ Resolves(resolved, failed)
  BY <1>1 DEF CatalogInv, CatalogTypes, LoadedInv, RecordedInv
<1>4. /\ Catalog(resolved)' = Catalog(resolved)
      /\ Rebuild(resolved, sources, kept, loaded)' = Rebuild(resolved, sources', kept', loaded')
  BY <1>1 DEF Rebuild, Catalog, Indexable
<1>5. CASE RefreshSources
  <2>1. UNCHANGED <<loaded, recorded>> /\ visible' = Rebuild(resolved, sources', kept', loaded)
    BY <1>5 DEF RefreshSources
  <2>2. QED
    BY <1>1, <1>2, <1>3, <1>4, <2>1 DEF CatalogInv, RecordedInv, LoadedInv
<1>6. CASE EndRun
  BY <1>1, <1>2, <1>3, <1>6 DEF EndRun, CatalogInv, RecordedInv, LoadedInv
<1>7. CASE Load(ts)
  <2>1. /\ loaded' = loaded \cup ts /\ recorded' = recorded \cup ts
        /\ UNCHANGED <<sources, kept>> /\ visible' = Rebuild(resolved, sources, kept, loaded')
    BY <1>7 DEF Load
  <2>2. \A t \in ts : t \in Catalog(resolved) /\ SetOf[t] \notin Active
    BY <1>7 DEF Load, Loadable
  <2>3. \A t \in ts : SetOf[t] \notin failed
    BY <1>3, <2>2, CatalogIs
  <2>4. QED
    BY <1>1, <1>2, <1>3, <1>4, <2>1, <2>2, <2>3 DEF CatalogInv, RecordedInv, LoadedInv
<1>8. CASE SyncLoaded(ts)
  <2>1. /\ recorded' = recorded \ ts /\ bound.record
        /\ loaded' = {t \in recorded' : t \in Catalog(resolved) /\ SetOf[t] \notin Active}
        /\ UNCHANGED <<sources, kept>>
        /\ visible' = IF loaded' = loaded THEN visible ELSE Rebuild(resolved, sources, kept, loaded')
    BY <1>8 DEF SyncLoaded, Known
  <2>2. visible' = Rebuild(resolved, sources, kept, loaded')
    BY <1>3, <2>1
  <2>3. RecordedInv'
    BY <1>1, <1>3, <2>1 DEF RecordedInv
  <2>4. LoadedInv'
    BY <1>1, <1>3, <1>4, <2>1, <2>2 DEF LoadedInv
  <2>5. QED
    BY <1>2, <2>3, <2>4 DEF CatalogInv
<1>9. QED
  BY <1>5, <1>6, <1>7, <1>8

\* The invariant of the Tools a Session loaded, whatever its ToolSets answer at each
\* Run, with a Record and without one (refreshToolSets, apply, syncLoadedTools).
THEOREM CatalogInvariance == CatalogAssumption => (CatalogSpec => []CatalogInv)
<1> SUFFICES ASSUME CatalogAssumption PROVE CatalogSpec => []CatalogInv
  OBVIOUS
<1>1. CatalogInit => CatalogInv
  BY CatalogInvInit
<1>2. CatalogInv /\ [CatalogNext]_toolVars => CatalogInv'
  <2>1. SUFFICES ASSUME CatalogInv, [CatalogNext]_toolVars PROVE CatalogInv'
    OBVIOUS
  <2>2. CASE UNCHANGED toolVars
    BY <2>1, <2>2 DEF CatalogInv, CatalogTypes, RecordedInv, LoadedInv, Resolves, Catalog, Rebuild, Indexable,
      toolVars
  <2>3. CASE CatalogNext
    BY <2>1, <2>3, NewKeeps, RefreshKeeps, RunKeeps DEF CatalogNext
  <2>4. QED
    BY <2>1, <2>2, <2>3
<1>3. QED
  BY <1>1, <1>2, PTL DEF CatalogSpec

\* During a Run a Tool that was loaded, and that nobody gave up, is loaded or is
\* parked while its ToolSet is unavailable, and the Model sees what is there
\* (toolrefresh.go, toolregistry.go rebuild).
THEOREM LoadedToolsAreKept == CatalogAssumption => (CatalogSpec => []LoadedToolsComeBack)
<1> SUFFICES ASSUME CatalogAssumption PROVE CatalogSpec => []LoadedToolsComeBack
  OBVIOUS
<1>1. CatalogInv => LoadedToolsComeBack
  BY VisibleIs
<1>2. QED
  BY <1>1, CatalogInvariance, PTL
=============================================================================
