---------------------------- MODULE ToolCatalog -----------------------------
(***************************************************************************)
(* The Tools a Session's Model may call (gotato/toolregistry.go,           *)
(* toolrefresh.go, toolsearch.go): ToolSets resolved again at the start of *)
(* each Run, which may fail or answer otherwise than the last time; Tools  *)
(* loaded from them by search_tools or by a call, kept by the Record and   *)
(* parked while their ToolSet is unavailable; the sources read again at    *)
(* each Turn; the filter and the effect that hide Tools.                   *)
(***************************************************************************)
EXTENDS Naturals, FiniteSets

CONSTANTS
  ToolSet,     \* the ToolSets' names
  SetTool,     \* the Tools they may have
  SetOf,       \* the ToolSet of each
  Active,      \* the ToolSets installed active: their Tools need no loading
  Capped,      \* the Tools over the Session's maximum effect
  SuppliedTool, \* the Tools a ToolSource may supply, which need no loading either
  Bounds       \* whether a Record keeps what is loaded, and how many Runs and
               \* restarts there are

\* What the constants are.
CatalogAssumption == Bounds \subseteq [record : BOOLEAN, runs : Nat, restarts : Nat]

\* searchLoadCount, with the Tools as few as they are here.
LoadCount == 1

VARIABLES
  resolved,  \* each ToolSet's Tools as last resolved
  failed,    \* the ToolSets whose last resolution failed
  fresh,     \* a new registry resolved its ToolSets already
  sources,   \* the sources' Tools
  kept,      \* what the filter kept
  loaded, parked,
  visible,   \* byQualified: what the Model is told of and may call
  recorded,  \* the loaded Tools by the Record's Events
  phase,     \* between Runs, in one, or in a Session just made
  bound

toolVars == <<resolved, failed, fresh, sources, kept, loaded, parked, visible, recorded, phase,
              bound>>

-----------------------------------------------------------------------------

Catalog(res) == UNION {res[s] : s \in ToolSet}

\* known: those of ids that are in the catalog and need loading.
Known(ids, res) == {t \in ids : t \in Catalog(res) /\ SetOf[t] \notin Active}

\* indexable: not over the effect, not refused by the filter.
Indexable(t, k) == t \notin Capped /\ t \in k

\* rebuild: the sources' Tools, the active ToolSets' and the loaded ones.
Rebuild(res, src, k, load) ==
  {t \in src : t \notin Capped}
    \cup {t \in Catalog(res) : Indexable(t, k) /\ (SetOf[t] \in Active \/ t \in load)}

\* What resolveAll may find: each ToolSet fails or has some of its Tools.
Resolutions == [ToolSet -> SUBSET SetTool]

Resolves(res, bad) ==
  \A s \in ToolSet : IF s \in bad THEN res[s] = {} ELSE res[s] \subseteq {t \in SetTool : SetOf[t] = s}

\* screen: what a filter keeps of the catalog.
Screens(res) == {Catalog(res), Catalog(res) \ {CHOOSE t \in SetTool : TRUE}}

-----------------------------------------------------------------------------

\* newToolRegistry: the ToolSets are resolved and the Record's Tools loaded, of
\* those that are there.
New ==
  /\ phase = "idle" /\ bound.restarts > 0
  /\ bound' = [bound EXCEPT !.restarts = @ - 1]
  /\ \E bad \in SUBSET ToolSet, res \in Resolutions :
       /\ Resolves(res, bad)
       /\ resolved' = res /\ failed' = bad
       /\ kept' \in Screens(res)
  /\ fresh' = TRUE
  /\ loaded' = IF bound.record THEN Known(recorded, resolved') ELSE {}
  /\ parked' = {}
  /\ recorded' = IF bound.record THEN recorded ELSE {}
  /\ visible' = Rebuild(resolved', sources, kept', loaded')
  /\ phase' = "new"
  /\ UNCHANGED sources

\* What apply starts from.
Candidates == IF bound.record THEN recorded ELSE loaded \cup parked

\* refreshToolSets at the start of a Run: resolveAll, screen and apply.
Refresh ==
  /\ phase \in {"idle", "new"} /\ bound.runs > 0
  /\ bound' = [bound EXCEPT !.runs = @ - 1]
  /\ fresh' = FALSE
  /\ IF fresh
     THEN UNCHANGED <<resolved, failed>>
     ELSE \E bad \in SUBSET ToolSet, res \in Resolutions :
            Resolves(res, bad) /\ resolved' = res /\ failed' = bad
  /\ kept' \in Screens(resolved')
  /\ LET ids == {t \in Candidates : SetOf[t] \notin Active}
         gone == {t \in ids : SetOf[t] \notin failed' /\ t \notin Catalog(resolved')}
     IN /\ parked' = {t \in ids : SetOf[t] \in failed'}
        /\ loaded' = Known(Candidates, resolved')
        /\ recorded' = recorded \ gone
  /\ visible' = Rebuild(resolved', sources, kept', loaded')
  /\ phase' = "run"
  /\ UNCHANGED sources

\* refreshTools at a Turn: sources that fail keep what they supplied.
RefreshSources ==
  /\ phase = "run"
  /\ sources' \in {{}, SuppliedTool}
  /\ kept' \in Screens(resolved)
  /\ visible' = Rebuild(resolved, sources', kept', loaded)
  /\ UNCHANGED <<resolved, failed, fresh, loaded, parked, recorded, phase, bound>>

\* loadable.
Loadable(t) ==
  /\ t \notin visible
  /\ t \in Catalog(resolved) /\ Indexable(t, kept)
  /\ SetOf[t] \notin Active /\ t \notin loaded

\* search_tools by names or by queries, and a call of a Tool that is not loaded:
\* stageResult loads what the result lists, and tool_loaded is written with it.
Load(ts) ==
  /\ phase = "run"
  /\ ts # {} /\ Cardinality(ts) <= LoadCount
  /\ \A t \in ts : Loadable(t)
  /\ loaded' = loaded \cup ts
  /\ recorded' = recorded \cup ts
  /\ visible' = Rebuild(resolved, sources, kept, loaded')
  /\ UNCHANGED <<resolved, failed, fresh, sources, kept, parked, phase, bound>>

\* A compaction before the Turn leaves some Tools behind: syncLoadedTools.
SyncLoaded(ts) ==
  /\ phase = "run" /\ bound.record
  /\ ts \subseteq recorded /\ ts # {}
  /\ recorded' = recorded \ ts
  /\ loaded' = Known(recorded', resolved)
  /\ visible' = IF loaded' = loaded THEN visible ELSE Rebuild(resolved, sources, kept, loaded')
  /\ UNCHANGED <<resolved, failed, fresh, sources, kept, parked, phase, bound>>

EndRun ==
  /\ phase = "run"
  /\ phase' = "idle"
  /\ UNCHANGED <<resolved, failed, fresh, sources, kept, loaded, parked, visible, recorded, bound>>

CatalogInit ==
  /\ resolved = [s \in ToolSet |-> {t \in SetTool : SetOf[t] = s}]
  /\ failed = {} /\ fresh = TRUE /\ sources = {}
  /\ kept = SetTool
  /\ loaded = {} /\ parked = {} /\ recorded = {}
  /\ visible = Rebuild(resolved, sources, kept, loaded)
  /\ phase = "new"
  /\ bound \in Bounds

CatalogGoes == EndRun \/ Refresh

CatalogNext ==
  \/ New \/ Refresh \/ RefreshSources \/ EndRun
  \/ \E ts \in SUBSET SetTool : Load(ts) \/ SyncLoaded(ts)

CatalogSpec == CatalogInit /\ [][CatalogNext]_toolVars /\ WF_toolVars(CatalogGoes)

-----------------------------------------------------------------------------

\* During a Run a Tool that was loaded, and that neither its ToolSet nor a
\* compaction gave up since, is loaded, or parked while its ToolSet is
\* unavailable; and the Model sees the Tools that are there, loaded or in need
\* of no loading, and allowed now.
LoadedToolsComeBack ==
  phase = "run" =>
    /\ \A t \in recorded : IF SetOf[t] \in failed THEN t \in parked ELSE t \in loaded
    /\ loaded \subseteq recorded
    /\ visible = Rebuild(resolved, sources, kept, loaded)
    /\ \A t \in visible \ sources : t \in recorded \/ SetOf[t] \in Active
=============================================================================
