----------------------------- MODULE ToolBatch ------------------------------
(***************************************************************************)
(* The Tool calls of one reply (gotato/toolbatch.go, loop.go): planned in  *)
(* the order the Model gave them, run in groups on goroutines of their     *)
(* own, their results committed in that order again, and the calls a       *)
(* failed Run leaves open closed with a result that says so.               *)
(***************************************************************************)
EXTENDS Naturals, FiniteSets, Sequences

CONSTANTS
  Workers,    \* CoreLimits.MaxParallelTools
  ToolLoads   \* the batches: each call's plan ("blocked", "sequential",
              \* "parallel") and, as bounds, fails (of a hook, a write or a
              \* limit), cancels (of the Run) and whether the Transcript
              \* may break

VARIABLES
  step,      \* where the Session goroutine is
  grouped,   \* the last call of the groups of groupPlans that were started
  upTo,      \* commitUpTo's end
  tool,      \* the goroutine of each call
  signals,   \* the results on their way to collect
  outcome,   \* openBatch.outcomes: whether the Tool was run, where known
  ran,       \* the Tools that executed
  results,   \* the results committed to the Transcript, in order
  canceled,  \* the Run's context
  left       \* the load

batchVars == <<step, grouped, upTo, tool, signals, outcome, ran, results, canceled, left>>

Calls == DOMAIN left.plans

\* openBatch.next.
NextCall == Len(results) + 1

Unknown == "unknown"

\* What the constants are.
BatchLoadRec ==
  [plans : Seq({"blocked", "sequential", "parallel"}), fails : Nat, cancels : Nat,
   breaks : {"never", "may", "did"}]

BatchAssumption == ToolLoads \subseteq BatchLoadRec

-----------------------------------------------------------------------------

\* The calls that no group has had yet; a blocked one is in no group.
Ungrouped == {i \in Calls : i > grouped /\ left.plans[i] # "blocked"}

\* The next group of groupPlans: a sequential call runs alone, parallel ones
\* together up to the Workers.
NextGroup ==
  LET alone(i) == left.plans[i] = "sequential" \/ Workers = 1
      until(i) == {j \in Ungrouped : j <= i}
  IN {i \in Ungrouped :
        \/ until(i) = {i}
        \/ Cardinality(until(i)) <= Workers /\ \A j \in until(i) : ~alone(j)}

MayFail == left.fails > 0

Fails ==
  /\ MayFail
  /\ left' = [left EXCEPT !.fails = @ - 1]
  /\ step' = "close"

\* preflightTools: a Pre hook fails the Run; what it blocks, and a call that
\* does not resolve, has its outcome already.
Preflight ==
  /\ step = "preflight"
  /\ \/ Fails /\ UNCHANGED outcome
     \/ /\ step' = "group"
        /\ outcome' = [i \in Calls |-> IF left.plans[i] = "blocked" THEN "unrun" ELSE Unknown]
        /\ UNCHANGED left
  /\ UNCHANGED <<grouped, upTo, tool, signals, ran, results, canceled>>

\* runToolBatch's loop and executeToolGroup up to collect: tool_started is
\* written before a Tool starts, and none starts once the Run is canceled.
StartGroup ==
  /\ step = "group" /\ Ungrouped # {}
  /\ \/ Fails /\ UNCHANGED <<grouped, upTo, tool, outcome>>
     \/ /\ \E last \in NextGroup :
             /\ \A i \in NextGroup : i <= last
             /\ upTo' = last /\ grouped' = last
        /\ IF canceled
           THEN /\ step' = "commit"
                /\ outcome' = [i \in Calls |-> IF i \in NextGroup THEN "unrun" ELSE outcome[i]]
                /\ UNCHANGED tool
           ELSE /\ step' = "collect"
                /\ tool' = [i \in Calls |-> IF i \in NextGroup THEN "launched" ELSE tool[i]]
                /\ UNCHANGED outcome
        /\ UNCHANGED left
  /\ UNCHANGED <<signals, ran, results, canceled>>

GroupsDone ==
  /\ step = "group" /\ Ungrouped = {}
  /\ step' = "commit" /\ upTo' = Len(left.plans)
  /\ UNCHANGED <<grouped, tool, signals, outcome, ran, results, canceled, left>>

-----------------------------------------------------------------------------
(* runTool, on its goroutine.                                              *)

Executes(i) ==
  /\ tool[i] = "launched"
  /\ tool' = [tool EXCEPT ![i] = "executing"]
  /\ ran' = ran \cup {i}
  /\ UNCHANGED <<step, grouped, upTo, signals, outcome, results, canceled, left>>

\* The Tool returns or passes its deadline.  When its Run was canceled, nobody
\* may be waiting for what it returns.
Finishes(i) ==
  /\ tool[i] = "executing"
  /\ tool' = [tool EXCEPT ![i] = "over"]
  /\ \/ step = "collect" /\ signals' = signals \cup {i}
     \/ (canceled \/ step # "collect") /\ UNCHANGED signals
  /\ UNCHANGED <<step, grouped, upTo, outcome, ran, results, canceled, left>>

\* The Tools of the group that is being collected.
Waiting == {i \in Calls : tool[i] # "idle" /\ outcome[i] = Unknown}

\* collect and handle.
Collect(i) ==
  /\ step = "collect" /\ i \in signals
  /\ signals' = signals \ {i}
  /\ outcome' = [outcome EXCEPT ![i] = "run"]
  /\ step' = IF Waiting = {i} THEN "commit" ELSE step
  /\ UNCHANGED <<grouped, upTo, tool, ran, results, canceled, left>>

\* drain and cancelRest: every Tool of the group counts as run.
CancelRest ==
  /\ step = "collect" /\ canceled
  /\ outcome' = [i \in Calls |-> IF i \in Waiting THEN "run" ELSE outcome[i]]
  /\ signals' = {}
  /\ step' = "commit"
  /\ UNCHANGED <<grouped, upTo, tool, ran, results, canceled, left>>

-----------------------------------------------------------------------------
(* The results, in the order of the calls.                                 *)

\* commitResult: afterTool, spill or the commit may fail before the result is
\* kept, the write after it.
CommitResult ==
  /\ step = "commit" /\ NextCall <= upTo
  /\ \/ Fails /\ UNCHANGED results
     \/ /\ results' = Append(results, [call |-> NextCall, executed |-> outcome[NextCall] = "run"])
        /\ Fails \/ UNCHANGED <<step, left>>
  /\ UNCHANGED <<grouped, upTo, tool, signals, outcome, ran, canceled>>

CommittedUpTo ==
  /\ step = "commit" /\ NextCall > upTo
  /\ step' = IF upTo = Len(left.plans) /\ Ungrouped = {} THEN "over" ELSE "group"
  /\ UNCHANGED <<grouped, upTo, tool, signals, outcome, ran, results, canceled, left>>

\* closeOpenCalls: each call without a result gets one, up to a failing Append.
CloseOpenCalls ==
  /\ step = "close"
  /\ \E n \in 0 .. Len(left.plans) - Len(results) :
       /\ n < Len(left.plans) - Len(results) => left.breaks = "may"
       /\ results' = results \o [k \in 1 .. n |->
                       [call |-> Len(results) + k, executed |-> outcome[Len(results) + k] = "run"]]
       /\ left' = IF n < Len(left.plans) - Len(results) THEN [left EXCEPT !.breaks = "did"] ELSE left
  /\ step' = "over"
  /\ UNCHANGED <<grouped, upTo, tool, signals, outcome, ran, canceled>>

\* Abort, or the caller's context.
Cancel ==
  /\ left.cancels > 0 /\ ~canceled
  /\ canceled' = TRUE
  /\ UNCHANGED <<step, grouped, upTo, tool, signals, outcome, ran, results, left>>

-----------------------------------------------------------------------------

BatchInit ==
  /\ left \in ToolLoads
  /\ step = "preflight" /\ grouped = 0 /\ upTo = 0
  /\ tool = [i \in Calls |-> "idle"]
  /\ signals = {} /\ ran = {} /\ results = <<>> /\ canceled = FALSE
  /\ outcome = [i \in Calls |-> Unknown]

BatchGoes ==
  \/ Preflight \/ StartGroup \/ GroupsDone \/ CancelRest \/ CommitResult \/ CommittedUpTo
  \/ CloseOpenCalls
  \/ \E i \in Calls : Executes(i) \/ Finishes(i) \/ Collect(i)

BatchNext == BatchGoes \/ Cancel

BatchSpec == BatchInit /\ [][BatchNext]_batchVars /\ WF_batchVars(BatchGoes)

-----------------------------------------------------------------------------

\* Once the batch is over, however it ended, the history has one result for each
\* call of the reply, in the order of the calls (unless the Transcript broke),
\* so that the Model takes it again.
EveryCallAnswered ==
  step = "over" =>
    \/ [i \in DOMAIN results |-> results[i].call] = [i \in Calls |-> i]
    \/ left.breaks = "did" /\ \A i \in DOMAIN results : results[i].call = i

\* A result that says its Tool did not run is the result of a Tool that did not.
NotExecutedDidNotRun == \A i \in DOMAIN results : ~results[i].executed => results[i].call \notin ran

\* Every batch ends.
BatchEnds == step = "over"
=============================================================================
