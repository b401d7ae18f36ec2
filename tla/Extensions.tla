----------------------------- MODULE Extensions -----------------------------
(***************************************************************************)
(* The Extensions of a Session (gotato/extensions.go, WithExtension) in a  *)
(* Turn that calls one Tool: the request is built and prepared, refused as *)
(* too long and prepared once more, the Tool is asked for, run and its     *)
(* result looked at, and the Run asked whether it stops.  Each stage is a  *)
(* chain of hooks of host code, any of which may fail or panic.            *)
(***************************************************************************)
EXTENDS Naturals, Sequences, SequencesExt

CONSTANT ExtensionLoads  \* the Extensions in the order they are installed (the
                         \* methods named like a hook, those whose signature
                         \* is the hook's, and what Advisory says), whether the
                         \* Tool is search_tools, and the bounds on failures,
                         \* refusals and rewrites

VARIABLES
  at,          \* the stage
  chain,       \* the Extensions of the stage still to be called
  transcript,  \* how often a TurnPreparer rewrote the Transcript
  view,        \* the request: of which Transcript, and who shaped it
  turn,        \* whether a preparer changed the Transcript, ran, and whether the
               \* Model refused the request
  ran,         \* whether the Tool was executed
  result,      \* the result of the call
  said,        \* what the hooks answered, in order
  reports,     \* the ExtensionFailed Events
  extLoad

extVars == <<at, chain, transcript, view, turn, ran, result, said, reports, extLoad>>

Extension == DOMAIN extLoad.extensions
Hook == {"Transform", "Convert", "PrepareTurn", "Before", "After", "Stop"}

\* extensionSet: by stage, in installation order; After is called in reverse.
ChainOf(stage) ==
  LET typed == SelectSeq([k \in Extension |-> k], LAMBDA k : stage \in extLoad.extensions[k].typed)
  IN IF stage = "After" THEN Reverse(typed) ELSE typed

\* The fields of a result that Core owns.
Owned(executed, loaded) == [call |-> "own", executed |-> executed, loaded |-> loaded]

\* What host code may return as a result: anything.
Produced == {Owned(TRUE, {}), [call |-> "other", executed |-> TRUE, loaded |-> {"t"}],
             [call |-> "own", executed |-> FALSE, loaded |-> {}]}

\* ownResult: the fields Core owns are not those that host code returned.
OwnResult(produced, owned) ==
  [produced EXCEPT !.call = owned.call, !.executed = owned.executed, !.loaded = owned.loaded]

NoResult == Owned(FALSE, {})

Init ==
  /\ extLoad \in ExtensionLoads
  /\ at = "install"
  /\ chain = <<>>
  /\ transcript = 0
  /\ view = [of |-> 0, by |-> <<>>]
  /\ turn = [changed |-> FALSE, prepared |-> FALSE, refused |-> FALSE]
  /\ ran = FALSE
  /\ result = NoResult
  /\ said = <<>>
  /\ reports = <<>>

Begin(stage) == at' = stage /\ chain' = ChainOf(stage)
Ends(how) == at' = how /\ chain' = <<>>

\* checkExtensionMethods and WithExtension: a method that is named like a hook
\* and is not one would leave the hook out.
Installs(x) ==
  /\ x.named \cap (Hook \cup {"Advisory"}) \subseteq x.typed
  /\ x.typed \cap Hook # {}

Install ==
  /\ at = "install"
  /\ IF \A k \in Extension : Installs(extLoad.extensions[k])
     THEN Begin("Transform")
     ELSE Ends("refused")
  /\ UNCHANGED <<transcript, view, turn, ran, result, said, reports, extLoad>>

-----------------------------------------------------------------------------
(* A hook is called.                                                       *)

Calls(stage, answer) ==
  /\ at = stage
  /\ chain # <<>>
  /\ said' = Append(said, [stage |-> stage, by |-> Head(chain), answer |-> answer])

GoesOn == at' = at /\ chain' = Tail(chain)

\* guard and advisory: a failure or a panic is reported and passed over when the
\* Extension is advisory, and fails the Run when it is not, or when asking it
\* panics.  A TurnPreparer may have rewritten the Transcript before ("torn"):
\* nothing takes that back, and what it returned of it is not looked at.
HookFails ==
  /\ extLoad.fails > 0
  /\ \/ /\ \E stage \in Hook : Calls(stage, "failed")
        /\ extLoad' = [extLoad EXCEPT !.fails = @ - 1]
        /\ UNCHANGED transcript
     \/ /\ Calls("PrepareTurn", "torn")
        /\ extLoad.rewrites > 0
        /\ extLoad' = [extLoad EXCEPT !.fails = @ - 1, !.rewrites = @ - 1]
        /\ transcript' = transcript + 1
  /\ IF extLoad.extensions[Head(chain)].advisory = "yes"
     THEN GoesOn /\ reports' = Append(reports, [stage |-> at, by |-> Head(chain)])
     ELSE Ends("failed") /\ UNCHANGED reports
  /\ UNCHANGED <<view, turn, ran, result>>

\* transformContext: what one produced is what the next is given.
Shape(stage) ==
  /\ Calls(stage, "ok")
  /\ view' = [view EXCEPT !.by = Append(@, Head(chain))]
  /\ GoesOn
  /\ UNCHANGED <<transcript, turn, ran, result, reports, extLoad>>

\* prepareTurn: one that rewrites the Transcript says so.
Prepare ==
  /\ \/ /\ Calls("PrepareTurn", "ok")
        /\ UNCHANGED <<transcript, turn, extLoad>>
     \/ /\ Calls("PrepareTurn", "changed")
        /\ extLoad.rewrites > 0
        /\ extLoad' = [extLoad EXCEPT !.rewrites = @ - 1]
        /\ transcript' = transcript + 1
        /\ turn' = [turn EXCEPT !.changed = TRUE]
  /\ GoesOn
  /\ UNCHANGED <<view, ran, result, reports>>

\* beforeTool: the first that blocks ends the chain, and the result it gave in
\* the Tool's place is still one of a Tool that was not executed.
Before ==
  /\ \/ Calls("Before", "ok") /\ GoesOn /\ UNCHANGED result
     \/ /\ Calls("Before", "blocked")
        /\ \E produced \in Produced : result' = OwnResult(produced, Owned(FALSE, {}))
        /\ Begin("After")
  /\ UNCHANGED <<transcript, view, turn, ran, reports, extLoad>>

\* afterTool.
After ==
  /\ Calls("After", "ok")
  /\ \E produced \in Produced : result' = OwnResult(produced, result)
  /\ GoesOn
  /\ UNCHANGED <<transcript, view, turn, ran, reports, extLoad>>

\* stopTurn.
Stop ==
  /\ \/ Calls("Stop", "ok") /\ GoesOn
     \/ Calls("Stop", "stop") /\ Ends("stopped")
  /\ UNCHANGED <<transcript, view, turn, ran, result, reports, extLoad>>

-----------------------------------------------------------------------------
(* The end of a chain.                                                     *)

Over(stage) == at = stage /\ chain = <<>>

Convert ==
  /\ Over("Transform")
  /\ Begin("Convert")
  /\ UNCHANGED <<transcript, view, turn, ran, result, said, reports, extLoad>>

\* The request is built: prepared now, or sent when it was.
Built ==
  /\ Over("Convert")
  /\ IF turn.prepared THEN Ends("call") ELSE Begin("PrepareTurn")
  /\ UNCHANGED <<transcript, view, turn, ran, result, said, reports, extLoad>>

\* callModel's loop: a refusal stands when nobody shortened the request, and the
\* request is built again when the Transcript changed.
Prepared ==
  /\ Over("PrepareTurn")
  /\ turn' = [turn EXCEPT !.prepared = TRUE]
  /\ IF turn.changed
     THEN Begin("Transform") /\ view' = [of |-> transcript, by |-> <<>>]
     ELSE Ends(IF turn.refused THEN "failed" ELSE "call") /\ UNCHANGED view
  /\ UNCHANGED <<transcript, ran, result, said, reports, extLoad>>

\* The Model refuses the request before any output, which a shorter one can mend
\* once a Turn, or calls the Tool.
CallModel ==
  /\ at = "call"
  /\ \/ /\ extLoad.refusals > 0
        /\ extLoad' = [extLoad EXCEPT !.refusals = @ - 1]
        /\ IF turn.refused
           THEN Ends("failed") /\ UNCHANGED turn
           ELSE /\ Begin("PrepareTurn")
                /\ turn' = [changed |-> FALSE, prepared |-> FALSE, refused |-> TRUE]
     \/ Begin("Before") /\ UNCHANGED <<turn, extLoad>>
  /\ UNCHANGED <<transcript, view, ran, result, said, reports>>

\* executeToolSafely and runTool: only search_tools says what it loaded.
RunTool ==
  /\ Over("Before")
  /\ ran' = TRUE
  /\ \E produced \in Produced :
       result' = OwnResult(produced, Owned(TRUE, IF extLoad.search THEN produced.loaded ELSE {}))
  /\ Begin("After")
  /\ UNCHANGED <<transcript, view, turn, said, reports, extLoad>>

\* commitResult, and turn_ended.
Committed ==
  /\ Over("After")
  /\ Begin("Stop")
  /\ UNCHANGED <<transcript, view, turn, ran, result, said, reports, extLoad>>

Continues ==
  /\ Over("Stop")
  /\ Ends("continued")
  /\ UNCHANGED <<transcript, view, turn, ran, result, said, reports, extLoad>>

Goes ==
  \/ Install \/ Shape("Transform") \/ Shape("Convert") \/ Prepare \/ Before \/ After \/ Stop
  \/ Convert \/ Built \/ Prepared \/ CallModel \/ RunTool \/ Committed \/ Continues

Next == Goes \/ HookFails

-----------------------------------------------------------------------------

Answers(stage) == SelectSeq(said, LAMBDA s : s.stage = stage)

\* A Tool is executed only when every Extension that has a Before, as its author
\* wrote it, was asked in turn and let it pass, an advisory one by failing
\* (checkExtensionMethods: "a safety hook fails open on a spelling mistake").
AskedBeforeRun ==
  ran => LET asked == Answers("Before")
         IN /\ [k \in DOMAIN asked |-> asked[k].by] =
                 SelectSeq([k \in Extension |-> k], LAMBDA k : "Before" \in extLoad.extensions[k].named)
            /\ \A k \in DOMAIN asked :
                 \/ asked[k].answer = "ok"
                 \/ asked[k].answer = "failed" /\ extLoad.extensions[asked[k].by].advisory = "yes"

\* The result that is committed says which call it is of, whether the Tool ran
\* and what it loaded as Core knows it, whatever the hooks made of it (tool.go
\* ownResult).
ResultsAreCores ==
  at \in {"Stop", "stopped", "continued"} =>
    result.call = "own" /\ result.executed = ran /\ (result.loaded # {} => extLoad.search /\ ran)

\* The Model is called with a request of the Transcript as it is now, which each
\* transformer and converter shaped at most once, in their order; and a failure
\* that was passed over was reported (loop.go callModel, extensions.go).  Excepted
\* is the rewrite of an advisory preparer that then failed, after which the request
\* is not built again (extensions.go:158).
RequestsAreOfTheTranscript ==
  /\ at = "call" => view.of = transcript \/ \E k \in DOMAIN said : said[k].answer = "torn"
  /\ \A j, k \in DOMAIN view.by :
       j < k => view.by[j] < view.by[k] \/ "Convert" \in extLoad.extensions[view.by[k]].typed
  /\ at # "failed" =>
       Len(reports) = Len(SelectSeq(said, LAMBDA s : s.answer \in {"failed", "torn"}))

HooksHold == AskedBeforeRun /\ ResultsAreCores /\ RequestsAreOfTheTranscript

\* A Turn gets through its hooks.
TurnEnds == at \in {"refused", "failed", "stopped", "continued"}
=============================================================================
