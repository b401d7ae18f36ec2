--------------------------- MODULE SessionStreams ---------------------------
(***************************************************************************)
(* The streams of one Session on an Instance, across the Records that its  *)
(* ID names: host/streams.go, host/events.go, adapter/http/stream.go.      *)
(*                                                                         *)
(* A Record may be deleted and created again, here or on another Instance; *)
(* its epoch tells which one it is.  A stream reads the epoch and then     *)
(* starts; this Instance ends the streams of a Record when it learns of a  *)
(* newer one, by opening, creating or deleting it or by another stream.    *)
(***************************************************************************)
EXTENDS Naturals, FiniteSets

CONSTANTS
  Stream,        \* calls of StreamSession
  LastEpoch,     \* bound: the Records created
  StreamLoads    \* the Instances and clients: see LoadRec; known is the epoch that
                 \* a client read and resumes, 0 for none

VARIABLES
  epoch,         \* the epoch of the stored Record, 0 when there is none
  newest,        \* the epoch of the last Record created
  stream,        \* of every stream: see Opening
  starts,        \* streamSet.starts
  over,          \* streamSet.over: the drain is over
  op,            \* an open, create or delete under way: [at, mark, epoch, unsure]
  refs,          \* of every epoch, the users of its Feed; a Feed without users is closed
  spare          \* the load that is left

vars == <<epoch, newest, stream, starts, over, op, refs, spare>>

Epochs == 1 .. LastEpoch

\* SessionStream: seen are the epochs that others marked it with as it opened,
\* older the streams it is about to cut, cut why it failed.
Opening ==
  [at |-> "new", epoch |-> 0, started |-> FALSE, startedAt |-> 0, seen |-> {},
   older |-> {}, cut |-> "no", hint |-> FALSE, holds |-> FALSE]

NoOp == [at |-> "no", mark |-> 0, epoch |-> 0, unsure |-> {}]

\* What the constants are.
LoadRec ==
  [op : {"none", "open", "create", "delete"}, foreign : Nat, known : Nat, drains : BOOLEAN,
   closes : BOOLEAN]

StreamsAssumption ==
  IsFiniteSet(Stream) /\ LastEpoch \in Nat \ {0} /\ StreamLoads \subseteq LoadRec

Init ==
  /\ epoch = 1 /\ newest = 1
  /\ stream = [s \in Stream |-> Opening]
  /\ starts = 0 /\ over = FALSE
  /\ op = NoOp
  /\ refs = [e \in Epochs |-> 0]
  /\ spare \in StreamLoads

\* A stream that was registered by addStream and not dropped.
Registered(s) == stream[s].at \notin {"new", "gone"}

\* Wrong: the Feed is not released with the stream.
DropsAlone(s, why) ==
  /\ stream' = [stream EXCEPT ![s].at = "gone", ![s].cut = why, ![s].holds = FALSE]
  /\ UNCHANGED refs

\* releaseFeed and dropStream, once (feedSubscription.done).
Drops(s, why) ==
  /\ stream' = [stream EXCEPT ![s].at = "gone", ![s].cut = why, ![s].holds = FALSE]
  /\ refs' = IF stream[s].holds THEN [refs EXCEPT ![stream[s].epoch] = @ - 1] ELSE refs

-----------------------------------------------------------------------------
(* The Record on other Instances.                                          *)

ForeignDelete ==
  /\ spare.foreign > 0 /\ epoch # 0
  /\ epoch' = 0
  /\ spare' = [spare EXCEPT !.foreign = @ - 1]
  /\ UNCHANGED <<newest, stream, starts, over, op, refs>>

ForeignCreate ==
  /\ epoch = 0 /\ newest < LastEpoch
  /\ epoch' = newest + 1 /\ newest' = newest + 1
  /\ UNCHANGED <<stream, starts, over, op, refs, spare>>

-----------------------------------------------------------------------------
(* StreamSession.                                                          *)

AddStream(s) ==
  /\ stream[s].at = "new"
  /\ stream' = [stream EXCEPT ![s].at = "load"]
  /\ UNCHANGED <<epoch, newest, starts, over, op, refs, spare>>

\* The Record's epoch, and the checks of the epoch and the position the client
\* knows; the Feed of the Record of that epoch is acquired.
LoadEpoch(s) ==
  /\ stream[s].at = "load"
  /\ \/ /\ epoch # 0 /\ spare.known \in {0, epoch}
        /\ stream' = [stream EXCEPT ![s].epoch = epoch, ![s].at = "start", ![s].holds = TRUE]
        /\ refs' = [refs EXCEPT ![epoch] = @ + 1]
     \/ (epoch = 0 \/ spare.known \notin {0, epoch}) /\ Drops(s, "refused")
  /\ UNCHANGED <<epoch, newest, starts, over, op, spare>>

Others(s) == {t \in Stream \ {s} : Registered(t)}

\* Wrong: a stream starts with the epoch it read, whatever was seen since.
StartStreamNow(s) ==
  /\ stream[s].at = "start"
  /\ starts' = starts + 1
  /\ stream' = [stream EXCEPT ![s].started = TRUE, ![s].startedAt = starts + 1, ![s].at = "started",
                              ![s].older = {o \in Others(s) : stream[o].started
                                                   /\ stream[o].epoch # stream[s].epoch}]
  /\ UNCHANGED <<epoch, newest, over, op, refs, spare>>

\* startStream: a stream that was marked with another epoch reads it again;
\* else it starts, marks those that open and finds the started ones of another
\* epoch to be older.
StartStream(s) ==
  /\ stream[s].at = "start"
  /\ IF \E e \in stream[s].seen : e # stream[s].epoch
     THEN /\ stream' = [stream EXCEPT ![s].seen = {}, ![s].at = "again"]
          /\ UNCHANGED starts
     ELSE /\ starts' = starts + 1
          /\ stream' =
               [t \in Stream |->
                  CASE t = s ->
                         [stream[s] EXCEPT !.started = TRUE, !.startedAt = starts + 1, !.seen = {},
                            !.older = {o \in Others(s) :
                                         stream[o].started /\ stream[o].epoch # stream[s].epoch},
                            !.hint = over, !.at = "started"]
                    [] t \in Others(s) /\ ~stream[t].started ->
                         [stream[t] EXCEPT !.seen = @ \cup {stream[s].epoch}]
                    [] OTHER -> stream[t]]
  /\ UNCHANGED <<epoch, newest, over, op, refs, spare>>

\* The epoch is read again: still this Record, or the stream is refused.
Recheck(s) ==
  /\ stream[s].at = "again"
  /\ IF epoch = stream[s].epoch
     THEN stream' = [stream EXCEPT ![s].at = "start"] /\ UNCHANGED refs
     ELSE Drops(s, "refused")
  /\ UNCHANGED <<epoch, newest, starts, over, op, spare>>

\* A started stream cuts the older ones at once, and their Feeds are released
\* (failWith).
CutOlder(s) ==
  /\ stream[s].older # {}
  /\ \E o \in stream[s].older :
       IF stream[o].at = "gone"
       THEN stream' = [stream EXCEPT ![s].older = @ \ {o}] /\ UNCHANGED refs
       ELSE /\ stream' = [stream EXCEPT ![o].at = "gone", ![o].cut = "replaced", ![o].holds = FALSE,
                                        ![s].older = @ \ {o}]
            /\ refs' = IF stream[o].holds THEN [refs EXCEPT ![stream[o].epoch] = @ - 1] ELSE refs
  /\ UNCHANGED <<epoch, newest, starts, over, op, spare>>

\* Next: the Subscription ends after what it has when it was told to, and then
\* the client is given the advice to reconnect; a client may close at any time.
EndStream(s) ==
  /\ stream[s].at = "started" /\ stream[s].older = {}
  /\ stream[s].hint \/ spare.closes
  /\ Drops(s, IF stream[s].hint THEN "reconnect" ELSE "closed")
  /\ UNCHANGED <<epoch, newest, starts, over, op, spare>>

-----------------------------------------------------------------------------
(* What this Instance does with the Record.                                *)

\* streamMark, before the Record is opened or created.
Mark ==
  /\ op.at = "no" /\ spare.op # "none"
  /\ op' = [op EXCEPT !.at = "marked", !.mark = starts]
  /\ UNCHANGED <<epoch, newest, stream, starts, over, refs, spare>>

\* OpenWriter reads and claims the Record, CreateWriter writes a new one.  A
\* delete claims it first (acquire).
OpenOrCreate ==
  /\ op.at = "marked"
  /\ \/ /\ spare.op \in {"open", "delete"} /\ epoch # 0
        /\ op' = [op EXCEPT !.at = "cut", !.epoch = epoch]
        /\ UNCHANGED <<epoch, newest>>
     \/ /\ spare.op = "create" /\ epoch = 0 /\ newest < LastEpoch
        /\ epoch' = newest + 1 /\ newest' = newest + 1
        /\ op' = [op EXCEPT !.at = "cut", !.epoch = newest + 1]
     \/ /\ epoch = (IF spare.op = "create" THEN newest ELSE 0) \* ErrExists, ErrNotFound
        /\ op' = [NoOp EXCEPT !.at = "failed"]
        /\ UNCHANGED <<epoch, newest>>
  /\ UNCHANGED <<stream, starts, over, refs, spare>>

\* markStreams: those that open are marked with e; of the started ones of
\* another epoch, those up to mark are stale.
Other(e) == {s \in Stream : Registered(s) /\ stream[s].started /\ stream[s].epoch # e}

Stale(e, mark) == {s \in Other(e) : stream[s].startedAt <= mark}

CutAll(cuts, e, why) ==
  /\ stream' = [s \in Stream |->
                  CASE s \in cuts -> [stream[s] EXCEPT !.at = "gone", !.cut = why, !.holds = FALSE]
                    [] Registered(s) /\ ~stream[s].started -> [stream[s] EXCEPT !.seen = @ \cup {e}]
                    [] OTHER -> stream[s]]
  /\ refs' = [f \in Epochs |->
                refs[f] - Cardinality({s \in cuts : stream[s].holds /\ stream[s].epoch = f})]

\* cutStreams, its first half; the delete's claim cut what the delete had found.
CutStreams ==
  /\ op.at = "cut"
  /\ CutAll(Stale(op.epoch, op.mark), op.epoch, "replaced")
  /\ op' = [op EXCEPT !.unsure = Other(op.epoch) \ Stale(op.epoch, op.mark), !.at = "unsure"]
  /\ UNCHANGED <<epoch, newest, starts, over, spare>>

\* Its second half: the Record is read again for those that started meanwhile.
\* They stay when it cannot be read, until their own reads tell (SubscribeVerify).
CutUnsure ==
  /\ op.at = "unsure"
  /\ \E read \in BOOLEAN :
       LET known == op.unsure = {} \/ (read /\ epoch # 0)
           cuts  == {s \in op.unsure : known /\ Registered(s) /\ stream[s].epoch # epoch}
       IN /\ stream' = [s \in Stream |->
                          IF s \in cuts
                          THEN [stream[s] EXCEPT !.at = "gone", !.cut = "replaced", !.holds = FALSE]
                          ELSE stream[s]]
          /\ refs' = [f \in Epochs |->
                        refs[f] - Cardinality({s \in cuts : stream[s].holds /\ stream[s].epoch = f})]
          /\ op' = [op EXCEPT !.unsure = {},
                              !.at = IF spare.op = "delete" THEN "delete"
                                     ELSE IF known THEN "done" ELSE "unread"]
  /\ UNCHANGED <<epoch, newest, starts, over, spare>>

\* DeleteSession: the claimed Record is deleted, then its streams end.
DeleteRecord ==
  /\ op.at = "delete"
  /\ epoch' = 0
  /\ op' = [op EXCEPT !.at = "endStreams"]
  /\ UNCHANGED <<newest, stream, starts, over, refs, spare>>

EndSessionStreams ==
  /\ op.at = "endStreams"
  /\ CutAll({s \in Stream : Registered(s) /\ stream[s].started}, 0, "deleted")
  /\ op' = [op EXCEPT !.at = "done"]
  /\ UNCHANGED <<epoch, newest, starts, over, spare>>

\* endStreams, when the drain is over: a stream that starts later sees over.
EndStreams ==
  /\ spare.drains /\ ~over
  /\ over' = TRUE
  /\ stream' = [s \in Stream |->
                  IF Registered(s) /\ stream[s].started THEN [stream[s] EXCEPT !.hint = TRUE]
                  ELSE stream[s]]
  /\ UNCHANGED <<epoch, newest, starts, op, refs, spare>>

-----------------------------------------------------------------------------

StreamSteps(s) ==
  AddStream(s) \/ LoadEpoch(s) \/ StartStream(s) \/ Recheck(s) \/ CutOlder(s) \/ EndStream(s)

OpSteps ==
  Mark \/ OpenOrCreate \/ CutStreams \/ CutUnsure \/ DeleteRecord \/ EndSessionStreams

Next ==
  \/ \E s \in Stream : StreamSteps(s)
  \/ OpSteps \/ EndStreams \/ ForeignDelete \/ ForeignCreate

Goes == OpSteps \/ EndStreams \/ \E s \in Stream : StreamSteps(s)

Spec == Init /\ [][Next]_vars /\ WF_vars(Goes)

-----------------------------------------------------------------------------

\* A stream that is served, whatever it still has to deliver.
Served(s) == stream[s].at = "started"

\* A stream is cut as one of a replaced Record only when it is; once this
\* Instance has opened, created or deleted a Record no stream of an older one
\* is served here, and every stream served after a drain was told to reconnect
\* (StreamSession, startStream, cutStreams, endSessionStreams, endStreams).
StreamsFollowTheRecord ==
  \A s \in Stream :
    /\ stream[s].cut = "replaced" => stream[s].epoch # epoch
    /\ Served(s) /\ op.at = "done" =>
         IF spare.op = "delete" THEN stream[s].epoch > op.epoch ELSE stream[s].epoch >= op.epoch
    /\ Served(s) /\ over => stream[s].hint

\* The Feed of a Record has as many users as there are streams that hold it, so
\* that it closes with the last of them and not before (acquireFeed,
\* releaseFeed, feedSubscription).
FeedsHaveTheirUsers ==
  \A e \in Epochs :
    refs[e] = Cardinality({s \in Stream : stream[s].holds /\ stream[s].epoch = e})

\* Every stream that was asked for is served or over.
StreamsSettle ==
  \A s \in Stream : stream[s].at \in {"started", "gone"} /\ stream[s].older = {}
=============================================================================
