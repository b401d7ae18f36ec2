------------------------ MODULE SessionStreamsProofs ------------------------
(***************************************************************************)
(* That the streams of a Session follow its Record, for any number of      *)
(* streams and of Records, whatever other Instances do meanwhile.          *)
(*                                                                         *)
(* Records are numbered: the stored one is the newest or there is none, so *)
(* what is read later is not older.  A stream that opens is told (seen) of *)
(* each Record somebody found meanwhile, and reads again before it starts; *)
(* hence one that starts is of no older Record than any that was served or *)
(* found before it, and what it cuts is older.  A mark tells an operation  *)
(* which streams had started before it read the Record.                    *)
(*                                                                         *)
(* And that the subscriber at the end of a stream has its Events in order, *)
(* for any queue, batch, ring and number of empty reads.  Its cursor says  *)
(* what it has: every Event it wants up to the cursor was given to it, is  *)
(* read or is queued, in this order, and none after the cursor.            *)
(***************************************************************************)
EXTENDS SessionStreams, Subscription, Integers, FiniteSetTheorems, SequenceTheorems,
  WellFoundedInduction, TLAPS

\* SessionStream.
StreamRec ==
  [at : {"new", "load", "start", "again", "started", "gone"}, epoch : Nat, started : BOOLEAN,
   startedAt : Nat, seen : SUBSET Nat, older : SUBSET Stream,
   cut : {"no", "refused", "replaced", "reconnect", "closed", "deleted"},
   hint : BOOLEAN, holds : BOOLEAN]

OpRec ==
  [at : {"no", "marked", "failed", "cut", "unsure", "delete", "endStreams", "done", "unread"},
   mark : Nat, epoch : Nat, unsure : SUBSET Stream]

\* Every variable has its type, and the stored Record is the newest.
Types ==
  /\ newest \in Epochs /\ epoch \in {0, newest}
  /\ stream \in [Stream -> StreamRec]
  /\ starts \in Nat
  /\ over \in BOOLEAN
  /\ op \in OpRec
  /\ refs \in [Epochs -> Int]
  /\ spare \in LoadRec

\* What the place of a stream says of it.
PlaceInv ==
  \A s \in Stream :
    /\ stream[s].at \in {"new", "load"} => ~stream[s].holds /\ stream[s].epoch = 0
    /\ stream[s].at \in {"new", "load", "start", "again"} =>
         ~stream[s].started /\ stream[s].older = {} /\ stream[s].cut = "no"
    /\ stream[s].at \in {"start", "again", "started"} => stream[s].epoch # 0
    /\ stream[s].at = "started" => stream[s].started
    /\ stream[s].at = "gone" => ~stream[s].holds
    /\ stream[s].started => stream[s].epoch # 0 /\ stream[s].startedAt <= starts
    /\ stream[s].holds => stream[s].epoch # 0
    /\ stream[s].epoch <= newest
    /\ over /\ stream[s].at = "started" => stream[s].hint

\* A stream about to start has seen each Record served that is not older than its
\* own; those that it cuts are of an older one.
OlderInv ==
  \A s, t \in Stream :
    /\ stream[s].at = "start" /\ stream[t].started =>
         stream[t].epoch <= stream[s].epoch \/ stream[t].epoch \in stream[s].seen
    /\ t \in stream[s].older => stream[t].started /\ stream[t].epoch < stream[s].epoch

\* A stream that was cut is of another Record than the stored one.
CutInv ==
  \A s \in Stream : stream[s].cut = "replaced" => stream[s].started /\ stream[s].epoch # epoch

\* The streams that had started when the Record was opened are of no newer one.
MarkInv ==
  /\ op.epoch <= newest
  /\ op.at \in {"marked", "cut"} => op.mark <= starts
  /\ op.at = "cut" =>
       \A s \in Stream : stream[s].started /\ stream[s].startedAt <= op.mark =>
         stream[s].epoch <= op.epoch

\* A stream about to start has seen the Record that was opened, and one that is
\* served is of that Record, of a newer one or still to be looked at.
UnsureInv ==
  /\ \A s \in op.unsure : stream[s].started
  /\ op.at # "unsure" => op.unsure = {}
  /\ op.at = "unsure" \/ (op.at = "done" /\ spare.op # "delete") =>
       \A s \in Stream :
         /\ stream[s].at = "start" => stream[s].epoch >= op.epoch \/ op.epoch \in stream[s].seen
         /\ Served(s) => stream[s].epoch >= op.epoch \/ s \in op.unsure

\* The same for a deleted Record, after which only newer ones are stored.
DeleteInv ==
  /\ op.at \in {"delete", "endStreams"} => spare.op = "delete"
  /\ op.at \in {"endStreams", "done"} /\ spare.op = "delete" => epoch = 0 \/ epoch > op.epoch
  /\ op.at = "done" /\ spare.op = "delete" =>
       \A s \in Stream :
         /\ stream[s].at = "start" => stream[s].epoch > op.epoch \/ 0 \in stream[s].seen
         /\ Served(s) => stream[s].epoch > op.epoch

Safe ==
  PlaceInv /\ OlderInv /\ CutInv /\ MarkInv /\ UnsureInv /\ DeleteInv

Inv == Types /\ Safe /\ FeedsHaveTheirUsers
---------------------------------------------------------------------------
(* What the steps do to the streams.                                       *)

\* The Record that is stored is the newest or none.
LEMMA Numbers ==
  ASSUME StreamsAssumption, Types
  PROVE  /\ Epochs \subseteq Nat /\ newest \in Nat /\ epoch \in Nat /\ starts \in Nat
         /\ epoch <= newest /\ newest > 0 /\ (epoch # 0 => epoch = newest)
         /\ op \in OpRec /\ op.mark \in Nat /\ op.epoch \in Nat
         /\ \A s \in Stream :
              stream[s] \in StreamRec /\ stream[s].epoch \in Nat /\ stream[s].startedAt \in Nat
BY DEF StreamsAssumption, Types, Epochs, StreamRec, OpRec

\* Streams of C end, others are told of Records, forget older streams or are told
\* to reconnect.
Shed(C) ==
  /\ stream' \in [Stream -> StreamRec]
  /\ UNCHANGED <<epoch, newest, starts>>
  /\ \A s \in Stream :
       LET x == stream[s]
           y == stream'[s]
       IN /\ y.epoch = x.epoch /\ y.started = x.started /\ y.startedAt = x.startedAt
          /\ y.older \subseteq x.older /\ x.seen \subseteq y.seen
          /\ s \in C => /\ y.at = "gone" /\ ~y.holds
                        /\ y.cut = "replaced" => x.started /\ x.epoch # epoch
          /\ s \notin C => y.at = x.at /\ y.cut = x.cut /\ y.holds = x.holds
          /\ over' /\ y.at = "started" => y.hint

\* They let go of their Feeds, which count them.
Leave(C) ==
  /\ C \in SUBSET Stream /\ Shed(C)
  /\ refs' = [f \in Epochs |->
                refs[f] - Cardinality({s \in C : stream[s].holds /\ stream[s].epoch = f})]

LEMMA ShedStreams ==
  ASSUME StreamsAssumption, Types, PlaceInv, OlderInv, CutInv, NEW C, Shed(C)
  PROVE  PlaceInv' /\ OlderInv' /\ CutInv'
<1>0. \A s \in Stream : stream[s] \in StreamRec /\ stream'[s] \in StreamRec
  BY DEF Types, Shed
<1>1. PlaceInv'
  <2> SUFFICES ASSUME NEW s \in Stream
               PROVE  /\ stream'[s].at \in {"new", "load"} => ~stream'[s].holds /\ stream'[s].epoch = 0
                      /\ stream'[s].at \in {"new", "load", "start", "again"} =>
                           ~stream'[s].started /\ stream'[s].older = {} /\ stream'[s].cut = "no"
                      /\ stream'[s].at \in {"start", "again", "started"} => stream'[s].epoch # 0
                      /\ stream'[s].at = "started" => stream'[s].started
                      /\ stream'[s].at = "gone" => ~stream'[s].holds
                      /\ stream'[s].started => stream'[s].epoch # 0 /\ stream'[s].startedAt <= starts'
                      /\ stream'[s].holds => stream'[s].epoch # 0
                      /\ stream'[s].epoch <= newest'
                      /\ over' /\ stream'[s].at = "started" => stream'[s].hint
    BY DEF PlaceInv
  <2>1. CASE s \in C
    BY <2>1 DEF Shed, PlaceInv
  <2>2. CASE s \notin C
    BY <2>2 DEF Shed, PlaceInv
  <2>3. QED
    BY <2>1, <2>2
<1>2. OlderInv'
  <2> SUFFICES ASSUME NEW s \in Stream, NEW t \in Stream
               PROVE  /\ stream'[s].at = "start" /\ stream'[t].started =>
                           stream'[t].epoch <= stream'[s].epoch \/ stream'[t].epoch \in stream'[s].seen
                      /\ t \in stream'[s].older =>
                           stream'[t].started /\ stream'[t].epoch < stream'[s].epoch
    BY DEF OlderInv
  <2>1. stream'[s].at = "start" => stream[s].at = "start"
    BY DEF Shed
  <2>2. QED
    BY <2>1 DEF Shed, OlderInv
<1>3. CutInv'
  BY DEF Shed, CutInv
<1>4. QED
  BY <1>1, <1>2, <1>3

\* Streams end, and no operation goes on.
LEMMA ShedAlone ==
  ASSUME StreamsAssumption, Types, Safe, NEW C, Shed(C), op' = op, spare'.op = spare.op
  PROVE  Safe'
<1>1. PlaceInv' /\ OlderInv' /\ CutInv'
  BY ShedStreams DEF Safe
<1>2. \A s \in Stream : stream'[s].at = "start" => stream[s].at = "start"
  BY DEF Shed
<1>3. \A s \in Stream : Served(s)' => Served(s)
  BY DEF Shed, Served
<1>4. /\ UNCHANGED <<epoch, newest, starts>>
      /\ \A s \in Stream : /\ stream'[s].epoch = stream[s].epoch
                           /\ stream'[s].started = stream[s].started
                           /\ stream'[s].startedAt = stream[s].startedAt
                           /\ stream[s].seen \subseteq stream'[s].seen
  BY DEF Shed
<1>5. MarkInv'
  BY <1>4 DEF Safe, MarkInv
<1>6. UnsureInv'
  <2>1. op.unsure \subseteq Stream
    BY DEF Types, OpRec
  <2>2. QED
    BY <1>2, <1>3, <1>4, <2>1 DEF Safe, UnsureInv
<1>7. DeleteInv'
  BY <1>2, <1>3, <1>4 DEF Safe, DeleteInv
<1>8. QED
  BY <1>1, <1>5, <1>6, <1>7 DEF Safe

\* The Record is deleted or another one is created: no stream changes.
LEMMA StillStreams ==
  ASSUME StreamsAssumption, Types, PlaceInv, OlderInv, CutInv,
         UNCHANGED <<stream, starts, over>>, newest' \in Nat, newest' >= newest,
         epoch' \in {epoch, 0} \/ epoch' > newest
  PROVE  PlaceInv' /\ OlderInv' /\ CutInv'
<1>0. /\ newest \in Nat /\ epoch \in Nat
      /\ \A s \in Stream : stream[s].epoch \in Nat
  BY Numbers
<1>1. PlaceInv'
  BY <1>0 DEF PlaceInv
<1>2. OlderInv'
  BY DEF OlderInv
<1>3. CutInv'
  <2> SUFFICES ASSUME NEW s \in Stream, stream[s].cut = "replaced"
               PROVE  stream[s].started /\ stream[s].epoch # epoch'
    BY DEF CutInv
  <2>1. stream[s].started /\ stream[s].epoch # epoch /\ stream[s].epoch # 0
        /\ stream[s].epoch <= newest /\ stream[s].epoch \in Nat
    BY <1>0 DEF CutInv, PlaceInv
  <2>2. QED
    BY <1>0, <2>1
<1>4. QED
  BY <1>1, <1>2, <1>3
---------------------------------------------------------------------------
(* The steps of a stream.                                                  *)

\* A stream is dropped.
LEMMA DropSheds ==
  ASSUME StreamsAssumption, Types, PlaceInv, NEW s \in Stream,
         NEW why \in {"refused", "reconnect", "closed"}, Drops(s, why),
         UNCHANGED <<epoch, newest, starts, over>>
  PROVE  Shed({s})
<1> DEFINE v == [stream[s] EXCEPT !.at = "gone", !.cut = why, !.holds = FALSE]
<1>0. stream \in [Stream -> StreamRec] /\ stream[s] \in StreamRec
  BY DEF Types
<1>1. stream' = [stream EXCEPT ![s] = v]
  BY <1>0 DEF Drops
<1>2. /\ v \in StreamRec /\ v.at = "gone" /\ v.cut = why /\ ~v.holds /\ v.epoch = stream[s].epoch
      /\ v.started = stream[s].started /\ v.startedAt = stream[s].startedAt
      /\ v.older = stream[s].older /\ v.seen = stream[s].seen
  BY <1>0 DEF StreamRec
<1> HIDE DEF v
<1>3. stream' \in [Stream -> StreamRec] /\ \A t \in Stream : stream'[t] = IF t = s THEN v ELSE stream[t]
  BY <1>0, <1>1, <1>2
<1>4. \A t \in Stream : over' /\ stream'[t].at = "started" => stream'[t].hint
  BY <1>2, <1>3 DEF PlaceInv
<1>5. QED
  BY <1>2, <1>3, <1>4 DEF Shed

\* One stream changes.
Changed(s, v) ==
  stream' \in [Stream -> StreamRec] /\ \A t \in Stream : stream'[t] = IF t = s THEN v ELSE stream[t]

LEMMA Changes ==
  ASSUME Types, NEW s \in Stream, NEW v \in StreamRec, stream' = [stream EXCEPT ![s] = v]
  PROVE  Changed(s, v)
BY DEF Changed, Types

\* addStream.
LEMMA AddSafe ==
  ASSUME StreamsAssumption, Types, Safe, NEW s \in Stream, AddStream(s)
  PROVE  stream' \in [Stream -> StreamRec] /\ Safe'
<1> DEFINE x == stream[s]
           v == [x EXCEPT !.at = "load"]
<1>0. stream \in [Stream -> StreamRec] /\ x \in StreamRec /\ x.at = "new"
  BY DEF Types, AddStream
<1>1. stream' = [stream EXCEPT ![s] = v] /\ UNCHANGED <<epoch, newest, starts, over, op, refs, spare>>
  BY <1>0 DEF AddStream
<1>2. /\ v \in StreamRec /\ v.at = "load" /\ v.cut = x.cut /\ v.holds = x.holds /\ v.epoch = x.epoch
      /\ v.started = x.started /\ v.startedAt = x.startedAt /\ v.older = x.older /\ v.seen = x.seen
  BY <1>0 DEF StreamRec
<1> HIDE DEF v
<1>3. Changed(s, v)
  BY <1>1, <1>2, Changes
<1> USE DEF Changed, Safe
<1>4. PlaceInv'
  BY <1>0, <1>1, <1>2, <1>3 DEF PlaceInv
<1>5. OlderInv'
  BY <1>0, <1>1, <1>2, <1>3 DEF OlderInv
<1>6. CutInv'
  BY <1>0, <1>1, <1>2, <1>3 DEF CutInv
<1>7. MarkInv'
  BY <1>0, <1>1, <1>2, <1>3 DEF MarkInv
<1>8. UnsureInv'
  BY <1>0, <1>1, <1>2, <1>3 DEF UnsureInv, Served, Types, OpRec
<1>9. DeleteInv'
  BY <1>0, <1>1, <1>2, <1>3 DEF DeleteInv, Served
<1>10. QED
  BY <1>3, <1>4, <1>5, <1>6, <1>7, <1>8, <1>9

\* StreamSession reads the Record's epoch: it is the newest one.
LEMMA LoadSafe ==
  ASSUME StreamsAssumption, Types, Safe, NEW s \in Stream, LoadEpoch(s)
  PROVE  stream' \in [Stream -> StreamRec] /\ Safe'
<1> DEFINE x == stream[s]
           v == [x EXCEPT !.epoch = epoch, !.at = "start", !.holds = TRUE]
<1>0. /\ stream \in [Stream -> StreamRec] /\ x \in StreamRec /\ x.at = "load" /\ epoch \in Nat
      /\ UNCHANGED <<epoch, newest, starts, over, op, spare>>
  BY Numbers DEF Types, LoadEpoch
<1>1. CASE Drops(s, "refused")
  <2>1. Shed({s})
    BY <1>0, <1>1, DropSheds DEF Safe
  <2>2. QED
    BY <1>0, <2>1, ShedAlone DEF Shed
<1>2. CASE epoch # 0 /\ stream' = [stream EXCEPT ![s].epoch = epoch, ![s].at = "start", ![s].holds = TRUE]
  <2>1. stream' = [stream EXCEPT ![s] = v]
    BY <1>0, <1>2
  <2>2. /\ v \in StreamRec /\ v.at = "start" /\ v.cut = x.cut /\ v.holds /\ v.epoch = epoch
        /\ v.started = x.started /\ v.startedAt = x.startedAt /\ v.older = x.older /\ v.seen = x.seen
    BY <1>0 DEF StreamRec
  <2> HIDE DEF v
  <2>3. Changed(s, v)
    BY <2>1, <2>2, Changes
  <2>4. /\ epoch = newest /\ newest \in Nat /\ op.epoch \in Nat
        /\ \A t \in Stream : stream[t].epoch \in Nat
    BY <1>2, Numbers
  <2>5. ~x.started /\ x.older = {} /\ x.cut = "no"
    BY <1>0 DEF Safe, PlaceInv
  <2> USE DEF Changed, Safe
  <2>6. PlaceInv'
    BY <1>0, <1>2, <2>2, <2>3, <2>4, <2>5 DEF PlaceInv
  <2>7. OlderInv'
    <3>1. \A t \in Stream : stream[t].epoch <= epoch
      BY <2>4 DEF PlaceInv
    <3>2. QED
      BY <1>0, <1>2, <2>2, <2>3, <2>4, <2>5, <3>1 DEF OlderInv
  <2>8. CutInv'
    BY <1>0, <1>2, <2>2, <2>3, <2>5 DEF CutInv
  <2>9. MarkInv'
    BY <1>0, <2>2, <2>3, <2>5 DEF MarkInv
  <2>10. UnsureInv'
    <3>1. op.epoch <= epoch
      BY <2>4 DEF MarkInv
    <3>2. QED
      BY <1>0, <1>2, <2>2, <2>3, <2>4, <2>5, <3>1 DEF UnsureInv, Served, Types, OpRec
  <2>11. DeleteInv'
    BY <1>0, <1>2, <2>2, <2>3, <2>4, <2>5 DEF DeleteInv, Served
  <2>12. QED
    BY <2>3, <2>6, <2>7, <2>8, <2>9, <2>10, <2>11
<1>3. QED
  BY <1>1, <1>2 DEF LoadEpoch

\* startStream: the stream reads again, or starts.
LEMMA StartSafe ==
  ASSUME StreamsAssumption, Types, Safe, NEW s \in Stream, StartStream(s)
  PROVE  /\ stream' \in [Stream -> StreamRec] /\ starts' \in Nat /\ Safe'
         /\ \A t \in Stream : stream'[t].holds = stream[t].holds /\ stream'[t].epoch = stream[t].epoch
<1> DEFINE x == stream[s]
<1>0. /\ stream \in [Stream -> StreamRec] /\ x \in StreamRec /\ x.at = "start" /\ starts \in Nat
      /\ UNCHANGED <<epoch, newest, over, op, refs, spare>>
  BY DEF Types, StartStream
<1>a. ~x.started /\ x.older = {} /\ x.cut = "no" /\ x.epoch # 0
  BY <1>0 DEF Safe, PlaceInv
<1>1. CASE stream' = [stream EXCEPT ![s].seen = {}, ![s].at = "again"] /\ starts' = starts
  <2> DEFINE v == [x EXCEPT !.seen = {}, !.at = "again"]
  <2>1. stream' = [stream EXCEPT ![s] = v]
    BY <1>0, <1>1
  <2>2. /\ v \in StreamRec /\ v.at = "again" /\ v.cut = x.cut /\ v.holds = x.holds /\ v.epoch = x.epoch
        /\ v.started = x.started /\ v.startedAt = x.startedAt /\ v.older = x.older
    BY <1>0 DEF StreamRec
  <2> HIDE DEF v
  <2>3. Changed(s, v)
    BY <2>1, <2>2, Changes
  <2> USE DEF Changed, Safe
  <2>4. PlaceInv'
    BY <1>0, <1>1, <2>2, <2>3 DEF PlaceInv
  <2>5. OlderInv'
    BY <1>0, <1>1, <2>2, <2>3 DEF OlderInv
  <2>6. CutInv'
    BY <1>0, <1>1, <2>2, <2>3 DEF CutInv
  <2>7. MarkInv'
    BY <1>0, <1>1, <2>2, <2>3 DEF MarkInv
  <2>8. UnsureInv'
    BY <1>0, <1>1, <2>2, <2>3 DEF UnsureInv, Served, Types, OpRec
  <2>9. DeleteInv'
    BY <1>0, <1>1, <2>2, <2>3 DEF DeleteInv, Served
  <2>10. QED
    BY <1>0, <1>1, <2>2, <2>3, <2>4, <2>5, <2>6, <2>7, <2>8, <2>9
<1> DEFINE older == {o \in Others(s) : stream[o].started /\ stream[o].epoch # x.epoch}
           v == [x EXCEPT !.started = TRUE, !.startedAt = starts + 1, !.seen = {},
                          !.older = older, !.hint = over, !.at = "started"]
           w(t) == [stream[t] EXCEPT !.seen = stream[t].seen \cup {x.epoch}]
           next == [t \in Stream |-> CASE t = s -> v
                                       [] t \in Others(s) /\ ~stream[t].started -> w(t)
                                       [] OTHER -> stream[t]]
<1>2. CASE (~\E e \in x.seen : e # x.epoch) /\ starts' = starts + 1 /\ stream' = next
  <2>1. \A t \in Stream : stream'[t] = IF t = s THEN v
                                       ELSE IF t \in Others(s) /\ ~stream[t].started THEN w(t)
                                       ELSE stream[t]
    <3> SUFFICES ASSUME NEW t \in Stream
                 PROVE  next[t] = IF t = s THEN v
                                  ELSE IF t \in Others(s) /\ ~stream[t].started THEN w(t)
                                  ELSE stream[t]
      BY <1>2
    <3> HIDE DEF v, w
    <3>1. s \notin Others(s)
      BY DEF Others
    <3>2. QED
      BY <3>1
  <2>2. older \subseteq Stream /\ over \in BOOLEAN /\ starts + 1 \in Nat /\ x.epoch \in Nat
    BY <1>0, Numbers DEF Others, Types
  <2>3. \A t \in older : t \in Stream /\ stream[t].started /\ stream[t].epoch # x.epoch
    BY <2>2
  <2> HIDE DEF older
  <2>4. /\ v \in StreamRec /\ v.at = "started" /\ v.cut = x.cut /\ v.holds = x.holds
        /\ v.epoch = x.epoch /\ v.started = TRUE /\ v.startedAt = starts + 1 /\ v.older = older
        /\ v.hint = over
    BY <1>0, <2>2 DEF StreamRec
  <2>5. ASSUME NEW t \in Stream
        PROVE  /\ w(t) \in StreamRec /\ w(t).at = stream[t].at /\ w(t).cut = stream[t].cut
               /\ w(t).holds = stream[t].holds /\ w(t).epoch = stream[t].epoch
               /\ w(t).started = stream[t].started /\ w(t).startedAt = stream[t].startedAt
               /\ w(t).older = stream[t].older /\ w(t).hint = stream[t].hint
               /\ w(t).seen = stream[t].seen \cup {x.epoch}
    <3>1. stream[t] \in StreamRec /\ stream[t].seen \cup {x.epoch} \in SUBSET Nat
      BY <1>0, <2>2 DEF StreamRec
    <3>2. QED
      BY <3>1 DEF StreamRec
  <2> HIDE DEF v, w
  \* Of another stream only what it has seen changes.
  <2>6. ASSUME NEW t \in Stream, t # s
        PROVE  /\ stream'[t] \in StreamRec
               /\ stream'[t].at = stream[t].at /\ stream'[t].cut = stream[t].cut
               /\ stream'[t].holds = stream[t].holds /\ stream'[t].epoch = stream[t].epoch
               /\ stream'[t].started = stream[t].started
               /\ stream'[t].startedAt = stream[t].startedAt
               /\ stream'[t].older = stream[t].older /\ stream'[t].hint = stream[t].hint
               /\ stream[t].seen \subseteq stream'[t].seen
               /\ stream[t].at = "start" => x.epoch \in stream'[t].seen
    <3>1. CASE t \in Others(s) /\ ~stream[t].started
      BY <2>1, <2>5, <2>6, <3>1
    <3>2. CASE ~(t \in Others(s) /\ ~stream[t].started)
      <4>1. stream'[t] = stream[t]
        BY <2>1, <2>6, <3>2
      <4>2. stream[t].at # "start"
        BY <2>6, <3>2 DEF Others, Registered, Safe, PlaceInv
      <4>3. QED
        BY <1>0, <4>1, <4>2
    <3>3. QED
      BY <3>1, <3>2
  <2>7. stream'[s] = v
    BY <2>1
  <2>8. stream' \in [Stream -> StreamRec]
    <3>1. \A t \in Stream : stream'[t] \in StreamRec
      BY <2>4, <2>6, <2>7
    <3>2. QED
      BY <1>2, <3>1
  <2>9. \A t \in Stream : stream[t].epoch \in Nat /\ stream[t].startedAt \in Nat
    BY Numbers
  <2>10. ASSUME NEW t \in Stream, stream[t].started
         PROVE  stream[t].epoch <= x.epoch
    <3>1. stream[t].epoch <= x.epoch \/ stream[t].epoch \in x.seen
      BY <1>0, <2>10 DEF Safe, OlderInv
    <3>2. stream[t].epoch = x.epoch => stream[t].epoch <= x.epoch
      BY <2>9
    <3>3. QED
      BY <1>2, <3>1, <3>2
  <2> USE DEF Safe
  <2>11. PlaceInv'
    <3> SUFFICES ASSUME NEW t \in Stream
                 PROVE  /\ stream'[t].at \in {"new", "load"} => ~stream'[t].holds /\ stream'[t].epoch = 0
                        /\ stream'[t].at \in {"new", "load", "start", "again"} =>
                             ~stream'[t].started /\ stream'[t].older = {} /\ stream'[t].cut = "no"
                        /\ stream'[t].at \in {"start", "again", "started"} => stream'[t].epoch # 0
                        /\ stream'[t].at = "started" => stream'[t].started
                        /\ stream'[t].at = "gone" => ~stream'[t].holds
                        /\ stream'[t].started => stream'[t].epoch # 0 /\ stream'[t].startedAt <= starts'
                        /\ stream'[t].holds => stream'[t].epoch # 0
                        /\ stream'[t].epoch <= newest'
                        /\ over' /\ stream'[t].at = "started" => stream'[t].hint
      BY DEF PlaceInv
    <3>1. CASE t = s
      <4>1. x.epoch <= newest
        BY DEF PlaceInv
      <4>2. QED
        BY <1>0, <1>2, <1>a, <2>4, <2>7, <3>1, <4>1
    <3>2. CASE t # s
      <4>1. stream[t].started => stream[t].startedAt <= starts + 1
        BY <1>0, <2>9 DEF PlaceInv
      <4>2. QED
        BY <1>0, <1>2, <2>6, <3>2, <4>1 DEF PlaceInv
    <3>3. QED
      BY <3>1, <3>2
  <2>12. OlderInv'
    <3> SUFFICES ASSUME NEW t \in Stream, NEW u \in Stream
                 PROVE  /\ stream'[t].at = "start" /\ stream'[u].started =>
                             stream'[u].epoch <= stream'[t].epoch \/ stream'[u].epoch \in stream'[t].seen
                        /\ u \in stream'[t].older =>
                             stream'[u].started /\ stream'[u].epoch < stream'[t].epoch
      BY DEF OlderInv
    <3>1. CASE t = s
      <4>1. u \in older => u # s /\ stream[u].started /\ stream[u].epoch < x.epoch
        BY <1>a, <2>2, <2>3, <2>9, <2>10
      <4>2. QED
        BY <2>4, <2>6, <2>7, <3>1, <4>1
    <3>2. CASE t # s /\ u = s
      <4>1. s \notin stream[t].older
        BY <1>a DEF OlderInv
      <4>2. QED
        BY <2>4, <2>6, <2>7, <3>2, <4>1
    <3>3. CASE t # s /\ u # s
      BY <2>6, <3>3 DEF OlderInv
    <3>4. QED
      BY <3>1, <3>2, <3>3
  <2>13. CutInv'
    BY <1>0, <1>a, <2>4, <2>6, <2>7 DEF CutInv
  <2>14. MarkInv'
    <3>1. op.mark \in Nat /\ op.epoch \in Nat
      BY Numbers
    <3>2. op.at \in {"marked", "cut"} => ~(starts + 1 <= op.mark)
      BY <1>0, <3>1 DEF MarkInv
    <3>3. op.at \in {"marked", "cut"} => op.mark <= starts + 1
      BY <1>0, <3>1 DEF MarkInv
    <3>4. ASSUME op.at = "cut", NEW t \in Stream, stream'[t].started, stream'[t].startedAt <= op.mark
          PROVE  stream'[t].epoch <= op.epoch
      <4>1. t # s
        BY <2>4, <2>7, <3>2, <3>4
      <4>2. QED
        BY <2>6, <3>4, <4>1 DEF MarkInv
    <3>5. QED
      BY <1>0, <1>2, <3>3, <3>4 DEF MarkInv
  <2>15. UnsureInv'
    <3>1. /\ op.unsure \subseteq Stream
          /\ \A t \in op.unsure : stream'[t].started
      BY <1>a, <2>4, <2>6, <2>7 DEF UnsureInv, Types, OpRec
    <3>2. ASSUME op.at = "unsure" \/ (op.at = "done" /\ spare.op # "delete"), NEW t \in Stream
          PROVE  /\ stream'[t].at = "start" =>
                      stream'[t].epoch >= op.epoch \/ op.epoch \in stream'[t].seen
                 /\ Served(t)' => stream'[t].epoch >= op.epoch \/ t \in op.unsure
      <4>1. CASE t = s
        <5>1. x.epoch >= op.epoch
          <6>1. x.epoch >= op.epoch \/ op.epoch \in x.seen
            BY <1>0, <3>2 DEF UnsureInv
          <6>2. op.epoch = x.epoch => x.epoch >= op.epoch
            BY <2>2
          <6>3. QED
            BY <1>2, <6>1, <6>2
        <5>2. QED
          BY <2>4, <2>7, <4>1, <5>1 DEF Served
      <4>2. CASE t # s
        BY <2>6, <3>2, <4>2 DEF UnsureInv, Served
      <4>3. QED
        BY <4>1, <4>2
    <3>3. QED
      BY <1>0, <3>1, <3>2 DEF UnsureInv
  <2>16. DeleteInv'
    <3>1. ASSUME op.at = "done", spare.op = "delete", NEW t \in Stream
          PROVE  /\ stream'[t].at = "start" => stream'[t].epoch > op.epoch \/ 0 \in stream'[t].seen
                 /\ Served(t)' => stream'[t].epoch > op.epoch
      <4>1. CASE t = s
        <5>1. x.epoch > op.epoch
          BY <1>0, <1>2, <1>a, <3>1 DEF DeleteInv
        <5>2. QED
          BY <2>4, <2>7, <4>1, <5>1 DEF Served
      <4>2. CASE t # s
        BY <2>6, <3>1, <4>2 DEF DeleteInv, Served
      <4>3. QED
        BY <4>1, <4>2
    <3>2. QED
      BY <1>0, <3>1 DEF DeleteInv
  <2>17. QED
    BY <1>0, <1>2, <2>4, <2>6, <2>7, <2>8, <2>11, <2>12, <2>13, <2>14, <2>15, <2>16
<1>3. QED
  BY <1>1, <1>2 DEF StartStream

\* The epoch is read again, and is still the newest.
LEMMA RecheckSafe ==
  ASSUME StreamsAssumption, Types, Safe, NEW s \in Stream, Recheck(s)
  PROVE  stream' \in [Stream -> StreamRec] /\ Safe'
<1> DEFINE x == stream[s]
           v == [x EXCEPT !.at = "start"]
<1>0. /\ stream \in [Stream -> StreamRec] /\ x \in StreamRec /\ x.at = "again"
      /\ UNCHANGED <<epoch, newest, starts, over, op, spare>>
  BY DEF Types, Recheck
<1>1. CASE Drops(s, "refused")
  <2>1. Shed({s})
    BY <1>0, <1>1, DropSheds DEF Safe
  <2>2. QED
    BY <1>0, <2>1, ShedAlone DEF Shed
<1>2. CASE epoch = x.epoch /\ stream' = [stream EXCEPT ![s].at = "start"]
  <2>1. stream' = [stream EXCEPT ![s] = v]
    BY <1>0, <1>2
  <2>2. /\ v \in StreamRec /\ v.at = "start" /\ v.cut = x.cut /\ v.holds = x.holds /\ v.epoch = epoch
        /\ v.started = x.started /\ v.startedAt = x.startedAt /\ v.older = x.older /\ v.seen = x.seen
    BY <1>0, <1>2 DEF StreamRec
  <2> HIDE DEF v
  <2>3. Changed(s, v)
    BY <2>1, <2>2, Changes
  <2>4. ~x.started /\ x.older = {} /\ x.cut = "no" /\ x.epoch # 0
    BY <1>0 DEF Safe, PlaceInv
  <2>5. /\ epoch = newest /\ newest \in Nat /\ op.epoch \in Nat
        /\ \A t \in Stream : stream[t].epoch \in Nat
    BY <1>2, <2>4, Numbers
  <2> USE DEF Changed, Safe
  <2>6. PlaceInv'
    BY <1>0, <1>2, <2>2, <2>3, <2>4, <2>5 DEF PlaceInv
  <2>7. OlderInv'
    <3>1. \A t \in Stream : stream[t].epoch <= epoch
      BY <2>5 DEF PlaceInv
    <3>2. QED
      BY ZenonT(30), <1>0, <1>2, <2>2, <2>3, <2>4, <2>5, <3>1 DEF OlderInv
  <2>8. CutInv'
    BY <1>0, <1>2, <2>2, <2>3, <2>4 DEF CutInv
  <2>9. MarkInv'
    BY <1>0, <2>2, <2>3, <2>4 DEF MarkInv
  <2>10. UnsureInv'
    <3>1. op.epoch <= epoch
      BY <2>5 DEF MarkInv
    <3>2. QED
      BY ZenonT(30), <1>0, <1>2, <2>2, <2>3, <2>4, <2>5, <3>1 DEF UnsureInv, Served, Types, OpRec
  <2>11. DeleteInv'
    BY ZenonT(30), <1>0, <1>2, <2>2, <2>3, <2>4, <2>5 DEF DeleteInv, Served
  <2>12. QED
    BY <2>3, <2>6, <2>7, <2>8, <2>9, <2>10, <2>11
<1>3. QED
  BY <1>1, <1>2 DEF Recheck

\* What a stream that started cuts is older than it.
LEMMA CutOlderSafe ==
  ASSUME StreamsAssumption, Types, Safe, NEW s \in Stream, CutOlder(s)
  PROVE  /\ stream' \in [Stream -> StreamRec] /\ Safe'
         /\ \/ Shed({}) /\ refs' = refs
            \/ \E o \in Stream :
                 /\ Shed({o})
                 /\ refs' = IF stream[o].holds THEN [refs EXCEPT ![stream[o].epoch] = @ - 1] ELSE refs
<1>0. /\ stream \in [Stream -> StreamRec] /\ UNCHANGED <<epoch, newest, starts, over, op, spare>>
      /\ \A t \in Stream : stream[t] \in StreamRec
  BY DEF Types, CutOlder
<1>1. PICK o \in stream[s].older :
        \/ stream' = [stream EXCEPT ![s].older = @ \ {o}] /\ refs' = refs
        \/ /\ stream' = [stream EXCEPT ![o].at = "gone", ![o].cut = "replaced", ![o].holds = FALSE,
                                       ![s].older = @ \ {o}]
           /\ refs' = IF stream[o].holds THEN [refs EXCEPT ![stream[o].epoch] = @ - 1] ELSE refs
  BY DEF CutOlder
<1>2. /\ o \in Stream /\ stream[o].started /\ stream[o].epoch < stream[s].epoch /\ o # s
  <2>1. o \in Stream
    BY <1>0 DEF StreamRec
  <2>2. stream[o].started /\ stream[o].epoch < stream[s].epoch
    BY <1>1, <2>1 DEF Safe, OlderInv
  <2>3. o # s
    BY <2>1, <2>2, Numbers
  <2>4. QED
    BY <2>1, <2>2, <2>3
<1>3. stream[o].epoch # epoch
  <2>1. /\ stream[s].epoch <= newest /\ stream[o].epoch # 0
    BY <1>2 DEF Safe, PlaceInv
  <2>2. QED
    BY <1>2, <2>1, Numbers
<1> DEFINE w == [stream[s] EXCEPT !.older = stream[s].older \ {o}]
           v == [stream[o] EXCEPT !.at = "gone", !.cut = "replaced", !.holds = FALSE]
<1>4. /\ w \in StreamRec /\ w.at = stream[s].at /\ w.cut = stream[s].cut /\ w.holds = stream[s].holds
      /\ w.epoch = stream[s].epoch /\ w.started = stream[s].started
      /\ w.startedAt = stream[s].startedAt /\ w.seen = stream[s].seen
      /\ w.older = stream[s].older \ {o} /\ w.hint = stream[s].hint
  BY <1>0 DEF StreamRec
<1>5. /\ v \in StreamRec /\ v.at = "gone" /\ v.cut = "replaced" /\ ~v.holds
      /\ v.epoch = stream[o].epoch /\ v.started = stream[o].started
      /\ v.startedAt = stream[o].startedAt /\ v.seen = stream[o].seen
      /\ v.older = stream[o].older
  BY <1>0, <1>2 DEF StreamRec
<1>6. \A t \in Stream : over /\ stream[t].at = "started" => stream[t].hint
  BY DEF Safe, PlaceInv
<1>7. CASE stream' = [stream EXCEPT ![s].older = @ \ {o}] /\ refs' = refs
  <2>1. stream' = [stream EXCEPT ![s] = w]
    BY <1>0, <1>7
  <2> HIDE DEF w, v
  <2>2. Changed(s, w)
    BY <1>4, <2>1, Changes
  <2>3. Shed({})
    BY <1>0, <1>4, <1>6, <2>2 DEF Shed, Changed
  <2>4. QED
    BY <1>0, <1>7, <2>2, <2>3, ShedAlone DEF Changed
<1>8. CASE /\ stream' = [stream EXCEPT ![o].at = "gone", ![o].cut = "replaced", ![o].holds = FALSE,
                                       ![s].older = @ \ {o}]
           /\ refs' = IF stream[o].holds THEN [refs EXCEPT ![stream[o].epoch] = @ - 1] ELSE refs
  <2>1. stream' = [[stream EXCEPT ![o] = v] EXCEPT ![s] = w]
    BY <1>0, <1>2, <1>8
  <2> HIDE DEF w, v
  <2>2. /\ stream' \in [Stream -> StreamRec]
        /\ \A t \in Stream : stream'[t] = IF t = s THEN w ELSE IF t = o THEN v ELSE stream[t]
    BY <1>0, <1>2, <1>4, <1>5, <2>1
  <2>3. Shed({o})
    BY ZenonT(30), <1>0, <1>2, <1>3, <1>4, <1>5, <1>6, <2>2 DEF Shed
  <2>4. QED
    BY <1>0, <1>2, <1>8, <2>2, <2>3, ShedAlone
<1>9. QED
  BY <1>1, <1>7, <1>8
---------------------------------------------------------------------------
(* The steps of an operation on the Record.                                *)

\* markStreams: the streams of C are cut, and those that open are told of e.
LEMMA CutAllSheds ==
  ASSUME StreamsAssumption, Types, PlaceInv, NEW C \in SUBSET Stream, NEW e \in Nat,
         NEW why \in {"replaced", "deleted"}, CutAll(C, e, why),
         \A s \in C : stream[s].started /\ (why = "replaced" => stream[s].epoch # epoch),
         UNCHANGED <<epoch, newest, starts, over>>
  PROVE  /\ Shed(C)
         /\ \A s \in Stream : stream'[s].at = "start" => stream[s].at = "start" /\ e \in stream'[s].seen
<1> DEFINE v(s) == [stream[s] EXCEPT !.at = "gone", !.cut = why, !.holds = FALSE]
           w(s) == [stream[s] EXCEPT !.seen = stream[s].seen \cup {e}]
           next == [s \in Stream |-> CASE s \in C -> v(s)
                                       [] Registered(s) /\ ~stream[s].started -> w(s)
                                       [] OTHER -> stream[s]]
<1>0. \A s \in Stream : stream[s] \in StreamRec
  BY DEF Types
<1>1. stream' = next
  BY DEF CutAll
<1>2. ASSUME NEW s \in Stream
      PROVE  /\ v(s) \in StreamRec /\ v(s).at = "gone" /\ v(s).cut = why /\ ~v(s).holds
             /\ v(s).epoch = stream[s].epoch /\ v(s).started = stream[s].started
             /\ v(s).startedAt = stream[s].startedAt /\ v(s).older = stream[s].older
             /\ v(s).seen = stream[s].seen
  <2>1. stream[s] \in StreamRec
    BY <1>0
  <2>2. QED
    BY <2>1 DEF StreamRec
<1>3. ASSUME NEW s \in Stream
      PROVE  /\ w(s) \in StreamRec /\ w(s).at = stream[s].at /\ w(s).cut = stream[s].cut
             /\ w(s).holds = stream[s].holds /\ w(s).epoch = stream[s].epoch
             /\ w(s).started = stream[s].started /\ w(s).startedAt = stream[s].startedAt
             /\ w(s).older = stream[s].older /\ w(s).hint = stream[s].hint
             /\ w(s).seen = stream[s].seen \cup {e}
  <2>1. stream[s] \in StreamRec /\ stream[s].seen \cup {e} \in SUBSET Nat
    BY <1>0 DEF StreamRec
  <2>2. QED
    BY <2>1 DEF StreamRec
<1> HIDE DEF v, w
<1>4. ASSUME NEW s \in Stream
      PROVE  /\ s \in C => stream'[s] = v(s)
             /\ s \notin C /\ Registered(s) /\ ~stream[s].started => stream'[s] = w(s)
             /\ s \notin C /\ ~(Registered(s) /\ ~stream[s].started) => stream'[s] = stream[s]
  <2>1. CASE s \in C
    <3>1. stream[s].started
      BY <2>1
    <3>2. QED
      BY <1>1, <2>1, <3>1
  <2>2. CASE s \notin C
    BY <1>1, <2>2
  <2>3. QED
    BY <2>1, <2>2
<1> HIDE DEF next
<1>5. stream' \in [Stream -> StreamRec]
  <2>1. \A s \in Stream : stream'[s] \in StreamRec
    BY <1>0, <1>2, <1>3, <1>4
  <2>2. QED
    BY <1>1, <2>1 DEF next
<1>6. \A s \in Stream : over /\ stream[s].at = "started" => stream[s].hint
  BY DEF PlaceInv
<1>7. Shed(C)
  <2>1. ASSUME NEW s \in Stream
        PROVE  /\ stream'[s].epoch = stream[s].epoch /\ stream'[s].started = stream[s].started
               /\ stream'[s].startedAt = stream[s].startedAt
               /\ stream'[s].older \subseteq stream[s].older /\ stream[s].seen \subseteq stream'[s].seen
               /\ s \in C => /\ stream'[s].at = "gone" /\ ~stream'[s].holds
                             /\ stream'[s].cut = "replaced" =>
                                  stream[s].started /\ stream[s].epoch # epoch
               /\ s \notin C => /\ stream'[s].at = stream[s].at /\ stream'[s].cut = stream[s].cut
                                /\ stream'[s].holds = stream[s].holds
               /\ over' /\ stream'[s].at = "started" => stream'[s].hint
    <3>1. CASE s \in C
      BY <1>2, <1>4, <3>1
    <3>2. CASE s \notin C /\ Registered(s) /\ ~stream[s].started
      BY <1>3, <1>4, <1>6, <3>2
    <3>3. CASE s \notin C /\ ~(Registered(s) /\ ~stream[s].started)
      BY <1>4, <1>6, <3>3
    <3>4. QED
      BY <3>1, <3>2, <3>3
  <2>2. QED
    BY <1>5, <2>1 DEF Shed
<1>8. ASSUME NEW s \in Stream, stream'[s].at = "start"
      PROVE  stream[s].at = "start" /\ e \in stream'[s].seen
  <2>1. s \notin C /\ stream[s].at = "start"
    BY <1>7, <1>8 DEF Shed
  <2>2. Registered(s) /\ ~stream[s].started
    BY <2>1 DEF Registered, PlaceInv
  <2>3. QED
    BY <1>3, <1>4, <2>1, <2>2
<1>9. QED
  BY <1>7, <1>8

\* cutStreams, its first half.
LEMMA CutStreamsSafe ==
  ASSUME StreamsAssumption, Types, Safe, CutStreams
  PROVE  stream' \in [Stream -> StreamRec] /\ op' \in OpRec /\ Safe' /\ \E C \in SUBSET Stream : Leave(C)
<1> DEFINE C == Stale(op.epoch, op.mark)
           U == Other(op.epoch) \ C
<1>0. /\ UNCHANGED <<epoch, newest, starts, over, spare>> /\ op.at = "cut"
      /\ CutAll(C, op.epoch, "replaced") /\ op' = [op EXCEPT !.unsure = U, !.at = "unsure"]
      /\ op \in OpRec /\ op.epoch \in Nat /\ newest \in Nat /\ epoch \in Nat
      /\ \A s \in Stream : stream[s].epoch \in Nat
  BY Numbers DEF CutStreams
<1>1. /\ C \in SUBSET Stream /\ U \in SUBSET Stream
      /\ \A s \in C : stream[s].started /\ stream[s].epoch # op.epoch /\ stream[s].startedAt <= op.mark
      /\ \A s \in U : stream[s].started
      /\ \A s \in Stream : Served(s) => stream[s].epoch = op.epoch \/ s \in C \/ s \in U
  BY DEF Stale, Other, Registered, Served, Safe, PlaceInv
<1>2. \A s \in C : stream[s].started /\ stream[s].epoch # epoch
  <2> SUFFICES ASSUME NEW s \in C PROVE stream[s].epoch # epoch
    BY <1>1
  <2>1. stream[s].epoch <= op.epoch /\ op.epoch <= newest
    BY <1>0, <1>1 DEF Safe, MarkInv
  <2>2. stream[s].epoch # 0 /\ stream[s].epoch # op.epoch /\ s \in Stream
    BY <1>1 DEF Safe, PlaceInv
  <2>3. QED
    BY <1>0, <2>1, <2>2, Numbers
<1> HIDE DEF C, U
<1>3. /\ Shed(C)
      /\ \A s \in Stream : stream'[s].at = "start" => op.epoch \in stream'[s].seen
  BY <1>0, <1>1, <1>2, CutAllSheds DEF Safe
<1>4. PlaceInv' /\ OlderInv' /\ CutInv'
  BY <1>3, ShedStreams DEF Safe
<1>5. /\ op' \in OpRec /\ op'.at = "unsure" /\ op'.unsure = U /\ op'.epoch = op.epoch
  BY <1>0, <1>1 DEF OpRec
<1>6. MarkInv'
  BY <1>0, <1>5 DEF Safe, MarkInv
<1>7. UnsureInv'
  <2>1. \A s \in U : stream'[s].started
    BY <1>1, <1>3 DEF Shed
  <2>2. ASSUME NEW s \in Stream, Served(s)'
        PROVE  stream'[s].epoch >= op.epoch \/ s \in U
    <3>1. s \notin C /\ Served(s) /\ stream'[s].epoch = stream[s].epoch
      BY <1>3, <2>2 DEF Shed, Served
    <3>2. QED
      BY <1>0, <1>1, <3>1
  <2>3. QED
    BY <1>3, <1>5, <2>1, <2>2 DEF UnsureInv
<1>8. DeleteInv'
  BY <1>5 DEF DeleteInv
<1>9. QED
  BY <1>0, <1>1, <1>3, <1>4, <1>5, <1>6, <1>7, <1>8 DEF Safe, Shed, Leave, CutAll

\* Its second half: those that started meanwhile go if the stored Record is not
\* theirs.
LEMMA CutUnsureSafe ==
  ASSUME StreamsAssumption, Types, Safe, CutUnsure
  PROVE  stream' \in [Stream -> StreamRec] /\ op' \in OpRec /\ Safe' /\ \E C \in SUBSET Stream : Leave(C)
<1>0. /\ UNCHANGED <<epoch, newest, starts, over, spare>> /\ op.at = "unsure"
      /\ op \in OpRec /\ op.epoch \in Nat /\ op.unsure \subseteq Stream /\ newest \in Nat
      /\ \A s \in Stream : stream[s] \in StreamRec /\ stream[s].epoch \in Nat
  BY Numbers DEF CutUnsure, OpRec
<1>1. PICK read \in BOOLEAN :
        LET known == op.unsure = {} \/ (read /\ epoch # 0)
            cuts  == {s \in op.unsure : known /\ Registered(s) /\ stream[s].epoch # epoch}
        IN /\ stream' = [s \in Stream |->
                           IF s \in cuts
                           THEN [stream[s] EXCEPT !.at = "gone", !.cut = "replaced", !.holds = FALSE]
                           ELSE stream[s]]
           /\ refs' = [f \in Epochs |->
                         refs[f] - Cardinality({s \in cuts : stream[s].holds /\ stream[s].epoch = f})]
           /\ op' = [op EXCEPT !.unsure = {},
                               !.at = IF spare.op = "delete" THEN "delete"
                                      ELSE IF known THEN "done" ELSE "unread"]
  BY DEF CutUnsure
<1> DEFINE known == op.unsure = {} \/ (read /\ epoch # 0)
           C == {s \in op.unsure : known /\ Registered(s) /\ stream[s].epoch # epoch}
           v(s) == [stream[s] EXCEPT !.at = "gone", !.cut = "replaced", !.holds = FALSE]
           p == IF spare.op = "delete" THEN "delete" ELSE IF known THEN "done" ELSE "unread"
<1>2. stream' = [s \in Stream |-> IF s \in C THEN v(s) ELSE stream[s]]
  BY <1>1
<1>3. /\ op' = [op EXCEPT !.unsure = {}, !.at = p]
      /\ refs' = [f \in Epochs |->
                    refs[f] - Cardinality({s \in C : stream[s].holds /\ stream[s].epoch = f})]
      /\ C \in SUBSET Stream
  BY <1>0, <1>1
<1>4. /\ p \in {"delete", "done", "unread"} /\ (p = "done" => known /\ spare.op # "delete")
      /\ p # "done" \/ spare.op # "delete"
      /\ p = "delete" => spare.op = "delete"
  OBVIOUS
<1> HIDE DEF p
<1>5. op' \in OpRec /\ op'.at = p /\ op'.unsure = {} /\ op'.epoch = op.epoch
  BY <1>0, <1>3, <1>4 DEF OpRec
<1>6. ASSUME NEW s \in Stream
      PROVE  /\ v(s) \in StreamRec /\ v(s).at = "gone" /\ v(s).cut = "replaced" /\ ~v(s).holds
             /\ v(s).epoch = stream[s].epoch /\ v(s).started = stream[s].started
             /\ v(s).startedAt = stream[s].startedAt /\ v(s).older = stream[s].older
             /\ v(s).seen = stream[s].seen
  <2>1. stream[s] \in StreamRec
    BY <1>0
  <2>2. QED
    BY <2>1 DEF StreamRec
<1> HIDE DEF v
<1>7. \A s \in C : stream[s].started /\ stream[s].epoch # epoch
  BY DEF Safe, UnsureInv
<1>8. \A s \in op.unsure : p = "done" /\ Served(s) => s \in C \/ (stream[s].epoch = epoch /\ epoch # 0)
  BY <1>0, <1>4 DEF Served, Registered
<1> HIDE DEF C, known
<1>9. Shed(C)
  <2>1. \A s \in Stream : stream'[s] = IF s \in C THEN v(s) ELSE stream[s]
    BY <1>2
  <2>2. \A s \in Stream : stream'[s] \in StreamRec
    BY <1>0, <1>6, <2>1
  <2>3. stream' \in [Stream -> StreamRec]
    BY <1>2, <2>2
  <2>4. \A s \in Stream : over /\ stream[s].at = "started" => stream[s].hint
    BY DEF Safe, PlaceInv
  <2>5. QED
    BY <1>0, <1>6, <1>7, <2>1, <2>3, <2>4 DEF Shed
<1>10. PlaceInv' /\ OlderInv' /\ CutInv'
  BY <1>9, ShedStreams DEF Safe
<1>11. MarkInv'
  BY <1>0, <1>4, <1>5 DEF Safe, MarkInv
<1>12. UnsureInv'
  <2>1. ASSUME p = "done", NEW s \in Stream
        PROVE  /\ stream'[s].at = "start" =>
                    stream'[s].epoch >= op.epoch \/ op.epoch \in stream'[s].seen
               /\ Served(s)' => stream'[s].epoch >= op.epoch
    <3>1. /\ stream'[s].at = "start" => stream[s].at = "start"
          /\ stream'[s].epoch = stream[s].epoch /\ stream[s].seen \subseteq stream'[s].seen
          /\ Served(s)' => Served(s) /\ s \notin C
      BY <1>9 DEF Shed, Served
    <3>2. stream[s].at = "start" => stream[s].epoch >= op.epoch \/ op.epoch \in stream[s].seen
      BY <1>0 DEF Safe, UnsureInv
    <3>3. Served(s) /\ s \notin C => stream[s].epoch >= op.epoch
      <4>1. Served(s) => stream[s].epoch >= op.epoch \/ s \in op.unsure
        BY <1>0 DEF Safe, UnsureInv
      <4>2. op.epoch <= newest
        BY DEF Safe, MarkInv
      <4>3. stream[s].epoch = epoch /\ epoch # 0 => stream[s].epoch >= op.epoch
        BY <1>0, <4>2, Numbers
      <4>4. QED
        BY <1>8, <2>1, <4>1, <4>3
    <3>4. QED
      BY <3>1, <3>2, <3>3
  <2>2. QED
    BY <1>4, <1>5, <2>1 DEF UnsureInv
<1>13. DeleteInv'
  BY <1>0, <1>4, <1>5 DEF DeleteInv
<1>14. QED
  BY <1>3, <1>5, <1>9, <1>10, <1>11, <1>12, <1>13 DEF Safe, Shed, Leave

\* DeleteSession ends the streams of the deleted Record.
LEMMA EndSessionStreamsSafe ==
  ASSUME StreamsAssumption, Types, Safe, EndSessionStreams
  PROVE  stream' \in [Stream -> StreamRec] /\ op' \in OpRec /\ Safe' /\ \E C \in SUBSET Stream : Leave(C)
<1> DEFINE C == {s \in Stream : Registered(s) /\ stream[s].started}
<1>0. /\ UNCHANGED <<epoch, newest, starts, over, spare>> /\ op.at = "endStreams"
      /\ CutAll(C, 0, "deleted") /\ op' = [op EXCEPT !.at = "done"]
      /\ op \in OpRec
  BY Numbers DEF EndSessionStreams
<1>1. /\ C \in SUBSET Stream /\ \A s \in C : stream[s].started
      /\ \A s \in Stream : Served(s) => s \in C
  BY DEF Registered, Served, Safe, PlaceInv
<1> HIDE DEF C
<1>2. /\ Shed(C)
      /\ \A s \in Stream : stream'[s].at = "start" => 0 \in stream'[s].seen
  BY <1>0, <1>1, CutAllSheds DEF Safe
<1>3. PlaceInv' /\ OlderInv' /\ CutInv'
  BY <1>2, ShedStreams DEF Safe
<1>4. /\ op' \in OpRec /\ op'.at = "done" /\ op'.unsure = op.unsure /\ op'.epoch = op.epoch
  BY <1>0 DEF OpRec
<1>5. \A s \in Stream : ~Served(s)'
  BY <1>1, <1>2 DEF Shed, Served
<1>6. MarkInv'
  BY <1>0, <1>4 DEF Safe, MarkInv
<1>7. UnsureInv' /\ DeleteInv'
  BY <1>0, <1>2, <1>4, <1>5 DEF Safe, UnsureInv, DeleteInv
<1>8. QED
  BY <1>0, <1>1, <1>2, <1>3, <1>4, <1>6, <1>7 DEF Safe, Shed, Leave, CutAll
---------------------------------------------------------------------------
(* Every step.                                                             *)

\* streamMark: what has started has a number up to the mark.
LEMMA MarkSafe ==
  ASSUME StreamsAssumption, Types, Safe, Mark
  PROVE  op' \in OpRec /\ Safe'
<1>0. /\ UNCHANGED <<epoch, newest, stream, starts, over, refs, spare>>
      /\ op' = [op EXCEPT !.at = "marked", !.mark = starts] /\ op.at = "no"
      /\ op \in OpRec /\ starts \in Nat
  BY Numbers DEF Mark
<1>1. /\ op' \in OpRec /\ op'.at = "marked" /\ op'.mark = starts /\ op'.unsure = op.unsure
      /\ op'.epoch = op.epoch
  BY <1>0 DEF OpRec
<1>2. PlaceInv' /\ OlderInv' /\ CutInv'
  BY <1>0 DEF Safe, PlaceInv, OlderInv, CutInv
<1>3. MarkInv' /\ UnsureInv' /\ DeleteInv'
  BY <1>0, <1>1 DEF Safe, MarkInv, UnsureInv, DeleteInv
<1>4. QED
  BY <1>1, <1>2, <1>3 DEF Safe

\* OpenWriter, CreateWriter: the Record found is the newest.
LEMMA OpenSafe ==
  ASSUME StreamsAssumption, Types, Safe, OpenOrCreate
  PROVE  /\ newest' \in Epochs /\ epoch' \in {0, newest'} /\ op' \in OpRec /\ Safe'
<1>0. /\ UNCHANGED <<stream, starts, over, refs, spare>> /\ op.at = "marked"
      /\ op \in OpRec /\ starts \in Nat /\ newest \in Nat /\ epoch \in Nat /\ newest \in Epochs
      /\ epoch \in {0, newest} /\ LastEpoch \in Nat
      /\ \A s \in Stream : stream[s].epoch \in Nat
  BY Numbers DEF OpenOrCreate, Types, StreamsAssumption
<1>1. ASSUME NEW e \in Nat, op' = [op EXCEPT !.at = "cut", !.epoch = e], e = newest', e >= newest,
             newest' \in Epochs, epoch' = newest', epoch' = epoch \/ epoch' > newest
      PROVE  /\ newest' \in Epochs /\ epoch' \in {0, newest'} /\ op' \in OpRec /\ Safe'
  <2>1. /\ op' \in OpRec /\ op'.at = "cut" /\ op'.mark = op.mark /\ op'.unsure = op.unsure
        /\ op'.epoch = e
    BY <1>0, <1>1 DEF OpRec
  <2>2. PlaceInv' /\ OlderInv' /\ CutInv'
    BY <1>0, <1>1, StillStreams DEF Safe
  <2>3. \A s \in Stream : stream[s].epoch <= e
    <3>1. \A s \in Stream : stream[s].epoch <= newest
      BY DEF Safe, PlaceInv
    <3>2. QED
      BY <1>0, <1>1, <3>1
  <2>4. MarkInv'
    BY <1>0, <1>1, <2>1, <2>3 DEF Safe, MarkInv
  <2>5. UnsureInv' /\ DeleteInv'
    BY <1>0, <2>1 DEF Safe, UnsureInv, DeleteInv
  <2>6. QED
    BY <1>1, <2>1, <2>2, <2>4, <2>5 DEF Safe
<1>2. CASE epoch # 0 /\ op' = [op EXCEPT !.at = "cut", !.epoch = epoch] /\ UNCHANGED <<epoch, newest>>
  <2>1. /\ epoch = newest' /\ epoch >= newest /\ newest' \in Epochs /\ epoch' = newest'
        /\ epoch' = epoch
    BY <1>0, <1>2
  <2>2. QED
    BY <1>0, <1>1, <1>2, <2>1
<1>3. CASE /\ newest < LastEpoch /\ epoch' = newest + 1 /\ newest' = newest + 1
           /\ op' = [op EXCEPT !.at = "cut", !.epoch = newest + 1]
  <2>1. newest + 1 \in Epochs /\ newest + 1 \in Nat
    BY <1>0, <1>3 DEF Epochs
  <2>2. newest + 1 >= newest /\ newest + 1 > newest
    BY <1>0
  <2>3. newest + 1 = newest' /\ newest' \in Epochs /\ epoch' = newest' /\ epoch' > newest
    BY <1>3, <2>1, <2>2
  <2>4. QED
    BY <1>1, <1>3, <2>1, <2>2, <2>3
<1>4. CASE op' = [NoOp EXCEPT !.at = "failed"] /\ UNCHANGED <<epoch, newest>>
  <2>1. op' \in OpRec /\ op'.at = "failed" /\ op'.unsure = {} /\ op'.epoch = 0
    BY <1>4 DEF OpRec, NoOp
  <2>2. PlaceInv' /\ OlderInv' /\ CutInv'
    BY <1>0, <1>4 DEF Safe, PlaceInv, OlderInv, CutInv
  <2>3. MarkInv' /\ UnsureInv' /\ DeleteInv'
    BY <1>0, <1>4, <2>1 DEF Safe, MarkInv, UnsureInv, DeleteInv
  <2>4. QED
    BY <1>0, <1>4, <2>1, <2>2, <2>3 DEF Safe
<1>5. QED
  BY <1>2, <1>3, <1>4 DEF OpenOrCreate

\* The claimed Record is deleted.
LEMMA DeleteSafe ==
  ASSUME StreamsAssumption, Types, Safe, DeleteRecord
  PROVE  op' \in OpRec /\ Safe'
<1>0. /\ UNCHANGED <<newest, stream, starts, over, refs, spare>> /\ op.at = "delete" /\ epoch' = 0
      /\ op' = [op EXCEPT !.at = "endStreams"] /\ op \in OpRec /\ newest \in Nat
  BY Numbers DEF DeleteRecord
<1>1. op' \in OpRec /\ op'.at = "endStreams" /\ op'.unsure = op.unsure /\ op'.epoch = op.epoch
  BY <1>0 DEF OpRec
<1>2. PlaceInv' /\ OlderInv' /\ CutInv'
  BY <1>0, StillStreams DEF Safe
<1>3. MarkInv' /\ UnsureInv' /\ DeleteInv'
  BY <1>0, <1>1 DEF Safe, MarkInv, UnsureInv, DeleteInv
<1>4. QED
  BY <1>1, <1>2, <1>3 DEF Safe

\* Another Instance deletes the Record or creates one.
LEMMA ForeignSafe ==
  ASSUME StreamsAssumption, Types, Safe, ForeignDelete \/ ForeignCreate
  PROVE  newest' \in Epochs /\ epoch' \in {0, newest'} /\ spare' \in LoadRec /\ Safe'
<1>0. /\ UNCHANGED <<stream, starts, over, op, refs>> /\ newest \in Nat /\ newest \in Epochs
      /\ spare \in LoadRec /\ LastEpoch \in Nat /\ op.epoch \in Nat
  BY Numbers DEF ForeignDelete, ForeignCreate, Types, StreamsAssumption
<1>1. spare' \in LoadRec /\ spare'.op = spare.op
  BY <1>0 DEF ForeignDelete, ForeignCreate, LoadRec
<1>2. /\ newest' \in Epochs /\ newest' \in Nat /\ newest' >= newest /\ epoch' \in {0, newest'}
      /\ epoch' = 0 \/ epoch' > newest
  BY <1>0 DEF ForeignDelete, ForeignCreate, Epochs
<1>3. PlaceInv' /\ OlderInv' /\ CutInv'
  BY <1>0, <1>2, StillStreams DEF Safe
<1>4. op.epoch <= newest
  BY DEF Safe, MarkInv
<1>5. MarkInv'
  BY <1>0, <1>2, <1>4 DEF Safe, MarkInv
<1>6. UnsureInv'
  BY <1>0, <1>1 DEF Safe, UnsureInv, Served
<1>7. DeleteInv'
  <2>1. epoch' = 0 \/ epoch' > op.epoch
    BY <1>0, <1>2, <1>4
  <2>2. QED
    BY <1>0, <1>1, <2>1 DEF Safe, DeleteInv, Served
<1>8. QED
  BY <1>1, <1>2, <1>3, <1>5, <1>6, <1>7 DEF Safe

\* The drain is over.
LEMMA EndStreamsSafe ==
  ASSUME StreamsAssumption, Types, Safe, EndStreams
  PROVE  Shed({}) /\ over' \in BOOLEAN /\ Safe'
<1> DEFINE w(s) == [stream[s] EXCEPT !.hint = TRUE]
<1>0. /\ UNCHANGED <<epoch, newest, starts, op, refs, spare>> /\ over' = TRUE
      /\ stream' = [s \in Stream |-> IF Registered(s) /\ stream[s].started THEN w(s) ELSE stream[s]]
      /\ \A s \in Stream : stream[s] \in StreamRec
  BY DEF EndStreams, Types
<1>1. ASSUME NEW s \in Stream
      PROVE  /\ w(s) \in StreamRec /\ w(s).at = stream[s].at /\ w(s).cut = stream[s].cut
             /\ w(s).holds = stream[s].holds /\ w(s).epoch = stream[s].epoch
             /\ w(s).started = stream[s].started /\ w(s).startedAt = stream[s].startedAt
             /\ w(s).older = stream[s].older /\ w(s).hint = TRUE
             /\ w(s).seen = stream[s].seen
  <2>1. stream[s] \in StreamRec
    BY <1>0
  <2>2. QED
    BY <2>1 DEF StreamRec
<1> HIDE DEF w
<1>2. \A s \in Stream : stream'[s] = IF Registered(s) /\ stream[s].started THEN w(s) ELSE stream[s]
  BY <1>0
<1>3. \A s \in Stream : stream'[s] \in StreamRec
  BY <1>0, <1>1, <1>2
<1>4. stream' \in [Stream -> StreamRec]
  BY <1>0, <1>3
<1>5. \A s \in Stream : stream[s].at = "started" => Registered(s) /\ stream[s].started
  BY DEF Registered, Safe, PlaceInv
<1>6. Shed({})
  BY <1>0, <1>1, <1>2, <1>4, <1>5 DEF Shed
<1>7. Safe'
  BY <1>0, <1>6, ShedAlone
<1>8. QED
  BY <1>0, <1>6, <1>7

\* Every step keeps the types and what is said of the streams.
LEMMA SafeNext ==
  ASSUME StreamsAssumption, Types, Safe, [Next]_vars
  PROVE  (refs' \in [Epochs -> Int] => Types') /\ Safe'
<1> DEFINE Goal == (refs' \in [Epochs -> Int] => Types') /\ Safe'
<1>1. ASSUME NEW s \in Stream, StreamSteps(s)
      PROVE  Goal
  <2>1. UNCHANGED <<epoch, newest, over, op, spare>>
    BY <1>1 DEF StreamSteps, AddStream, LoadEpoch, StartStream, Recheck, CutOlder, EndStream
  <2>2. stream' \in [Stream -> StreamRec] /\ starts' \in Nat /\ Safe'
    <3>1. CASE AddStream(s)
      BY <3>1, AddSafe, Numbers DEF AddStream
    <3>2. CASE LoadEpoch(s)
      BY <3>2, LoadSafe, Numbers DEF LoadEpoch
    <3>3. CASE StartStream(s)
      BY <3>3, StartSafe
    <3>4. CASE Recheck(s)
      BY <3>4, RecheckSafe, Numbers DEF Recheck
    <3>5. CASE CutOlder(s)
      BY <3>5, CutOlderSafe, Numbers DEF CutOlder
    <3>6. CASE EndStream(s)
      <4>1. PICK why \in {"refused", "reconnect", "closed"} : Drops(s, why)
        BY <3>6 DEF EndStream
      <4>2. Shed({s})
        BY <3>6, <4>1, DropSheds DEF EndStream, Safe
      <4>3. QED
        BY <2>1, <3>6, <4>2, ShedAlone, Numbers DEF EndStream, Shed
    <3>7. QED
      BY <1>1, <3>1, <3>2, <3>3, <3>4, <3>5, <3>6 DEF StreamSteps
  <2>3. QED
    BY <2>1, <2>2 DEF Types
<1>2. CASE Mark
  BY <1>2, MarkSafe DEF Mark, Types
<1>3. CASE OpenOrCreate
  BY <1>3, OpenSafe DEF OpenOrCreate, Types
<1>4. CASE CutStreams
  BY <1>4, CutStreamsSafe DEF CutStreams, Types
<1>5. CASE CutUnsure
  BY <1>5, CutUnsureSafe DEF CutUnsure, Types
<1>6. CASE DeleteRecord
  BY <1>6, DeleteSafe DEF DeleteRecord, Types
<1>7. CASE EndSessionStreams
  BY <1>7, EndSessionStreamsSafe DEF EndSessionStreams, Types
<1>8. CASE EndStreams
  BY <1>8, EndStreamsSafe DEF EndStreams, Types, Shed
<1>9. CASE ForeignDelete \/ ForeignCreate
  BY <1>9, ForeignSafe DEF ForeignDelete, ForeignCreate, Types
<1>10. CASE UNCHANGED vars
  BY <1>10 DEF vars, Types, Safe, PlaceInv, OlderInv, CutInv, MarkInv, UnsureInv, DeleteInv, Served
<1>11. QED
  BY <1>1, <1>2, <1>3, <1>4, <1>5, <1>6, <1>7, <1>8, <1>9, <1>10 DEF Next, OpSteps
---------------------------------------------------------------------------
(* The users of a Feed.                                                    *)

Users(e) == {s \in Stream : stream[s].holds /\ stream[s].epoch = e}

\* Streams of C let go of their Feeds, and these count them.
LEMMA UsersLeave ==
  ASSUME StreamsAssumption, Types, FeedsHaveTheirUsers, NEW C \in SUBSET Stream, Leave(C)
  PROVE  refs' \in [Epochs -> Int] /\ FeedsHaveTheirUsers'
<1>0. \A T \in SUBSET Stream : IsFiniteSet(T) /\ Cardinality(T) \in Nat
  BY FS_Subset, FS_CardinalityType DEF StreamsAssumption
<1>1. ASSUME NEW e \in Epochs
      PROVE  refs'[e] \in Int /\ refs'[e] = Cardinality(Users(e)')
  <2> DEFINE L == {s \in C : stream[s].holds /\ stream[s].epoch = e}
  <2>1. Users(e) \in SUBSET Stream /\ L \in SUBSET Stream /\ Users(e) \cap L = L
    BY DEF Users
  <2>2. Users(e)' = Users(e) \ L
    BY DEF Users, Leave, Shed
  <2>3. refs[e] = Cardinality(Users(e)) /\ refs'[e] = refs[e] - Cardinality(L)
    BY DEF FeedsHaveTheirUsers, Users, Leave
  <2> HIDE DEF L
  <2>4. Cardinality(Users(e) \ L) = Cardinality(Users(e)) - Cardinality(L)
    BY <1>0, <2>1, FS_Difference
  <2>5. Cardinality(Users(e)) \in Nat /\ Cardinality(L) \in Nat
    BY <1>0, <2>1
  <2>6. QED
    BY <2>2, <2>3, <2>4, <2>5
<1>2. FeedsHaveTheirUsers'
  BY <1>1 DEF FeedsHaveTheirUsers, Users
<1>3. refs' \in [Epochs -> Int]
  BY <1>1 DEF Leave
<1>4. QED
  BY <1>2, <1>3

\* One stream lets go.
LEMMA UserLeaves ==
  ASSUME StreamsAssumption, Types, FeedsHaveTheirUsers, NEW o \in Stream, Shed({o}),
         stream[o].holds => stream[o].epoch \in Epochs,
         refs' = IF stream[o].holds THEN [refs EXCEPT ![stream[o].epoch] = @ - 1] ELSE refs
  PROVE  refs' \in [Epochs -> Int] /\ FeedsHaveTheirUsers'
<1> DEFINE L(f) == {s \in {o} : stream[s].holds /\ stream[s].epoch = f}
<1>0. refs \in [Epochs -> Int]
  BY DEF Types
<1>1. ASSUME NEW f \in Epochs
      PROVE  refs'[f] = refs[f] - Cardinality(L(f))
  <2>1. CASE stream[o].holds /\ stream[o].epoch = f
    <3>1. L(f) = {o}
      BY <2>1
    <3>2. Cardinality({o}) = 1
      BY FS_Singleton
    <3>3. refs'[f] = refs[f] - 1
      BY <1>0, <2>1
    <3>4. QED
      BY <3>1, <3>2, <3>3
  <2>2. CASE ~(stream[o].holds /\ stream[o].epoch = f)
    <3>1. L(f) = {}
      BY <2>2
    <3>2. refs'[f] = refs[f] /\ refs[f] \in Int
      BY <1>0, <2>2
    <3>3. Cardinality(L(f)) = 0
      BY <3>1, FS_EmptySet
    <3> HIDE DEF L
    <3>4. QED
      BY <3>2, <3>3
  <2>3. QED
    BY <2>1, <2>2
<1> DEFINE g == [f \in Epochs |-> refs[f] - Cardinality(L(f))]
<1>2. refs' = g
  <2>1. refs' = [f \in Epochs |-> refs'[f]]
    BY <1>0
  <2> HIDE DEF L
  <2>2. QED
    BY <1>1, <2>1
<1>3. QED
  BY <1>2, UsersLeave DEF Leave

\* The users of a Feed are counted.
LEMMA FeedsNext ==
  ASSUME StreamsAssumption, Types, Safe, FeedsHaveTheirUsers, [Next]_vars
  PROVE  refs' \in [Epochs -> Int] /\ FeedsHaveTheirUsers'
<1> DEFINE Goal == refs' \in [Epochs -> Int] /\ FeedsHaveTheirUsers'
<1>0. /\ refs \in [Epochs -> Int] /\ stream \in [Stream -> StreamRec]
      /\ \A T \in SUBSET Stream : IsFiniteSet(T) /\ Cardinality(T) \in Nat
      /\ \A s \in Stream : stream[s].holds => stream[s].epoch \in Epochs
  <2>1. newest \in Nat /\ newest <= LastEpoch /\ LastEpoch \in Nat
    BY DEF Types, Epochs, StreamsAssumption
  <2>2. ASSUME NEW s \in Stream, stream[s].holds
        PROVE  stream[s].epoch \in Epochs
    <3>1. stream[s].epoch \in Nat /\ stream[s].epoch # 0 /\ stream[s].epoch <= newest
      BY <2>2, Numbers DEF Safe, PlaceInv
    <3>2. QED
      BY <2>1, <3>1 DEF Epochs
  <2>3. QED
    BY <2>2, FS_Subset, FS_CardinalityType DEF Types, StreamsAssumption
<1>a. ASSUME refs' = refs, \A s \in Stream : /\ stream'[s].holds = stream[s].holds
                                             /\ stream'[s].epoch = stream[s].epoch
      PROVE  Goal
  <2>1. \A e \in Epochs : Users(e)' = Users(e)
    BY <1>a DEF Users
  <2>2. FeedsHaveTheirUsers'
    BY <1>a, <2>1 DEF FeedsHaveTheirUsers, Users
  <2>3. QED
    BY <1>0, <1>a, <2>2
<1>b. ASSUME NEW s \in Stream, NEW why \in {"refused", "reconnect", "closed"}, Drops(s, why),
             UNCHANGED <<epoch, newest, starts, over>>
      PROVE  Goal
  <2>1. Shed({s})
    BY <1>b, DropSheds DEF Safe
  <2>2. refs' = IF stream[s].holds THEN [refs EXCEPT ![stream[s].epoch] = @ - 1] ELSE refs
    BY <1>b DEF Drops
  <2>3. QED
    BY <1>0, <2>1, <2>2, UserLeaves
<1>1. ASSUME NEW s \in Stream, LoadEpoch(s)
      PROVE  Goal
  <2>1. CASE Drops(s, "refused")
    BY <1>1, <1>b, <2>1 DEF LoadEpoch
  <2>2. CASE /\ epoch # 0 /\ refs' = [refs EXCEPT ![epoch] = @ + 1]
             /\ stream' = [stream EXCEPT ![s].epoch = epoch, ![s].at = "start", ![s].holds = TRUE]
    <3>1. epoch \in Epochs /\ ~stream[s].holds
      BY <1>1, <2>2 DEF Types, LoadEpoch, Safe, PlaceInv
    <3>2. /\ stream'[s].holds = TRUE /\ stream'[s].epoch = epoch
          /\ \A t \in Stream : t # s => stream'[t] = stream[t]
      BY <1>0, <2>2 DEF StreamRec
    <3>3. ASSUME NEW e \in Epochs, e # epoch
          PROVE  Users(e)' = Users(e)
      BY <3>1, <3>2, <3>3 DEF Users
    <3>4. ASSUME NEW e \in Epochs, e = epoch
          PROVE  Users(e)' = Users(e) \cup {s} /\ s \notin Users(e) /\ Users(e) \in SUBSET Stream
      BY <3>1, <3>2, <3>4 DEF Users
    <3>5. \A e \in Epochs : refs'[e] = IF e = epoch THEN refs[e] + 1 ELSE refs[e]
      BY <1>0, <2>2, <3>1
    <3>6. ASSUME NEW e \in Epochs
          PROVE  refs'[e] = Cardinality(Users(e)')
      <4>1. refs[e] = Cardinality(Users(e))
        BY DEF FeedsHaveTheirUsers, Users
      <4>2. CASE e = epoch
        <5>1. Cardinality(Users(e) \cup {s}) = Cardinality(Users(e)) + 1
          BY <1>0, <3>4, <4>2, FS_AddElement
        <5>2. QED
          BY <3>4, <3>5, <4>1, <4>2, <5>1
      <4>3. CASE e # epoch
        BY <3>3, <3>5, <4>1, <4>3
      <4>4. QED
        BY <4>2, <4>3
    <3>7. refs' \in [Epochs -> Int]
      BY <1>0, <2>2, <3>1
    <3>8. QED
      BY <3>6, <3>7 DEF FeedsHaveTheirUsers, Users
  <2>3. QED
    BY <1>1, <2>1, <2>2 DEF LoadEpoch
<1>2. ASSUME NEW s \in Stream, Recheck(s)
      PROVE  Goal
  <2>1. CASE Drops(s, "refused")
    BY <1>2, <1>b, <2>1 DEF Recheck
  <2>2. CASE stream' = [stream EXCEPT ![s].at = "start"] /\ UNCHANGED refs
    BY <1>0, <1>a, <2>2 DEF StreamRec
  <2>3. QED
    BY <1>2, <2>1, <2>2 DEF Recheck
<1>3. ASSUME NEW s \in Stream, EndStream(s)
      PROVE  Goal
  <2>1. PICK why \in {"refused", "reconnect", "closed"} : Drops(s, why)
    BY <1>3 DEF EndStream
  <2>2. QED
    BY <1>3, <1>b, <2>1 DEF EndStream
<1>4. ASSUME NEW s \in Stream, AddStream(s)
      PROVE  Goal
  BY <1>0, <1>4, <1>a DEF AddStream, StreamRec
<1>5. ASSUME NEW s \in Stream, StartStream(s)
      PROVE  Goal
  <2>1. refs' = refs
    BY <1>5 DEF StartStream
  <2>2. QED
    BY <1>5, <1>a, <2>1, StartSafe
<1>6. ASSUME NEW s \in Stream, CutOlder(s)
      PROVE  Goal
  <2>1. CASE Shed({}) /\ refs' = refs
    BY <1>a, <2>1 DEF Shed
  <2>2. ASSUME NEW o \in Stream, Shed({o}),
               refs' = IF stream[o].holds THEN [refs EXCEPT ![stream[o].epoch] = @ - 1] ELSE refs
        PROVE  Goal
    BY <1>0, <2>2, UserLeaves
  <2>3. QED
    BY <1>6, <2>1, <2>2, CutOlderSafe
<1>7. CASE CutStreams \/ CutUnsure \/ EndSessionStreams
  <2>1. PICK C \in SUBSET Stream : Leave(C)
    BY <1>7, CutStreamsSafe, CutUnsureSafe, EndSessionStreamsSafe
  <2>2. QED
    BY <2>1, UsersLeave
<1>8. CASE EndStreams
  <2>1. refs' = refs /\ Shed({})
    BY <1>8, EndStreamsSafe DEF EndStreams
  <2>2. QED
    BY <1>a, <2>1 DEF Shed
<1>9. CASE Mark \/ OpenOrCreate \/ DeleteRecord \/ ForeignDelete \/ ForeignCreate \/ UNCHANGED vars
  <2>1. refs' = refs /\ stream' = stream
    BY <1>9 DEF Mark, OpenOrCreate, DeleteRecord, ForeignDelete, ForeignCreate, vars
  <2>2. QED
    BY <1>a, <2>1
<1>10. QED
  BY <1>1, <1>2, <1>3, <1>4, <1>5, <1>6, <1>7, <1>8, <1>9 DEF Next, OpSteps, StreamSteps
---------------------------------------------------------------------------
(* The theorems.                                                           *)

\* At first there is a Record and no stream.
LEMMA InvInit ==
  ASSUME StreamsAssumption, Init
  PROVE  Inv
<1>1. Types
  <2>1. Opening \in StreamRec
    BY DEF Opening, StreamRec
  <2>2. NoOp \in OpRec
    BY DEF NoOp, OpRec
  <2>3. stream \in [Stream -> StreamRec]
    BY <2>1 DEF Init
  <2>4. newest \in Epochs /\ epoch \in {0, newest} /\ starts \in Nat
    BY DEF Init, StreamsAssumption, Epochs
  <2>5. over \in BOOLEAN
    BY DEF Init
  <2>6. refs \in [Epochs -> Int] /\ spare \in LoadRec /\ op \in OpRec
    BY <2>2 DEF Init, StreamsAssumption
  <2>7. QED
    BY <2>3, <2>4, <2>5, <2>6 DEF Types
<1>2. Safe
  <2>1. \A s \in Stream : stream[s] = Opening
    BY DEF Init
  <2>2. /\ op.at = "no" /\ op.epoch = 0 /\ op.unsure = {} /\ newest = 1
    BY DEF Init, NoOp
  <2>3. PlaceInv /\ OlderInv /\ CutInv
    BY <2>1, <2>2 DEF PlaceInv, OlderInv, CutInv, Opening
  <2>4. MarkInv /\ UnsureInv /\ DeleteInv
    BY <2>2 DEF MarkInv, UnsureInv, DeleteInv
  <2>5. QED
    BY <2>3, <2>4 DEF Safe
<1>3. FeedsHaveTheirUsers
  <2>1. \A e \in Epochs : {s \in Stream : stream[s].holds /\ stream[s].epoch = e} = {}
    BY DEF Init, Opening
  <2>2. QED
    BY <2>1, FS_EmptySet DEF Init, FeedsHaveTheirUsers
<1>4. QED
  BY <1>1, <1>2, <1>3 DEF Inv

\* The invariant of the streams, whatever the Instances and the clients do: an
\* inductive one, of the places of the streams, the Records they have read and
\* been told of and the operation under way (StreamSession, startStream,
\* markStreams, cutStreams, endSessionStreams).
THEOREM StreamsInvariance == StreamsAssumption => (Spec => []Inv)
<1> SUFFICES ASSUME StreamsAssumption PROVE Spec => []Inv
  OBVIOUS
<1>1. Init => Inv
  BY InvInit
<1>2. Inv /\ [Next]_vars => Inv'
  BY SafeNext, FeedsNext DEF Inv
<1>3. QED
  BY <1>1, <1>2, PTL DEF Spec

\* A stream is cut as one of a replaced Record only when it is, none of an older
\* Record is served once this Instance opened, created or deleted one, and a
\* drain tells every stream to reconnect (startStream, cutStreams,
\* endSessionStreams, endStreams).
THEOREM RecordIsFollowed == StreamsAssumption => (Spec => []StreamsFollowTheRecord)
<1> SUFFICES ASSUME StreamsAssumption PROVE Spec => []StreamsFollowTheRecord
  OBVIOUS
<1>1. Inv => StreamsFollowTheRecord
  BY DEF Inv, Safe, CutInv, PlaceInv, UnsureInv, DeleteInv, StreamsFollowTheRecord, Served
<1>2. QED
  BY <1>1, StreamsInvariance, PTL

\* The Feed of each Record has as many users as streams hold it (acquireFeed,
\* releaseFeed).
THEOREM FeedsAreCounted == StreamsAssumption => (Spec => []FeedsHaveTheirUsers)
<1> SUFFICES ASSUME StreamsAssumption PROVE Spec => []FeedsHaveTheirUsers
  OBVIOUS
<1>1. Inv => FeedsHaveTheirUsers
  BY DEF Inv
<1>2. QED
  BY <1>1, StreamsInvariance, PTL

-----------------------------------------------------------------------------
(* A subscription: gotato/subscription.go.                                 *)

\* An Event given or read: its number and the Record that it is of.
EventRec == [number : Nat, epoch : {1, 2}]

\* subscription.
SubRec ==
  [queue : Seq(Nat), cursor : Nat, cursorSet : BOOLEAN, behind : BOOLEAN, resume : Nat, skipped : Nat,
   ending : BOOLEAN, wake : BOOLEAN, err : {"none", "eof", "lost", "replaced"}]

\* The places of the subscription's goroutine.
Places ==
  {"new", "take", "send", "await", "read", "look", "verify", "verifyLook", "caughtBatch", "looked",
   "none", "ended"}

\* The goroutine of a subscription.
ForwardRec ==
  [at : Places, out : EventRec, batch : Seq(EventRec), pending : Seq(EventRec), empty : Nat, after : Nat]

\* Every variable has its type.
FeedTypes ==
  /\ record \in [epoch : {1, 2}, last : Nat]
  /\ unpublished \in Seq(Nat) /\ offered \in Seq(Nat)
  /\ feed \in [last : Nat, closed : BOOLEAN, ring : Seq(Nat), dropped : BOOLEAN]
  /\ sub \in SubRec
  /\ forward \in ForwardRec
  /\ got \in Seq(EventRec) /\ skips \in Nat /\ shown \in Nat
  /\ load \in FeedLoadRec

\* Numbers that follow each other, to the last one.
EndsAt(s, n) == \A i \in DOMAIN s : s[i] + Len(s) = n + i

\* Events that go on from a number, and that are of the Record asked for.
GoOn(s, n) == \A i \in DOMAIN s : s[i].number = n + i
OfFirst(s) == \A i \in DOMAIN s : s[i].epoch = 1

\* What is published is of the first Record and in its order.
PublishedInv ==
  /\ record.epoch = 1 => feed.last + Len(unpublished) <= record.last
  /\ EndsAt(unpublished, record.last)
  /\ unpublished # <<>> \/ offered # <<>> => record.epoch = 1
  /\ offered # <<>> => offered[1] > 0

\* A ring ends with the last Event published.
RingInv ==
  ~load.source /\ ~load.mixed =>
    /\ record.epoch = 1
    /\ EndsAt(feed.ring, feed.last)
    /\ Len(feed.ring) <= feed.last /\ (~feed.dropped => Len(feed.ring) = feed.last)
    /\ ~feed.closed => feed.last + Len(unpublished) = record.last

\* The places of a read to catch up, and of a tail that looks.
Reading == {"read", "verify", "caughtBatch", "none"}
Looking == {"look", "verifyLook", "looked"}

\* What the place of the goroutine says of it.
ForwardInv ==
  /\ forward.at # "send" => forward.out = NoEvent
  /\ forward.at \in {"verify", "verifyLook", "caughtBatch", "looked"} =>
       forward.batch # <<>> /\ GoOn(forward.batch, forward.after)
  /\ forward.at \in {"verify", "verifyLook"} /\ record.epoch = 1 => OfFirst(forward.batch)
  /\ forward.at \in {"caughtBatch", "looked"} => OfFirst(forward.batch)
  /\ forward.at \in Reading => sub.behind /\ sub.queue = <<>> /\ forward.after = sub.resume
  /\ forward.at \in Looking => sub.cursorSet /\ forward.after <= sub.cursor
  /\ forward.at \in Reading \cup Looking \cup {"await", "new", "ended"} => forward.pending = <<>>
  /\ forward.pending # <<>> => sub.behind /\ sub.queue = <<>>
  /\ sub.behind => sub.cursorSet /\ sub.resume = sub.cursor
  /\ forward.at = "new" => sub = NoSub /\ got = <<>> /\ offered = <<>>

\* The numbers of Events, deltas apart, and that they are in order.
NumSet(q) == {q[i] : i \in DOMAIN q} \ {0}
Sorted(q) == \A i, j \in DOMAIN q : i < j /\ q[i] # 0 /\ q[j] # 0 => q[i] < q[j]

\* The same of Events.
NumbersOf(s) == [i \in DOMAIN s |-> s[i].number]
Nums(s) == NumSet(NumbersOf(s))
InOrder(s) == Sorted(NumbersOf(s))

\* The Events queued, the one that Next is about to take, and all that a subscriber was
\* given or is about to be given.
Queued == NumSet(sub.queue)
Out == {forward.out.number} \ {0}
Held == Nums(got) \cup Out \cup Nums(forward.pending) \cup Queued

\* Each number of a set is below each of another.
Below(A, B) == \A a \in A, b \in B : a < b

\* What is given and what is still to be given are in order.
OrderInv ==
  /\ InOrder(got) /\ InOrder(forward.pending) /\ Sorted(sub.queue)
  /\ Below(Nums(got), Out) /\ Below(Nums(got), Nums(forward.pending)) /\ Below(Nums(got), Queued)
  /\ Below(Out, Nums(forward.pending)) /\ Below(Out, Queued)
  /\ OfFirst(forward.pending)
  /\ forward.out.epoch = 1 /\ OfFirst(got)

\* An Event the subscriber is to have, as far as what is held says.
Due(n) == Wanted(n) /\ IF load.hasAfter THEN n > load.after ELSE \E m \in Held : m <= n

\* Up to the cursor everything wanted is held, and nothing else.
CursorInv ==
  /\ \A n \in Held : sub.cursorSet /\ n <= sub.cursor /\ Due(n)
  /\ sub.cursorSet => \A n \in 1 .. sub.cursor : Due(n) => n \in Held
  /\ load.hasAfter /\ forward.at # "new" => sub.cursorSet /\ load.after <= sub.cursor

\* How many of the numbers up to k the set has.
Left(U, k) == Cardinality({n \in U : n \in 1 .. k})

\* The empty reads in a row are no more than the Events left out, and one.
EmptyInv ==
  record.epoch = 1 /\ ~feed.dropped =>
    /\ ~sub.behind => forward.empty = 0
    /\ forward.at = "send" => forward.empty = 0
    /\ sub.behind /\ forward.pending = <<>> =>
         /\ forward.empty <= Left(load.unwanted, sub.resume) + 1
         /\ forward.empty > Left(load.unwanted, sub.resume) => feed.last > sub.resume
    /\ forward.at = "none" => forward.empty <= Left(load.unwanted, sub.resume)

\* A mixed subscription neither reads nor falls behind; before it starts nothing is counted.
MixedInv ==
  load.mixed =>
    /\ ~sub.behind /\ forward.pending = <<>>
    /\ forward.at \notin Reading \cup Looking
    /\ forward.at = "new" => shown = 0 /\ skips = 0

\* What holds besides the types; of a stream that ended nothing more is asked.
FeedSafe ==
  /\ PublishedInv /\ RingInv /\ ForwardInv /\ MixedInv
  /\ GivenInOrder /\ LossesAreReal /\ SkippedEventsAreCounted
  /\ ~load.mixed /\ ~StreamOver => OrderInv /\ CursorInv /\ EmptyInv

\* The inductive invariant of a Feed and its subscriber.
FeedInv == FeedTypes /\ FeedSafe

\* The ranks of the numbers of a finite set are those from 1 to its size, in order.
Ranked(f, c, K) ==
  /\ \A i, j \in K : i < j => f[i] < f[j]
  /\ \A i \in K : f[i] \in 1 .. c
  /\ \A n \in 1 .. c : \E i \in K : f[i] = n

\* The number of a finite set's elements up to each of them ranks them.
LEMMA Ranks ==
  ASSUME NEW K \in SUBSET Nat, IsFiniteSet(K), NEW c, c = Cardinality(K),
         NEW f, f = [i \in K |-> Cardinality({j \in K : j <= i})]
  PROVE  c \in Nat /\ Ranked(f, c, K)
<1>1. c \in Nat
  BY FS_CardinalityType
<1>2. ASSUME NEW i \in K
      PROVE  IsFiniteSet({j \in K : j <= i}) /\ f[i] = Cardinality({j \in K : j <= i}) /\ f[i] \in 1 .. c
  <2> DEFINE U == {j \in K : j <= i}
  <2>1. U \in SUBSET K /\ i \in U
    OBVIOUS
  <2> HIDE DEF U
  <2>2. IsFiniteSet(U) /\ Cardinality(U) <= c
    BY <2>1, FS_Subset
  <2>3. Cardinality(U) \in Nat /\ Cardinality(U) # 0
    BY <2>1, <2>2, FS_EmptySet, FS_CardinalityType
  <2>4. f[i] = Cardinality(U)
    BY DEF U
  <2>5. QED
    BY <1>1, <2>2, <2>3, <2>4 DEF U
<1>3. ASSUME NEW i \in K, NEW j \in K, i < j
      PROVE  f[i] < f[j]
  <2> DEFINE U == {k \in K : k <= i}
             W == {k \in K : k <= j}
  <2>1. U \in SUBSET W /\ j \in W /\ j \notin U
    <3>1. i \in Nat /\ j \in Nat /\ \A k \in K : k \in Nat
      OBVIOUS
    <3>2. \A k \in K : k <= i => k <= j
      BY <1>3, <3>1
    <3>3. ~(j <= i) /\ j <= j
      BY <1>3, <3>1
    <3>4. QED
      BY <3>2, <3>3
  <2>2. IsFiniteSet(W) /\ f[i] = Cardinality(U) /\ f[j] = Cardinality(W) /\ f[i] \in Nat /\ f[j] \in Nat
    BY <1>1, <1>2
  <2> HIDE DEF U, W
  <2>3. Cardinality(U) <= Cardinality(W) /\ Cardinality(U) # Cardinality(W)
    BY <2>1, <2>2, FS_Subset
  <2>4. QED
    BY <2>2, <2>3
<1>4. \A i, j \in K : f[i] = f[j] => i = j
  <2> SUFFICES ASSUME NEW i \in K, NEW j \in K, i # j PROVE f[i] # f[j]
    OBVIOUS
  <2>1. i < j \/ j < i
    OBVIOUS
  <2>2. f[i] \in Nat /\ f[j] \in Nat
    BY <1>1, <1>2
  <2>3. QED
    BY <1>3, <2>1, <2>2
<1>5. f \in [K -> 1 .. c]
  BY <1>2
<1>6. f \in Injection(K, 1 .. c)
  BY <1>4, <1>5 DEF Injection, IsInjective
<1>7. IsFiniteSet(1 .. c) /\ Cardinality(1 .. c) = Cardinality(K)
  BY <1>1, FS_Interval
<1>8. f \in Surjection(K, 1 .. c)
  BY <1>6, <1>7, FS_Injection
<1>9. \A n \in 1 .. c : \E i \in K : f[i] = n
  BY <1>8 DEF Surjection
<1>10. QED
  BY <1>1, <1>2, <1>3, <1>9 DEF Ranked

\* What is picked: the elements at those places, in their order.
Picks(t, s, K) ==
  /\ \A n \in DOMAIN t : \E i \in K : t[n] = s[i]
  /\ \A i \in K : \E n \in DOMAIN t : t[n] = s[i]
  /\ \A n, k \in DOMAIN t : n < k => \E i, j \in K : i < j /\ t[n] = s[i] /\ t[k] = s[j]

\* Picked gives the elements at the places, in their order (the filter of a batch).
LEMMA PickedIs ==
  ASSUME NEW S, NEW s \in Seq(S), NEW K \in SUBSET (DOMAIN s)
  PROVE  Picked(s, K) \in Seq(S) /\ Picks(Picked(s, K), s, K)
<1> DEFINE c == Cardinality(K)
           f == [i \in K |-> Cardinality({j \in K : j <= i})]
           p == [n \in 1 .. c |-> CHOOSE i \in K : Cardinality({j \in K : j <= i}) = n]
           t == [n \in 1 .. c |-> s[p[n]]]
<1>1. K \in SUBSET Nat /\ IsFiniteSet(K)
  <2>1. DOMAIN s = 1 .. Len(s) /\ Len(s) \in Nat
    OBVIOUS
  <2>2. IsFiniteSet(1 .. Len(s))
    BY <2>1, FS_Interval
  <2>3. QED
    BY <2>1, <2>2, FS_Subset
<1>2. Picked(s, K) = t
  BY DEF Picked
<1>3. c \in Nat /\ Ranked(f, c, K)
  <2>1. c = Cardinality(K) /\ f = [i \in K |-> Cardinality({j \in K : j <= i})]
    OBVIOUS
  <2> HIDE DEF c, f
  <2>2. QED
    BY <1>1, <2>1, Ranks
<1>4. \A n \in 1 .. c : p[n] \in K /\ f[p[n]] = n
  <2> SUFFICES ASSUME NEW n \in 1 .. c PROVE p[n] \in K /\ f[p[n]] = n
    OBVIOUS
  <2>1. \E i \in K : Cardinality({j \in K : j <= i}) = n
    BY <1>3 DEF Ranked
  <2>2. QED
    BY <2>1
<1> HIDE DEF c, f, p
<1>5. \A i \in K : f[i] \in 1 .. c /\ p[f[i]] = i
  <2> SUFFICES ASSUME NEW i \in K PROVE f[i] \in 1 .. c /\ p[f[i]] = i
    OBVIOUS
  <2>1. f[i] \in 1 .. c
    BY <1>3 DEF Ranked
  <2>2. p[f[i]] \in K /\ f[p[f[i]]] = f[i]
    BY <1>4, <2>1
  <2>3. ~(p[f[i]] < i) /\ ~(i < p[f[i]])
    BY <1>3, <2>1, <2>2 DEF Ranked
  <2>4. QED
    BY <1>1, <2>1, <2>2, <2>3
<1>6. t \in Seq(S) /\ DOMAIN t = 1 .. c /\ \A n \in 1 .. c : t[n] = s[p[n]]
  <2>1. \A n \in 1 .. c : s[p[n]] \in S
    BY <1>4
  <2>2. QED
    BY <1>3, <2>1
<1> HIDE DEF t
<1>7. ASSUME NEW n \in 1 .. c, NEW k \in 1 .. c, n < k
      PROVE  p[n] < p[k]
  <2>1. p[n] \in K /\ p[k] \in K /\ f[p[n]] = n /\ f[p[k]] = k
    BY <1>4
  <2>2. p[n] # p[k] /\ ~(p[k] < p[n])
    BY <1>3, <1>7, <2>1 DEF Ranked
  <2>3. QED
    BY <1>1, <2>1, <2>2
<1>8. ASSUME NEW n \in DOMAIN t, NEW k \in DOMAIN t, n < k
      PROVE  \E i, j \in K : i < j /\ t[n] = s[i] /\ t[k] = s[j]
  BY <1>4, <1>6, <1>7, <1>8
<1>9. \A i \in K : \E n \in DOMAIN t : t[n] = s[i]
  BY <1>5, <1>6
<1>10. \A n \in DOMAIN t : \E i \in K : t[n] = s[i]
  BY <1>4, <1>6
<1>11. Picks(t, s, K)
  BY <1>8, <1>9, <1>10 DEF Picks
<1>12. QED
  BY <1>2, <1>6, <1>11

-----------------------------------------------------------------------------
(* The queue, the Record and the ring.                                     *)

\* The queue without its oldest delta.
Lighter(t, q) ==
  \/ t = q /\ \A i \in DOMAIN q : q[i] # 0
  \/ \E d \in 1 .. Len(q) :
       /\ q[d] = 0 /\ Len(t) = Len(q) - 1
       /\ \A i \in DOMAIN t : t[i] = IF i < d THEN q[i] ELSE q[i + 1]

\* A nonempty set of naturals has a least element (SelectInSeq picks it).
LEMMA Least ==
  ASSUME NEW T \in SUBSET Nat, T # {}
  PROVE  Min(T) \in T
<1>1. PICK x \in T : \A y \in T : ~ (<<y, x>> \in OpToRel(<, Nat))
  BY NatLessThanWellFounded, WFMin
<1>2. \A y \in T : x <= y
  <2> SUFFICES ASSUME NEW y \in T, y < x PROVE FALSE
    OBVIOUS
  <2>1. <<y, x>> \in Nat \X Nat /\ <<y, x>>[1] = y /\ <<y, x>>[2] = x
    OBVIOUS
  <2>2. <<y, x>> \in OpToRel(<, Nat)
    BY <2>1 DEF OpToRel
  <2>3. QED
    BY <1>1, <2>2
<1>3. QED
  BY <1>2 DEF Min

\* A part of a sequence.
Part(t, s, a, b, S) ==
  t \in Seq(S) /\ Len(t) = b - a /\ DOMAIN t = 1 .. b - a /\ \A i \in 1 .. b - a : t[i] = s[a + i]

\* SubSeq gives the part of a sequence between two places.
LEMMA PartOf ==
  ASSUME NEW S, NEW s \in Seq(S), NEW a \in Nat, NEW b \in Nat, a <= b, b <= Len(s),
         NEW t, t = SubSeq(s, a + 1, b)
  PROVE  Part(t, s, a, b, S)
<1>1. a + 1 \in 1 .. Len(s) + 1 /\ b \in a .. Len(s) /\ Len(s) \in Nat
  OBVIOUS
<1>2. \A i \in a + 1 .. b : s[i] \in S
  OBVIOUS
<1>3. /\ t \in Seq(S)
      /\ Len(t) = IF a + 1 <= b THEN b - (a + 1) + 1 ELSE 0
      /\ \A i \in 1 .. b - (a + 1) + 1 : t[i] = s[a + 1 + i - 1]
  BY <1>1, <1>2, SubSeqProperties
<1>4. Len(t) = b - a
  BY <1>1, <1>3
<1>5. \A i \in 1 .. b - a : t[i] = s[a + i]
  <2> SUFFICES ASSUME NEW i \in 1 .. b - a PROVE t[i] = s[a + i]
    OBVIOUS
  <2>1. i \in 1 .. b - (a + 1) + 1 /\ a + 1 + i - 1 = a + i
    OBVIOUS
  <2>2. QED
    BY <1>3, <2>1
<1>6. QED
  BY <1>3, <1>4, <1>5 DEF Part

\* A full queue loses a delta or nothing (enqueue).
LEMMA WithoutDeltaIs ==
  ASSUME NEW q \in Seq(Nat)
  PROVE  WithoutDelta(q) \in Seq(Nat) /\ Lighter(WithoutDelta(q), q)
<1>1. CASE \A i \in DOMAIN q : q[i] # 0
  BY <1>1 DEF WithoutDelta, Lighter
<1>2. CASE \E i \in DOMAIN q : q[i] = 0
  <2> DEFINE I == {i \in 1 .. Len(q) : q[i] = 0}
             d == Min(I)
  <2>1. DOMAIN q = 1 .. Len(q) /\ Len(q) \in Nat
    OBVIOUS
  <2>2. I \in SUBSET Nat /\ I # {}
    BY <1>2, <2>1
  <2>5. d \in I
    BY <2>2, Least
  <2>6. WithoutDelta(q) = RemoveAt(q, d)
    BY <1>2, <2>1, <2>2 DEF WithoutDelta, SelectInSeq
  <2> HIDE DEF d
  <2>7. d \in 1 .. Len(q) /\ q[d] = 0
    BY <2>5
  <2>8. PICK a : a = SubSeq(q, 1, d - 1)
    OBVIOUS
  <2>9. PICK b : b = SubSeq(q, d + 1, Len(q))
    OBVIOUS
  <2>10. a \in Seq(Nat) /\ Len(a) = d - 1 /\ \A i \in 1 .. d - 1 : a[i] = q[i]
    <3>1. a = SubSeq(q, 0 + 1, d - 1) /\ 0 \in Nat /\ d - 1 \in Nat /\ 0 <= d - 1 /\ d - 1 <= Len(q)
      BY <2>1, <2>7, <2>8
    <3>2. a \in Seq(Nat) /\ Len(a) = d - 1 - 0 /\ \A i \in 1 .. d - 1 - 0 : a[i] = q[0 + i]
      BY <3>1, PartOf DEF Part
    <3>3. QED
      BY <2>7, <3>2
  <2>11. b \in Seq(Nat) /\ Len(b) = Len(q) - d /\ \A i \in 1 .. Len(q) - d : b[i] = q[d + i]
    <3>1. d \in Nat /\ d <= Len(q) /\ Len(q) \in Nat /\ Len(q) <= Len(q)
      BY <2>1, <2>7
    <3>2. QED
      BY <2>9, <3>1, PartOf DEF Part
  <2>12. PICK t : t = a \o b
    OBVIOUS
  <2>13. /\ t \in Seq(Nat) /\ Len(t) = Len(q) - 1 /\ DOMAIN t = 1 .. Len(q) - 1
         /\ \A i \in DOMAIN t : t[i] = IF i < d THEN q[i] ELSE q[i + 1]
    <3>1. /\ t \in Seq(Nat) /\ Len(t) = Len(a) + Len(b)
          /\ \A i \in 1 .. Len(a) + Len(b) : t[i] = IF i <= Len(a) THEN a[i] ELSE b[i - Len(a)]
      BY <2>10, <2>11, <2>12, ConcatProperties
    <3>2. Len(a) + Len(b) = Len(q) - 1 /\ Len(a) = d - 1
      BY <2>1, <2>7, <2>10, <2>11
    <3>3. ASSUME NEW i \in 1 .. Len(q) - 1 PROVE t[i] = IF i < d THEN q[i] ELSE q[i + 1]
      <4>1. t[i] = IF i <= d - 1 THEN a[i] ELSE b[i - (d - 1)]
        BY <3>1, <3>2
      <4>2. CASE i < d
        BY <2>7, <2>10, <4>1, <4>2
      <4>3. CASE ~(i < d)
        <5>1. i - (d - 1) \in 1 .. Len(q) - d /\ d + (i - (d - 1)) = i + 1 /\ ~(i <= d - 1)
          BY <2>1, <2>7, <4>3
        <5>2. QED
          BY <2>11, <4>1, <4>3, <5>1
      <4>4. QED
        BY <4>2, <4>3
    <3>4. DOMAIN t = 1 .. Len(q) - 1 /\ Len(t) = Len(q) - 1
      BY <3>1, <3>2
    <3>5. QED
      BY <3>1, <3>3, <3>4
  <2>14. WithoutDelta(q) = t
    BY <2>6, <2>8, <2>9, <2>12 DEF RemoveAt
  <2>15. QED
    BY <2>1, <2>7, <2>13, <2>14 DEF Lighter
<1>3. QED
  BY <1>1, <1>2

\* Where the numbers from lo + 1 to lo + n pass a, and where b of them end.
Passes(n, a, b, lo, k, e) ==
  /\ k <= n /\ lo + k <= a /\ (k < n => lo + k = a)
  /\ e = (IF k + b < n THEN k + b ELSE n)
  /\ e <= n /\ (k < n => k < e) /\ k <= e

\* Numbers after a, at most b of them, of those that follow lo.
LEMMA Passing ==
  ASSUME NEW n \in Nat, NEW a \in Nat, NEW b \in Nat \ {0}, NEW lo \in Nat, lo <= a
  PROVE  \E k, e \in Nat : Passes(n, a, b, lo, k, e)
<1>1. PICK k \in Nat : k <= n /\ lo + k <= a /\ (k < n => lo + k = a)
  <2>1. CASE lo + n <= a
    BY <2>1
  <2>2. CASE ~(lo + n <= a)
    <3>1. a - lo \in Nat /\ a - lo <= n /\ lo + (a - lo) = a
      BY <2>2
    <3> WITNESS a - lo \in Nat
    <3>2. QED
      BY <3>1
  <2>3. QED
    BY <2>1, <2>2
<1>2. CASE k + b < n
  <2>1. k + b \in Nat
    OBVIOUS
  <2> WITNESS k \in Nat, k + b \in Nat
  <2>2. QED
    BY <1>1, <1>2 DEF Passes
<1>3. CASE ~(k + b < n)
  <2> WITNESS k \in Nat, n \in Nat
  <2>1. QED
    BY <1>1, <1>3 DEF Passes
<1>4. QED
  BY <1>2, <1>3

\* Numbers that follow each other from a number on.
Follow(s, lo) == \A i \in DOMAIN s : s[i] = lo + i

\* The first numbers after a, of numbers that follow each other.
First(s, a, b) ==
  LET older == Cardinality({i \in DOMAIN s : s[i] <= a})
  IN SubSeq(s, older + 1, IF older + b < Len(s) THEN older + b ELSE Len(s))

\* What is read of numbers that follow each other goes on from the number asked for,
\* and is nothing only when there is nothing after it (eventsAfter).
LEMMA FirstAfter ==
  ASSUME NEW s \in Seq(Nat), NEW a \in Nat, NEW b \in Nat \ {0}, NEW lo \in Nat,
         Follow(s, lo), lo <= a, NEW t, t = First(s, a, b)
  PROVE  t \in Seq(Nat) /\ Follow(t, a) /\ (t = <<>> => lo + Len(s) <= a)
<1>1. DOMAIN s = 1 .. Len(s) /\ Len(s) \in Nat
  OBVIOUS
<1>2. PICK n \in Nat : n = Len(s)
  BY <1>1
<1>11. PICK k \in Nat, e \in Nat : Passes(n, a, b, lo, k, e)
  BY Passing
<1>3. /\ k <= n /\ lo + k <= a /\ (k < n => lo + k = a)
      /\ e = (IF k + b < n THEN k + b ELSE n)
      /\ e <= n /\ (k < n => k < e) /\ k <= e
  BY <1>11 DEF Passes
<1>4. {i \in DOMAIN s : s[i] <= a} = 1 .. k
  <2>1. ASSUME NEW i \in 1 .. n PROVE s[i] <= a <=> i \in 1 .. k
    <3>1. s[i] = lo + i
      BY <1>1, <1>2 DEF Follow
    <3>2. lo + i <= a <=> i <= k
      BY <1>3
    <3>3. QED
      BY <3>1, <3>2
  <2>2. 1 .. k \subseteq 1 .. n
    BY <1>3
  <2>3. QED
    BY <1>1, <1>2, <2>1, <2>2
<1>5. Cardinality(1 .. k) = k
  BY FS_Interval
<1>6. t = SubSeq(s, k + 1, e)
  BY <1>2, <1>3, <1>4, <1>5 DEF First
<1>7. t \in Seq(Nat) /\ Len(t) = e - k /\ DOMAIN t = 1 .. e - k /\ \A i \in 1 .. e - k : t[i] = s[k + i]
  <2>1. k <= e /\ e <= Len(s)
    BY <1>2, <1>3
  <2>2. Part(t, s, k, e, Nat)
    BY <1>6, <2>1, PartOf
  <2>3. QED
    BY <2>2 DEF Part
<1>8. ASSUME NEW i \in 1 .. e - k PROVE t[i] = a + i
  <2>1. k + i \in 1 .. n /\ k < n
    BY <1>3
  <2>2. s[k + i] = lo + (k + i)
    BY <1>1, <1>2, <2>1 DEF Follow
  <2>3. lo + (k + i) = a + i
    BY <1>3, <2>1
  <2>4. QED
    BY <1>7, <2>2, <2>3
<1>9. t = <<>> => lo + Len(s) <= a
  <2> SUFFICES ASSUME t = <<>> PROVE lo + Len(s) <= a
    OBVIOUS
  <2>1. e - k = 0
    BY <1>7
  <2>2. k = n
    BY <1>3, <2>1
  <2>3. QED
    BY <1>2, <1>3, <2>2
<1>10. QED
  BY <1>7, <1>8, <1>9 DEF Follow

\* A ring follows its oldest number.
LEMMA RingFollows ==
  ASSUME NEW s \in Seq(Nat), NEW n \in Nat, Len(s) <= n,
         \A i \in 1 .. Len(s) : s[i] + Len(s) = n + i
  PROVE  \E lo \in Nat : lo + Len(s) = n /\ Follow(s, lo)
<1>1. n - Len(s) \in Nat /\ n - Len(s) + Len(s) = n
  OBVIOUS
<1>2. \A i \in 1 .. Len(s) : s[i] = (n - Len(s)) + i
  <2> SUFFICES ASSUME NEW i \in 1 .. Len(s) PROVE s[i] = (n - Len(s)) + i
    OBVIOUS
  <2>1. s[i] \in Nat /\ s[i] + Len(s) = n + i /\ Len(s) \in Nat
    OBVIOUS
  <2>2. QED
    BY <2>1
<1>3. PICK lo \in Nat : lo = n - Len(s)
  BY <1>1
<1>4. DOMAIN s = 1 .. Len(s) /\ lo + Len(s) = n /\ \A i \in 1 .. Len(s) : s[i] = lo + i
  BY <1>1, <1>2, <1>3
<1>5. QED
  BY <1>4 DEF Follow

\* What is read comes right after the number; nothing is read when there is nothing.
LEMMA EventsAfterAre ==
  ASSUME FeedAssumption, FeedTypes, RingInv, ~load.mixed, NEW a \in Nat, ~RingLost(a),
         NEW t, t = EventsAfter(a)
  PROVE  /\ t \in Seq(Nat) /\ Follow(t, a)
         /\ t = <<>> /\ load.source => record.last <= a
         /\ t = <<>> /\ ~load.source /\ ~feed.dropped => feed.last <= a
<1>1. Batch \in Nat \ {0} /\ record.last \in Nat /\ feed.ring \in Seq(Nat) /\ feed.last \in Nat
  BY DEF FeedAssumption, FeedTypes
<1>2. CASE load.source
  <2>1. PICK s : s = [n \in 1 .. record.last |-> n]
    OBVIOUS
  <2>2. s \in Seq(Nat) /\ Len(s) = record.last /\ Follow(s, 0)
    BY <1>1, <2>1 DEF Follow
  <2>3. t = First(s, a, Batch)
    BY <1>2, <2>1 DEF EventsAfter, First
  <2>4. t \in Seq(Nat) /\ Follow(t, a) /\ (t = <<>> => 0 + Len(s) <= a)
    <3>1. 0 \in Nat /\ 0 <= a
      OBVIOUS
    <3>2. QED
      BY <1>1, <2>2, <2>3, <3>1, FirstAfter
  <2>5. QED
    BY <1>1, <1>2, <2>2, <2>4
<1>3. CASE ~load.source
  <2>1. PICK s : s = feed.ring
    OBVIOUS
  <2>3. /\ s \in Seq(Nat) /\ Len(s) \in Nat /\ Len(s) <= feed.last /\ (~feed.dropped => Len(s) = feed.last)
        /\ \A i \in 1 .. Len(s) : s[i] + Len(s) = feed.last + i
    BY <1>1, <1>3, <2>1 DEF RingInv, EndsAt
  <2>4. PICK lo \in Nat : lo + Len(s) = feed.last /\ Follow(s, lo)
    BY <1>1, <2>3, RingFollows
  <2>5. Follow(s, lo)
    BY <2>4
  <2>10. ~feed.dropped => lo = 0
    BY <1>1, <2>3, <2>4
  <2>6. t = First(s, a, Batch)
    BY <1>3, <2>1 DEF EventsAfter, First
  <2>7. CASE lo <= a
    <3>1. t \in Seq(Nat) /\ Follow(t, a) /\ (t = <<>> => lo + Len(s) <= a)
      BY <1>1, <2>3, <2>4, <2>5, <2>6, <2>7, FirstAfter
    <3>2. QED
      BY <1>3, <2>4, <3>1
  <2>8. CASE ~(lo <= a)
    <3>1. feed.dropped
      BY <2>4, <2>8, <2>10
    <3>2. s = <<>>
      <4>1. SUFFICES ASSUME s # <<>> PROVE FALSE
        OBVIOUS
      <4>2. 1 \in DOMAIN s
        BY <2>3, <4>1
      <4>3. s[1] = lo + 1
        BY <2>5, <4>2 DEF Follow
      <4>4. ~(s[1] > a + 1)
        BY <1>3, <2>1, <3>1, <4>1 DEF RingLost
      <4>5. QED
        BY <2>4, <2>8, <4>3, <4>4
    <3>3. Follow(s, 0) /\ 0 <= a
      BY <3>2 DEF Follow
    <3>4. t \in Seq(Nat) /\ Follow(t, a)
      BY <1>1, <2>3, <2>6, <3>3, FirstAfter
    <3>5. QED
      BY <1>3, <3>1, <3>4
  <2>9. QED
    BY <2>7, <2>8
<1>4. QED
  BY <1>2, <1>3

-----------------------------------------------------------------------------
(* The numbers of a sequence that changes.                                 *)

\* A queue without a delta has the same numbers, in order.
LEMMA LighterIs ==
  ASSUME NEW q \in Seq(Nat), NEW r \in Seq(Nat), Lighter(r, q)
  PROVE  NumSet(r) = NumSet(q) /\ (Sorted(q) => Sorted(r))
<1>1. CASE r = q
  BY <1>1
<1>2. ASSUME NEW d \in 1 .. Len(q), q[d] = 0, Len(r) = Len(q) - 1,
             \A i \in DOMAIN r : r[i] = IF i < d THEN q[i] ELSE q[i + 1]
      PROVE  NumSet(r) = NumSet(q) /\ (Sorted(q) => Sorted(r))
  <2>1. DOMAIN q = 1 .. Len(q) /\ DOMAIN r = 1 .. Len(q) - 1 /\ Len(q) \in Nat /\ d \in 1 .. Len(q)
    BY <1>2
  <2>2. PICK p : p = [i \in 1 .. Len(q) - 1 |-> IF i < d THEN i ELSE i + 1]
    OBVIOUS
  <2>3. /\ \A i \in 1 .. Len(q) - 1 : p[i] \in 1 .. Len(q) /\ r[i] = q[p[i]]
        /\ \A i, j \in 1 .. Len(q) - 1 : i < j => p[i] < p[j]
    <3>1. \A i \in 1 .. Len(q) - 1 : r[i] = IF i < d THEN q[i] ELSE q[i + 1]
      BY <1>2, <2>1
    <3>2. ASSUME NEW i \in 1 .. Len(q) - 1 PROVE p[i] \in 1 .. Len(q) /\ r[i] = q[p[i]] /\ p[i] = IF i < d THEN i ELSE i + 1
      <4>1. p[i] = IF i < d THEN i ELSE i + 1
        BY <2>2
      <4>2. r[i] = IF i < d THEN q[i] ELSE q[i + 1]
        BY <3>1
      <4>3. CASE i < d
        BY <2>1, <4>1, <4>2, <4>3
      <4>4. CASE ~(i < d)
        BY <2>1, <4>1, <4>2, <4>4
      <4>5. QED
        BY <4>1, <4>3, <4>4
    <3>3. ASSUME NEW i \in 1 .. Len(q) - 1, NEW j \in 1 .. Len(q) - 1, i < j PROVE p[i] < p[j]
      <4>1. p[i] = (IF i < d THEN i ELSE i + 1) /\ p[j] = (IF j < d THEN j ELSE j + 1)
        BY <3>2
      <4>2. (IF i < d THEN i ELSE i + 1) < (IF j < d THEN j ELSE j + 1)
        BY SMTT(30), <2>1, <3>3
      <4>3. QED
        BY <4>1, <4>2
    <3>4. QED
      BY <3>2, <3>3
  <2>4. \A k \in 1 .. Len(q) : q[k] # 0 => \E i \in 1 .. Len(q) - 1 : p[i] = k
    <3> SUFFICES ASSUME NEW k \in 1 .. Len(q), q[k] # 0 PROVE \E i \in 1 .. Len(q) - 1 : p[i] = k
      OBVIOUS
    <3>1. k # d
      BY <1>2
    <3>2. CASE k < d
      <4>1. k \in 1 .. Len(q) - 1 /\ p[k] = k
        BY <2>1, <2>2, <3>2
      <4>2. QED
        BY <4>1
    <3>3. CASE k > d
      <4>1. k - 1 \in 1 .. Len(q) - 1 /\ ~(k - 1 < d) /\ k - 1 + 1 = k
        BY <2>1, <3>3
      <4>2. p[k - 1] = k
        BY <2>2, <4>1
      <4>3. QED
        BY <4>1, <4>2
    <3>4. QED
      BY <2>1, <3>1, <3>2, <3>3
  <2>5. NumSet(r) = NumSet(q)
    <3>1. NumSet(r) \subseteq NumSet(q)
      BY <2>1, <2>3 DEF NumSet
    <3>2. NumSet(q) \subseteq NumSet(r)
      <4> SUFFICES ASSUME NEW k \in 1 .. Len(q), q[k] # 0 PROVE q[k] \in NumSet(r)
        BY <2>1 DEF NumSet
      <4>1. PICK i \in 1 .. Len(q) - 1 : p[i] = k
        BY <2>4
      <4>2. r[i] = q[k] /\ i \in DOMAIN r
        BY <2>1, <2>3, <4>1
      <4>3. QED
        BY <4>2 DEF NumSet
    <3>3. QED
      BY <3>1, <3>2
  <2>6. ASSUME Sorted(q) PROVE Sorted(r)
    BY <2>1, <2>3, <2>6 DEF Sorted
  <2>7. QED
    BY <2>5, <2>6
<1>3. QED
  BY <1>1, <1>2 DEF Lighter

\* The numbers and the order of a queue with one more Event.
LEMMA AppendNums ==
  ASSUME NEW q \in Seq(Nat), NEW n \in Nat, NEW r, r = Append(q, n)
  PROVE  /\ r \in Seq(Nat) /\ Len(r) = Len(q) + 1
         /\ NumSet(r) = NumSet(q) \cup ({n} \ {0})
         /\ Sorted(q) /\ Below(NumSet(q), {n} \ {0}) => Sorted(r)
<1>1. /\ r \in Seq(Nat) /\ Len(r) = Len(q) + 1 /\ DOMAIN q = 1 .. Len(q) /\ DOMAIN r = 1 .. Len(q) + 1
      /\ Len(q) \in Nat
  OBVIOUS
<1>2. (\A i \in 1 .. Len(q) : r[i] = q[i]) /\ r[Len(q) + 1] = n
  OBVIOUS
<1>3. NumSet(r) = NumSet(q) \cup ({n} \ {0})
  <2>1. \A i \in 1 .. Len(q) + 1 : i \in 1 .. Len(q) \/ i = Len(q) + 1
    BY <1>1
  <2>2. \A i \in 1 .. Len(q) : i \in 1 .. Len(q) + 1
    BY <1>1
  <2>3. Len(q) + 1 \in 1 .. Len(q) + 1
    BY <1>1
  <2>4. QED
    BY <1>1, <1>2, <2>1, <2>2, <2>3 DEF NumSet
<1>4. ASSUME Sorted(q), Below(NumSet(q), {n} \ {0}) PROVE Sorted(r)
  <2> SUFFICES ASSUME NEW i \in 1 .. Len(q) + 1, NEW j \in 1 .. Len(q) + 1, i < j, r[i] # 0, r[j] # 0
               PROVE  r[i] < r[j]
    BY <1>1 DEF Sorted
  <2>1. i \in 1 .. Len(q) /\ r[i] = q[i]
    BY <1>1, <1>2
  <2>2. CASE j \in 1 .. Len(q)
    BY <1>1, <1>2, <1>4, <2>1, <2>2 DEF Sorted
  <2>3. CASE j = Len(q) + 1
    <3>1. q[i] \in NumSet(q) /\ r[j] = n /\ n \in {n} \ {0}
      BY <1>1, <1>2, <2>1, <2>3 DEF NumSet
    <3>2. QED
      BY <1>4, <2>1, <3>1 DEF Below
  <2>4. QED
    BY <1>1, <2>2, <2>3
<1>5. QED
  BY <1>1, <1>3, <1>4

\* The numbers and the order of a queue without its first Event.
LEMMA TailNums ==
  ASSUME NEW q \in Seq(Nat), q # <<>>
  PROVE  /\ Tail(q) \in Seq(Nat) /\ Len(Tail(q)) = Len(q) - 1 /\ Head(q) \in Nat
         /\ NumSet(q) = NumSet(Tail(q)) \cup ({Head(q)} \ {0})
         /\ Sorted(q) => Sorted(Tail(q)) /\ Below({Head(q)} \ {0}, NumSet(Tail(q)))
<1>1. PICK r : r = Tail(q)
  OBVIOUS
<1>2. /\ DOMAIN q = 1 .. Len(q) /\ Len(q) \in Nat \ {0} /\ Head(q) = q[1] /\ q[1] \in Nat
      /\ r \in Seq(Nat) /\ DOMAIN r = 1 .. Len(q) - 1 /\ Len(r) = Len(q) - 1
  BY <1>1
<1>3. \A i \in 1 .. Len(q) - 1 : r[i] = q[i + 1] /\ i + 1 \in 1 .. Len(q)
  BY <1>1, <1>2
<1>4. \A k \in 1 .. Len(q) : k = 1 \/ \E i \in 1 .. Len(q) - 1 : k = i + 1
  <2> SUFFICES ASSUME NEW k \in 1 .. Len(q), k # 1 PROVE \E i \in 1 .. Len(q) - 1 : k = i + 1
    OBVIOUS
  <2>1. k - 1 \in 1 .. Len(q) - 1 /\ k = k - 1 + 1
    BY <1>2
  <2> WITNESS k - 1 \in 1 .. Len(q) - 1
  <2>2. QED
    BY <2>1
<1>5. 1 \in 1 .. Len(q)
  BY <1>2
<1>6. NumSet(q) = NumSet(r) \cup ({Head(q)} \ {0})
  <2>1. NumSet(q) \subseteq NumSet(r) \cup ({Head(q)} \ {0})
    <3> SUFFICES ASSUME NEW k \in 1 .. Len(q), q[k] # 0 PROVE q[k] \in NumSet(r) \cup {Head(q)}
      BY <1>2 DEF NumSet
    <3>1. CASE k = 1
      BY <1>2, <3>1
    <3>2. ASSUME NEW i \in 1 .. Len(q) - 1, k = i + 1 PROVE q[k] \in NumSet(r)
      <4>1. r[i] = q[k] /\ i \in DOMAIN r
        BY <1>2, <1>3, <3>2
      <4>2. QED
        BY <4>1 DEF NumSet
    <3>3. QED
      BY <1>4, <3>1, <3>2
  <2>2. NumSet(r) \subseteq NumSet(q)
    BY <1>2, <1>3 DEF NumSet
  <2>3. {Head(q)} \ {0} \subseteq NumSet(q)
    BY <1>2, <1>5 DEF NumSet
  <2>4. QED
    BY <2>1, <2>2, <2>3
<1>7. ASSUME Sorted(q) PROVE Sorted(r) /\ Below({Head(q)} \ {0}, NumSet(r))
  <2>1. Sorted(r)
    <3> SUFFICES ASSUME NEW i \in 1 .. Len(q) - 1, NEW j \in 1 .. Len(q) - 1, i < j, r[i] # 0, r[j] # 0
                 PROVE  r[i] < r[j]
      BY <1>2 DEF Sorted
    <3>1. i + 1 < j + 1
      BY <1>2
    <3>2. QED
      BY <1>2, <1>3, <1>7, <3>1 DEF Sorted
  <2>2. \A i \in 1 .. Len(q) - 1 : r[i] # 0 /\ q[1] # 0 => q[1] < r[i]
    <3> SUFFICES ASSUME NEW i \in 1 .. Len(q) - 1, r[i] # 0, q[1] # 0 PROVE q[1] < r[i]
      OBVIOUS
    <3>1. 1 < i + 1
      BY <1>2
    <3>2. QED
      BY <1>2, <1>3, <1>5, <1>7, <3>1 DEF Sorted
  <2>3. QED
    BY <1>2, <2>1, <2>2 DEF Below, NumSet
<1>8. QED
  BY <1>1, <1>2, <1>6, <1>7

\* The numbers and the order of two sequences in a row.
LEMMA ConcatNums ==
  ASSUME NEW q \in Seq(Nat), NEW t \in Seq(Nat), NEW r, r = q \o t
  PROVE  /\ r \in Seq(Nat) /\ NumSet(r) = NumSet(q) \cup NumSet(t)
         /\ Sorted(q) /\ Sorted(t) /\ Below(NumSet(q), NumSet(t)) => Sorted(r)
<1>1. PICK m \in Nat, n \in Nat : m = Len(q) /\ n = Len(t)
  OBVIOUS
<1>2. /\ DOMAIN q = 1 .. m /\ DOMAIN t = 1 .. n /\ DOMAIN r = 1 .. m + n /\ r \in Seq(Nat)
      /\ \A i \in 1 .. m : r[i] = q[i]
      /\ \A i \in 1 .. n : r[m + i] = t[i]
  <2>1. /\ r \in Seq(Nat) /\ Len(r) = m + n
        /\ \A i \in 1 .. m + n : r[i] = IF i <= m THEN q[i] ELSE t[i - m]
    BY <1>1, ConcatProperties
  <2>2. ASSUME NEW i \in 1 .. n PROVE r[m + i] = t[i]
    <3>1. m + i \in 1 .. m + n /\ ~(m + i <= m) /\ m + i - m = i
      OBVIOUS
    <3>2. PICK k \in 1 .. m + n : k = m + i
      BY <3>1
    <3>3. r[k] = IF k <= m THEN q[k] ELSE t[k - m]
      BY <2>1
    <3>4. ~(k <= m) /\ k - m = i
      BY <3>1, <3>2
    <3>5. r[k] = t[i]
      BY <3>3, <3>4
    <3>6. QED
      BY <3>2, <3>5
  <2>3. ASSUME NEW i \in 1 .. m PROVE r[i] = q[i]
    BY <2>1
  <2>4. QED
    BY <1>1, <2>1, <2>2, <2>3
<1>3. ASSUME NEW k \in 1 .. m + n PROVE k \in 1 .. m \/ (k > m /\ k - m \in 1 .. n /\ m + (k - m) = k)
  OBVIOUS
<1>4. NumSet(r) = NumSet(q) \cup NumSet(t)
  <2>1. NumSet(r) \subseteq NumSet(q) \cup NumSet(t)
    <3> SUFFICES ASSUME NEW k \in 1 .. m + n, r[k] # 0 PROVE r[k] \in NumSet(q) \cup NumSet(t)
      BY <1>2 DEF NumSet
    <3>1. CASE k \in 1 .. m
      BY <1>2, <3>1 DEF NumSet
    <3>2. CASE k - m \in 1 .. n /\ m + (k - m) = k
      <4>1. r[k] = t[k - m]
        BY <1>2, <3>2
      <4>2. QED
        BY <1>2, <3>2, <4>1 DEF NumSet
    <3>3. QED
      BY <1>3, <3>1, <3>2
  <2>2. NumSet(q) \subseteq NumSet(r)
    <3>1. \A k \in 1 .. m : k \in 1 .. m + n
      OBVIOUS
    <3>2. QED
      BY <1>2, <3>1 DEF NumSet
  <2>3. NumSet(t) \subseteq NumSet(r)
    <3> SUFFICES ASSUME NEW k \in 1 .. n, t[k] # 0 PROVE t[k] \in NumSet(r)
      BY <1>2 DEF NumSet
    <3>1. m + k \in 1 .. m + n
      OBVIOUS
    <3>2. r[m + k] = t[k]
      BY <1>2
    <3>3. QED
      BY <1>2, <3>1, <3>2 DEF NumSet
  <2>4. QED
    BY <2>1, <2>2, <2>3
<1>5. ASSUME Sorted(q), Sorted(t), Below(NumSet(q), NumSet(t)) PROVE Sorted(r)
  <2> SUFFICES ASSUME NEW i \in 1 .. m + n, NEW j \in 1 .. m + n, i < j, r[i] # 0, r[j] # 0
               PROVE  r[i] < r[j]
    BY <1>2 DEF Sorted
  <2>1. CASE i \in 1 .. m /\ j \in 1 .. m
    BY <1>2, <1>5, <2>1 DEF Sorted
  <2>2. CASE i > m /\ i - m \in 1 .. n /\ m + (i - m) = i
    <3>1. j - m \in 1 .. n /\ m + (j - m) = j /\ i - m < j - m
      BY <2>2
    <3>2. r[i] = t[i - m] /\ r[j] = t[j - m]
      BY <1>2, <2>2, <3>1
    <3>3. QED
      BY <1>2, <1>5, <2>2, <3>1, <3>2 DEF Sorted
  <2>3. CASE i \in 1 .. m /\ j - m \in 1 .. n /\ m + (j - m) = j
    <3>1. r[i] = q[i] /\ r[j] = t[j - m]
      BY <1>2, <2>3
    <3>2. r[i] \in NumSet(q) /\ r[j] \in NumSet(t)
      BY <1>2, <2>3, <3>1 DEF NumSet
    <3>3. QED
      BY <1>5, <3>2 DEF Below
  <2>4. QED
    BY <1>3, <2>1, <2>2, <2>3
<1>6. QED
  BY <1>2, <1>4, <1>5

\* The numbers of Events are a sequence of numbers.
LEMMA NumbersAre ==
  ASSUME NEW s \in Seq(EventRec)
  PROVE  /\ NumbersOf(s) \in Seq(Nat) /\ DOMAIN NumbersOf(s) = DOMAIN s /\ Len(NumbersOf(s)) = Len(s)
         /\ \A i \in DOMAIN s : NumbersOf(s)[i] = s[i].number
<1>1. DOMAIN s = 1 .. Len(s) /\ Len(s) \in Nat /\ \A i \in 1 .. Len(s) : s[i].number \in Nat
  <2>1. DOMAIN s = 1 .. Len(s) /\ Len(s) \in Nat /\ \A i \in 1 .. Len(s) : s[i] \in EventRec
    OBVIOUS
  <2>2. QED
    BY <2>1 DEF EventRec
<1>2. QED
  BY <1>1 DEF NumbersOf

\* The numbers and the order of what is given, with one more Event.
LEMMA AppendEvent ==
  ASSUME NEW s \in Seq(EventRec), NEW e \in EventRec, NEW r, r = Append(s, e)
  PROVE  /\ r \in Seq(EventRec) /\ Len(r) = Len(s) + 1
         /\ Nums(r) = Nums(s) \cup ({e.number} \ {0})
         /\ InOrder(s) /\ Below(Nums(s), {e.number} \ {0}) => InOrder(r)
<1>1. PICK n \in Nat : n = Len(s)
  OBVIOUS
<1>2. /\ r \in Seq(EventRec) /\ Len(r) = n + 1 /\ DOMAIN r = 1 .. n + 1 /\ DOMAIN s = 1 .. n
      /\ (\A i \in 1 .. n : r[i] = s[i]) /\ r[n + 1] = e
  BY <1>1
<1>3. PICK q : q = NumbersOf(s)
  OBVIOUS
<1>4. PICK p : p = NumbersOf(r)
  OBVIOUS
<1>5. q \in Seq(Nat) /\ Len(q) = n /\ \A i \in 1 .. n : q[i] = s[i].number
  BY <1>1, <1>2, <1>3, NumbersAre
<1>6. p \in Seq(Nat) /\ Len(p) = n + 1 /\ \A i \in 1 .. n + 1 : p[i] = r[i].number
  BY <1>2, <1>4, NumbersAre
<1>7. e.number \in Nat
  BY DEF EventRec
<1>8. p = Append(q, e.number)
  <2>1. PICK a : a = Append(q, e.number)
    OBVIOUS
  <2>2. /\ a \in Seq(Nat) /\ Len(a) = n + 1 /\ (\A i \in 1 .. n : a[i] = q[i]) /\ a[n + 1] = e.number
    BY <1>5, <1>7, <2>1
  <2>3. ASSUME NEW i \in 1 .. n + 1 PROVE a[i] = p[i]
    <3>1. CASE i \in 1 .. n
      BY <1>2, <1>5, <1>6, <2>2, <3>1
    <3>2. CASE i = n + 1
      BY <1>2, <1>6, <2>2, <3>2
    <3>3. QED
      BY <3>1, <3>2
  <2>4. QED
    BY <1>6, <2>1, <2>2, <2>3, SeqEqual
<1>9. /\ NumSet(p) = NumSet(q) \cup ({e.number} \ {0})
      /\ Sorted(q) /\ Below(NumSet(q), {e.number} \ {0}) => Sorted(p)
  BY <1>5, <1>7, <1>8, AppendNums
<1>10. QED
  BY <1>1, <1>2, <1>3, <1>4, <1>9 DEF Nums, InOrder

\* The numbers and the order of pending Events without the first.
LEMMA TailEvents ==
  ASSUME NEW s \in Seq(EventRec), s # <<>>
  PROVE  /\ Tail(s) \in Seq(EventRec) /\ s[1] \in EventRec /\ 1 \in DOMAIN s
         /\ \A i \in DOMAIN Tail(s) : i + 1 \in DOMAIN s /\ Tail(s)[i] = s[i + 1]
         /\ Nums(s) = Nums(Tail(s)) \cup ({s[1].number} \ {0})
         /\ InOrder(s) => InOrder(Tail(s)) /\ Below({s[1].number} \ {0}, Nums(Tail(s)))
<1>1. PICK n \in Nat : n = Len(s) - 1 /\ Len(s) = n + 1
  OBVIOUS
<1>2. PICK r : r = Tail(s)
  OBVIOUS
<1>3. /\ r \in Seq(EventRec) /\ Len(r) = n /\ DOMAIN r = 1 .. n /\ DOMAIN s = 1 .. n + 1
      /\ \A i \in 1 .. n : r[i] = s[i + 1]
      /\ 1 \in 1 .. n + 1 /\ s[1] \in EventRec
  BY <1>1, <1>2
<1>4. PICK q : q = NumbersOf(s)
  OBVIOUS
<1>5. PICK p : p = NumbersOf(r)
  OBVIOUS
<1>6. q \in Seq(Nat) /\ Len(q) = n + 1 /\ \A i \in 1 .. n + 1 : q[i] = s[i].number
  BY <1>1, <1>3, <1>4, NumbersAre
<1>7. p \in Seq(Nat) /\ Len(p) = n /\ \A i \in 1 .. n : p[i] = r[i].number
  BY <1>3, <1>5, NumbersAre
<1>8. q # <<>> /\ Head(q) = s[1].number
  BY <1>3, <1>6
<1>9. p = Tail(q)
  <2>1. PICK a : a = Tail(q)
    OBVIOUS
  <2>2. a \in Seq(Nat) /\ Len(a) = n /\ \A i \in 1 .. n : a[i] = q[i + 1]
    BY <1>6, <1>8, <2>1
  <2>3. ASSUME NEW i \in 1 .. n PROVE a[i] = p[i]
    <3>1. i + 1 \in 1 .. n + 1
      OBVIOUS
    <3>2. QED
      BY <1>3, <1>6, <1>7, <2>2, <3>1
  <2>4. QED
    BY <1>7, <2>1, <2>2, <2>3, SeqEqual
<1>10. /\ NumSet(q) = NumSet(p) \cup ({s[1].number} \ {0})
       /\ Sorted(q) => Sorted(p) /\ Below({s[1].number} \ {0}, NumSet(p))
  BY <1>6, <1>8, <1>9, TailNums
<1>11. \A i \in DOMAIN r : i + 1 \in DOMAIN s /\ r[i] = s[i + 1]
  BY <1>3
<1>12. QED
  BY <1>2, <1>3, <1>4, <1>5, <1>10, <1>11 DEF Nums, InOrder

-----------------------------------------------------------------------------
(* The cursor.                                                             *)

\* What the subscriber asked for stays.
SameLoad ==
  /\ load' \in FeedLoadRec
  /\ load'.hasAfter = load.hasAfter /\ load'.after = load.after /\ load'.source = load.source
  /\ load'.mixed = load.mixed /\ load'.unwanted = load.unwanted

\* What is held is numbered from 1.
LEMMA HeldAre ==
  ASSUME FeedTypes
  PROVE  Held \in SUBSET (Nat \ {0})
<1>1. /\ got \in Seq(EventRec) /\ forward.pending \in Seq(EventRec) /\ forward.out \in EventRec
      /\ sub.queue \in Seq(Nat)
  BY DEF FeedTypes, ForwardRec, SubRec
<1>2. ASSUME NEW q \in Seq(Nat) PROVE NumSet(q) \in SUBSET (Nat \ {0})
  BY DEF NumSet
<1>3. Nums(got) \in SUBSET (Nat \ {0}) /\ Nums(forward.pending) \in SUBSET (Nat \ {0})
  BY <1>1, <1>2, NumbersAre DEF Nums
<1>4. Queued \in SUBSET (Nat \ {0})
  BY <1>1, <1>2 DEF Queued
<1>5. Out \in SUBSET (Nat \ {0})
  BY <1>1 DEF Out, EventRec
<1>6. QED
  BY <1>3, <1>4, <1>5 DEF Held

\* A step that leaves the cursor and what is held keeps CursorInv.
LEMMA CursorStays ==
  ASSUME CursorInv, SameLoad, Held' = Held, forward.at # "new",
         sub'.cursor = sub.cursor, sub'.cursorSet = sub.cursorSet
  PROVE  CursorInv'
BY DEF CursorInv, Due, Wanted, SameLoad

\* The cursor moves on and what it passes is held.
LEMMA CursorGrows ==
  ASSUME FeedTypes, CursorInv, SameLoad, forward.at # "new", sub.cursorSet, sub'.cursorSet,
         NEW c \in Nat, NEW d \in Nat, c = sub.cursor, d = sub'.cursor, c <= d,
         Held' = Held \cup {n \in c + 1 .. d : Wanted(n)}
  PROVE  CursorInv'
<1>1. PICK H \in SUBSET Nat : H = Held
  BY HeldAre
<1>2. PICK a \in Nat : a = load.after
  BY DEF FeedTypes, FeedLoadRec
<1>3. PICK U : U = load.unwanted
  OBVIOUS
<1>4. CASE load.hasAfter
  <2>1. /\ a <= c
        /\ \A n \in H : n <= c /\ n \notin U /\ n > a
        /\ \A n \in 1 .. c : n \notin U /\ n > a => n \in H
    BY <1>1, <1>2, <1>3, <1>4 DEF CursorInv, Due, Wanted
  <2>2. PICK G : G = H \cup {n \in c + 1 .. d : n \notin U}
    OBVIOUS
  <2>3. Held' = G
    BY <1>1, <1>3, <2>2 DEF Wanted
  <2>4. /\ a <= d
        /\ \A n \in G : n <= d /\ n \notin U /\ n > a
        /\ \A n \in 1 .. d : n \notin U /\ n > a => n \in G
    <3>1. \A n \in G : n <= d /\ n \notin U
      BY <2>1, <2>2
    <3>2. ASSUME NEW n \in G PROVE n > a
      <4>1. CASE n \in H
        BY <2>1, <4>1
      <4>2. CASE n \in c + 1 .. d
        BY <2>1, <4>2
      <4>3. QED
        BY <2>2, <4>1, <4>2
    <3>3. QED
      BY <2>1, <2>2, <3>1, <3>2
  <2>5. QED
    BY <1>2, <1>3, <1>4, <2>3, <2>4 DEF CursorInv, Due, Wanted, SameLoad
<1>5. CASE ~load.hasAfter
  <2>1. /\ \A n \in H : n <= c /\ n \notin U
        /\ \A n \in 1 .. c : n \notin U /\ (\E m \in H : m <= n) => n \in H
    BY <1>1, <1>3, <1>5 DEF CursorInv, Due, Wanted
  <2>2. PICK G : G = H \cup {n \in c + 1 .. d : n \notin U}
    OBVIOUS
  <2>3. Held' = G
    BY <1>1, <1>3, <2>2 DEF Wanted
  <2>4. \A n \in G : n <= d /\ n \notin U /\ n <= n
    BY <2>1, <2>2
  <2>5. ASSUME NEW n \in 1 .. d, n \notin U, NEW m \in G, m <= n PROVE n \in G
    <3>1. CASE n <= c
      <4>1. m \in H
        BY <2>2, <2>5, <3>1
      <4>2. QED
        BY <2>1, <2>2, <2>5, <3>1, <4>1
    <3>2. CASE ~(n <= c)
      BY <2>2, <2>5, <3>2
    <3>3. QED
      BY <3>1, <3>2
  <2>6. QED
    BY <1>3, <1>5, <2>3, <2>4, <2>5 DEF CursorInv, Due, Wanted, SameLoad
<1>6. QED
  BY <1>4, <1>5

\* The first Event of a stream that asked for no number.
LEMMA CursorStarts ==
  ASSUME FeedTypes, CursorInv, SameLoad, forward.at # "new", ~sub.cursorSet, sub'.cursorSet,
         NEW d \in Nat \ {0}, d = sub'.cursor, Held' = Held \cup {n \in {d} : Wanted(n)}
  PROVE  CursorInv'
<1>1. Held = {} /\ ~load.hasAfter
  BY DEF CursorInv
<1>2. CASE Wanted(d)
  <2>1. Held' = {d}
    BY <1>1, <1>2
  <2>2. QED
    BY <1>1, <1>2, <2>1 DEF CursorInv, Due, Wanted, SameLoad
<1>3. CASE ~Wanted(d)
  <2>1. Held' = {}
    BY <1>1, <1>3
  <2>2. QED
    BY <1>1, <2>1 DEF CursorInv, Due, Wanted, SameLoad
<1>4. QED
  BY <1>2, <1>3

-----------------------------------------------------------------------------
(* offer.                                                                  *)

\* The Event is queued, after the oldest delta when the queue is full.
Joins(s, n, e) ==
  \E r \in Seq(Nat) :
    /\ \/ r = s.queue
       \/ Lighter(r, s.queue) /\ Len(r) = Len(s.queue) - 1
    /\ e = [s EXCEPT !.queue = Append(r, n), !.wake = TRUE,
                     !.cursor = IF n = 0 \/ load.mixed THEN @ ELSE n,
                     !.cursorSet = @ \/ (n # 0 /\ ~load.mixed),
                     !.skipped = IF load.mixed /\ r # s.queue THEN @ + 1 ELSE @]

\* An Event joins the queue, is skipped, or makes the subscription fall behind: then the
\* queue is full of numbered Events (enqueue).
LEMMA EnqueueIs ==
  ASSUME FeedAssumption, load \in FeedLoadRec, NEW s \in SubRec, NEW n \in Nat, NEW e, e = Enqueue(s, n)
  PROVE  \/ Joins(s, n, e)
         \/ e = Skips(s) /\ (n = 0 \/ load.mixed)
         \/ /\ e = FallsBehind(s) /\ n # 0 /\ ~load.mixed
            /\ s.queue # <<>> /\ \A i \in DOMAIN s.queue : s.queue[i] # 0
<1>1. PICK q \in Seq(Nat) : q = s.queue
  BY DEF SubRec
<1>2. Len(q) \in Nat /\ Buffer \in Nat \ {0} /\ s.skipped \in Nat
  BY DEF FeedAssumption, SubRec
<1>3. PICK room : room = IF Len(s.queue) < Buffer THEN s.queue ELSE WithoutDelta(s.queue)
  OBVIOUS
<1>4. room \in Seq(Nat) /\ (room = q \/ Lighter(room, q)) /\ Len(room) \in Nat
  BY <1>1, <1>3, WithoutDeltaIs
<1>5. PICK after :
        after = [s EXCEPT !.queue = Append(room, n), !.wake = TRUE,
                          !.cursor = IF n = 0 \/ load.mixed THEN @ ELSE n,
                          !.cursorSet = @ \/ (n # 0 /\ ~load.mixed)]
  OBVIOUS
<1>6. e = IF Len(room) < Len(q) THEN Skips(after)
          ELSE IF Len(q) < Buffer THEN after
          ELSE IF n = 0 \/ load.mixed THEN Skips(s)
          ELSE FallsBehind(s)
  BY <1>1, <1>3, <1>5 DEF Enqueue
<1>7. CASE Len(room) < Len(q)
  <2>1. room # q /\ Lighter(room, q)
    BY <1>2, <1>4, <1>7
  <2>2. Len(room) = Len(q) - 1
    BY <2>1 DEF Lighter
  <2>3. ~(Len(q) < Buffer)
    BY <1>1, <1>3, <2>1
  <2>4. e = Skips(after)
    BY <1>1, <1>6, <1>7, <2>3
  <2>5. e = [s EXCEPT !.queue = Append(room, n), !.wake = TRUE,
                      !.cursor = IF n = 0 \/ load.mixed THEN @ ELSE n,
                      !.cursorSet = @ \/ (n # 0 /\ ~load.mixed),
                      !.skipped = IF load.mixed /\ room # s.queue THEN @ + 1 ELSE @]
    BY <1>1, <1>5, <2>1, <2>4 DEF Skips, SubRec
  <2>6. QED
    BY <1>1, <1>4, <2>1, <2>2, <2>5 DEF Joins
<1>8. CASE ~(Len(room) < Len(q)) /\ Len(q) < Buffer
  <2>1. room = s.queue /\ e = after
    BY <1>1, <1>3, <1>6, <1>8
  <2>2. e = [s EXCEPT !.queue = Append(room, n), !.wake = TRUE,
                      !.cursor = IF n = 0 \/ load.mixed THEN @ ELSE n,
                      !.cursorSet = @ \/ (n # 0 /\ ~load.mixed),
                      !.skipped = IF load.mixed /\ room # s.queue THEN @ + 1 ELSE @]
    BY <1>5, <2>1 DEF SubRec
  <2>3. QED
    BY <1>4, <2>1, <2>2 DEF Joins
<1>9. CASE ~(Len(room) < Len(q)) /\ ~(Len(q) < Buffer) /\ (n = 0 \/ load.mixed)
  BY <1>1, <1>6, <1>9
<1>10. CASE ~(Len(room) < Len(q)) /\ ~(Len(q) < Buffer) /\ ~(n = 0 \/ load.mixed)
  <2>1. e = FallsBehind(s)
    BY <1>1, <1>6, <1>10
  <2>2. Len(q) # 0
    BY <1>2, <1>10
  <2>3. Lighter(room, q)
    BY <1>1, <1>3, <1>10, WithoutDeltaIs
  <2>4. \A i \in DOMAIN q : q[i] # 0
    BY <1>2, <1>4, <1>10, <2>3 DEF Lighter
  <2>5. q # <<>>
    BY <2>2
  <2>6. QED
    BY <1>1, <1>10, <2>1, <2>4, <2>5
<1>11. QED
  BY <1>7, <1>8, <1>9, <1>10

\* What queueing an Event does.
Joined(s, n, e) ==
  /\ e \in SubRec /\ e.behind = s.behind /\ e.resume = s.resume /\ e.ending = s.ending
  /\ e.err = s.err
  /\ e.cursor = (IF n = 0 \/ load.mixed THEN s.cursor ELSE n)
  /\ e.cursorSet = (s.cursorSet \/ (n # 0 /\ ~load.mixed))
  /\ NumSet(e.queue) = NumSet(s.queue) \cup ({n} \ {0})
  /\ Sorted(s.queue) /\ Below(NumSet(s.queue), {n} \ {0}) => Sorted(e.queue)
  /\ load.mixed => Len(e.queue) + e.skipped = Len(s.queue) + s.skipped + 1

\* What joining the queue does to the subscription.
LEMMA JoinsIs ==
  ASSUME NEW s \in SubRec, NEW n \in Nat, NEW e, Joins(s, n, e)
  PROVE  Joined(s, n, e)
<1>1. PICK q \in Seq(Nat) : q = s.queue
  BY DEF SubRec
<1>2. PICK r \in Seq(Nat) :
        /\ r = s.queue \/ (Lighter(r, s.queue) /\ Len(r) = Len(s.queue) - 1)
        /\ e = [s EXCEPT !.queue = Append(r, n), !.wake = TRUE,
                     !.cursor = IF n = 0 \/ load.mixed THEN @ ELSE n,
                     !.cursorSet = @ \/ (n # 0 /\ ~load.mixed),
                     !.skipped = IF load.mixed /\ r # s.queue THEN @ + 1 ELSE @]
  BY DEF Joins
<1>3. PICK p : p = Append(r, n)
  OBVIOUS
<1>4. /\ p \in Seq(Nat) /\ Len(p) = Len(r) + 1
      /\ NumSet(p) = NumSet(r) \cup ({n} \ {0})
      /\ Sorted(r) /\ Below(NumSet(r), {n} \ {0}) => Sorted(p)
  BY <1>3, AppendNums
<1>5. /\ e.queue = p /\ e.wake = TRUE /\ e.behind = s.behind /\ e.resume = s.resume /\ e.ending = s.ending
      /\ e.err = s.err
      /\ e.cursor = (IF n = 0 \/ load.mixed THEN s.cursor ELSE n)
      /\ e.cursorSet = (s.cursorSet \/ (n # 0 /\ ~load.mixed))
      /\ e.skipped = (IF load.mixed /\ r # s.queue THEN s.skipped + 1 ELSE s.skipped)
  BY <1>2, <1>3 DEF SubRec
<1>6. e \in SubRec
  <2>1. e = [queue |-> p, cursor |-> IF n = 0 \/ load.mixed THEN s.cursor ELSE n,
             cursorSet |-> s.cursorSet \/ (n # 0 /\ ~load.mixed), behind |-> s.behind,
             resume |-> s.resume, skipped |-> IF load.mixed /\ r # s.queue THEN s.skipped + 1 ELSE s.skipped,
             ending |-> s.ending, wake |-> TRUE, err |-> s.err]
    BY <1>2, <1>3 DEF SubRec
  <2>2. QED
    BY <1>4, <2>1 DEF SubRec
<1>7. NumSet(r) = NumSet(q) /\ (Sorted(q) => Sorted(r))
  BY <1>1, <1>2, LighterIs
<1>8. load.mixed => Len(e.queue) + e.skipped = Len(s.queue) + s.skipped + 1
  <2>1. HAVE load.mixed
  <2>2. Len(q) \in Nat /\ s.skipped \in Nat /\ Len(r) \in Nat
    BY <1>1, <1>2 DEF SubRec
  <2>3. CASE r = q
    <3>1. e.skipped = s.skipped /\ Len(e.queue) = Len(q) + 1
      BY <1>1, <1>4, <1>5, <2>3
    <3>2. PICK a \in Nat, k \in Nat : a = Len(q) /\ k = s.skipped
      BY <2>2
    <3>3. Len(e.queue) = a + 1 /\ e.skipped = k /\ Len(s.queue) = a
      BY <1>1, <3>1, <3>2
    <3>4. (a + 1) + k = (a + k) + 1
      OBVIOUS
    <3>5. QED
      BY <3>2, <3>3, <3>4
  <2>4. CASE r # q
    <3>1. Len(r) = Len(q) - 1 /\ e.skipped = s.skipped + 1
      BY <1>1, <1>2, <1>5, <2>1, <2>4
    <3>2. QED
      BY SMTT(30), <1>1, <1>4, <1>5, <2>2, <3>1
  <2>5. QED
    BY <2>3, <2>4
<1>9. QED
  BY <1>1, <1>4, <1>5, <1>6, <1>7, <1>8 DEF Joined

\* offer keeps the type of the subscription.
LEMMA OfferTypes ==
  ASSUME FeedAssumption, load \in FeedLoadRec, NEW s \in SubRec, NEW n \in Nat
  PROVE  OfferTo(s, n) \in SubRec
<1>1. Enqueue(s, n) \in SubRec
  <2>1. PICK e : e = Enqueue(s, n)
    OBVIOUS
  <2>2. CASE Joins(s, n, e)
    BY <2>1, <2>2, JoinsIs DEF Joined
  <2>3. Skips(s) \in SubRec
    BY DEF Skips, SubRec
  <2>4. FallsBehind(s) \in SubRec
    BY DEF FallsBehind, SubRec
  <2>5. QED
    BY <2>1, <2>2, <2>3, <2>4, EnqueueIs
<1>2. FallsBehind(s) \in SubRec /\ [s EXCEPT !.cursor = n, !.cursorSet = TRUE] \in SubRec
  BY DEF FallsBehind, SubRec
<1>3. QED
  BY <1>1, <1>2 DEF OfferTo, OfferNumbered

\* What offer may do with an Event of a numbered Feed (subscription.offer).
LEMMA OfferIs ==
  ASSUME FeedAssumption, FeedTypes, ~load.mixed, CursorInv, NEW n \in Nat, sub' = OfferTo(sub, n)
  PROVE  \/ sub' = sub
         \/ ~sub.behind /\ sub.cursorSet /\ sub' = FallsBehind(sub)
         \/ /\ ~sub.behind /\ n # 0 /\ (sub.cursorSet => n = sub.cursor + 1)
            /\ ~Wanted(n) /\ sub' = [sub EXCEPT !.cursor = n, !.cursorSet = TRUE]
         \/ /\ ~sub.behind /\ n # 0 /\ (sub.cursorSet => n = sub.cursor + 1)
            /\ Wanted(n) /\ Joins(sub, n, sub')
         \/ ~sub.behind /\ n = 0 /\ Joins(sub, n, sub')
<1>1. sub \in SubRec /\ load \in FeedLoadRec /\ sub.cursor \in Nat
  BY DEF FeedTypes, SubRec
<1>2. ASSUME sub' = Enqueue(sub, n)
      PROVE  \/ Joins(sub, n, sub')
             \/ sub' = sub
             \/ sub' = FallsBehind(sub) /\ n # 0 /\ sub.cursorSet
  <2>1. CASE Joins(sub, n, sub')
    BY <2>1
  <2>2. CASE sub' = Skips(sub)
    BY <2>2 DEF Skips
  <2>3. CASE sub' = FallsBehind(sub) /\ n # 0 /\ sub.queue # <<>> /\ \A i \in DOMAIN sub.queue : sub.queue[i] # 0
    <3>1. 1 \in DOMAIN sub.queue
      BY <1>1, <2>3 DEF SubRec
    <3>2. sub.queue[1] \in Held
      BY <2>3, <3>1 DEF Held, Queued, NumSet
    <3>3. sub.cursorSet
      BY <3>2 DEF CursorInv
    <3>4. QED
      BY <2>3, <3>3
  <2>4. QED
    BY <1>1, <1>2, <2>1, <2>2, <2>3, EnqueueIs
<1>3. CASE StreamOver \/ sub.ending \/ sub.behind
  BY <1>3 DEF OfferTo
<1>4. CASE ~(StreamOver \/ sub.ending \/ sub.behind) /\ n = 0
  <2>1. sub' = Enqueue(sub, n)
    BY <1>4 DEF OfferTo
  <2>2. QED
    BY <1>2, <1>4, <2>1
<1>5. CASE ~(StreamOver \/ sub.ending \/ sub.behind) /\ n # 0
  <2>1. sub' = OfferNumbered(sub, n)
    BY <1>5 DEF OfferTo
  <2>2. CASE sub.cursorSet /\ n <= sub.cursor
    BY <2>1, <2>2 DEF OfferNumbered
  <2>3. CASE sub.cursorSet /\ n > sub.cursor + 1
    BY <1>1, <1>5, <2>1, <2>3 DEF OfferNumbered
  <2>4. CASE sub.cursorSet => n = sub.cursor + 1
    <3>1. sub' = IF ~Wanted(n) THEN [sub EXCEPT !.cursor = n, !.cursorSet = TRUE] ELSE Enqueue(sub, n)
      BY <1>1, <2>1, <2>4 DEF OfferNumbered
    <3>2. CASE ~Wanted(n)
      BY <1>5, <2>4, <3>1, <3>2
    <3>3. CASE Wanted(n)
      BY <1>2, <1>5, <2>4, <3>1, <3>3
    <3>4. QED
      BY <3>2, <3>3
  <2>5. QED
    BY <1>1, <2>2, <2>3, <2>4
<1>6. QED
  BY <1>3, <1>4, <1>5

\* What is queued comes after what is held.
LEMMA OrderJoins ==
  ASSUME FeedTypes, OrderInv, CursorInv, NEW A \in SUBSET Nat,
         got' = got, forward'.out = forward.out, forward'.pending = forward.pending,
         \A m \in Held, n \in A : m < n,
         Queued' = Queued \cup A, Sorted(sub'.queue)
  PROVE  OrderInv'
<1>1. Nums(got) \subseteq Held /\ Out \subseteq Held /\ Queued \subseteq Held
  BY DEF Held
<1>2. Nums(got') = Nums(got) /\ Out' = Out /\ Nums(forward'.pending) = Nums(forward.pending)
  BY DEF Out
<1>3. Below(Nums(got), Queued') /\ Below(Out, Queued')
  BY <1>1 DEF OrderInv, Below
<1>4. QED
  BY <1>2, <1>3 DEF OrderInv

\* A step that leaves what is given and queued keeps OrderInv.
LEMMA OrderStays ==
  ASSUME OrderInv, UNCHANGED <<forward, got>>, sub'.queue = sub.queue
  PROVE  OrderInv' /\ Held' = Held
BY DEF OrderInv, Held, Queued, Out

\* offer keeps the order of a stream, and what is wanted up to the cursor.
LEMMA OfferKeeps ==
  ASSUME FeedAssumption, FeedTypes, ~load.mixed, OrderInv, CursorInv, SameLoad,
         forward.at # "new", UNCHANGED <<forward, got>>, NEW n \in Nat, sub' = OfferTo(sub, n)
  PROVE  /\ OrderInv' /\ CursorInv'
         /\ sub.behind => sub' = sub
         /\ sub'.behind /\ ~sub.behind => sub'.cursorSet /\ sub'.resume = sub'.cursor
         /\ sub.cursorSet => sub'.cursorSet /\ sub.cursor <= sub'.cursor
         /\ sub'.err = sub.err
<1>1. sub \in SubRec /\ sub.cursor \in Nat /\ sub.cursorSet \in BOOLEAN /\ sub.queue \in Seq(Nat)
  BY DEF FeedTypes, SubRec
<1>2. PICK H \in SUBSET (Nat \ {0}) : H = Held
  BY HeldAre
<1>3. ASSUME sub.cursorSet => n = sub.cursor + 1 PROVE \A m \in H : m < n
  BY <1>1, <1>2, <1>3 DEF CursorInv
<1>4. CASE sub' = sub
  <2>1. OrderInv' /\ Held' = Held
    BY <1>4, OrderStays
  <2>2. CursorInv'
    BY <1>4, <2>1, CursorStays
  <2>3. QED
    BY <1>1, <1>4, <2>1, <2>2
<1>5. CASE ~sub.behind /\ sub.cursorSet /\ sub' = FallsBehind(sub)
  <2>1. /\ sub'.queue = sub.queue /\ sub'.cursor = sub.cursor /\ sub'.cursorSet = sub.cursorSet
        /\ sub'.resume = sub.cursor /\ sub'.err = sub.err
    BY <1>1, <1>5 DEF FallsBehind, SubRec
  <2>2. OrderInv' /\ Held' = Held
    BY <2>1, OrderStays
  <2>3. CursorInv'
    BY <2>1, <2>2, CursorStays
  <2>4. QED
    BY <1>1, <1>5, <2>1, <2>2, <2>3
<1>6. CASE /\ ~sub.behind /\ n # 0 /\ (sub.cursorSet => n = sub.cursor + 1)
           /\ ~Wanted(n) /\ sub' = [sub EXCEPT !.cursor = n, !.cursorSet = TRUE]
  <2>1. /\ sub'.queue = sub.queue /\ sub'.cursor = n /\ sub'.cursorSet = TRUE
        /\ sub'.behind = sub.behind /\ sub'.err = sub.err
    BY <1>1, <1>6 DEF SubRec
  <2>2. OrderInv' /\ Held' = Held
    BY <2>1, OrderStays
  <2>3. CursorInv'
    <3>1. CASE sub.cursorSet
      <4>1. {k \in sub.cursor + 1 .. n : Wanted(k)} = {}
        BY <1>1, <1>6, <3>1
      <4>2. Held' = Held \cup {k \in sub.cursor + 1 .. n : Wanted(k)} /\ sub.cursor <= n
        BY <1>1, <1>6, <2>2, <3>1, <4>1
      <4>3. QED
        BY <1>1, <2>1, <3>1, <4>2, CursorGrows
    <3>2. CASE ~sub.cursorSet
      <4>1. Held' = Held \cup {k \in {n} : Wanted(k)} /\ n \in Nat \ {0}
        BY <1>6, <2>2
      <4>2. QED
        BY <2>1, <3>2, <4>1, CursorStarts
    <3>3. QED
      BY <3>1, <3>2
  <2>4. QED
    BY <1>1, <1>6, <2>1, <2>2, <2>3
<1>7. CASE /\ ~sub.behind /\ n # 0 /\ (sub.cursorSet => n = sub.cursor + 1)
           /\ Wanted(n) /\ Joins(sub, n, sub')
  <2>1. /\ sub'.behind = sub.behind /\ sub'.cursor = n /\ sub'.cursorSet = TRUE /\ sub'.err = sub.err
        /\ Queued' = Queued \cup {n}
        /\ Sorted(sub.queue) /\ Below(NumSet(sub.queue), {n}) => Sorted(sub'.queue)
    <3>1. {n} \ {0} = {n}
      BY <1>7
    <3>2. /\ sub'.behind = sub.behind /\ sub'.err = sub.err
          /\ sub'.cursor = (IF n = 0 \/ load.mixed THEN sub.cursor ELSE n)
          /\ sub'.cursorSet = (sub.cursorSet \/ (n # 0 /\ ~load.mixed))
          /\ NumSet(sub'.queue) = NumSet(sub.queue) \cup ({n} \ {0})
          /\ Sorted(sub.queue) /\ Below(NumSet(sub.queue), {n} \ {0}) => Sorted(sub'.queue)
      <4>1. Joins(sub, n, sub')
        BY <1>7
      <4>2. Joined(sub, n, sub')
        BY <1>1, <4>1, JoinsIs
      <4>3. QED
        BY <4>2 DEF Joined
    <3>3. QED
      BY <1>7, <3>1, <3>2 DEF Queued
  <2>2. \A m \in Held : m < n
    BY <1>2, <1>3, <1>7
  <2>3. Sorted(sub'.queue)
    BY <2>1, <2>2 DEF OrderInv, Below, Held, Queued
  <2>4. OrderInv'
    <3>1. {n} \in SUBSET Nat /\ \A m \in Held, k \in {n} : m < k
      BY <2>2
    <3>2. QED
      BY <2>1, <2>3, <3>1, OrderJoins
  <2>5. Held' = Held \cup {n}
    BY <2>1 DEF Held, Out
  <2>6. CursorInv'
    <3>1. CASE sub.cursorSet
      <4>1. {k \in sub.cursor + 1 .. n : Wanted(k)} = {n}
        BY <1>1, <1>7, <3>1
      <4>2. Held' = Held \cup {k \in sub.cursor + 1 .. n : Wanted(k)} /\ sub.cursor <= n
        BY <1>1, <1>7, <2>5, <3>1, <4>1
      <4>3. QED
        BY <1>1, <2>1, <3>1, <4>2, CursorGrows
    <3>2. CASE ~sub.cursorSet
      <4>1. Held' = Held \cup {k \in {n} : Wanted(k)} /\ n \in Nat \ {0}
        BY <1>7, <2>5
      <4>2. QED
        BY <2>1, <3>2, <4>1, CursorStarts
    <3>3. QED
      BY <3>1, <3>2
  <2>7. QED
    BY <1>1, <1>7, <2>1, <2>4, <2>6
<1>8. CASE ~sub.behind /\ n = 0 /\ Joins(sub, n, sub')
  <2>1. /\ sub'.behind = sub.behind /\ sub'.cursor = sub.cursor /\ sub'.cursorSet = sub.cursorSet
        /\ sub'.err = sub.err /\ Queued' = Queued
        /\ Sorted(sub.queue) => Sorted(sub'.queue)
    <3>1. {n} \ {0} = {}
      BY <1>8
    <3>2. Below(NumSet(sub.queue), {})
      BY DEF Below
    <3>3. /\ sub'.behind = sub.behind /\ sub'.err = sub.err
          /\ sub'.cursor = (IF n = 0 \/ load.mixed THEN sub.cursor ELSE n)
          /\ sub'.cursorSet = (sub.cursorSet \/ (n # 0 /\ ~load.mixed))
          /\ NumSet(sub'.queue) = NumSet(sub.queue) \cup ({n} \ {0})
          /\ Sorted(sub.queue) /\ Below(NumSet(sub.queue), {n} \ {0}) => Sorted(sub'.queue)
      <4>1. Joins(sub, n, sub')
        BY <1>8
      <4>2. Joined(sub, n, sub')
        BY <1>1, <4>1, JoinsIs
      <4>3. QED
        BY <4>2 DEF Joined
    <3>4. NumSet(sub.queue) \cup {} = NumSet(sub.queue)
      OBVIOUS
    <3>5. QED
      BY <1>1, <1>8, <3>1, <3>2, <3>3, <3>4 DEF Queued
  <2>2. OrderInv'
    <3>1. Queued' = Queued \cup {} /\ {} \in SUBSET Nat /\ Sorted(sub'.queue)
      BY <2>1 DEF OrderInv
    <3>2. QED
      BY <3>1, OrderJoins
  <2>3. Held' = Held
    BY <2>1 DEF Held, Out
  <2>4. CursorInv'
    BY <2>1, <2>3, CursorStays
  <2>5. QED
    BY <1>1, <1>8, <2>1, <2>2, <2>4
<1>9. QED
  BY <1>4, <1>5, <1>6, <1>7, <1>8, OfferIs

-----------------------------------------------------------------------------
(* Types.                                                                  *)

\* What retain keeps of the ring, and that it knows what it dropped.
Retains(n, f) ==
  \/ load.source /\ f = feed
  \/ /\ ~load.source
     /\ \E r \in Seq(Nat), k \in Nat :
          /\ k <= Len(feed.ring) /\ Part(r, feed.ring, k, Len(feed.ring), Nat)
          /\ (k > 0 => f.dropped)
          /\ f = [feed EXCEPT !.ring = Append(r, n), !.dropped = f.dropped]
          /\ (feed.dropped => f.dropped) /\ f.dropped \in BOOLEAN

\* retain keeps a last part of the ring and the new Event.
LEMMA RetainIs ==
  ASSUME FeedAssumption, FeedTypes, NEW n \in Nat, NEW f, f = Retain(n)
  PROVE  Retains(n, f)
<1>1. CASE load.source
  BY <1>1 DEF Retain, Retains
<1>2. CASE ~load.source
  <2>1. PICK s \in Seq(Nat) : s = feed.ring
    BY DEF FeedTypes
  <2>2. PICK m \in Nat : m = Len(s)
    OBVIOUS
  <2>3. CASE ~(m >= RingCap)
    <3>1. f = [feed EXCEPT !.ring = Append(@, n)]
      BY <1>2, <2>1, <2>2, <2>3 DEF Retain
    <3>2. Part(s, s, 0, m, Nat)
      BY <2>2 DEF Part
    <3>3. f.dropped = feed.dropped /\ feed.dropped \in BOOLEAN
      BY <3>1 DEF FeedTypes
    <3>4. f = [feed EXCEPT !.ring = Append(s, n), !.dropped = f.dropped]
      BY <2>1, <3>1, <3>3 DEF FeedTypes
    <3>5. /\ 0 <= m /\ Part(s, s, 0, m, Nat) /\ (0 > 0 => f.dropped)
          /\ f = [feed EXCEPT !.ring = Append(s, n), !.dropped = f.dropped]
          /\ (feed.dropped => f.dropped) /\ f.dropped \in BOOLEAN
      BY <3>2, <3>3, <3>4
    <3>6. \E r \in Seq(Nat), k \in Nat :
            /\ k <= m /\ Part(r, s, k, m, Nat) /\ (k > 0 => f.dropped)
            /\ f = [feed EXCEPT !.ring = Append(r, n), !.dropped = f.dropped]
            /\ (feed.dropped => f.dropped) /\ f.dropped \in BOOLEAN
      <4>1. WITNESS s \in Seq(Nat), 0 \in Nat
      <4>2. QED
        BY <3>5
    <3>7. QED
      BY <1>2, <2>1, <2>2, <3>6 DEF Retains
  <2>4. CASE m >= RingCap
    <3>1. PICK h \in Nat : h = RingCap \div 2 /\ h <= RingCap
      BY DEF FeedAssumption
    <3>2. PICK k \in Nat : k = m - h
      BY <2>4, <3>1 DEF FeedAssumption
    <3>3. PICK r : r = SubSeq(s, k + 1, m)
      OBVIOUS
    <3>4. Part(r, s, k, m, Nat) /\ r \in Seq(Nat) /\ k <= m
      <4>1. k <= m /\ m <= Len(s)
        BY <2>2, <3>1, <3>2
      <4>2. Part(r, s, k, m, Nat)
        BY <3>3, <4>1, PartOf
      <4>3. QED
        BY <4>1, <4>2 DEF Part
    <3>5. f = [feed EXCEPT !.ring = Append(r, n), !.dropped = TRUE]
      <4>1. f = [feed EXCEPT !.ring = Append(SubSeq(@, Len(@) - (RingCap \div 2) + 1, Len(@)), n),
                             !.dropped = TRUE]
        BY <1>2, <2>1, <2>2, <2>4 DEF Retain
      <4>2. r = SubSeq(s, m - h + 1, m)
        BY <3>2, <3>3
      <4>3. QED
        BY <2>1, <2>2, <3>1, <4>1, <4>2 DEF FeedTypes
    <3>6. f.dropped = TRUE
      BY <3>5 DEF FeedTypes
    <3>7. \E p \in Seq(Nat), j \in Nat :
            /\ j <= m /\ Part(p, s, j, m, Nat) /\ (j > 0 => f.dropped)
            /\ f = [feed EXCEPT !.ring = Append(p, n), !.dropped = f.dropped]
            /\ (feed.dropped => f.dropped) /\ f.dropped \in BOOLEAN
      <4>1. r \in Seq(Nat)
        BY <3>4
      <4>2. WITNESS r \in Seq(Nat), k \in Nat
      <4>3. QED
        BY <3>4, <3>5, <3>6
    <3>8. QED
      BY <1>2, <2>1, <2>2, <3>7 DEF Retains
  <2>5. QED
    BY <2>3, <2>4
<1>3. QED
  BY <1>1, <1>2

\* What finish leaves.
LEMMA FinishesTypes ==
  ASSUME FeedTypes, NEW w \in {"none", "eof", "lost", "replaced"}, Finishes(w)
  PROVE  /\ forward' \in ForwardRec /\ sub' \in SubRec
         /\ forward' = [at |-> "ended", out |-> NoEvent, batch |-> <<>>, pending |-> <<>>,
                        empty |-> forward.empty, after |-> forward.after]
         /\ sub'.err = w /\ sub'.queue = <<>> /\ sub'.behind = sub.behind
         /\ sub'.cursorSet = sub.cursorSet /\ sub'.cursor = sub.cursor /\ sub'.resume = sub.resume
<1>1. <<>> \in Seq(EventRec) /\ <<>> \in Seq(Nat) /\ NoEvent \in EventRec
  BY DEF EventRec, NoEvent
<1>2. /\ forward \in ForwardRec /\ sub \in SubRec
      /\ forward' = [forward EXCEPT !.at = "ended", !.out = NoEvent, !.pending = <<>>, !.batch = <<>>]
      /\ sub' = [sub EXCEPT !.err = w, !.queue = <<>>]
  BY DEF FeedTypes, Finishes
<1>3. forward' \in ForwardRec
  BY <1>1, <1>2 DEF ForwardRec, Places
<1>4. sub' \in SubRec
  BY <1>1, <1>2 DEF SubRec
<1>5. forward' = [at |-> "ended", out |-> NoEvent, batch |-> <<>>, pending |-> <<>>,
                        empty |-> forward.empty, after |-> forward.after]
  BY <1>2 DEF ForwardRec
<1>6. /\ sub'.err = w /\ sub'.queue = <<>> /\ sub'.behind = sub.behind
      /\ sub'.cursorSet = sub.cursorSet /\ sub'.cursor = sub.cursor /\ sub'.resume = sub.resume
  BY <1>2 DEF SubRec
<1>7. QED
  BY <1>3, <1>4, <1>5, <1>6

\* The Events of the numbers that were read, of the Record there is.
ReadEvents(t) == [i \in DOMAIN t |-> [number |-> t[i], epoch |-> record.epoch]]

\* The Events read go on from the number asked for.
LEMMA ReadEventsAre ==
  ASSUME FeedTypes, NEW t \in Seq(Nat), NEW a \in Nat, Follow(t, a), NEW b, b = ReadEvents(t)
  PROVE  /\ b \in Seq(EventRec) /\ GoOn(b, a) /\ (b = <<>> <=> t = <<>>)
         /\ (record.epoch = 1 => OfFirst(b))
<1>1. PICK n \in Nat : n = Len(t) /\ DOMAIN t = 1 .. n
  OBVIOUS
<1>2. \A i \in 1 .. n : t[i] \in Nat /\ t[i] = a + i
  BY <1>1 DEF Follow
<1>3. record.epoch \in {1, 2}
  BY DEF FeedTypes
<1>4. b = [i \in 1 .. n |-> [number |-> t[i], epoch |-> record.epoch]]
  BY <1>1 DEF ReadEvents
<1>5. b \in Seq(EventRec) /\ Len(b) = n /\ DOMAIN b = 1 .. n
  BY <1>2, <1>3, <1>4 DEF EventRec
<1>6. \A i \in 1 .. n : b[i].number = a + i /\ b[i].epoch = record.epoch
  BY <1>2, <1>4
<1>7. b = <<>> <=> t = <<>>
  <2>1. b = <<>> <=> n = 0
    BY <1>5
  <2>2. t = <<>> <=> n = 0
    BY <1>1
  <2>3. QED
    BY <2>1, <2>2
<1>8. QED
  BY <1>5, <1>6, <1>7 DEF GoOn, OfFirst

\* What the filter keeps of the Events read.
LEMMA KeptAre ==
  ASSUME FeedTypes, NEW c \in Nat, NEW t, t = KeptAfter(c)
  PROVE  t \in Seq(EventRec)
         /\ Picks(t, forward.batch, {i \in DOMAIN forward.batch : /\ forward.batch[i].number > c
                                                                  /\ Wanted(forward.batch[i].number)})
<1>1. PICK b \in Seq(EventRec) : b = forward.batch
  BY DEF FeedTypes, ForwardRec
<1>2. PICK K \in SUBSET (DOMAIN b) : K = {i \in DOMAIN b : b[i].number > c /\ Wanted(b[i].number)}
  OBVIOUS
<1>3. t = Picked(b, K)
  BY <1>1, <1>2 DEF KeptAfter
<1>4. QED
  BY <1>1, <1>2, <1>3, PickedIs

\* Every step keeps the types, and what the subscriber asked for.
LEMMA FeedTypesNext ==
  ASSUME FeedAssumption, FeedTypes, FeedSafe, FeedNext
  PROVE  FeedTypes' /\ SameLoad
<1>1. /\ record \in [epoch : {1, 2}, last : Nat] /\ record.last \in Nat
      /\ unpublished \in Seq(Nat) /\ offered \in Seq(Nat)
      /\ feed \in [last : Nat, closed : BOOLEAN, ring : Seq(Nat), dropped : BOOLEAN]
      /\ sub \in SubRec /\ forward \in ForwardRec /\ got \in Seq(EventRec)
      /\ skips \in Nat /\ shown \in Nat /\ load \in FeedLoadRec
  BY DEF FeedTypes
<1>2. /\ sub.queue \in Seq(Nat) /\ sub.cursor \in Nat /\ sub.resume \in Nat /\ sub.skipped \in Nat
      /\ forward.batch \in Seq(EventRec) /\ forward.pending \in Seq(EventRec) /\ forward.out \in EventRec
      /\ forward.empty \in Nat /\ forward.after \in Nat
  BY <1>1 DEF SubRec, ForwardRec
<1>3. <<>> \in Seq(Nat) /\ <<>> \in Seq(EventRec) /\ NoEvent \in EventRec
  BY DEF NoEvent, EventRec
<1>4. NoSub \in SubRec /\ Unstarted \in ForwardRec
  BY <1>3 DEF NoSub, SubRec, Unstarted, ForwardRec, Places
<1>5. ASSUME UNCHANGED load PROVE SameLoad
  BY <1>1, <1>5 DEF SameLoad
<1>6. CASE Store
  <2>1. load' \in FeedLoadRec /\ SameLoad
    <3>1. load.own \in Nat
      BY <1>1 DEF FeedLoadRec
    <3>2. PICK m \in Nat : m = load.own - 1
      BY <1>6, <3>1 DEF Store
    <3>3. load' = [load EXCEPT !.own = m]
      BY <1>6, <3>2 DEF Store
    <3>4. QED
      BY <1>1, <3>3 DEF SameLoad, FeedLoadRec
  <2>2. record' \in [epoch : {1, 2}, last : Nat]
    <3>1. PICK m \in Nat : m = record.last + 1
      BY <1>1
    <3>2. record' = [record EXCEPT !.last = m]
      BY <1>6, <3>1 DEF Store
    <3>3. QED
      BY <1>1, <3>2
  <2>3. unpublished' \in Seq(Nat)
    BY <1>1, <1>6 DEF Store
  <2>4. QED
    BY <1>1, <1>6, <2>1, <2>2, <2>3 DEF Store, FeedTypes
<1>7. CASE StoreForeign
  <2>1. load' \in FeedLoadRec /\ SameLoad
    <3>1. load.foreign \in Nat
      BY <1>1 DEF FeedLoadRec
    <3>2. PICK m \in Nat : m = load.foreign - 1
      BY <1>7, <3>1 DEF StoreForeign
    <3>3. load' = [load EXCEPT !.foreign = m]
      BY <1>7, <3>2 DEF StoreForeign
    <3>4. QED
      BY <1>1, <3>3 DEF SameLoad, FeedLoadRec
  <2>2. record' \in [epoch : {1, 2}, last : Nat]
    <3>1. PICK m \in Nat : m = record.last + 1
      BY <1>1
    <3>2. record' = [record EXCEPT !.last = m]
      BY <1>7, <3>1 DEF StoreForeign
    <3>3. QED
      BY <1>1, <3>2
  <2>4. QED
    BY <1>1, <1>7, <2>1, <2>2 DEF StoreForeign, FeedTypes
<1>8. CASE CreateAgain
  <2>1. load' \in FeedLoadRec /\ SameLoad
    BY <1>1, <1>8 DEF CreateAgain, SameLoad, FeedLoadRec
  <2>2. record' \in [epoch : {1, 2}, last : Nat]
    BY <1>1, <1>8 DEF CreateAgain, FeedLoadRec
  <2>4. QED
    BY <1>1, <1>8, <2>1, <2>2 DEF CreateAgain, FeedTypes
<1>9. CASE EndFeed
  <2>1. load' \in FeedLoadRec /\ SameLoad
    <3>1. load.ends \in Nat
      BY <1>1 DEF FeedLoadRec
    <3>2. PICK m \in Nat : m = load.ends - 1
      BY <1>9, <3>1 DEF EndFeed
    <3>3. load' = [load EXCEPT !.ends = m]
      BY <1>9, <3>2 DEF EndFeed
    <3>4. QED
      BY <1>1, <3>3 DEF SameLoad, FeedLoadRec
  <2>2. sub' \in SubRec
    BY <1>1, <1>9 DEF EndFeed, SubRec
  <2>3. feed' \in [last : Nat, closed : BOOLEAN, ring : Seq(Nat), dropped : BOOLEAN]
    BY <1>1, <1>9 DEF EndFeed
  <2>4. QED
    BY <1>1, <1>9, <2>1, <2>2, <2>3 DEF EndFeed, FeedTypes
<1>10. CASE PublishDelta
  <2>1. load' \in FeedLoadRec /\ SameLoad
    <3>1. load.deltas \in Nat
      BY <1>1 DEF FeedLoadRec
    <3>2. PICK m \in Nat : m = load.deltas - 1
      BY <1>10, <3>1 DEF PublishDelta
    <3>3. load' = [load EXCEPT !.deltas = m]
      BY <1>10, <3>2 DEF PublishDelta
    <3>4. QED
      BY <1>1, <3>3 DEF SameLoad, FeedLoadRec
  <2>2. sub' \in SubRec
    <3>1. OfferTo(sub, 0) \in SubRec
      BY <1>1, OfferTypes
    <3>2. QED
      BY <1>1, <1>10, <3>1 DEF PublishDelta
  <2>3. shown' \in Nat
    BY <1>1, <1>10 DEF PublishDelta
  <2>4. QED
    BY <1>1, <1>10, <2>1, <2>2, <2>3 DEF PublishDelta, FeedTypes
<1>11. CASE Offer
  <2>1. offered[1] \in Nat
    BY <1>1, <1>11 DEF Offer
  <2>2. sub' \in SubRec
    <3>1. OfferTo(sub, offered[1]) \in SubRec
      BY <1>1, <2>1, OfferTypes
    <3>2. QED
      BY <1>11, <3>1 DEF Offer
  <2>3. shown' \in Nat
    BY <1>1, <1>11 DEF Offer
  <2>4. QED
    BY <1>1, <1>3, <1>5, <1>11, <2>2, <2>3 DEF Offer, FeedTypes
<1>12. CASE Publish
  <2>1. PICK n \in Nat : n = Head(unpublished)
    BY <1>1, <1>12 DEF Publish
  <2>2. Tail(unpublished) \in Seq(Nat) /\ <<n>> \in Seq(Nat)
    BY <1>1, <1>12 DEF Publish
  <2>3. offered' \in Seq(Nat)
    BY <1>1, <1>3, <1>12, <2>1, <2>2 DEF Publish
  <2>4. PICK f : f = Retain(n)
    OBVIOUS
  <2>5. f \in [last : Nat, closed : BOOLEAN, ring : Seq(Nat), dropped : BOOLEAN]
    <3>1. CASE f = feed
      BY <1>1, <3>1
    <3>2. ASSUME NEW r \in Seq(Nat), f = [feed EXCEPT !.ring = Append(r, n), !.dropped = f.dropped],
                 f.dropped \in BOOLEAN
          PROVE  f \in [last : Nat, closed : BOOLEAN, ring : Seq(Nat), dropped : BOOLEAN]
      <4>1. Append(r, n) \in Seq(Nat)
        OBVIOUS
      <4>2. QED
        BY <1>1, <3>2, <4>1
    <3>3. \/ f = feed
          \/ \E r \in Seq(Nat) : /\ f = [feed EXCEPT !.ring = Append(r, n), !.dropped = f.dropped]
                                  /\ f.dropped \in BOOLEAN
      <4>1. Retains(n, f)
        BY <2>4, RetainIs
      <4>2. QED
        BY <4>1 DEF Retains
    <3>4. QED
      BY <3>1, <3>2, <3>3
  <2>6. feed' \in [last : Nat, closed : BOOLEAN, ring : Seq(Nat), dropped : BOOLEAN]
    <3>1. feed' = feed \/ feed' = [f EXCEPT !.last = n]
      BY <1>12, <2>1, <2>4 DEF Publish
    <3>2. QED
      BY <1>1, <2>5, <3>1
  <2>7. QED
    BY <1>1, <1>5, <1>12, <2>2, <2>3, <2>6 DEF Publish, FeedTypes
<1>13. CASE Subscribe
  <2>1. forward' \in ForwardRec
    BY <1>4, <1>13 DEF Subscribe, ForwardRec, Places
  <2>2. sub' \in SubRec
    BY <1>1, <1>4, <1>13 DEF Subscribe, SubRec, FeedLoadRec
  <2>3. QED
    BY <1>1, <1>5, <1>13, <2>1, <2>2 DEF Subscribe, FeedTypes
<1>14. ASSUME NEW w \in {"none", "eof", "lost", "replaced"}, Finishes(w)
       PROVE  forward' \in ForwardRec /\ sub' \in SubRec
  BY <1>14, FinishesTypes
<1>15. CASE TakeNext
  <2>1. UNCHANGED <<record, unpublished, offered, feed, got, shown, load>>
    BY <1>15 DEF TakeNext
  <2>2. CASE /\ forward.pending # <<>>
             /\ forward' = [forward EXCEPT !.at = "send", !.out = forward.pending[1],
                                           !.pending = Tail(@), !.empty = 0]
             /\ UNCHANGED <<sub, skips>>
    <3>1. Tail(forward.pending) \in Seq(EventRec) /\ forward.pending[1] \in EventRec
      BY <1>2, <2>2
    <3>2. forward' \in ForwardRec
      BY <1>1, <2>2, <3>1 DEF ForwardRec, Places
    <3>3. QED
      BY <1>1, <1>5, <2>1, <2>2, <3>2 DEF FeedTypes
  <2>3. CASE /\ sub' = [sub EXCEPT !.skipped = 0]
             /\ skips' = skips + sub.skipped
             /\ UNCHANGED forward
    <3>1. sub' \in SubRec
      BY <1>1, <2>3 DEF SubRec
    <3>2. skips' \in Nat
      <4>1. PICK a \in Nat, k \in Nat : a = skips /\ k = sub.skipped
        BY <1>1, <1>2
      <4>2. skips' = a + k
        BY <2>3, <4>1
      <4>3. QED
        BY <4>2
    <3>3. QED
      BY <1>1, <1>5, <2>1, <2>3, <3>1, <3>2 DEF FeedTypes
  <2>4. CASE /\ sub.queue # <<>>
             /\ forward' = [forward EXCEPT !.at = "send", !.empty = 0,
                                           !.out = [number |-> Head(sub.queue), epoch |-> 1]]
             /\ sub' = [sub EXCEPT !.queue = Tail(@)]
             /\ UNCHANGED skips
    <3>1. Tail(sub.queue) \in Seq(Nat) /\ Head(sub.queue) \in Nat
      BY <1>2, <2>4
    <3>2. [number |-> Head(sub.queue), epoch |-> 1] \in EventRec
      BY <3>1 DEF EventRec
    <3>3. forward' \in ForwardRec
      BY <1>1, <2>4, <3>2 DEF ForwardRec, Places
    <3>4. sub' \in SubRec
      BY <1>1, <2>4, <3>1 DEF SubRec
    <3>5. QED
      BY <1>1, <1>5, <2>1, <2>4, <3>3, <3>4 DEF FeedTypes
  <2>5. CASE forward' = [forward EXCEPT !.at = "read", !.after = sub.resume] /\ UNCHANGED <<sub, skips>>
    <3>1. forward' \in ForwardRec
      BY <1>1, <1>2, <2>5 DEF ForwardRec, Places
    <3>2. QED
      BY <1>1, <1>5, <2>1, <2>5, <3>1 DEF FeedTypes
  <2>6. CASE Finishes("eof") /\ UNCHANGED skips
    <3>1. forward' \in ForwardRec /\ sub' \in SubRec
      BY <1>14, <2>6
    <3>2. QED
      BY <1>1, <1>5, <2>1, <2>6, <3>1 DEF FeedTypes
  <2>7. CASE forward' = [forward EXCEPT !.at = "await"] /\ UNCHANGED <<sub, skips>>
    <3>1. forward' \in ForwardRec
      BY <1>1, <2>7 DEF ForwardRec, Places
    <3>2. QED
      BY <1>1, <1>5, <2>1, <2>7, <3>1 DEF FeedTypes
  <2>8. QED
    BY <1>15, <2>2, <2>3, <2>4, <2>5, <2>6, <2>7 DEF TakeNext
<1>16. CASE Next_
  <2>1. Append(got, forward.out) \in Seq(EventRec)
    BY <1>1, <1>2
  <2>2. CASE Finishes("eof")
    <3>1. forward' \in ForwardRec /\ sub' \in SubRec
      BY <1>14, <2>2
    <3>2. QED
      BY <1>1, <1>5, <1>16, <2>1, <3>1 DEF FeedTypes, Next_
  <2>3. CASE forward' = [forward EXCEPT !.at = "take", !.out = NoEvent] /\ UNCHANGED sub
    <3>1. forward' \in ForwardRec
      BY <1>1, <1>3, <2>3 DEF ForwardRec, Places
    <3>2. QED
      BY <1>1, <1>5, <1>16, <2>1, <2>3, <3>1 DEF FeedTypes, Next_
  <2>4. QED
    BY <1>16, <2>2, <2>3 DEF Next_
<1>17. CASE Await
  <2>1. forward' \in ForwardRec /\ sub' \in SubRec
    BY ZenonT(30), <1>1, <1>2, <1>17 DEF Await, ForwardRec, SubRec, Places
  <2>2. QED
    BY <1>1, <1>5, <1>17, <2>1 DEF FeedTypes, Await
<1>18. CASE Read
  <2>1. CASE RingLost(forward.after)
    <3>1. forward' \in ForwardRec /\ sub' \in SubRec
      BY <1>14, <1>18, <2>1 DEF Read
    <3>2. QED
      BY <1>1, <1>5, <1>18, <3>1 DEF FeedTypes, Read
  <2>2. CASE ~RingLost(forward.after)
    <3>1. PICK t : t = EventsAfter(forward.after)
      OBVIOUS
    <3>2. ~load.mixed /\ RingInv
      BY <1>18 DEF Read, FeedSafe, MixedInv, Reading, Looking
    <3>3. t \in Seq(Nat) /\ Follow(t, forward.after)
      BY <1>2, <2>2, <3>1, <3>2, EventsAfterAre
    <3>4. ReadEvents(t) \in Seq(EventRec)
      BY <1>2, <3>3, ReadEventsAre
    <3>5. \E p \in Places : forward' = [forward EXCEPT !.batch = ReadEvents(t), !.at = p]
      <4>1. PICK p : p = IF t = <<>> THEN (IF forward.at = "read" THEN "none" ELSE "take")
                         ELSE (IF forward.at = "read" THEN "verify" ELSE "verifyLook")
        OBVIOUS
      <4>2. p \in Places
        BY <4>1 DEF Places
      <4>3. forward' = [forward EXCEPT !.batch = ReadEvents(t), !.at = p]
        BY <1>18, <2>2, <3>1, <4>1 DEF Read, ReadEvents
      <4>4. QED
        BY <4>2, <4>3
    <3>6. forward' \in ForwardRec
      BY <1>1, <3>4, <3>5 DEF ForwardRec
    <3>7. QED
      BY <1>1, <1>5, <1>18, <2>2, <3>6 DEF FeedTypes, Read
  <2>3. QED
    BY <2>1, <2>2
<1>19. CASE Verify
  <2>1. CASE Finishes("replaced")
    <3>1. forward' \in ForwardRec /\ sub' \in SubRec
      BY <1>14, <2>1
    <3>2. QED
      BY <1>1, <1>5, <1>19, <3>1 DEF FeedTypes, Verify
  <2>2. CASE /\ forward' = [forward EXCEPT !.at = IF @ = "verify" THEN "caughtBatch" ELSE "looked"]
             /\ UNCHANGED sub
    <3>1. forward' \in ForwardRec
      BY <1>1, <2>2 DEF ForwardRec, Places
    <3>2. QED
      BY <1>1, <1>5, <1>19, <2>2, <3>1 DEF FeedTypes, Verify
  <2>3. QED
    BY <1>19, <2>1, <2>2 DEF Verify
<1>20. CASE CatchUpBatch
  <2>1. PICK n : n = forward.batch[Len(forward.batch)].number
    OBVIOUS
  <2>2. n \in Nat
    <3>1. forward.batch # <<>>
      BY <1>20 DEF CatchUpBatch, FeedSafe, ForwardInv
    <3>2. Len(forward.batch) \in DOMAIN forward.batch
      BY <1>2, <3>1
    <3>3. forward.batch[Len(forward.batch)] \in EventRec
      BY <1>2, <3>2
    <3>4. QED
      BY <2>1, <3>3 DEF EventRec
  <2>3. KeptAfter(0) \in Seq(EventRec)
    BY KeptAre
  <2>4. sub' \in SubRec
    BY <1>1, <1>2, <1>20, <2>1, <2>2 DEF CatchUpBatch, SubRec
  <2>5. forward' \in ForwardRec
    BY <1>1, <1>3, <1>20, <2>3 DEF CatchUpBatch, ForwardRec, Places
  <2>6. QED
    BY <1>1, <1>5, <1>20, <2>4, <2>5 DEF CatchUpBatch, FeedTypes
<1>21. CASE CatchUpNone
  <2>1. CASE Finishes("lost")
    <3>1. forward' \in ForwardRec /\ sub' \in SubRec
      BY <1>14, <2>1
    <3>2. QED
      BY <1>1, <1>5, <1>21, <3>1 DEF FeedTypes, CatchUpNone
  <2>2. CASE /\ sub' = [sub EXCEPT !.behind = FALSE, !.cursorSet = TRUE]
             /\ forward' = [forward EXCEPT !.at = "take", !.empty = 0]
    <3>1. forward' \in ForwardRec /\ sub' \in SubRec
      BY <1>1, <2>2 DEF ForwardRec, SubRec, Places
    <3>2. QED
      BY <1>1, <1>5, <1>21, <3>1 DEF FeedTypes, CatchUpNone
  <2>3. CASE forward' = [forward EXCEPT !.at = "take", !.empty = @ + 1] /\ UNCHANGED sub
    <3>1. PICK m \in Nat : m = forward.empty + 1
      BY <1>2
    <3>2. forward' = [forward EXCEPT !.at = "take", !.empty = m]
      BY <2>3, <3>1
    <3>3. forward' \in ForwardRec
      BY <1>1, <3>2 DEF ForwardRec, Places
    <3>4. QED
      BY <1>1, <1>5, <1>21, <2>3, <3>3 DEF FeedTypes, CatchUpNone
  <2>4. QED
    BY <1>21, <2>1, <2>2, <2>3 DEF CatchUpNone
<1>22. CASE Look
  <2>1. PICK n : n = forward.batch[Len(forward.batch)].number
    OBVIOUS
  <2>2. n \in Nat
    <3>1. forward.batch # <<>>
      BY <1>22 DEF Look, FeedSafe, ForwardInv
    <3>2. Len(forward.batch) \in DOMAIN forward.batch
      BY <1>2, <3>1
    <3>3. forward.batch[Len(forward.batch)] \in EventRec
      BY <1>2, <3>2
    <3>4. QED
      BY <2>1, <3>3 DEF EventRec
  <2>3. PICK k : k = KeptAfter(sub.cursor)
    OBVIOUS
  <2>4. NumbersOf(k) \in Seq(Nat)
    <3>1. k \in Seq(EventRec)
      BY <1>2, <2>3, KeptAre
    <3>2. QED
      BY <3>1, NumbersAre
  <2>5. \/ sub' = sub
        \/ sub' = [sub EXCEPT !.behind = TRUE, !.resume = sub.cursor]
        \/ sub' = [sub EXCEPT !.cursor = n, !.queue = @ \o NumbersOf(k)]
    BY <1>22, <2>1, <2>3 DEF Look, NumbersOf
  <2>6. sub.queue \o NumbersOf(k) \in Seq(Nat)
    BY <1>2, <2>4
  <2>7. sub' \in SubRec
    BY ZenonT(30), <1>1, <1>2, <2>2, <2>5, <2>6 DEF SubRec
  <2>8. forward' \in ForwardRec
    BY <1>1, <1>3, <1>22 DEF Look, ForwardRec, Places
  <2>9. QED
    BY <1>1, <1>5, <1>22, <2>7, <2>8 DEF Look, FeedTypes
<1>23. QED
  BY <1>6, <1>7, <1>8, <1>9, <1>10, <1>11, <1>12, <1>13, <1>15, <1>16, <1>17, <1>18, <1>19, <1>20,
     <1>21, <1>22 DEF FeedNext, Forwards, Publishes, FeedOutside

-----------------------------------------------------------------------------
(* What is published.                                                      *)

\* Numbers that follow each other, with the next one.
LEMMA EndsAppend ==
  ASSUME NEW s \in Seq(Nat), NEW n \in Nat, EndsAt(s, n), NEW m \in Nat, m = n + 1, NEW r, r = Append(s, m)
  PROVE  r \in Seq(Nat) /\ Len(r) = Len(s) + 1 /\ EndsAt(r, m)
<1>1. PICK k \in Nat : k = Len(s) /\ DOMAIN s = 1 .. k
  OBVIOUS
<1>2. r \in Seq(Nat) /\ Len(r) = k + 1 /\ DOMAIN r = 1 .. k + 1
  BY <1>1
<1>3. (\A i \in 1 .. k : r[i] = s[i]) /\ r[k + 1] = m
  BY <1>1
<1>4. ASSUME NEW i \in 1 .. k + 1 PROVE r[i] + (k + 1) = m + i
  <2>3. i = k + 1 \/ i \in 1 .. k
    OBVIOUS
  <2>1. CASE i = k + 1
    BY <1>3, <2>1
  <2>2. CASE i \in 1 .. k
    <3>1. PICK x \in Nat : x = s[i]
      BY <1>1, <2>2
    <3>2. x + k = n + i
      BY <1>1, <2>2, <3>1 DEF EndsAt
    <3>3. r[i] = x
      BY <1>3, <2>2, <3>1
    <3>4. x + (k + 1) = m + i
      BY <2>2, <3>2
    <3>5. QED
      BY <3>3, <3>4
  <2>4. QED
    BY <2>1, <2>2, <2>3
<1>5. QED
  BY <1>1, <1>2, <1>4 DEF EndsAt

\* A last part of numbers that follow each other.
LEMMA EndsPart ==
  ASSUME NEW s \in Seq(Nat), NEW n \in Nat, EndsAt(s, n), NEW r \in Seq(Nat), NEW k \in Nat,
         k <= Len(s), Part(r, s, k, Len(s), Nat)
  PROVE  EndsAt(r, n) /\ Len(r) = Len(s) - k
<1>1. PICK l \in Nat : l = Len(s) /\ DOMAIN s = 1 .. l
  OBVIOUS
<1>2. PICK m \in Nat : m = l - k
  <2>1. k <= l
    BY <1>1
  <2>2. l - k \in Nat
    BY <2>1
  <2>3. QED
    BY <2>2
<1>3. Len(r) = m /\ DOMAIN r = 1 .. m /\ \A i \in 1 .. m : r[i] = s[k + i]
  BY <1>1, <1>2 DEF Part
<1>4. ASSUME NEW i \in 1 .. m PROVE r[i] + m = n + i
  <2>1. PICK j \in 1 .. l : j = k + i
    BY <1>2
  <2>2. PICK x \in Nat : x = s[j]
    BY <1>1
  <2>3. x + l = n + j
    BY <1>1, <2>2 DEF EndsAt
  <2>4. r[i] = x
    BY <1>3, <2>1, <2>2
  <2>5. QED
    BY <1>2, <2>1, <2>3, <2>4
<1>5. QED
  BY <1>1, <1>2, <1>3, <1>4 DEF EndsAt

\* The first of numbers that follow each other, and the rest.
LEMMA EndsTail ==
  ASSUME NEW s \in Seq(Nat), NEW n \in Nat, EndsAt(s, n), s # <<>>
  PROVE  /\ Tail(s) \in Seq(Nat) /\ EndsAt(Tail(s), n) /\ Len(Tail(s)) = Len(s) - 1
         /\ Head(s) \in Nat /\ Head(s) + Len(s) = n + 1 /\ Len(s) \in Nat \ {0}
<1>1. PICK l \in Nat : l = Len(s) - 1 /\ Len(s) = l + 1 /\ DOMAIN s = 1 .. l + 1
  OBVIOUS
<1>2. PICK r : r = Tail(s)
  OBVIOUS
<1>3. r \in Seq(Nat) /\ Len(r) = l /\ DOMAIN r = 1 .. l /\ \A i \in 1 .. l : r[i] = s[i + 1]
  BY <1>1, <1>2
<1>4. ASSUME NEW i \in 1 .. l PROVE r[i] + l = n + i
  <2>1. PICK j \in 1 .. l + 1 : j = i + 1
    OBVIOUS
  <2>2. PICK x \in Nat : x = s[j]
    BY <1>1
  <2>3. x + (l + 1) = n + j
    BY <1>1, <2>2 DEF EndsAt
  <2>4. r[i] = x
    BY <1>3, <2>1, <2>2
  <2>5. QED
    BY <2>1, <2>3, <2>4
<1>5. 1 \in 1 .. l + 1 /\ Head(s) = s[1] /\ s[1] \in Nat
  BY <1>1
<1>6. s[1] + (l + 1) = n + 1
  BY <1>1, <1>5 DEF EndsAt
<1>7. QED
  BY SMTT(30), <1>1, <1>2, <1>3, <1>4, <1>5, <1>6 DEF EndsAt

\* Every step keeps PublishedInv and RingInv (Writer, publishLabeled, retain).
LEMMA PublishedNext ==
  ASSUME FeedAssumption, FeedTypes, PublishedInv, RingInv, FeedTypes', SameLoad, FeedNext
  PROVE  PublishedInv' /\ RingInv'
<1>1. /\ record.last \in Nat /\ feed.last \in Nat /\ feed.ring \in Seq(Nat) /\ unpublished \in Seq(Nat)
      /\ Len(unpublished) \in Nat /\ Len(feed.ring) \in Nat /\ record.epoch \in {1, 2}
  BY DEF FeedTypes
<1>2. ASSUME UNCHANGED <<record, unpublished, feed>>, offered' = <<>> \/ UNCHANGED offered
      PROVE  PublishedInv' /\ RingInv'
  BY <1>2 DEF PublishedInv, RingInv, SameLoad
<1>3. CASE Store
  <2>1. PICK m \in Nat : m = record.last + 1
    BY <1>1
  <2>2. /\ record'.last = m /\ record'.epoch = 1 /\ record.epoch = 1
        /\ unpublished' = Append(unpublished, m) /\ feed' = feed /\ offered' = offered
    BY <1>3, <2>1 DEF Store, FeedTypes
  <2>3. Len(unpublished') = Len(unpublished) + 1 /\ EndsAt(unpublished', m)
    BY <1>1, <2>1, <2>2, EndsAppend DEF PublishedInv
  <2>4. PICK l \in Nat, f \in Nat, z \in Nat : l = Len(unpublished) /\ f = feed.last /\ z = record.last
    BY <1>1
  <2>5. /\ f + l <= z => f + (l + 1) <= m
        /\ f + l = z => f + (l + 1) = m
    BY SMTT(30), <2>1, <2>4
  <2>6. PublishedInv'
    BY <2>2, <2>3, <2>4, <2>5 DEF PublishedInv
  <2>7. RingInv'
    BY <2>2, <2>3, <2>4, <2>5 DEF RingInv, SameLoad
  <2>8. QED
    BY <2>6, <2>7
<1>4. CASE StoreForeign
  <2>1. PICK m \in Nat : m = record.last + 1
    BY <1>1
  <2>2. /\ record'.last = m /\ record'.epoch = record.epoch
        /\ unpublished' = <<>> /\ unpublished = <<>> /\ feed' = feed /\ offered' = <<>> /\ load.source
    BY <1>4, <2>1 DEF StoreForeign, FeedTypes
  <2>3. EndsAt(<<>>, m) /\ Len(<<>>) = 0
    BY DEF EndsAt
  <2>4. record.epoch = 1 => feed.last + 0 <= m
    BY <1>1, <2>1, <2>2, <2>3 DEF PublishedInv
  <2>5. QED
    BY <2>2, <2>3, <2>4 DEF PublishedInv, RingInv, SameLoad
<1>5. CASE CreateAgain
  <2>1. /\ record'.epoch = 2 /\ unpublished' = <<>> /\ offered' = <<>> /\ load.source
    BY <1>5 DEF CreateAgain
  <2>2. EndsAt(<<>>, record'.last)
    BY DEF EndsAt
  <2>3. QED
    BY <2>1, <2>2 DEF PublishedInv, RingInv, SameLoad
<1>6. CASE EndFeed
  <2>1. /\ feed'.closed = TRUE /\ feed'.last = feed.last /\ feed'.ring = feed.ring
        /\ feed'.dropped = feed.dropped /\ UNCHANGED <<record, unpublished, offered>>
    BY <1>6 DEF EndFeed, FeedTypes
  <2>2. QED
    BY <2>1 DEF PublishedInv, RingInv, SameLoad
<1>7. CASE Publish
  <2>1. PICK n \in Nat, l \in Nat : n = Head(unpublished) /\ l = Len(unpublished) - 1 /\ Len(unpublished) = l + 1
    BY <1>1, <1>7 DEF Publish
  <2>2. PICK z \in Nat, f \in Nat : z = record.last /\ f = feed.last
    BY <1>1
  <2>3. EndsAt(Tail(unpublished), z) /\ Len(Tail(unpublished)) = l /\ n + l = z
    <3>1. /\ EndsAt(Tail(unpublished), z) /\ Len(Tail(unpublished)) = Len(unpublished) - 1
          /\ Head(unpublished) + Len(unpublished) = z + 1
      <4>1. EndsAt(unpublished, z) /\ unpublished # <<>>
        BY <1>7, <2>2 DEF Publish, PublishedInv
      <4>2. QED
        BY <1>1, <4>1, EndsTail
    <3>2. QED
      BY SMTT(30), <2>1, <2>2, <3>1
  <2>4. /\ unpublished' = Tail(unpublished) /\ record' = record /\ record.epoch = 1
        /\ f + (l + 1) <= z
    BY <1>7, <2>1, <2>2 DEF Publish, PublishedInv
  <2>5. CASE feed.closed
    <3>1. feed' = feed /\ offered' = <<>>
      BY <1>7, <2>5 DEF Publish
    <3>2. f + l <= z
      BY <2>4
    <3>3. PublishedInv'
      BY <2>2, <2>3, <2>4, <3>1, <3>2 DEF PublishedInv
    <3>4. RingInv'
      BY <2>4, <2>5, <3>1 DEF RingInv, SameLoad
    <3>5. QED
      BY <3>3, <3>4
  <2>6. CASE ~feed.closed
    <3>1. offered' = <<n>> \/ offered' = <<>>
      BY <1>7, <2>1, <2>6 DEF Publish
    <3>2. n > 0
      BY <2>3, <2>4
    <3>3. offered' # <<>> => offered'[1] > 0
      BY <3>1, <3>2
    <3>4. CASE load.mixed
      <4>1. feed' = feed /\ f + l <= z
        BY <1>7, <2>4, <2>6, <3>4 DEF Publish
      <4>2. QED
        BY <2>2, <2>3, <2>4, <3>3, <3>4, <4>1 DEF PublishedInv, RingInv, SameLoad
    <3>5. CASE ~load.mixed
      <4>1. PICK g : g = Retain(n)
        OBVIOUS
      <4>2. feed' = [g EXCEPT !.last = n]
        BY <1>7, <2>1, <2>6, <3>5, <4>1 DEF Publish
      <4>3. Retains(n, g)
        BY <4>1, RetainIs
      <4>4. feed'.last = n
        BY <4>2, <4>3 DEF Retains, FeedTypes
      <4>5. PublishedInv'
        BY <2>2, <2>3, <2>4, <3>3, <4>4 DEF PublishedInv
      <4>6. CASE load.source
        BY <4>5, <4>6 DEF RingInv, SameLoad
      <4>7. CASE ~load.source
        <5>1. PICK r \in Seq(Nat), k \in Nat :
                 /\ k <= Len(feed.ring) /\ Part(r, feed.ring, k, Len(feed.ring), Nat)
                 /\ (k > 0 => g.dropped)
                 /\ g = [feed EXCEPT !.ring = Append(r, n), !.dropped = g.dropped]
                 /\ (feed.dropped => g.dropped)
          BY <4>3, <4>7 DEF Retains
        <5>2. feed'.ring = Append(r, n) /\ feed'.dropped = g.dropped /\ feed'.closed = feed.closed
          BY <4>2, <5>1 DEF FeedTypes
        <5>3. /\ EndsAt(feed.ring, f) /\ Len(feed.ring) <= f /\ (~feed.dropped => Len(feed.ring) = f)
              /\ f + (l + 1) = z
          BY <2>1, <2>2, <2>6, <3>5, <4>7 DEF RingInv
        <5>4. n = f + 1
          BY <2>3, <5>3
        <5>5. EndsAt(r, f) /\ Len(r) = Len(feed.ring) - k
          BY <1>1, <5>1, <5>3, EndsPart
        <5>6. EndsAt(feed'.ring, n) /\ Len(feed'.ring) = Len(r) + 1
          BY <5>2, <5>4, <5>5, EndsAppend
        <5>7. PICK h \in Nat : h = Len(feed.ring)
          BY <1>1
        <5>8. Len(feed'.ring) <= n
          BY <5>3, <5>4, <5>5, <5>6, <5>7
        <5>9. ~feed'.dropped => Len(feed'.ring) = n
          <6>1. SUFFICES ASSUME ~feed'.dropped PROVE Len(feed'.ring) = n
            OBVIOUS
          <6>2. ~feed.dropped /\ ~(k > 0)
            BY <5>1, <5>2, <6>1
          <6>3. h = f /\ k = 0
            BY <5>3, <5>7, <6>2
          <6>4. QED
            BY <5>4, <5>5, <5>6, <5>7, <6>3
        <5>10. RingInv'
          BY <2>2, <2>3, <2>4, <4>4, <5>6, <5>8, <5>9 DEF RingInv
        <5>11. QED
          BY <4>5, <5>10
      <4>8. QED
        BY <4>6, <4>7
    <3>6. QED
      BY <3>4, <3>5
  <2>7. QED
    BY <2>5, <2>6
<1>8. CASE Offer
  BY <1>2, <1>8 DEF Offer
<1>9. CASE PublishDelta
  BY <1>2, <1>9 DEF PublishDelta
<1>10. CASE Subscribe
  BY <1>2, <1>10 DEF Subscribe
<1>11. CASE Forwards
  <2>1. UNCHANGED <<record, unpublished, feed, offered>>
    BY <1>11 DEF Forwards, TakeNext, Next_, Await, Read, Verify, CatchUpBatch, CatchUpNone, Look
  <2>2. QED
    BY <1>2, <2>1
<1>12. QED
  BY <1>3, <1>4, <1>5, <1>6, <1>7, <1>8, <1>9, <1>10, <1>11 DEF FeedNext, Publishes, FeedOutside

-----------------------------------------------------------------------------
(* What is left out, and what does not concern the subscription.           *)

\* Left grows with the bound, and strictly past an element.
LEMMA LeftIs ==
  ASSUME NEW U, NEW j \in Nat, NEW k \in Nat, j <= k
  PROVE  /\ Left(U, j) \in Nat /\ Left(U, k) \in Nat /\ Left(U, j) <= Left(U, k)
         /\ (\E n \in U : n \in j + 1 .. k) => Left(U, j) < Left(U, k)
<1>1. PICK A : A = {n \in U : n \in 1 .. j}
  OBVIOUS
<1>2. PICK B : B = {n \in U : n \in 1 .. k}
  OBVIOUS
<1>3. IsFiniteSet(B)
  <2>1. IsFiniteSet(1 .. k) /\ B \subseteq 1 .. k
    BY <1>2, FS_Interval
  <2>2. QED
    BY <2>1, FS_Subset
<1>4. A \subseteq B
  BY <1>1, <1>2
<1>5. Cardinality(A) \in Nat /\ Cardinality(B) \in Nat /\ Cardinality(A) <= Cardinality(B)
  BY <1>3, <1>4, FS_Subset, FS_CardinalityType
<1>6. ASSUME NEW n \in U, n \in j + 1 .. k PROVE Cardinality(A) < Cardinality(B)
  <2>1. n \in B /\ n \notin A
    BY <1>1, <1>2, <1>6
  <2>2. A # B
    BY <2>1
  <2>3. Cardinality(A) # Cardinality(B)
    BY <1>3, <1>4, <2>2, FS_Subset
  <2>4. QED
    BY <1>5, <2>3
<1>7. QED
  BY <1>1, <1>2, <1>5, <1>6 DEF Left

\* A stream that reads without an empty read may read.
LEMMA NoneEmpty ==
  ASSUME FeedTypes', forward'.empty = 0
  PROVE  EmptyInv'
<1>1. sub'.resume \in Nat
  BY DEF FeedTypes, SubRec
<1>2. PICK l : l = Left(load'.unwanted, sub'.resume)
  OBVIOUS
<1>3. l \in Nat
  <2>1. sub'.resume <= sub'.resume
    BY <1>1
  <2>2. QED
    BY <1>1, <1>2, <2>1, LeftIs
<1>4. 0 <= l + 1 /\ ~(0 > l) /\ 0 <= l
  BY <1>3
<1>5. QED
  BY <1>2, <1>4 DEF EmptyInv

\* A step that gives nothing keeps GivenInOrder.
LEMMA GivenStays ==
  ASSUME GivenInOrder, SameLoad, got' = got
  PROVE  GivenInOrder'
BY DEF GivenInOrder, Since, Wanted, SameLoad

\* The subscription has what it had.
SameSub ==
  /\ sub'.queue = sub.queue /\ sub'.cursor = sub.cursor /\ sub'.cursorSet = sub.cursorSet
  /\ sub'.behind = sub.behind /\ sub'.resume = sub.resume /\ sub'.skipped = sub.skipped
  /\ sub'.err = sub.err

\* The Record and the Feed grow.
Grows ==
  /\ record'.epoch = 1 => record.epoch = 1 /\ record.last <= record'.last
  /\ feed.dropped => feed'.dropped
  /\ feed.last <= feed'.last

\* A loss stays a real one: Records and what is dropped only grow.
LEMMA LossesStay ==
  ASSUME FeedAssumption, FeedTypes, FeedTypes', LossesAreReal, SameLoad, Grows, sub'.err = "lost" => sub.err = "lost"
  PROVE  LossesAreReal'
<1>1. SUFFICES ASSUME ~load.mixed, sub.err = "lost", ~feed'.dropped, record'.epoch = 1
               PROVE  Cardinality(LeftOut') >= EmptyReads
  BY DEF LossesAreReal, SameLoad
<1>2. Cardinality(LeftOut) >= EmptyReads /\ record.last <= record'.last
  BY <1>1 DEF LossesAreReal, Grows
<1>3. record.last \in Nat /\ record'.last \in Nat
  BY DEF FeedTypes
<1>4. PICK a \in Nat, b \in Nat :
        /\ a = Left(load.unwanted, record.last) /\ b = Left(load.unwanted, record'.last) /\ a <= b
  BY <1>2, <1>3, LeftIs
<1>5. Cardinality(LeftOut) = a /\ Cardinality(LeftOut') = b
  BY <1>4 DEF LeftOut, Left, SameLoad
<1>6. a >= EmptyReads
  BY <1>2, <1>5
<1>7. b >= EmptyReads
  BY <1>4, <1>6 DEF FeedAssumption
<1>8. QED
  BY <1>5, <1>7

\* What others do is nothing to the subscription.
LEMMA OutsideKeeps ==
  ASSUME FeedAssumption, FeedTypes, FeedTypes', FeedSafe, SameLoad, Grows, SameSub,
         UNCHANGED <<forward, got, skips, shown>>,
         forward.at = "new" => offered' = <<>> /\ sub' = sub
  PROVE  /\ ForwardInv' /\ MixedInv' /\ GivenInOrder' /\ LossesAreReal' /\ SkippedEventsAreCounted'
         /\ ~load'.mixed /\ ~StreamOver' => OrderInv' /\ CursorInv' /\ EmptyInv'
<1>1. ForwardInv'
  BY DEF FeedSafe, ForwardInv, SameSub, Grows
<1>2. MixedInv'
  BY DEF FeedSafe, MixedInv, SameSub, SameLoad
<1>3. GivenInOrder'
  BY GivenStays DEF FeedSafe
<1>4. LossesAreReal'
  BY LossesStay DEF FeedSafe, SameSub
<1>5. SkippedEventsAreCounted'
  BY DEF FeedSafe, SkippedEventsAreCounted, StreamOver, SameSub, SameLoad
<1>6. ASSUME ~load'.mixed, ~StreamOver' PROVE OrderInv' /\ CursorInv' /\ EmptyInv'
  <2>1. OrderInv /\ CursorInv /\ EmptyInv
    BY <1>6 DEF FeedSafe, StreamOver, SameLoad
  <2>2. OrderInv' /\ Held' = Held
    BY <2>1, OrderStays DEF SameSub
  <2>3. CursorInv'
    BY <2>1, <2>2 DEF CursorInv, Due, Wanted, SameLoad, SameSub
  <2>4. EmptyInv'
    <3>1. PICK l : l = Left(load.unwanted, sub.resume)
      OBVIOUS
    <3>2. sub.resume \in Nat /\ feed.last \in Nat /\ feed'.last \in Nat
      BY DEF FeedTypes, SubRec
    <3>3. feed.last > sub.resume => feed'.last > sub.resume
      BY <3>2 DEF Grows
    <3>4. QED
      BY <2>1, <3>1, <3>3 DEF EmptyInv, SameSub, SameLoad, Grows
  <2>5. QED
    BY <2>2, <2>3, <2>4
<1>7. QED
  BY <1>1, <1>2, <1>3, <1>4, <1>5, <1>6

\* The steps of the Writer, of other Instances and of the Feed keep what the subscriber has.
LEMMA OutsideNext ==
  ASSUME FeedAssumption, FeedTypes, FeedTypes', FeedSafe, SameLoad,
         Store \/ StoreForeign \/ CreateAgain \/ Publish \/ EndFeed
  PROVE  /\ ForwardInv' /\ MixedInv' /\ GivenInOrder' /\ LossesAreReal' /\ SkippedEventsAreCounted'
         /\ ~load'.mixed /\ ~StreamOver' => OrderInv' /\ CursorInv' /\ EmptyInv'
<1>1. record.last \in Nat /\ feed.last \in Nat /\ record'.last \in Nat
  BY DEF FeedTypes
<1>2. ForwardInv /\ PublishedInv
  BY DEF FeedSafe
<1>3. CASE Store
  <2>1. record'.epoch = record.epoch /\ record'.last = record.last + 1
    BY <1>3 DEF Store, FeedTypes
  <2>2. Grows
    BY <1>1, <1>3, <2>1 DEF Store, Grows
  <2>3. QED
    BY <1>2, <1>3, <2>2, OutsideKeeps DEF Store, SameSub, ForwardInv
<1>4. CASE StoreForeign
  <2>1. record'.epoch = record.epoch /\ record'.last = record.last + 1
    BY <1>4 DEF StoreForeign, FeedTypes
  <2>2. Grows
    BY <1>1, <1>4, <2>1 DEF StoreForeign, Grows
  <2>3. QED
    BY <1>2, <1>4, <2>2, OutsideKeeps DEF StoreForeign, SameSub, ForwardInv
<1>5. CASE CreateAgain
  <2>1. record'.epoch # 1
    BY <1>5 DEF CreateAgain
  <2>2. Grows
    BY <1>1, <1>5, <2>1 DEF CreateAgain, Grows
  <2>3. QED
    BY <1>2, <1>5, <2>2, OutsideKeeps DEF CreateAgain, SameSub, ForwardInv
<1>6. CASE EndFeed
  <2>1. feed'.last = feed.last /\ feed'.dropped = feed.dropped /\ record' = record
    BY <1>6 DEF EndFeed, FeedTypes
  <2>2. Grows
    BY <1>1, <2>1 DEF Grows
  <2>3. SameSub
    BY <1>6 DEF EndFeed, FeedTypes, SubRec, SameSub
  <2>4. forward.at # "new" /\ UNCHANGED <<forward, got, skips, shown>>
    BY <1>6 DEF EndFeed, Subscribed
  <2>5. QED
    BY <2>2, <2>3, <2>4, OutsideKeeps
<1>7. CASE Publish
  <2>1. PICK n \in Nat, l \in Nat : n = Head(unpublished) /\ l = Len(unpublished) - 1 /\ Len(unpublished) = l + 1
    <3>1. unpublished \in Seq(Nat) /\ unpublished # <<>>
      BY <1>7 DEF Publish, FeedTypes
    <3>2. Head(unpublished) \in Nat /\ Len(unpublished) \in Nat \ {0}
      BY <3>1
    <3>3. Len(unpublished) - 1 \in Nat /\ Len(unpublished) = (Len(unpublished) - 1) + 1
      BY <3>2
    <3>4. QED
      BY <3>2, <3>3
  <2>2. feed.last <= n
    <3>1. feed.last + (l + 1) <= record.last
      BY <1>2, <1>7, <2>1 DEF Publish, PublishedInv
    <3>2. n + (l + 1) = record.last + 1
      <4>1. EndsAt(unpublished, record.last) /\ unpublished # <<>> /\ unpublished \in Seq(Nat)
        BY <1>2, <1>7 DEF Publish, PublishedInv, FeedTypes
      <4>2. Head(unpublished) + Len(unpublished) = record.last + 1
        BY <1>1, <4>1, EndsTail
      <4>3. QED
        BY <2>1, <4>2
    <3>3. QED
      BY <1>1, <3>1, <3>2
  <2>3. PICK g : g = Retain(n)
    OBVIOUS
  <2>4. Retains(n, g)
    BY <2>3, RetainIs
  <2>5. feed' = feed \/ feed' = [g EXCEPT !.last = n]
    BY <1>7, <2>1, <2>3 DEF Publish
  <2>6. [g EXCEPT !.last = n].last = n /\ [g EXCEPT !.last = n].dropped = g.dropped
        /\ (feed.dropped => g.dropped)
    BY <2>4 DEF Retains, FeedTypes
  <2>7. Grows
    <3>1. record' = record
      BY <1>7 DEF Publish
    <3>2. (feed.dropped => feed'.dropped) /\ (feed'.last = feed.last \/ feed'.last = n)
      BY <2>5, <2>6
    <3>3. feed.last <= feed'.last
      BY <1>1, <2>2, <3>2
    <3>4. record.last <= record.last
      BY <1>1
    <3>5. QED
      BY <3>1, <3>2, <3>3, <3>4 DEF Grows
  <2>8. forward.at = "new" => offered' = <<>>
    BY <1>2, <1>7 DEF Publish, Subscribed, ForwardInv
  <2>9. QED
    BY <1>7, <2>7, <2>8, OutsideKeeps DEF Publish, SameSub
<1>8. QED
  BY <1>3, <1>4, <1>5, <1>6, <1>7

\* The subscription is kept right.
SubKept ==
  /\ ForwardInv' /\ MixedInv' /\ GivenInOrder' /\ LossesAreReal' /\ SkippedEventsAreCounted'
  /\ ~load'.mixed /\ ~StreamOver' => OrderInv' /\ CursorInv' /\ EmptyInv'

\* An offer, of an Event or of a delta, keeps the invariant.
LEMMA OfferedKeeps ==
  ASSUME FeedAssumption, FeedTypes, FeedTypes', FeedSafe, SameLoad, NEW n \in Nat,
         forward.at # "new", sub' = OfferTo(sub, n), shown' = IF Shows(n) THEN shown + 1 ELSE shown,
         UNCHANGED <<record, feed, forward, got, skips>>
  PROVE  SubKept
<1>1. ForwardInv /\ MixedInv /\ GivenInOrder /\ LossesAreReal /\ SkippedEventsAreCounted
  BY DEF FeedSafe
<1>2. sub \in SubRec /\ sub' \in SubRec /\ record.last \in Nat /\ feed.last \in Nat /\ load \in FeedLoadRec
  BY DEF FeedTypes
<1>3. GivenInOrder'
  BY <1>1, GivenStays
<1>4. Grows
  BY <1>2 DEF Grows
<1>5. CASE StreamOver
  <2>1. sub' = sub /\ StreamOver'
    BY <1>5 DEF OfferTo, StreamOver
  <2>2. LossesAreReal'
    BY <1>1, <1>4, <2>1, LossesStay
  <2>3. ForwardInv' /\ MixedInv' /\ SkippedEventsAreCounted'
    BY <1>1, <2>1 DEF ForwardInv, MixedInv, SkippedEventsAreCounted, SameLoad
  <2>4. QED
    BY <1>3, <2>1, <2>2, <2>3 DEF SubKept
<1>6. CASE ~StreamOver /\ ~load.mixed
  <2>1. OrderInv /\ CursorInv /\ EmptyInv
    BY <1>6 DEF FeedSafe
  <2>2. /\ OrderInv' /\ CursorInv'
        /\ sub.behind => sub' = sub
        /\ sub'.behind /\ ~sub.behind => sub'.cursorSet /\ sub'.resume = sub'.cursor
        /\ sub.cursorSet => sub'.cursorSet /\ sub.cursor <= sub'.cursor
        /\ sub'.err = sub.err
    BY <1>6, <2>1, OfferKeeps
  <2>3. LossesAreReal'
    BY <1>1, <1>4, <2>2, LossesStay
  <2>4. EmptyInv'
    <3>1. CASE sub.behind
      <4>1. sub' = sub
        BY <2>2, <3>1
      <4>2. QED
        BY <2>1, <4>1 DEF EmptyInv, SameLoad
    <3>2. CASE ~sub.behind /\ record.epoch = 1 /\ ~feed.dropped
      <4>1. forward'.empty = 0
        BY <2>1, <3>2 DEF EmptyInv
      <4>2. QED
        BY <4>1, NoneEmpty
    <3>3. CASE ~(record.epoch = 1 /\ ~feed.dropped)
      BY <3>3 DEF EmptyInv
    <3>4. QED
      BY <3>1, <3>2, <3>3
  <2>5. ForwardInv'
    <3>1. forward.at \in Looking => forward.after <= sub'.cursor /\ sub'.cursorSet
      <4>1. PICK a \in Nat, c \in Nat, d \in Nat : a = forward.after /\ c = sub.cursor /\ d = sub'.cursor
        BY DEF FeedTypes, SubRec, ForwardRec
      <4>2. QED
        BY <1>1, <2>2, <4>1 DEF ForwardInv
    <3>2. forward.at \in Reading \/ forward.pending # <<>> => sub' = sub
      BY <1>1, <2>2 DEF ForwardInv
    <3>3. sub'.behind => sub'.cursorSet /\ sub'.resume = sub'.cursor
      BY <1>1, <2>2 DEF ForwardInv
    <3>4. QED
      BY <1>1, <3>1, <3>2, <3>3 DEF ForwardInv
  <2>6. MixedInv' /\ SkippedEventsAreCounted'
    BY <1>6 DEF MixedInv, SkippedEventsAreCounted, SameLoad
  <2>7. QED
    BY <1>3, <2>2, <2>3, <2>4, <2>5, <2>6 DEF SubKept
<1>7. CASE ~StreamOver /\ load.mixed
  <2>1. LossesAreReal'
    BY <1>7 DEF LossesAreReal, SameLoad
  <2>2. ~sub.behind /\ forward.pending = <<>> /\ forward.at \notin Reading \cup Looking
    BY <1>1, <1>7 DEF MixedInv
  <2>3. PICK q \in Nat, k \in Nat : q = Len(sub.queue) /\ k = sub.skipped
    BY <1>2 DEF SubRec
  <2>4. PICK p \in Nat, m \in Nat : p = Len(sub'.queue) /\ m = sub'.skipped
    BY <1>2 DEF SubRec
  <2>5. ~sub'.behind /\ p + m = q + k + (IF Shows(n) THEN 1 ELSE 0)
    <3>1. CASE sub.ending \/ ~(n = 0 \/ Wanted(n))
      <4>1. sub' = sub /\ ~Shows(n)
        BY <1>7, <3>1 DEF OfferTo, Shows
      <4>2. QED
        BY <2>2, <2>3, <2>4, <4>1
    <3>2. CASE ~sub.ending /\ (n = 0 \/ Wanted(n))
      <4>1. sub' = Enqueue(sub, n) /\ Shows(n)
        BY <1>7, <2>2, <3>2 DEF OfferTo, Shows
      <4>2. CASE Joins(sub, n, sub')
        <5>1. Joined(sub, n, sub')
          BY <1>2, <4>2, JoinsIs
        <5>2. sub'.behind = sub.behind /\ p + m = q + k + 1
          BY <1>7, <2>3, <2>4, <5>1 DEF Joined
        <5>3. QED
          BY <2>2, <4>1, <5>2
      <4>3. CASE sub' = Skips(sub)
        <5>1. sub'.queue = sub.queue /\ sub'.behind = sub.behind /\ sub'.skipped = sub.skipped + 1
          BY <1>2, <1>7, <4>3 DEF Skips, SubRec
        <5>2. p = q /\ m = k + 1
          BY <2>3, <2>4, <5>1
        <5>3. QED
          BY <2>2, <4>1, <5>1, <5>2
      <4>4. QED
        BY <1>2, <1>7, <4>1, <4>2, <4>3, EnqueueIs
    <3>3. QED
      BY <3>1, <3>2
  <2>6. SkippedEventsAreCounted'
    <3>1. PICK g \in Nat, t \in Nat, w \in Nat, x \in Nat :
            /\ g = Len(got) /\ t = skips /\ w = shown
            /\ x = (IF forward.at = "send" THEN 1 ELSE 0)
      BY DEF FeedTypes
    <3>2. w = g + t + k + q + x
      BY <1>1, <1>7, <2>3, <3>1 DEF SkippedEventsAreCounted
    <3>3. PICK y \in Nat : y = (IF Shows(n) THEN 1 ELSE 0)
      OBVIOUS
    <3>4. shown' = w + y
      BY <3>1, <3>3
    <3>5. p + m = q + k + y
      BY <2>5, <3>3
    <3>6. w + y = g + t + m + p + x
      BY <3>2, <3>5
    <3>7. QED
      BY <2>4, <3>1, <3>4, <3>6 DEF SkippedEventsAreCounted
  <2>7. ForwardInv'
    <3>1. ForwardInv
      BY <1>1
    <3>2. QED
      BY <2>2, <2>5, <3>1 DEF ForwardInv
  <2>8. MixedInv'
    BY <2>2, <2>5 DEF MixedInv
  <2>9. QED
    BY <1>3, <1>7, <2>1, <2>6, <2>7, <2>8 DEF SubKept, SameLoad
<1>8. QED
  BY <1>5, <1>6, <1>7

\* Offer and PublishDelta keep the invariant.
LEMMA OfferNext ==
  ASSUME FeedAssumption, FeedTypes, FeedTypes', FeedSafe, SameLoad, Offer \/ PublishDelta
  PROVE  SubKept
<1>1. ForwardInv /\ PublishedInv
  BY DEF FeedSafe
<1>2. CASE Offer
  <2>1. forward.at # "new"
    BY <1>1, <1>2 DEF Offer, ForwardInv
  <2>2. PICK n \in Nat : n = offered[1]
    BY <1>2 DEF Offer, FeedTypes
  <2>3. QED
    BY <1>2, <2>1, <2>2, OfferedKeeps DEF Offer
<1>3. CASE PublishDelta
  <2>1. forward.at # "new"
    BY <1>3 DEF PublishDelta, Subscribed
  <2>2. CASE ~feed.closed
    BY <1>3, <2>1, <2>2, OfferedKeeps DEF PublishDelta
  <2>3. CASE feed.closed
    <3>1. UNCHANGED <<record, feed, forward, got, skips, shown, sub>>
      BY <1>3, <2>3 DEF PublishDelta
    <3>2. Grows /\ SameSub
      BY <3>1 DEF Grows, SameSub, FeedTypes
    <3>3. QED
      BY <2>1, <3>1, <3>2, OutsideKeeps DEF SubKept
  <2>4. QED
    BY <2>2, <2>3
<1>4. QED
  BY <1>2, <1>3

\* No Events are in order.
LEMMA Nothing ==
  Nums(<<>>) = {} /\ NumSet(<<>>) = {} /\ InOrder(<<>>) /\ Sorted(<<>>) /\ OfFirst(<<>>)
BY DEF Nums, NumSet, InOrder, Sorted, NumbersOf, OfFirst

\* Subscribe starts a stream that keeps the invariant (Feed.Subscribe).
LEMMA SubscribeNext ==
  ASSUME FeedAssumption, FeedTypes, FeedTypes', FeedSafe, SameLoad, Subscribe
  PROVE  SubKept
<1>1. ForwardInv /\ MixedInv /\ GivenInOrder /\ LossesAreReal
  BY DEF FeedSafe
<1>2. /\ forward.at = "new" /\ sub = NoSub /\ got = <<>> /\ got' = <<>> /\ skips' = skips /\ shown' = shown
      /\ record' = record /\ feed' = feed /\ load' = load
      /\ forward' = [at |-> "take", out |-> NoEvent, batch |-> <<>>, pending |-> <<>>, empty |-> 0,
                     after |-> 0]
  BY <1>1 DEF Subscribe, Subscribed, ForwardInv, Unstarted
<1>3. /\ sub'.queue = <<>> /\ sub'.err = "none" /\ sub'.skipped = 0 /\ sub'.resume = sub'.cursor
      /\ sub'.behind = sub'.cursorSet /\ sub'.cursorSet = (load.hasAfter /\ ~load.mixed)
      /\ sub'.cursorSet => sub'.cursor = load.after
  BY DEF Subscribe, NoSub, FeedTypes, FeedLoadRec
<1>4. GivenInOrder'
  BY <1>1, <1>2, GivenStays
<1>5. LossesAreReal'
  BY <1>3 DEF LossesAreReal
<1>6. ForwardInv'
  BY <1>2, <1>3 DEF ForwardInv, Reading, Looking
<1>7. MixedInv'
  BY <1>2, <1>3 DEF MixedInv, Reading, Looking
<1>8. SkippedEventsAreCounted'
  <2>1. Len(<<>>) = 0
    OBVIOUS
  <2>2. load.mixed => shown = 0 /\ skips = 0
    BY <1>1, <1>2 DEF MixedInv
  <2>3. QED
    BY <1>2, <1>3, <2>1, <2>2 DEF SkippedEventsAreCounted
<1>9. EmptyInv'
  BY <1>2, NoneEmpty
<1>11. Out' = {} /\ Queued' = {} /\ Held' = {}
  BY <1>2, <1>3, Nothing DEF Out, Queued, Held, NoEvent
<1>12. OrderInv'
  BY <1>2, <1>3, <1>11, Nothing DEF OrderInv, Below, NoEvent
<1>13. ~load.mixed => CursorInv'
  <2>1. SUFFICES ASSUME ~load.mixed PROVE CursorInv'
    OBVIOUS
  <2>2. load.after \in Nat
    BY DEF FeedTypes, FeedLoadRec
  <2>3. load'.hasAfter => \A n \in 1 .. load.after : ~Due(n)'
    BY <1>2, <2>2 DEF Due
  <2>4. sub'.cursorSet => load'.hasAfter /\ sub'.cursor = load.after
    BY <1>2, <1>3
  <2>5. load'.hasAfter => sub'.cursorSet /\ load'.after <= sub'.cursor
    <3>1. load.after <= load.after
      BY <2>2
    <3>2. load' = load
      BY <1>2
    <3>3. load.hasAfter => sub'.cursorSet /\ sub'.cursor = load.after
      BY <1>3, <2>1
    <3>4. QED
      BY <3>1, <3>2, <3>3
  <2>6. QED
    BY <1>11, <2>3, <2>4, <2>5 DEF CursorInv
<1>14. QED
  BY <1>2, <1>4, <1>5, <1>6, <1>7, <1>8, <1>9, <1>12, <1>13 DEF SubKept

\* A stream that ends keeps what is asked of an ended one.
LEMMA FinishKeeps ==
  ASSUME FeedAssumption, FeedTypes, FeedTypes', FeedSafe, SameLoad,
         NEW w \in {"none", "eof", "lost", "replaced"}, Finishes(w), GivenInOrder', LossesAreReal'
  PROVE  SubKept
<1>1. /\ forward' = [at |-> "ended", out |-> NoEvent, batch |-> <<>>, pending |-> <<>>,
                     empty |-> forward.empty, after |-> forward.after]
      /\ sub'.queue = <<>> /\ sub'.behind = sub.behind
      /\ sub'.cursorSet = sub.cursorSet /\ sub'.cursor = sub.cursor /\ sub'.resume = sub.resume
  BY FinishesTypes
<1>2. forward'.at = "ended" /\ forward'.out = NoEvent /\ forward'.pending = <<>>
  BY <1>1
<1>3. ForwardInv'
  BY <1>1, <1>2 DEF FeedSafe, ForwardInv, Reading, Looking
<1>4. MixedInv'
  BY <1>1, <1>2 DEF FeedSafe, MixedInv, Reading, Looking, SameLoad
<1>5. StreamOver'
  BY <1>2 DEF StreamOver
<1>6. QED
  BY <1>3, <1>4, <1>5 DEF SubKept, SkippedEventsAreCounted

-----------------------------------------------------------------------------
(* What the subscription gives.                                            *)

\* Next: the Event comes after those given, and nothing between is missing.
LEMMA NextGiven ==
  ASSUME FeedTypes, GivenInOrder, OrderInv, CursorInv, ~load.mixed, SameLoad,
         got' = Append(got, forward.out)
  PROVE  GivenInOrder'
<1>1. got \in Seq(EventRec) /\ forward.out \in EventRec
  BY DEF FeedTypes, ForwardRec
<1>2. PICK m \in Nat : m = Len(got) /\ DOMAIN got = 1 .. m
  BY <1>1
<1>3. PICK h : h = got'
  OBVIOUS
<1>4. h \in Seq(EventRec) /\ DOMAIN h = 1 .. m + 1 /\ h[m + 1] = forward.out
      /\ \A i \in 1 .. m : h[i] = got[i]
  BY <1>1, <1>2, <1>3
<1>5. PICK o \in Nat : o = forward.out.number
  BY <1>1 DEF EventRec
<1>7. \A i \in 1 .. m + 1 : h[i].epoch = 1
  <2>1. ASSUME NEW i \in 1 .. m + 1 PROVE h[i].epoch = 1
    <3>1. i = m + 1 \/ i \in 1 .. m
      OBVIOUS
    <3>2. forward.out.epoch = 1 /\ \A j \in 1 .. m : got[j].epoch = 1
      BY <1>2 DEF OrderInv, OfFirst
    <3>3. QED
      BY <1>4, <3>1, <3>2
  <2>2. QED
    BY <2>1
<1>8. \A i, j \in 1 .. m + 1 :
        i < j /\ h[i].number # 0 /\ h[j].number # 0 => h[i].number < h[j].number
  <2>1. InOrder(h)
    <3>1. InOrder(got) /\ Below(Nums(got), {forward.out.number} \ {0})
      BY DEF OrderInv, Out
    <3>2. QED
      BY <1>1, <1>3, <3>1, AppendEvent
  <2>2. NumbersOf(h) = [i \in 1 .. m + 1 |-> h[i].number]
    BY <1>4 DEF NumbersOf
  <2>3. QED
    BY <2>1, <2>2 DEF InOrder, Sorted
<1>9. \A n \in Nums(got) : \E k \in 1 .. m : got[k].number = n
  BY <1>2 DEF Nums, NumSet, NumbersOf
<1>10. \A k \in 1 .. m : got[k].number # 0 => got[k].number \in Held
  BY <1>2 DEF Nums, NumSet, NumbersOf, Held
<1>11. ASSUME NEW i \in 1 .. m + 1, h[i].number # 0
       PROVE  /\ Wanted(h[i].number)' /\ Since(i, h[i].number)'
              /\ \A n \in 1 .. h[i].number :
                   Wanted(n)' /\ Since(i, n)' => \E k \in 1 .. i : h[k].number = n
  <2>1. CASE i \in 1 .. m
    <3>1. ASSUME NEW n PROVE Since(i, n)' <=> Since(i, n)
      <4>1. \A k \in 1 .. i : k \in 1 .. m
        BY <2>1
      <4>2. \A k \in 1 .. i : h[k] = got[k]
        BY <1>4, <4>1
      <4>3. QED
        BY <1>3, <4>2 DEF Since, SameLoad
    <3>2. /\ Wanted(got[i].number) /\ Since(i, got[i].number)
          /\ \A n \in 1 .. got[i].number : Wanted(n) /\ Since(i, n) => \E k \in 1 .. i : got[k].number = n
      BY <1>2, <1>4, <1>11, <2>1 DEF GivenInOrder
    <3>3. h[i] = got[i] /\ \A k \in 1 .. i : h[k] = got[k]
      <4>1. \A k \in 1 .. i : k \in 1 .. m
        BY <2>1
      <4>2. QED
        BY <1>4, <2>1, <4>1
    <3>4. \A n : Wanted(n)' <=> Wanted(n)
      BY DEF Wanted, SameLoad
    <3>5. QED
      BY <3>1, <3>2, <3>3, <3>4
  <2>2. CASE i = m + 1
    <3>1. h[i].number = o /\ o # 0 /\ o \in Held
      BY <1>4, <1>5, <1>11, <2>2 DEF Held, Out
    <3>2. sub.cursorSet /\ o <= sub.cursor /\ Due(o) /\ sub.cursor \in Nat
      BY <3>1 DEF CursorInv, FeedTypes, SubRec
    <3>3. Wanted(o)'
      BY <3>2 DEF Due, Wanted, SameLoad
    <3>4. Since(i, o)'
      <4>1. CASE load.hasAfter
        BY <3>2, <4>1 DEF Since, Due, SameLoad
      <4>2. CASE ~load.hasAfter
        <5>1. i \in 1 .. i /\ h[i].number \in 1 .. o
          BY <2>2, <3>1
        <5>2. QED
          BY <1>3, <4>2, <5>1 DEF Since, SameLoad
      <4>3. QED
        BY <4>1, <4>2
    <3>5. ASSUME NEW n \in 1 .. o, Wanted(n)', Since(i, n)' PROVE \E k \in 1 .. i : h[k].number = n
      <4>1. n \in Nat /\ o \in Nat /\ n <= o /\ n # 0
        OBVIOUS
      <4>2. Wanted(n)
        BY <3>5 DEF Wanted, SameLoad
      <4>3. Due(n)
        <5>1. CASE load.hasAfter
          BY <3>5, <4>2, <5>1 DEF Due, Since, SameLoad
        <5>2. CASE ~load.hasAfter
          <6>1. PICK k \in 1 .. i : h[k].number \in 1 .. n
            BY <1>3, <3>5, <5>2 DEF Since, SameLoad
          <6>2. h[k].number \in Held /\ h[k].number <= n
            <7>1. k = m + 1 \/ k \in 1 .. m
              BY <2>2
            <7>2. h[k].number # 0 /\ h[k].number <= n
              BY <4>1, <6>1
            <7>3. CASE k = m + 1
              BY <2>2, <3>1, <7>2, <7>3
            <7>4. CASE k \in 1 .. m
              BY <1>4, <1>10, <7>2, <7>4
            <7>5. QED
              BY <7>1, <7>3, <7>4, <7>2
          <6>3. QED
            BY <4>2, <5>2, <6>2 DEF Due
        <5>3. QED
          BY <5>1, <5>2
      <4>4. n \in Held
        <5>1. n \in 1 .. sub.cursor
          BY <3>2, <4>1
        <5>2. QED
          BY <3>2, <4>3, <5>1 DEF CursorInv
      <4>5. CASE n = o
        <5>1. i \in 1 .. i
          BY <2>2
        <5>2. QED
          BY <3>1, <4>5, <5>1
      <4>6. CASE n # o
        <5>1. ~(o < n)
          BY <4>1
        <5>2. o \in Out
          BY <1>5, <3>1 DEF Out
        <5>3. n \notin Nums(forward.pending) /\ n \notin Queued
          BY <5>1, <5>2 DEF OrderInv, Below
        <5>4. n \notin Out
          BY <1>5, <4>6 DEF Out
        <5>5. n \in Nums(got)
          BY <4>4, <5>3, <5>4 DEF Held
        <5>6. PICK k \in 1 .. m : got[k].number = n
          BY <1>9, <5>5
        <5>7. k \in 1 .. i /\ h[k].number = n
          BY <1>4, <2>2, <5>6
        <5>8. QED
          BY <5>7
      <4>7. QED
        BY <4>5, <4>6
    <3>6. QED
      BY <3>1, <3>3, <3>4, <3>5
  <2>3. i = m + 1 \/ i \in 1 .. m
    OBVIOUS
  <2>4. QED
    BY <2>1, <2>2, <2>3
<1>12. DOMAIN got' = 1 .. m + 1
  BY <1>3, <1>4
<1>13. QED
  BY <1>3, <1>7, <1>8, <1>11, <1>12 DEF GivenInOrder

\* The goroutine goes elsewhere with what it has.
LEMMA MoveKeeps ==
  ASSUME FeedAssumption, FeedTypes, FeedTypes', FeedSafe, SameLoad, SameSub,
         UNCHANGED <<record, feed, got, skips, shown>>,
         forward'.out = forward.out, forward'.pending = forward.pending, forward'.empty = forward.empty,
         forward.at \notin {"new", "ended", "send"}, forward'.at \notin {"new", "ended", "send"}
  PROVE  /\ GivenInOrder' /\ LossesAreReal' /\ SkippedEventsAreCounted'
         /\ ~load.mixed => OrderInv' /\ CursorInv' /\ (forward'.at # "none" => EmptyInv')
<1>1. GivenInOrder'
  BY GivenStays DEF FeedSafe
<1>2. Grows
  BY DEF Grows, FeedTypes
<1>3. LossesAreReal'
  BY <1>2, LossesStay DEF FeedSafe, SameSub
<1>4. SkippedEventsAreCounted'
  BY DEF FeedSafe, SkippedEventsAreCounted, SameLoad, SameSub, StreamOver
<1>5. ASSUME ~load.mixed PROVE OrderInv' /\ CursorInv' /\ (forward'.at # "none" => EmptyInv')
  <2>1. OrderInv /\ CursorInv /\ EmptyInv
    BY <1>5 DEF FeedSafe, StreamOver
  <2>2. Held' = Held /\ OrderInv'
    BY <2>1 DEF OrderInv, Held, Queued, Out, SameSub
  <2>3. CursorInv'
    BY <2>1, <2>2, CursorStays DEF SameSub
  <2>4. forward'.at # "none" => EmptyInv'
    BY <2>1 DEF EmptyInv, SameSub, SameLoad
  <2>5. QED
    BY <2>2, <2>3, <2>4
<1>6. QED
  BY <1>1, <1>3, <1>4, <1>5

\* A stream that ends without a loss.
LEMMA EndKeeps ==
  ASSUME FeedAssumption, FeedTypes, FeedTypes', FeedSafe, SameLoad,
         NEW w \in {"eof", "replaced"}, Finishes(w), got' = got \/ GivenInOrder',
         UNCHANGED <<record, feed>>
  PROVE  SubKept
<1>1. GivenInOrder'
  BY GivenStays DEF FeedSafe
<1>2. sub'.err = w
  BY FinishesTypes
<1>3. LossesAreReal'
  BY <1>2 DEF LossesAreReal
<1>4. QED
  BY <1>1, <1>3, FinishKeeps

\* take gives what is read.
LEMMA TakePending ==
  ASSUME FeedAssumption, FeedTypes, FeedTypes', FeedSafe, SameLoad, forward.at = "take",
         forward.pending # <<>>,
         forward' = [forward EXCEPT !.at = "send", !.out = forward.pending[1],
                                    !.pending = Tail(@), !.empty = 0],
         UNCHANGED <<sub, skips, record, feed, got, shown>>
  PROVE  SubKept
<1>1. ForwardInv /\ MixedInv /\ GivenInOrder /\ LossesAreReal
  BY DEF FeedSafe
<1>2. ~load.mixed /\ ~StreamOver
  BY <1>1 DEF MixedInv, StreamOver
<1>3. OrderInv /\ CursorInv
  BY <1>2 DEF FeedSafe
<1>4. /\ forward'.at = "send" /\ forward'.out = forward.pending[1] /\ forward'.empty = 0
      /\ forward'.pending = Tail(forward.pending) /\ forward'.batch = forward.batch
      /\ forward'.after = forward.after
  BY DEF FeedTypes, ForwardRec
<1>5. forward.out = NoEvent /\ sub.behind /\ sub.queue = <<>> /\ sub.cursorSet /\ sub.resume = sub.cursor
  BY <1>1 DEF ForwardInv
<1>6. PICK s \in Seq(EventRec) : s = forward.pending
  BY DEF FeedTypes, ForwardRec
<1>7. /\ s[1] \in EventRec /\ 1 \in DOMAIN s
      /\ \A i \in DOMAIN Tail(s) : i + 1 \in DOMAIN s /\ Tail(s)[i] = s[i + 1]
      /\ Nums(s) = Nums(Tail(s)) \cup ({s[1].number} \ {0})
      /\ InOrder(s) => InOrder(Tail(s)) /\ Below({s[1].number} \ {0}, Nums(Tail(s)))
  BY <1>6, TailEvents
<1>8. Out = {} /\ Out' = {s[1].number} \ {0}
  BY <1>4, <1>5, <1>6 DEF Out, NoEvent
<1>9. Held' = Held
  <2>1. Queued' = Queued /\ Nums(got)' = Nums(got)
    BY DEF Queued, Nums
  <2>2. Nums(forward'.pending) = Nums(Tail(s)) /\ Nums(forward.pending) = Nums(s)
    BY <1>4, <1>6
  <2>3. QED
    BY <1>7, <1>8, <2>1, <2>2 DEF Held
<1>10. CursorInv'
  BY <1>3, <1>9, CursorStays
<1>11. OrderInv'
  <2>1. Queued' = {} /\ Sorted(sub'.queue)
    BY <1>5 DEF Queued, NumSet, Sorted
  <2>2. InOrder(s) /\ Below(Nums(got), Nums(s)) /\ OfFirst(s) /\ InOrder(got) /\ OfFirst(got)
    BY <1>3, <1>6 DEF OrderInv
  <2>3. Below(Nums(got), Nums(Tail(s))) /\ Below(Nums(got), Out')
    BY <1>7, <1>8, <2>2 DEF Below
  <2>4. OfFirst(Tail(s)) /\ s[1].epoch = 1
    BY <1>7, <2>2 DEF OfFirst
  <2>5. Below(Nums(got), {}) /\ Below(Out', {})
    BY DEF Below
  <2>6. QED
    BY <1>4, <1>6, <1>7, <1>8, <2>1, <2>2, <2>3, <2>4, <2>5 DEF OrderInv
<1>12. EmptyInv'
  BY <1>4, NoneEmpty
<1>13. GivenInOrder'
  BY <1>1, GivenStays
<1>14. LossesAreReal'
  BY <1>1 DEF LossesAreReal, LeftOut, SameLoad
<1>15. ForwardInv'
  BY <1>4, <1>5 DEF ForwardInv, Reading, Looking
<1>16. MixedInv' /\ SkippedEventsAreCounted'
  BY <1>2 DEF MixedInv, SkippedEventsAreCounted, SameLoad
<1>17. QED
  BY <1>10, <1>11, <1>12, <1>13, <1>14, <1>15, <1>16 DEF SubKept

\* take tells what was skipped.
LEMMA TakeSkipped ==
  ASSUME FeedAssumption, FeedTypes, FeedTypes', FeedSafe, SameLoad, forward.at = "take",
         sub' = [sub EXCEPT !.skipped = 0], skips' = skips + sub.skipped,
         UNCHANGED <<forward, record, feed, got, shown>>
  PROVE  SubKept
<1>1. ForwardInv /\ MixedInv /\ GivenInOrder /\ LossesAreReal /\ SkippedEventsAreCounted
  BY DEF FeedSafe
<1>2. /\ sub'.queue = sub.queue /\ sub'.cursor = sub.cursor /\ sub'.cursorSet = sub.cursorSet
      /\ sub'.behind = sub.behind /\ sub'.resume = sub.resume /\ sub'.skipped = 0
      /\ sub'.err = sub.err
  BY DEF FeedTypes, SubRec
<1>3. ForwardInv' /\ MixedInv'
  BY <1>1, <1>2 DEF ForwardInv, MixedInv, SameLoad
<1>4. GivenInOrder'
  BY <1>1, GivenStays
<1>5. LossesAreReal'
  BY <1>1, <1>2 DEF LossesAreReal, LeftOut, SameLoad
<1>6. SkippedEventsAreCounted'
  <2>1. PICK g \in Nat, t \in Nat, k \in Nat, q \in Nat :
          g = Len(got) /\ t = skips /\ k = sub.skipped /\ q = Len(sub.queue)
    <3>1. got \in Seq(EventRec) /\ skips \in Nat /\ sub.skipped \in Nat /\ sub.queue \in Seq(Nat)
      BY DEF FeedTypes, SubRec
    <3>2. Len(got) \in Nat /\ Len(sub.queue) \in Nat
      BY <3>1
    <3>3. QED
      BY <3>1, <3>2
  <2>2. load.mixed => shown = g + t + k + q + 0
    BY <1>1, <2>1 DEF SkippedEventsAreCounted, StreamOver
  <2>3. skips' = t + k
    BY <2>1
  <2>4. g + t + k + q + 0 = g + (t + k) + 0 + q + 0
    OBVIOUS
  <2>5. load.mixed => shown = g + skips' + 0 + q + 0
    BY <2>2, <2>3, <2>4
  <2>6. QED
    BY <1>2, <2>1, <2>5 DEF SkippedEventsAreCounted, SameLoad
<1>7. ~load.mixed => OrderInv' /\ CursorInv' /\ EmptyInv'
  <2>1. SUFFICES ASSUME ~load.mixed PROVE OrderInv' /\ CursorInv' /\ EmptyInv'
    OBVIOUS
  <2>2. OrderInv /\ CursorInv /\ EmptyInv
    BY <2>1 DEF FeedSafe, StreamOver
  <2>3. OrderInv' /\ Held' = Held
    BY <1>2, <2>2, OrderStays
  <2>4. CursorInv'
    BY <1>2, <2>2, <2>3, CursorStays
  <2>5. EmptyInv'
    BY <1>2, <2>2 DEF EmptyInv, SameLoad
  <2>6. QED
    BY <2>3, <2>4, <2>5
<1>8. QED
  BY <1>3, <1>4, <1>5, <1>6, <1>7 DEF SubKept, SameLoad

\* take gives what is queued.
LEMMA TakeQueued ==
  ASSUME FeedAssumption, FeedTypes, FeedTypes', FeedSafe, SameLoad, forward.at = "take",
         forward.pending = <<>>, sub.queue # <<>>,
         forward' = [forward EXCEPT !.at = "send", !.empty = 0,
                                    !.out = [number |-> Head(sub.queue), epoch |-> 1]],
         sub' = [sub EXCEPT !.queue = Tail(@)],
         UNCHANGED <<skips, record, feed, got, shown>>
  PROVE  SubKept
<1>1. ForwardInv /\ MixedInv /\ GivenInOrder /\ LossesAreReal /\ SkippedEventsAreCounted
  BY DEF FeedSafe
<1>2. PICK q \in Seq(Nat) : q = sub.queue
  BY DEF FeedTypes, SubRec
<1>3. /\ forward'.at = "send" /\ forward'.empty = 0 /\ forward'.pending = <<>>
      /\ forward'.out = [number |-> Head(q), epoch |-> 1]
  BY <1>2 DEF FeedTypes, ForwardRec
<1>4. /\ sub'.queue = Tail(q) /\ sub'.cursor = sub.cursor /\ sub'.cursorSet = sub.cursorSet
      /\ sub'.behind = sub.behind /\ sub'.resume = sub.resume /\ sub'.skipped = sub.skipped
      /\ sub'.err = sub.err
  BY <1>2 DEF FeedTypes, SubRec
<1>5. /\ Tail(q) \in Seq(Nat) /\ Len(Tail(q)) = Len(q) - 1 /\ Head(q) \in Nat
      /\ NumSet(q) = NumSet(Tail(q)) \cup ({Head(q)} \ {0})
      /\ Sorted(q) => Sorted(Tail(q)) /\ Below({Head(q)} \ {0}, NumSet(Tail(q)))
  BY <1>2, TailNums
<1>6. ForwardInv' /\ MixedInv'
  BY <1>1, <1>3, <1>4 DEF ForwardInv, MixedInv, Reading, Looking, SameLoad
<1>7. GivenInOrder'
  BY <1>1, GivenStays
<1>8. LossesAreReal'
  BY <1>1, <1>4 DEF LossesAreReal, LeftOut, SameLoad
<1>9. SkippedEventsAreCounted'
  <2>1. PICK g \in Nat, t \in Nat, k \in Nat, l \in Nat :
          g = Len(got) /\ t = skips /\ k = sub.skipped /\ l = Len(q)
    <3>1. got \in Seq(EventRec) /\ skips \in Nat /\ sub.skipped \in Nat /\ sub.queue \in Seq(Nat)
      BY DEF FeedTypes, SubRec
    <3>2. Len(got) \in Nat /\ Len(q) \in Nat
      BY <3>1
    <3>3. QED
      BY <3>1, <3>2
  <2>2. load.mixed => shown = g + t + k + l + 0
    BY <1>1, <1>2, <2>1 DEF SkippedEventsAreCounted, StreamOver
  <2>3. g + t + k + l + 0 = g + t + k + (l - 1) + 1
    OBVIOUS
  <2>4. load.mixed => shown = g + t + k + (l - 1) + 1
    BY <2>2, <2>3
  <2>5. Len(sub'.queue) = l - 1
    BY <1>4, <1>5, <2>1
  <2>6. QED
    BY <1>3, <1>4, <2>1, <2>4, <2>5 DEF SkippedEventsAreCounted, SameLoad
<1>10. ~load.mixed => OrderInv' /\ CursorInv'
  <2>1. SUFFICES ASSUME ~load.mixed PROVE OrderInv' /\ CursorInv'
    OBVIOUS
  <2>2. OrderInv /\ CursorInv
    BY <2>1 DEF FeedSafe, StreamOver
  <2>3. Out = {} /\ Out' = {Head(q)} \ {0} /\ Queued = NumSet(q) /\ Queued' = NumSet(Tail(q))
    BY <1>1, <1>2, <1>3, <1>4 DEF Out, Queued, ForwardInv, NoEvent
  <2>4. Nums(forward.pending) = {} /\ Nums(forward'.pending) = {} /\ InOrder(forward'.pending)
        /\ OfFirst(forward'.pending)
    BY <1>3, Nothing
  <2>5. Held' = Held
    BY <1>5, <2>3, <2>4 DEF Held
  <2>6. CursorInv'
    BY <1>4, <2>2, <2>5, CursorStays
  <2>7. Sorted(q) /\ Below(Nums(got), NumSet(q)) /\ InOrder(got) /\ OfFirst(got)
    BY <1>2, <2>2, <2>3 DEF OrderInv
  <2>8. Below(Nums(got), NumSet(Tail(q))) /\ Below(Nums(got), Out')
    BY <1>5, <2>3, <2>7 DEF Below
  <2>9. Below(Nums(got), {}) /\ Below(Out', {})
    BY DEF Below
  <2>10. OrderInv'
    <3>1. Sorted(sub'.queue) /\ Below(Out', Queued')
      BY <1>4, <1>5, <2>3, <2>7
    <3>2. forward'.out.epoch = 1
      BY <1>3
    <3>3. QED
      BY <2>3, <2>4, <2>7, <2>8, <2>9, <3>1, <3>2 DEF OrderInv
  <2>11. QED
    BY <2>6, <2>10
<1>11. EmptyInv'
  BY <1>3, NoneEmpty
<1>12. QED
  BY <1>6, <1>7, <1>8, <1>9, <1>10, <1>11 DEF SubKept, SameLoad

\* take keeps the invariant (subscription.take, popQueued).
LEMMA TakeNextKeeps ==
  ASSUME FeedAssumption, FeedTypes, FeedTypes', FeedSafe, SameLoad, TakeNext
  PROVE  SubKept
<1>1. forward.at = "take" /\ UNCHANGED <<record, feed, got, shown>>
  BY DEF TakeNext
<1>2. ForwardInv /\ MixedInv
  BY DEF FeedSafe
<1>3. CASE /\ forward.pending # <<>>
           /\ forward' = [forward EXCEPT !.at = "send", !.out = forward.pending[1],
                                         !.pending = Tail(@), !.empty = 0]
           /\ UNCHANGED <<sub, skips>>
  BY <1>1, <1>3, TakePending
<1>4. CASE sub' = [sub EXCEPT !.skipped = 0] /\ skips' = skips + sub.skipped /\ UNCHANGED forward
  BY <1>1, <1>4, TakeSkipped
<1>5. CASE /\ forward.pending = <<>> /\ sub.queue # <<>>
           /\ forward' = [forward EXCEPT !.at = "send", !.empty = 0,
                                         !.out = [number |-> Head(sub.queue), epoch |-> 1]]
           /\ sub' = [sub EXCEPT !.queue = Tail(@)]
           /\ UNCHANGED skips
  BY <1>1, <1>5, TakeQueued
<1>6. CASE /\ forward.pending = <<>> /\ sub.queue = <<>> /\ sub.behind
           /\ forward' = [forward EXCEPT !.at = "read", !.after = sub.resume]
           /\ UNCHANGED <<sub, skips>>
  <2>1. /\ forward'.at = "read" /\ forward'.out = forward.out /\ forward'.pending = forward.pending
        /\ forward'.empty = forward.empty /\ forward'.after = sub.resume
    BY <1>6 DEF FeedTypes, ForwardRec
  <2>2. SameSub
    BY <1>6 DEF SameSub
  <2>3. /\ GivenInOrder' /\ LossesAreReal' /\ SkippedEventsAreCounted'
        /\ ~load.mixed => OrderInv' /\ CursorInv' /\ EmptyInv'
    BY <1>1, <1>6, <2>1, <2>2, MoveKeeps
  <2>4. ForwardInv'
    BY <1>1, <1>2, <1>6, <2>1 DEF ForwardInv, Reading, Looking
  <2>5. MixedInv'
    BY <1>2, <1>6 DEF MixedInv, SameLoad
  <2>6. QED
    BY <2>3, <2>4, <2>5 DEF SubKept, SameLoad
<1>7. CASE Finishes("eof") /\ UNCHANGED skips
  BY <1>1, <1>7, EndKeeps
<1>8. CASE /\ forward.pending = <<>> /\ forward' = [forward EXCEPT !.at = "await"]
           /\ UNCHANGED <<sub, skips>>
  <2>1. /\ forward'.at = "await" /\ forward'.out = forward.out /\ forward'.pending = forward.pending
        /\ forward'.empty = forward.empty /\ forward'.after = forward.after
    BY <1>8 DEF FeedTypes, ForwardRec
  <2>2. SameSub
    BY <1>8 DEF SameSub
  <2>3. /\ GivenInOrder' /\ LossesAreReal' /\ SkippedEventsAreCounted'
        /\ ~load.mixed => OrderInv' /\ CursorInv' /\ EmptyInv'
    BY <1>1, <1>8, <2>1, <2>2, MoveKeeps
  <2>4. ForwardInv'
    BY <1>1, <1>2, <1>8, <2>1 DEF ForwardInv, Reading, Looking
  <2>5. MixedInv'
    BY <1>2, <1>8, <2>1 DEF MixedInv, SameLoad, Reading, Looking
  <2>6. QED
    BY <2>3, <2>4, <2>5 DEF SubKept, SameLoad
<1>9. QED
  BY <1>3, <1>4, <1>5, <1>6, <1>7, <1>8 DEF TakeNext

\* Next keeps the invariant: what it returns is in order and leaves no gap.
LEMMA NextKeeps ==
  ASSUME FeedAssumption, FeedTypes, FeedTypes', FeedSafe, SameLoad, Next_
  PROVE  SubKept
<1>1. ForwardInv /\ MixedInv /\ GivenInOrder /\ LossesAreReal /\ SkippedEventsAreCounted
  BY DEF FeedSafe
<1>2. /\ forward.at = "send" /\ got' = Append(got, forward.out)
      /\ UNCHANGED <<record, feed, skips, shown>>
  BY DEF Next_
<1>3. ~load.mixed => OrderInv /\ CursorInv /\ EmptyInv
  BY <1>2 DEF FeedSafe, StreamOver
<1>4. GivenInOrder'
  <2>1. CASE load.mixed
    BY <2>1 DEF GivenInOrder, SameLoad
  <2>2. CASE ~load.mixed
    BY <1>1, <1>2, <1>3, <2>2, NextGiven
  <2>3. QED
    BY <2>1, <2>2
<1>5. CASE Finishes("eof")
  BY <1>2, <1>4, <1>5, EndKeeps
<1>6. CASE forward' = [forward EXCEPT !.at = "take", !.out = NoEvent] /\ UNCHANGED sub
  <2>1. /\ forward'.at = "take" /\ forward'.out = NoEvent /\ forward'.pending = forward.pending
        /\ forward'.empty = forward.empty
    BY <1>6 DEF FeedTypes, ForwardRec
  <2>2. ForwardInv' /\ MixedInv'
    BY <1>1, <1>6, <2>1 DEF ForwardInv, MixedInv, Reading, Looking, SameLoad
  <2>3. LossesAreReal'
    BY <1>1, <1>2, <1>6 DEF LossesAreReal, LeftOut, SameLoad
  <2>4. got \in Seq(EventRec) /\ forward.out \in EventRec
    BY DEF FeedTypes, ForwardRec
  <2>5. /\ Len(got') = Len(got) + 1
        /\ Nums(got') = Nums(got) \cup Out
        /\ InOrder(got) /\ Below(Nums(got), Out) => InOrder(got')
    BY <1>2, <2>4, AppendEvent DEF Out
  <2>6. SkippedEventsAreCounted'
    <3>1. PICK g \in Nat, t \in Nat, k \in Nat, q \in Nat :
            g = Len(got) /\ t = skips /\ k = sub.skipped /\ q = Len(sub.queue)
      <4>1. skips \in Nat /\ sub.skipped \in Nat /\ sub.queue \in Seq(Nat)
        BY DEF FeedTypes, SubRec
      <4>2. Len(got) \in Nat /\ Len(sub.queue) \in Nat
        BY <2>4, <4>1
      <4>3. QED
        BY <4>1, <4>2
    <3>2. load.mixed => shown = g + t + k + q + 1
      BY <1>1, <1>2, <3>1 DEF SkippedEventsAreCounted, StreamOver
    <3>3. g + t + k + q + 1 = (g + 1) + t + k + q + 0
      OBVIOUS
    <3>4. load.mixed => shown = (g + 1) + t + k + q + 0
      BY <3>2, <3>3
    <3>5. Len(got') = g + 1
      BY <2>5, <3>1
    <3>6. QED
      BY <1>2, <1>6, <2>1, <3>1, <3>4, <3>5 DEF SkippedEventsAreCounted, SameLoad
  <2>7. ~load.mixed => OrderInv' /\ CursorInv' /\ EmptyInv'
    <3>1. SUFFICES ASSUME ~load.mixed PROVE OrderInv' /\ CursorInv' /\ EmptyInv'
      OBVIOUS
    <3>2. Out' = {} /\ Queued' = Queued
      BY <1>6, <2>1 DEF Out, NoEvent, Queued
    <3>3. Held' = Held
      BY <2>1, <2>5, <3>2 DEF Held
    <3>4. CursorInv'
      BY <1>2, <1>3, <1>6, <3>1, <3>3, CursorStays
    <3>5. OrderInv'
      <4>1. OrderInv
        BY <1>3, <3>1
      <4>2. InOrder(got') /\ Sorted(sub'.queue) /\ InOrder(forward'.pending) /\ OfFirst(forward'.pending)
        BY <1>6, <2>1, <2>5, <4>1 DEF OrderInv
      <4>3. Below(Nums(got'), Nums(forward'.pending)) /\ Below(Nums(got'), Queued')
        BY <2>1, <2>5, <3>2, <4>1 DEF OrderInv, Below
      <4>4. Below(Nums(got'), {}) /\ Below({}, Nums(forward'.pending)) /\ Below({}, Queued')
        BY DEF Below
      <4>5. OfFirst(got') /\ forward'.out.epoch = 1
        BY <1>4, <2>1, <3>1 DEF GivenInOrder, OfFirst, NoEvent, SameLoad
      <4>6. QED
        BY <3>2, <4>2, <4>3, <4>4, <4>5 DEF OrderInv
    <3>6. EmptyInv'
      <4>1. CASE record.epoch = 1 /\ ~feed.dropped
        <5>1. forward'.empty = 0
          BY <1>2, <1>3, <2>1, <3>1, <4>1 DEF EmptyInv
        <5>2. QED
          BY <5>1, NoneEmpty
      <4>2. CASE ~(record.epoch = 1 /\ ~feed.dropped)
        BY <1>2, <4>2 DEF EmptyInv
      <4>3. QED
        BY <4>1, <4>2
    <3>7. QED
      BY <3>4, <3>5, <3>6
  <2>8. QED
    BY <1>4, <2>2, <2>3, <2>6, <2>7 DEF SubKept, SameLoad
<1>7. QED
  BY <1>5, <1>6 DEF Next_

\* await keeps the invariant.
LEMMA AwaitKeeps ==
  ASSUME FeedAssumption, FeedTypes, FeedTypes', FeedSafe, SameLoad, Await
  PROVE  SubKept
<1>1. ForwardInv /\ MixedInv
  BY DEF FeedSafe
<1>2. forward.at = "await" /\ UNCHANGED <<record, feed, got, skips, shown>>
  BY DEF Await
<1>3. CASE sub' = [sub EXCEPT !.wake = FALSE] /\ forward' = [forward EXCEPT !.at = "take"]
  <2>1. SameSub
    BY <1>3 DEF SameSub, FeedTypes, SubRec
  <2>2. /\ forward'.at = "take" /\ forward'.out = forward.out /\ forward'.pending = forward.pending
        /\ forward'.empty = forward.empty
    BY <1>3 DEF FeedTypes, ForwardRec
  <2>3. /\ GivenInOrder' /\ LossesAreReal' /\ SkippedEventsAreCounted'
        /\ ~load.mixed => OrderInv' /\ CursorInv' /\ EmptyInv'
    BY <1>2, <2>1, <2>2, MoveKeeps
  <2>4. ForwardInv' /\ MixedInv'
    BY <1>1, <1>2, <2>1, <2>2 DEF ForwardInv, MixedInv, Reading, Looking, SameLoad, SameSub
  <2>5. QED
    BY <2>3, <2>4 DEF SubKept, SameLoad
<1>4. CASE /\ ~load.mixed /\ sub.cursorSet /\ UNCHANGED sub
           /\ forward' = [forward EXCEPT !.at = "look", !.after = sub.cursor]
  <2>1. SameSub
    BY <1>4 DEF SameSub
  <2>2. /\ forward'.at = "look" /\ forward'.out = forward.out /\ forward'.pending = forward.pending
        /\ forward'.empty = forward.empty /\ forward'.after = sub.cursor
    BY <1>4 DEF FeedTypes, ForwardRec
  <2>3. /\ GivenInOrder' /\ LossesAreReal' /\ SkippedEventsAreCounted'
        /\ ~load.mixed => OrderInv' /\ CursorInv' /\ EmptyInv'
    BY <1>2, <2>1, <2>2, MoveKeeps
  <2>4. sub.cursor <= sub.cursor
    BY DEF FeedTypes, SubRec
  <2>5. ForwardInv' /\ MixedInv'
    BY <1>1, <1>2, <1>4, <2>2, <2>4 DEF ForwardInv, MixedInv, Reading, Looking, SameLoad
  <2>6. QED
    BY <2>3, <2>5 DEF SubKept, SameLoad
<1>5. QED
  BY <1>3, <1>4 DEF Await

\* A read of the Record or of the ring keeps the invariant (subscription.read).
LEMMA ReadKeeps ==
  ASSUME FeedAssumption, FeedTypes, FeedTypes', FeedSafe, SameLoad, Read
  PROVE  SubKept
<1>1. ForwardInv /\ MixedInv /\ RingInv /\ PublishedInv
  BY DEF FeedSafe
<1>2. forward.at \in {"read", "look"} /\ UNCHANGED <<record, feed, got, skips, shown>>
  BY DEF Read
<1>3. ~load.mixed
  BY <1>1, <1>2 DEF MixedInv, Reading, Looking
<1>4. CASE RingLost(forward.after)
  <2>1. Finishes("lost")
    BY <1>4 DEF Read
  <2>2. LossesAreReal'
    BY <1>2, <1>4 DEF LossesAreReal, RingLost
  <2>3. GivenInOrder'
    BY <1>2, GivenStays DEF FeedSafe
  <2>4. QED
    BY <2>1, <2>2, <2>3, FinishKeeps
<1>5. CASE ~RingLost(forward.after)
  <2>1. PICK t : t = EventsAfter(forward.after)
    OBVIOUS
  <2>2. forward.after \in Nat
    BY DEF FeedTypes, ForwardRec
  <2>3. /\ t \in Seq(Nat) /\ Follow(t, forward.after)
        /\ t = <<>> /\ load.source => record.last <= forward.after
        /\ t = <<>> /\ ~load.source /\ ~feed.dropped => feed.last <= forward.after
    BY <1>1, <1>3, <1>5, <2>1, <2>2, EventsAfterAre
  <2>4. PICK b : b = ReadEvents(t)
    OBVIOUS
  <2>5. /\ b \in Seq(EventRec) /\ GoOn(b, forward.after) /\ (b = <<>> <=> t = <<>>)
        /\ (record.epoch = 1 => OfFirst(b))
    BY <2>2, <2>3, <2>4, ReadEventsAre
  <2>6. PICK p : p = IF t = <<>> THEN (IF forward.at = "read" THEN "none" ELSE "take")
                     ELSE (IF forward.at = "read" THEN "verify" ELSE "verifyLook")
    OBVIOUS
  <2>7. sub' = sub /\ forward' = [forward EXCEPT !.batch = b, !.at = p]
    BY <1>5, <2>1, <2>4, <2>6 DEF Read, ReadEvents
  <2>8. /\ forward'.at = p /\ forward'.out = forward.out /\ forward'.pending = forward.pending
        /\ forward'.empty = forward.empty /\ forward'.after = forward.after /\ forward'.batch = b
    BY <2>7 DEF FeedTypes, ForwardRec
  <2>9. SameSub
    BY <2>7 DEF SameSub
  <2>10. p \in {"none", "take", "verify", "verifyLook"}
    BY <2>6
  <2>11. /\ GivenInOrder' /\ LossesAreReal' /\ SkippedEventsAreCounted'
         /\ OrderInv' /\ CursorInv' /\ (p # "none" => EmptyInv')
    <3>1. /\ forward.at \notin {"new", "ended", "send"} /\ forward'.at \notin {"new", "ended", "send"}
      BY <1>2, <2>8, <2>10
    <3>2. QED
      BY <1>2, <1>3, <2>8, <2>9, <3>1, MoveKeeps
  <2>12. ForwardInv'
    <3>1. p \in {"none", "verify"} => forward.at = "read"
      BY <2>6
    <3>2. p \in {"take", "verifyLook"} => forward.at = "look"
      BY <1>2, <2>6
    <3>3. p \in {"verify", "verifyLook"} => b # <<>>
      BY <2>5, <2>6
    <3>4. forward.out = NoEvent /\ forward.pending = <<>>
      BY <1>1, <1>2 DEF ForwardInv, Reading, Looking
    <3>5. QED
      BY <1>1, <1>2, <2>5, <2>7, <2>8, <2>10, <3>1, <3>2, <3>3, <3>4 DEF ForwardInv, Reading, Looking
  <2>13. MixedInv'
    BY <1>3 DEF MixedInv, SameLoad
  <2>14. p = "none" => EmptyInv'
    <3>1. SUFFICES ASSUME p = "none", record.epoch = 1, ~feed.dropped PROVE EmptyInv'
      BY <1>2 DEF EmptyInv
    <3>2. t = <<>> /\ forward.at = "read"
      BY <2>6, <3>1
    <3>3. sub.behind /\ forward.after = sub.resume /\ forward.pending = <<>>
      BY <1>1, <3>2 DEF ForwardInv, Reading
    <3>4. record.last \in Nat /\ feed.last \in Nat /\ sub.resume \in Nat /\ forward.empty \in Nat
      BY DEF FeedTypes, SubRec, ForwardRec
    <3>5. ~(feed.last > sub.resume)
      <4>1. CASE load.source
        <5>1. record.last <= sub.resume
          BY <2>3, <3>2, <3>3, <4>1
        <5>2. feed.last + Len(unpublished) <= record.last /\ Len(unpublished) \in Nat
          BY <1>1, <3>1 DEF PublishedInv, FeedTypes
        <5>3. QED
          BY <3>4, <5>1, <5>2
      <4>2. CASE ~load.source
        <5>1. feed.last <= sub.resume
          BY <2>3, <3>1, <3>2, <3>3, <4>2
        <5>2. QED
          BY <3>4, <5>1
      <4>3. QED
        BY <4>1, <4>2
    <3>6. PICK l : l = Left(load.unwanted, sub.resume)
      OBVIOUS
    <3>7. l \in Nat
      <4>1. sub.resume <= sub.resume
        BY <3>4
      <4>2. QED
        BY <3>4, <3>6, <4>1, LeftIs
    <3>8. EmptyInv
      BY <1>2, <1>3 DEF FeedSafe, StreamOver
    <3>9. forward.empty <= l
      <4>1. forward.empty > l => feed.last > sub.resume
        BY <3>1, <3>3, <3>6, <3>8 DEF EmptyInv
      <4>2. QED
        BY <3>4, <3>5, <3>7, <4>1
    <3>10. forward.empty <= l + 1 /\ ~(forward.empty > l)
      BY <3>4, <3>7, <3>9
    <3>11. QED
      BY <2>7, <2>8, <3>1, <3>3, <3>6, <3>9, <3>10 DEF EmptyInv, SameLoad
  <2>15. QED
    BY <2>11, <2>12, <2>13, <2>14 DEF SubKept
<1>6. QED
  BY <1>4, <1>5

\* A batch is used when it is of the Record asked for (SubscribeVerify).
LEMMA VerifyKeeps ==
  ASSUME FeedAssumption, FeedTypes, FeedTypes', FeedSafe, SameLoad, Verify
  PROVE  SubKept
<1>1. ForwardInv /\ MixedInv
  BY DEF FeedSafe
<1>2. forward.at \in {"verify", "verifyLook"} /\ UNCHANGED <<record, feed, got, skips, shown>>
  BY DEF Verify
<1>3. CASE Finishes("replaced")
  BY <1>2, <1>3, EndKeeps
<1>4. CASE /\ record.epoch = 1 /\ UNCHANGED sub
           /\ forward' = [forward EXCEPT !.at = IF @ = "verify" THEN "caughtBatch" ELSE "looked"]
  <2>1. SameSub
    BY <1>4 DEF SameSub
  <2>2. /\ forward'.at = (IF forward.at = "verify" THEN "caughtBatch" ELSE "looked")
        /\ forward'.out = forward.out /\ forward'.pending = forward.pending
        /\ forward'.empty = forward.empty /\ forward'.after = forward.after /\ forward'.batch = forward.batch
    BY <1>4 DEF FeedTypes, ForwardRec
  <2>3. /\ GivenInOrder' /\ LossesAreReal' /\ SkippedEventsAreCounted'
        /\ ~load.mixed => OrderInv' /\ CursorInv' /\ EmptyInv'
    BY <1>2, <2>1, <2>2, MoveKeeps
  <2>4. ForwardInv' /\ MixedInv'
    BY <1>1, <1>2, <1>4, <2>2 DEF ForwardInv, MixedInv, Reading, Looking, SameLoad
  <2>5. QED
    BY <2>3, <2>4 DEF SubKept, SameLoad
<1>5. QED
  BY <1>3, <1>4 DEF Verify

\* What the filter keeps, after c, of Events that go on from a to d.
Keeps(t, a, c, d) ==
  /\ t \in Seq(EventRec) /\ InOrder(t) /\ OfFirst(t)
  /\ Nums(t) = {n \in a + 1 .. d : n > c /\ Wanted(n)}
  /\ t = <<>> => Nums(t) = {}

\* What the filter keeps of a batch is the wanted numbers of it, in order.
LEMMA KeptNums ==
  ASSUME FeedTypes, NEW a \in Nat, NEW c \in Nat, NEW d \in Nat, GoOn(forward.batch, a),
         OfFirst(forward.batch), d = a + Len(forward.batch), NEW t, t = KeptAfter(c)
  PROVE  Keeps(t, a, c, d)
<1>1. PICK b \in Seq(EventRec) : b = forward.batch
  BY DEF FeedTypes, ForwardRec
<1>2. PICK l \in Nat : l = Len(b) /\ DOMAIN b = 1 .. l /\ d = a + l
  BY <1>1
<1>3. \A i \in 1 .. l : b[i].number = a + i /\ b[i].epoch = 1
  BY <1>1, <1>2 DEF GoOn, OfFirst
<1>4. PICK K : K = {i \in DOMAIN b : b[i].number > c /\ Wanted(b[i].number)}
  OBVIOUS
<1>5. t \in Seq(EventRec) /\ Picks(t, b, K)
  BY <1>1, <1>4, KeptAre
<1>6. K \subseteq 1 .. l /\ \A i \in 1 .. l : i \in K <=> a + i > c /\ Wanted(a + i)
  BY <1>2, <1>3, <1>4
<1>7. PICK m \in Nat : DOMAIN t = 1 .. m
  BY <1>5
<1>8. OfFirst(t)
  <2>1. ASSUME NEW j \in 1 .. m PROVE t[j].epoch = 1
    <3>1. PICK i \in K : t[j] = b[i]
      BY SMTT(30), <1>5, <1>7 DEF Picks
    <3>2. QED
      BY <1>3, <1>6, <3>1
  <2>2. QED
    BY <1>7, <2>1 DEF OfFirst
<1>9. InOrder(t)
  <2>1. ASSUME NEW j \in 1 .. m, NEW k \in 1 .. m, j < k PROVE t[j].number < t[k].number
    <3>1. PICK x \in 1 .. l, y \in 1 .. l : x \in K /\ y \in K /\ x < y /\ t[j] = b[x] /\ t[k] = b[y]
      <4>1. \A n, i \in DOMAIN t : n < i =>
              \E x, y \in K : x < y /\ t[n] = b[x] /\ t[i] = b[y]
        BY <1>5, Zenon DEF Picks
      <4>2. \E x, y \in K : x < y /\ t[j] = b[x] /\ t[k] = b[y]
        <5>1. j \in DOMAIN t /\ k \in DOMAIN t /\ j < k
          BY <1>7, <2>1, Zenon
        <5>2. QED
          BY <4>1, <5>1, Zenon
      <4>3. QED
        BY <1>6, <4>2
    <3>2. x \in 1 .. l /\ y \in 1 .. l
      BY <1>6
    <3>3. b[x].number = a + x /\ b[y].number = a + y
      BY <1>3, <3>2
    <3>4. a + x < a + y
      BY <3>1, <3>2
    <3>5. QED
      BY <3>1, <3>3, <3>4
  <2>2. NumbersOf(t) = [j \in 1 .. m |-> t[j].number]
    BY <1>7 DEF NumbersOf
  <2>3. QED
    BY <2>1, <2>2 DEF InOrder, Sorted
<1>10. Nums(t) = {n \in a + 1 .. d : n > c /\ Wanted(n)}
  <2>1. Nums(t) = {t[j].number : j \in 1 .. m} \ {0}
    BY <1>7 DEF Nums, NumSet, NumbersOf
  <2>2. ASSUME NEW n \in Nums(t) PROVE n \in a + 1 .. d /\ n > c /\ Wanted(n)
    <3>1. PICK j \in 1 .. m : n = t[j].number
      BY <2>1, <2>2
    <3>2. PICK i \in K : t[j] = b[i]
      BY <1>5, <1>7 DEF Picks
    <3>3. i \in 1 .. l /\ a + i > c /\ Wanted(a + i)
      BY <1>6
    <3>4. n = a + i
      BY <1>3, <3>1, <3>2, <3>3
    <3>5. a + i \in a + 1 .. d
      BY <1>2, <3>3
    <3>6. QED
      BY <3>3, <3>4, <3>5
  <2>3. ASSUME NEW n \in a + 1 .. d, n > c, Wanted(n) PROVE n \in Nums(t)
    <3>1. PICK i \in 1 .. l : n = a + i
      <4>1. n - a \in 1 .. l /\ n = a + (n - a)
        BY <1>2
      <4>2. QED
        BY <4>1
    <3>2. i \in K
      BY <1>6, <2>3, <3>1
    <3>3. PICK j \in 1 .. m : t[j] = b[i]
      BY <1>5, <1>7, <3>2 DEF Picks
    <3>4. t[j].number = n /\ n # 0
      BY <1>3, <3>1, <3>3
    <3>5. QED
      BY <2>1, <3>4
  <2>4. QED
    BY <2>2, <2>3
<1>11. t = <<>> => Nums(t) = {}
  BY Nothing
<1>12. QED
  BY <1>5, <1>8, <1>9, <1>10, <1>11 DEF Keeps

\* The last of Events that go on.
LEMMA LastIs ==
  ASSUME NEW b \in Seq(EventRec), b # <<>>, NEW a \in Nat, GoOn(b, a)
  PROVE  Len(b) \in Nat \ {0} /\ b[Len(b)].number = a + Len(b)
<1>1. Len(b) \in Nat \ {0} /\ Len(b) \in DOMAIN b
  OBVIOUS
<1>2. QED
  BY <1>1 DEF GoOn

\* catchUp with a batch: the cursor passes it, and what is wanted of it is pending.
LEMMA CatchUpBatchKeeps ==
  ASSUME FeedAssumption, FeedTypes, FeedTypes', FeedSafe, SameLoad, CatchUpBatch
  PROVE  SubKept
<1>1. ForwardInv /\ MixedInv /\ GivenInOrder /\ LossesAreReal
  BY DEF FeedSafe
<1>2. forward.at = "caughtBatch" /\ UNCHANGED <<record, feed, got, skips, shown>>
  BY DEF CatchUpBatch
<1>3. ~load.mixed /\ OrderInv /\ CursorInv /\ EmptyInv
  <2>1. ~load.mixed /\ ~StreamOver
    BY <1>1, <1>2 DEF MixedInv, Reading, Looking, StreamOver
  <2>2. QED
    BY <2>1 DEF FeedSafe
<1>4. /\ forward.out = NoEvent /\ forward.batch # <<>> /\ GoOn(forward.batch, forward.after)
      /\ OfFirst(forward.batch) /\ sub.behind /\ sub.queue = <<>> /\ forward.after = sub.resume
      /\ sub.cursorSet /\ sub.resume = sub.cursor /\ forward.pending = <<>>
  BY <1>1, <1>2 DEF ForwardInv, Reading, Looking
<1>5. PICK c \in Nat : c = sub.cursor
  BY DEF FeedTypes, SubRec
<1>6. forward.batch \in Seq(EventRec) /\ GoOn(forward.batch, c)
  BY <1>4, <1>5 DEF FeedTypes, ForwardRec
<1>7. PICK d \in Nat : d = c + Len(forward.batch) /\ c < d
  <2>1. Len(forward.batch) \in Nat \ {0}
    BY <1>4, <1>6, LastIs
  <2>2. c + Len(forward.batch) \in Nat /\ c < c + Len(forward.batch)
    BY <2>1
  <2>3. QED
    BY <2>2
<1>8. forward.batch[Len(forward.batch)].number = d
  BY <1>4, <1>6, <1>7, LastIs
<1>9. PICK t : t = KeptAfter(0)
  OBVIOUS
<1>10. Keeps(t, c, 0, d)
  BY <1>4, <1>6, <1>7, <1>9, KeptNums
<1>11. /\ sub' = [sub EXCEPT !.resume = d, !.cursor = d]
       /\ forward' = [forward EXCEPT !.pending = t, !.batch = <<>>, !.at = "take"]
  <2>1. sub' = [sub EXCEPT !.resume = d, !.cursor = IF sub.cursor > d THEN sub.cursor ELSE d]
    BY <1>8 DEF CatchUpBatch
  <2>2. ~(sub.cursor > d)
    BY <1>5, <1>7
  <2>3. QED
    BY <1>9, <2>1, <2>2 DEF CatchUpBatch
<1>12. /\ sub'.queue = <<>> /\ sub'.cursor = d /\ sub'.resume = d /\ sub'.cursorSet /\ sub'.behind
       /\ sub'.err = sub.err
  BY <1>4, <1>11 DEF FeedTypes, SubRec
<1>13. /\ forward'.at = "take" /\ forward'.out = NoEvent /\ forward'.pending = t
       /\ forward'.empty = forward.empty
  BY <1>4, <1>11 DEF FeedTypes, ForwardRec
<1>14. ForwardInv'
  BY <1>12, <1>13 DEF ForwardInv, Reading, Looking
<1>15. MixedInv' /\ SkippedEventsAreCounted'
  BY <1>3 DEF MixedInv, SkippedEventsAreCounted, SameLoad
<1>16. GivenInOrder'
  BY <1>1, <1>2, GivenStays
<1>17. LossesAreReal'
  BY <1>1, <1>2, <1>12 DEF LossesAreReal, LeftOut, SameLoad
<1>18. Nums(t) = {n \in c + 1 .. d : Wanted(n)}
  <2>1. Nums(t) = {n \in c + 1 .. d : n > 0 /\ Wanted(n)}
    BY <1>10 DEF Keeps
  <2>2. \A n \in c + 1 .. d : n > 0
    OBVIOUS
  <2>3. QED
    BY <2>1, <2>2
<1>19. Out' = {} /\ Queued' = {} /\ Out = {} /\ Queued = {} /\ Nums(forward.pending) = {}
  BY <1>4, <1>12, <1>13, Nothing DEF Out, Queued, NoEvent
<1>20. Held' = Held \cup Nums(t)
  BY <1>2, <1>13, <1>19 DEF Held
<1>21. CursorInv'
  <2>1. Held' = Held \cup {n \in c + 1 .. d : Wanted(n)} /\ c <= d /\ forward.at # "new"
    BY <1>2, <1>7, <1>18, <1>20
  <2>2. QED
    BY <1>3, <1>4, <1>5, <1>12, <2>1, CursorGrows
<1>22. OrderInv'
  <2>1. \A m \in Nums(got) : m \in Nat /\ m <= c
    <3>1. Held \in SUBSET (Nat \ {0})
      BY HeldAre
    <3>2. QED
      BY <1>3, <1>5, <3>1 DEF CursorInv, Held
  <2>2. \A n \in Nums(t) : n \in c + 1 .. d
    BY <1>18
  <2>3. Below(Nums(got), Nums(t))
    <3>1. ASSUME NEW m \in Nums(got), NEW n \in Nums(t) PROVE m < n
      <4>1. m \in Nat /\ m <= c /\ n \in c + 1 .. d
        BY <2>1, <2>2
      <4>2. QED
        BY <4>1
    <3>2. QED
      BY <3>1 DEF Below
  <2>4. Below(Nums(got), {}) /\ Below({}, Nums(t)) /\ Below({}, {})
    BY DEF Below
  <2>5. InOrder(t) /\ OfFirst(t)
    BY <1>10 DEF Keeps
  <2>6. InOrder(got) /\ OfFirst(got) /\ Sorted(sub'.queue)
    BY <1>3, <1>12, Nothing DEF OrderInv
  <2>7. forward'.out.epoch = 1
    BY <1>13 DEF NoEvent
  <2>8. QED
    BY <1>2, <1>13, <1>19, <2>3, <2>4, <2>5, <2>6, <2>7 DEF OrderInv
<1>23. EmptyInv'
  <2>1. SUFFICES ASSUME record.epoch = 1, ~feed.dropped PROVE EmptyInv'
    BY <1>2 DEF EmptyInv
  <2>2. CASE t # <<>>
    BY <1>12, <1>13, <2>2 DEF EmptyInv
  <2>3. CASE t = <<>>
    <3>1. PICK U : U = load.unwanted
      OBVIOUS
    <3>2. c + 1 \in U /\ c + 1 \in c + 1 .. d
      <4>1. Nums(t) = {}
        BY <1>10, <2>3 DEF Keeps
      <4>2. c + 1 \in c + 1 .. d
        BY <1>7
      <4>3. ~Wanted(c + 1)
        BY <1>18, <4>1, <4>2
      <4>4. QED
        BY <3>1, <4>2, <4>3 DEF Wanted
    <3>3. c <= d
      BY <1>7
    <3>4. PICK x \in Nat, y \in Nat : x = Left(U, c) /\ y = Left(U, d) /\ x < y
      BY <3>2, <3>3, LeftIs
    <3>5. PICK e \in Nat : e = forward.empty
      BY DEF FeedTypes, ForwardRec
    <3>6. e <= x + 1
      BY <1>3, <1>4, <1>5, <2>1, <3>1, <3>4, <3>5 DEF EmptyInv
    <3>7. e <= y + 1 /\ ~(e > y)
      BY <3>4, <3>6
    <3>8. Left(load'.unwanted, sub'.resume) = y /\ forward'.empty = e
      BY <1>12, <1>13, <3>1, <3>4, <3>5 DEF SameLoad
    <3>9. QED
      BY <1>12, <1>13, <3>7, <3>8 DEF EmptyInv
  <2>4. QED
    BY <2>2, <2>3
<1>24. QED
  BY <1>14, <1>15, <1>16, <1>17, <1>21, <1>22, <1>23 DEF SubKept

\* catchUp without a batch: the subscription rejoins, tries again, or has lost Events.
LEMMA CatchUpNoneKeeps ==
  ASSUME FeedAssumption, FeedTypes, FeedTypes', FeedSafe, SameLoad, CatchUpNone
  PROVE  SubKept
<1>1. ForwardInv /\ MixedInv /\ GivenInOrder /\ LossesAreReal /\ PublishedInv
  BY DEF FeedSafe
<1>2. forward.at = "none" /\ UNCHANGED <<record, feed, got, skips, shown>>
  BY DEF CatchUpNone
<1>3. ~load.mixed /\ OrderInv /\ CursorInv /\ EmptyInv
  <2>1. ~load.mixed /\ ~StreamOver
    BY <1>1, <1>2 DEF MixedInv, Reading, Looking, StreamOver
  <2>2. QED
    BY <2>1 DEF FeedSafe
<1>4. /\ forward.out = NoEvent /\ sub.behind /\ sub.queue = <<>>
      /\ sub.cursorSet /\ sub.resume = sub.cursor /\ forward.pending = <<>>
  BY <1>1, <1>2 DEF ForwardInv, Reading, Looking
<1>5. GivenInOrder'
  BY <1>1, <1>2, GivenStays
<1>6. MixedInv' /\ SkippedEventsAreCounted'
  BY <1>3 DEF MixedInv, SkippedEventsAreCounted, SameLoad
<1>7. /\ sub.resume \in Nat /\ feed.last \in Nat /\ record.last \in Nat /\ forward.empty \in Nat
      /\ EmptyReads \in Nat
  BY DEF FeedTypes, SubRec, ForwardRec, FeedAssumption
<1>8. CASE /\ sub' = [sub EXCEPT !.behind = FALSE, !.cursorSet = TRUE]
           /\ forward' = [forward EXCEPT !.at = "take", !.empty = 0]
  <2>1. /\ sub'.queue = sub.queue /\ sub'.cursor = sub.cursor /\ sub'.cursorSet = TRUE /\ ~sub'.behind
        /\ sub'.err = sub.err
    BY <1>8 DEF FeedTypes, SubRec
  <2>2. /\ forward'.at = "take" /\ forward'.out = forward.out /\ forward'.pending = forward.pending
        /\ forward'.empty = 0
    BY <1>8 DEF FeedTypes, ForwardRec
  <2>3. ForwardInv'
    BY <1>4, <2>1, <2>2 DEF ForwardInv, Reading, Looking
  <2>4. LossesAreReal'
    BY <1>1, <1>2, <2>1 DEF LossesAreReal, LeftOut, SameLoad
  <2>5. Held' = Held /\ OrderInv'
    BY <1>2, <1>3, <2>1, <2>2 DEF OrderInv, Held, Queued, Out
  <2>6. CursorInv'
    <3>1. sub'.cursorSet = sub.cursorSet
      BY <1>4, <2>1 DEF FeedTypes, SubRec
    <3>2. QED
      BY <1>2, <1>3, <2>1, <2>5, <3>1, CursorStays
  <2>7. EmptyInv'
    BY <2>2, NoneEmpty
  <2>8. QED
    BY <1>5, <1>6, <2>3, <2>4, <2>5, <2>6, <2>7 DEF SubKept
<1>9. CASE sub.resume < feed.last /\ forward.empty + 1 > EmptyReads /\ Finishes("lost")
  <2>1. ASSUME record.epoch = 1, ~feed.dropped PROVE Cardinality(LeftOut') >= EmptyReads
    <3>1. feed.last + Len(unpublished) <= record.last /\ Len(unpublished) \in Nat
      BY <1>1, <2>1 DEF PublishedInv, FeedTypes
    <3>2. sub.resume <= record.last
      BY <1>7, <1>9, <3>1
    <3>3. PICK x \in Nat, y \in Nat :
            /\ x = Left(load.unwanted, sub.resume) /\ y = Left(load.unwanted, record.last) /\ x <= y
      BY <1>7, <3>2, LeftIs
    <3>4. forward.empty <= x
      BY <1>2, <1>3, <2>1, <3>3 DEF EmptyInv
    <3>5. y >= EmptyReads
      BY <1>7, <1>9, <3>3, <3>4
    <3>6. Cardinality(LeftOut') = y
      BY <1>2, <3>3 DEF LeftOut, Left, SameLoad
    <3>7. QED
      BY <3>5, <3>6
  <2>2. LossesAreReal'
    BY <1>2, <2>1 DEF LossesAreReal
  <2>3. QED
    BY <1>5, <1>9, <2>2, FinishKeeps
<1>10. CASE /\ sub.resume < feed.last /\ UNCHANGED sub
            /\ forward' = [forward EXCEPT !.at = "take", !.empty = @ + 1]
  <2>1. /\ forward'.at = "take" /\ forward'.out = forward.out /\ forward'.pending = forward.pending
        /\ forward'.empty = forward.empty + 1
    BY <1>10 DEF FeedTypes, ForwardRec
  <2>2. ForwardInv'
    BY <1>4, <1>10, <2>1 DEF ForwardInv, Reading, Looking
  <2>3. LossesAreReal'
    BY <1>1, <1>2, <1>10 DEF LossesAreReal, LeftOut, SameLoad
  <2>4. Held' = Held /\ OrderInv'
    BY <1>2, <1>3, <1>10, <2>1 DEF OrderInv, Held, Queued, Out
  <2>5. CursorInv'
    BY <1>2, <1>3, <1>10, <2>4, CursorStays
  <2>6. EmptyInv'
    <3>1. SUFFICES ASSUME record.epoch = 1, ~feed.dropped PROVE EmptyInv'
      BY <1>2 DEF EmptyInv
    <3>2. PICK x : x = Left(load.unwanted, sub.resume)
      OBVIOUS
    <3>3. x \in Nat
      <4>1. sub.resume <= sub.resume
        BY <1>7
      <4>2. QED
        BY <1>7, <3>2, <4>1, LeftIs
    <3>4. forward.empty <= x
      BY <1>2, <1>3, <3>1, <3>2 DEF EmptyInv
    <3>5. forward.empty + 1 <= x + 1 /\ feed.last > sub.resume
      BY <1>7, <1>10, <3>3, <3>4
    <3>6. QED
      BY <1>2, <1>4, <1>10, <2>1, <3>2, <3>5 DEF EmptyInv, SameLoad
  <2>7. QED
    BY <1>5, <1>6, <2>2, <2>3, <2>4, <2>5, <2>6 DEF SubKept
<1>11. sub.resume >= feed.last \/ sub.resume < feed.last
  BY <1>7
<1>12. QED
  BY <1>7, <1>8, <1>9, <1>10, <1>11 DEF CatchUpNone

\* look: what a tail read joins the queue only where it goes on from the cursor.
LEMMA LookKeeps ==
  ASSUME FeedAssumption, FeedTypes, FeedTypes', FeedSafe, SameLoad, Look
  PROVE  SubKept
<1>1. ForwardInv /\ MixedInv /\ GivenInOrder /\ LossesAreReal
  BY DEF FeedSafe
<1>2. /\ forward.at = "looked" /\ UNCHANGED <<record, feed, got, skips, shown>>
      /\ forward' = [forward EXCEPT !.at = "take", !.batch = <<>>]
  BY DEF Look
<1>3. ~load.mixed /\ OrderInv /\ CursorInv /\ EmptyInv
  <2>1. ~load.mixed /\ ~StreamOver
    BY <1>1, <1>2 DEF MixedInv, Reading, Looking, StreamOver
  <2>2. QED
    BY <2>1 DEF FeedSafe
<1>4. /\ forward.out = NoEvent /\ forward.batch # <<>> /\ GoOn(forward.batch, forward.after)
      /\ OfFirst(forward.batch) /\ sub.cursorSet /\ forward.after <= sub.cursor /\ forward.pending = <<>>
  BY <1>1, <1>2 DEF ForwardInv, Reading, Looking
<1>5. /\ forward'.at = "take" /\ forward'.out = forward.out /\ forward'.pending = forward.pending
      /\ forward'.empty = forward.empty
  BY <1>2 DEF FeedTypes, ForwardRec
<1>6. MixedInv' /\ SkippedEventsAreCounted'
  BY <1>3 DEF MixedInv, SkippedEventsAreCounted, SameLoad
<1>7. GivenInOrder'
  BY <1>1, <1>2, GivenStays
<1>8. ASSUME ~sub.behind PROVE EmptyInv'
  <2>1. CASE record.epoch = 1 /\ ~feed.dropped
    <3>1. forward'.empty = 0
      BY <1>3, <1>5, <1>8, <2>1 DEF EmptyInv
    <3>2. QED
      BY <3>1, NoneEmpty
  <2>2. CASE ~(record.epoch = 1 /\ ~feed.dropped)
    BY <1>2, <2>2 DEF EmptyInv
  <2>3. QED
    BY <2>1, <2>2
<1>9. CASE sub' = sub
  <2>1. SameSub
    BY <1>9 DEF SameSub
  <2>2. LossesAreReal' /\ OrderInv' /\ CursorInv' /\ EmptyInv'
    BY <1>2, <1>3, <1>5, <2>1, MoveKeeps
  <2>3. ForwardInv'
    BY <1>1, <1>4, <1>5, <1>9 DEF ForwardInv, Reading, Looking
  <2>4. QED
    BY <1>6, <1>7, <2>2, <2>3 DEF SubKept
<1>10. CASE ~sub.behind /\ sub' = [sub EXCEPT !.behind = TRUE, !.resume = sub.cursor]
  <2>1. /\ sub'.queue = sub.queue /\ sub'.cursor = sub.cursor /\ sub'.cursorSet = sub.cursorSet
        /\ sub'.behind /\ sub'.resume = sub.cursor /\ sub'.err = sub.err
    BY <1>10 DEF FeedTypes, SubRec
  <2>2. LossesAreReal'
    BY <1>1, <1>2, <2>1 DEF LossesAreReal, LeftOut, SameLoad
  <2>3. Held' = Held /\ OrderInv'
    BY <1>2, <1>3, <1>5, <2>1 DEF OrderInv, Held, Queued, Out
  <2>4. CursorInv'
    BY <1>2, <1>3, <2>1, <2>3, CursorStays
  <2>5. ForwardInv'
    BY <1>4, <1>5, <2>1 DEF ForwardInv, Reading, Looking
  <2>6. QED
    BY <1>6, <1>7, <1>8, <1>10, <2>2, <2>3, <2>4, <2>5 DEF SubKept
<1>11. PICK c \in Nat, a \in Nat : c = sub.cursor /\ a = forward.after /\ a <= c
  BY <1>4 DEF FeedTypes, SubRec, ForwardRec
<1>12. forward.batch \in Seq(EventRec) /\ GoOn(forward.batch, a)
  BY <1>4, <1>11 DEF FeedTypes, ForwardRec
<1>13. PICK d \in Nat : d = a + Len(forward.batch)
  <2>1. Len(forward.batch) \in Nat
    BY <1>12
  <2>2. a + Len(forward.batch) \in Nat
    BY <2>1
  <2>3. QED
    BY <2>2
<1>14. forward.batch[Len(forward.batch)].number = d
  BY <1>4, <1>12, <1>13, LastIs
<1>15. PICK t : t = KeptAfter(sub.cursor)
  OBVIOUS
<1>16. Keeps(t, a, c, d)
  BY <1>4, <1>11, <1>12, <1>13, <1>15, KeptNums
<1>17. CASE /\ ~sub.behind /\ c < d
            /\ sub' = [sub EXCEPT !.cursor = d, !.queue = @ \o NumbersOf(t)]
  <2>1. /\ sub'.queue = sub.queue \o NumbersOf(t) /\ sub'.cursor = d /\ sub'.cursorSet = sub.cursorSet
        /\ sub'.behind = sub.behind /\ sub'.err = sub.err
    BY <1>17 DEF FeedTypes, SubRec
  <2>2. Nums(t) = {n \in c + 1 .. d : Wanted(n)}
    <3>1. Nums(t) = {n \in a + 1 .. d : n > c /\ Wanted(n)}
      BY <1>16 DEF Keeps
    <3>2. \A n \in Nat : n \in c + 1 .. d <=> n \in a + 1 .. d /\ n > c
      BY <1>11
    <3>3. \A n \in a + 1 .. d : n \in Nat
      OBVIOUS
    <3>4. \A n \in c + 1 .. d : n \in Nat
      OBVIOUS
    <3>5. QED
      BY <3>1, <3>2, <3>3, <3>4
  <2>3. PICK q \in Seq(Nat) : q = sub.queue
    BY DEF FeedTypes, SubRec
  <2>4. PICK p : p = NumbersOf(t)
    OBVIOUS
  <2>5. p \in Seq(Nat) /\ NumSet(p) = Nums(t) /\ Sorted(p)
    BY <1>16, <2>4, NumbersAre DEF Keeps, Nums, InOrder
  <2>6. ASSUME NEW m \in Held, NEW n \in Nums(t) PROVE m < n
    <3>1. m \in Nat /\ m <= c
      <4>1. Held \in SUBSET (Nat \ {0})
        BY HeldAre
      <4>2. QED
        BY <1>3, <1>11, <4>1 DEF CursorInv
    <3>2. n \in c + 1 .. d
      BY <2>2
    <3>3. QED
      BY <3>1, <3>2
  <2>7. Below(NumSet(q), NumSet(p)) /\ Sorted(q)
    BY <1>3, <2>3, <2>5, <2>6 DEF Below, Held, Queued, OrderInv
  <2>8. PICK r : r = q \o p
    OBVIOUS
  <2>9. NumSet(r) = NumSet(q) \cup NumSet(p) /\ Sorted(r)
    BY <2>5, <2>7, <2>8, ConcatNums
  <2>10. sub'.queue = r
    BY <2>1, <2>3, <2>4, <2>8
  <2>11. Queued' = Queued \cup Nums(t)
    BY <2>3, <2>5, <2>9, <2>10 DEF Queued
  <2>12. OrderInv'
    <3>1. Nums(t) \in SUBSET Nat
      <4>1. \A n \in c + 1 .. d : n \in Nat
        OBVIOUS
      <4>2. QED
        BY <2>2, <4>1
    <3>2. \A m \in Held, n \in Nums(t) : m < n
      BY <2>6
    <3>3. Sorted(sub'.queue) /\ got' = got
      BY <1>2, <2>9, <2>10
    <3>4. QED
      BY <1>3, <1>5, <2>11, <3>1, <3>2, <3>3, OrderJoins
  <2>13. Held' = Held \cup {n \in c + 1 .. d : Wanted(n)}
    BY <1>2, <1>5, <2>2, <2>11 DEF Held, Out
  <2>14. CursorInv'
    <3>1. c <= d /\ sub'.cursorSet
      BY <1>4, <1>17, <2>1
    <3>2. forward.at # "new"
      BY <1>2
    <3>3. QED
      BY <1>3, <1>4, <1>11, <2>1, <2>13, <3>1, <3>2, CursorGrows
  <2>15. LossesAreReal'
    BY <1>1, <1>2, <2>1 DEF LossesAreReal, LeftOut, SameLoad
  <2>16. ForwardInv'
    BY <1>4, <1>5, <1>17, <2>1 DEF ForwardInv, Reading, Looking
  <2>17. QED
    BY <1>6, <1>7, <1>8, <1>17, <2>12, <2>14, <2>15, <2>16 DEF SubKept
<1>18. \/ sub' = sub
       \/ ~sub.behind /\ sub' = [sub EXCEPT !.behind = TRUE, !.resume = sub.cursor]
       \/ ~sub.behind /\ c < d /\ sub' = [sub EXCEPT !.cursor = d, !.queue = @ \o NumbersOf(t)]
  <2>1. PICK N : N = {i \in DOMAIN forward.batch : forward.batch[i].number > sub.cursor}
    OBVIOUS
  <2>2. N # {} => c < d
    <3>1. SUFFICES ASSUME NEW i \in N PROVE c < d
      OBVIOUS
    <3>2. PICK l \in Nat : l = Len(forward.batch) /\ DOMAIN forward.batch = 1 .. l
      BY <1>12
    <3>3. i \in 1 .. l /\ forward.batch[i].number > c /\ forward.batch[i].number = a + i
      BY <1>11, <1>12, <2>1, <3>2 DEF GoOn
    <3>4. a + i > c /\ d = a + l
      BY <1>13, <3>2, <3>3
    <3>5. QED
      BY <3>3, <3>4
  <2>3. sub' =
          IF sub.behind \/ N = {} THEN sub
          ELSE IF \A i \in N : forward.batch[i].number # sub.cursor + 1
          THEN [sub EXCEPT !.behind = TRUE, !.resume = sub.cursor]
          ELSE [sub EXCEPT !.cursor = d, !.queue = @ \o NumbersOf(t)]
    BY <1>14, <1>15, <2>1 DEF Look, NumbersOf
  <2>4. QED
    BY <2>2, <2>3
<1>19. QED
  BY <1>9, <1>10, <1>17, <1>18

\* The invariant holds at the start.
LEMMA FeedInvInit ==
  ASSUME FeedAssumption, FeedInit
  PROVE  FeedTypes /\ FeedSafe
<1>1. <<>> \in Seq(Nat) /\ <<>> \in Seq(EventRec) /\ NoEvent \in EventRec /\ Len(<<>>) = 0
  BY DEF NoEvent, EventRec
<1>2. FeedTypes
  <2>1. sub \in SubRec
    BY <1>1 DEF FeedInit, NoSub, SubRec
  <2>2. forward \in ForwardRec
    BY <1>1 DEF FeedInit, Unstarted, ForwardRec, Places
  <2>3. load \in FeedLoadRec
    BY DEF FeedInit, FeedAssumption
  <2>4. QED
    BY <1>1, <2>1, <2>2, <2>3 DEF FeedInit, FeedTypes
<1>3. PublishedInv /\ RingInv
  BY <1>1 DEF FeedInit, PublishedInv, RingInv, EndsAt
<1>4. ForwardInv /\ MixedInv
  BY DEF FeedInit, ForwardInv, MixedInv, Unstarted, NoSub, Reading, Looking
<1>5. GivenInOrder /\ LossesAreReal
  BY DEF FeedInit, GivenInOrder, LossesAreReal, NoSub
<1>6. SkippedEventsAreCounted
  BY <1>1 DEF FeedInit, SkippedEventsAreCounted, NoSub, Unstarted
<1>7. Out = {} /\ Queued = {} /\ Held = {}
  BY Nothing DEF FeedInit, Out, Queued, Held, Unstarted, NoEvent, NoSub
<1>8. OrderInv
  BY <1>7, Nothing DEF FeedInit, OrderInv, Below, Unstarted, NoEvent, NoSub
<1>9. CursorInv
  BY <1>7 DEF FeedInit, CursorInv, NoSub, Unstarted
<1>10. EmptyInv
  <2>1. ~sub.behind /\ forward.empty = 0 /\ forward.at = "new"
    BY DEF FeedInit, NoSub, Unstarted
  <2>2. QED
    BY <2>1 DEF EmptyInv
<1>11. QED
  BY <1>2, <1>3, <1>4, <1>5, <1>6, <1>8, <1>9, <1>10 DEF FeedSafe

\* Every step keeps the invariant.
LEMMA FeedInvNext ==
  ASSUME FeedAssumption, FeedTypes, FeedSafe, [FeedNext]_feedVars
  PROVE  (FeedTypes /\ FeedSafe)'
<1>1. CASE FeedNext
  <2>1. FeedTypes' /\ SameLoad
    BY <1>1, FeedTypesNext
  <2>2. PublishedInv' /\ RingInv'
    BY <1>1, <2>1, PublishedNext DEF FeedSafe
  <2>3. SubKept
    <3>1. CASE Store \/ StoreForeign \/ CreateAgain \/ Publish \/ EndFeed
      BY <2>1, <3>1, OutsideNext DEF SubKept
    <3>2. CASE Offer \/ PublishDelta
      BY <2>1, <3>2, OfferNext
    <3>3. CASE Subscribe
      BY <2>1, <3>3, SubscribeNext
    <3>4. CASE TakeNext
      BY <2>1, <3>4, TakeNextKeeps
    <3>5. CASE Next_
      BY <2>1, <3>5, NextKeeps
    <3>6. CASE Await
      BY <2>1, <3>6, AwaitKeeps
    <3>7. CASE Read
      BY <2>1, <3>7, ReadKeeps
    <3>8. CASE Verify
      BY <2>1, <3>8, VerifyKeeps
    <3>9. CASE CatchUpBatch
      BY <2>1, <3>9, CatchUpBatchKeeps
    <3>10. CASE CatchUpNone
      BY <2>1, <3>10, CatchUpNoneKeeps
    <3>11. CASE Look
      BY <2>1, <3>11, LookKeeps
    <3>12. QED
      BY <1>1, <3>1, <3>2, <3>3, <3>4, <3>5, <3>6, <3>7, <3>8, <3>9, <3>10, <3>11
      DEF FeedNext, Forwards, Publishes, FeedOutside
  <2>4. QED
    BY <2>1, <2>2, <2>3 DEF FeedSafe, SubKept
<1>2. CASE UNCHANGED feedVars
  <2>1. /\ record' = record /\ unpublished' = unpublished /\ offered' = offered /\ feed' = feed
        /\ sub' = sub /\ forward' = forward /\ got' = got /\ skips' = skips /\ shown' = shown
        /\ load' = load
    BY <1>2 DEF feedVars
  <2>2. FeedTypes' /\ SameLoad /\ SameSub
    BY <2>1 DEF FeedTypes, SameLoad, SameSub
  <2>3. PublishedInv' /\ RingInv'
    BY <2>1 DEF FeedSafe, PublishedInv, RingInv
  <2>4. Grows
    BY <2>1 DEF Grows, FeedTypes
  <2>5. SubKept
    <3>1. forward.at = "new" => offered' = <<>> /\ sub' = sub
      BY <2>1 DEF FeedSafe, ForwardInv
    <3>2. QED
      BY <2>1, <2>2, <2>4, <3>1, OutsideKeeps DEF SubKept
  <2>6. QED
    BY <2>2, <2>3, <2>5 DEF FeedSafe, SubKept
<1>3. QED
  BY <1>1, <1>2

\* The invariant of a subscription, whatever is published, stored elsewhere or
\* created again meanwhile: an inductive one, of what is published, where its
\* goroutine is, the Events it holds up to its cursor and the empty reads
\* (publishLabeled, offer, take, catchUp, look).
THEOREM FeedInvariance == FeedAssumption => (FeedSpec => []FeedInv)
<1> SUFFICES ASSUME FeedAssumption PROVE FeedSpec => []FeedInv
  OBVIOUS
<1>1. FeedInit => FeedInv
  BY FeedInvInit DEF FeedInv
<1>2. FeedInv /\ [FeedNext]_feedVars => FeedInv'
  BY FeedInvNext DEF FeedInv
<1>3. QED
  BY <1>1, <1>2, PTL DEF FeedSpec

\* A subscriber of a Session is given the Events it wants in their order, once
\* and without a gap, whether they were queued or read, and is told that some
\* were lost only when they may be; one of an Instance is told of each Event it
\* missed (subscription.offer, take, catchUp, look).
THEOREM EventsAreGivenInOrder == FeedAssumption => (FeedSpec => []DeliveredInOrder)
<1> SUFFICES ASSUME FeedAssumption PROVE FeedSpec => []DeliveredInOrder
  OBVIOUS
<1>1. FeedInv => DeliveredInOrder
  BY DEF FeedInv, FeedSafe, DeliveredInOrder
<1>2. QED
  BY <1>1, FeedInvariance, PTL
=============================================================================
