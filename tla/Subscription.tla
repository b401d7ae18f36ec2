---------------------------- MODULE Subscription ----------------------------
(***************************************************************************)
(* A Feed and one of its subscribers: gotato/feed.go, subscription.go.     *)
(*                                                                         *)
(* The Writer of a Session stores an Event, then publishes it to the Feed, *)
(* which hands it to each subscription's bounded queue.  A subscriber that *)
(* falls behind, or that joins after a number, reads the Record instead    *)
(* until it has caught up; a tail reads what other Instances stored.  The  *)
(* Feed of an Agent without a store keeps a ring of Events to read from;   *)
(* the Feed of an Instance is mixed: it numbers nothing and counts what a  *)
(* slow subscriber missed.                                                 *)
(*                                                                         *)
(* An Event is its number, 0 for a delta.  The Record may be deleted and   *)
(* created again while the subscriber reads: record.epoch.                 *)
(***************************************************************************)
EXTENDS Naturals, Sequences, FiniteSets, SequencesExt

CONSTANTS
  Buffer,         \* SubscribeBuffer
  Batch,          \* catchUpBatch
  RingCap,        \* defaultRetainedEvents
  EmptyReads,     \* catchUpRetries
  FeedLoads       \* the Feed, its subscriber and what happens: see FeedLoadRec

VARIABLES
  record,         \* [epoch, last]: the stored Events are 1 .. last
  unpublished,    \* stored by this Instance's Writer, not published yet
  offered,        \* published, on its way to the subscription's offer: <<>> or one Event
  feed,           \* [last, closed, ring, dropped]
  sub,            \* the subscription
  forward,        \* the goroutine of the subscription: [at, out, batch, pending, empty, after]
  got,            \* what Next returned: a sequence of [number, epoch]
  skips,          \* EventsSkipped: the number of Events told as skipped
  shown,          \* Events offered to a mixed subscription
  load

feedVars == <<record, unpublished, offered, feed, sub, forward, got, skips, shown, load>>

\* What the constants are.  unwanted are the Events that the filter leaves out,
\* until the one that ends the stream.
FeedLoadRec ==
  [hasAfter : BOOLEAN, after : Nat, source : BOOLEAN, tail : BOOLEAN, mixed : BOOLEAN,
   unwanted : SUBSET Nat, until : Nat, own : Nat, foreign : Nat, deltas : Nat, again : Nat,
   ends : Nat]

FeedAssumption ==
  /\ Buffer \in Nat \ {0} /\ Batch \in Nat \ {0} /\ RingCap \in Nat \ {0} /\ EmptyReads \in Nat
  /\ FeedLoads \subseteq FeedLoadRec

NoEvent == [number |-> 0, epoch |-> 1]

Unstarted ==
  [at |-> "new", out |-> NoEvent, batch |-> <<>>, pending |-> <<>>, empty |-> 0, after |-> 0]

NoSub ==
  [queue |-> <<>>, cursor |-> 0, cursorSet |-> FALSE, behind |-> FALSE, resume |-> 0,
   skipped |-> 0, ending |-> FALSE, wake |-> FALSE, err |-> "none"]

FeedInit ==
  /\ record = [epoch |-> 1, last |-> 0]
  /\ unpublished = <<>> /\ offered = <<>>
  /\ feed = [last |-> 0, closed |-> FALSE, ring |-> <<>>, dropped |-> FALSE]
  /\ sub = NoSub
  /\ forward = Unstarted
  /\ got = <<>> /\ skips = 0 /\ shown = 0
  /\ load \in FeedLoads

Subscribed == forward.at # "new"
StreamOver == forward.at = "ended"

Wanted(n) == n \notin load.unwanted

-----------------------------------------------------------------------------
(* The Writer, the other Instances and the Feed.                           *)

\* This Instance stores an Event; its Writer publishes it when it is stored.
Store ==
  /\ load.own > 0 /\ record.epoch = 1
  /\ record' = [record EXCEPT !.last = @ + 1]
  /\ unpublished' = Append(unpublished, record.last + 1)
  /\ load' = [load EXCEPT !.own = @ - 1]
  /\ UNCHANGED <<offered, feed, sub, forward, got, skips, shown>>

\* Another Instance stores an Event: it is not published here.
StoreForeign ==
  /\ load.foreign > 0 /\ load.source
  /\ unpublished = <<>> /\ offered = <<>>
  /\ record' = [record EXCEPT !.last = @ + 1]
  /\ load' = [load EXCEPT !.foreign = @ - 1]
  /\ UNCHANGED <<unpublished, offered, feed, sub, forward, got, skips, shown>>

\* The Record is deleted and created again elsewhere, with its first Events.
CreateAgain ==
  /\ load.again > 0 /\ load.source
  /\ unpublished = <<>> /\ offered = <<>>
  /\ record' = [epoch |-> 2, last |-> load.again]
  /\ load' = [load EXCEPT !.again = 0, !.own = 0]
  /\ UNCHANGED <<unpublished, offered, feed, sub, forward, got, skips, shown>>

\* retain: without a source a full ring keeps its newer half.
Retain(n) ==
  IF load.source THEN feed
  ELSE IF Len(feed.ring) >= RingCap
       THEN [feed EXCEPT !.ring = Append(SubSeq(@, Len(@) - (RingCap \div 2) + 1, Len(@)), n),
                         !.dropped = TRUE]
       ELSE [feed EXCEPT !.ring = Append(@, n)]

\* publishLabeled under the Feed's lock: a closed Feed drops the Event.
Publish ==
  /\ unpublished # <<>> /\ offered = <<>>
  /\ unpublished' = Tail(unpublished)
  /\ IF feed.closed THEN UNCHANGED <<feed, offered>>
     ELSE /\ feed' = IF load.mixed THEN feed
                     ELSE [Retain(Head(unpublished)) EXCEPT !.last = Head(unpublished)]
          /\ offered' = IF Subscribed /\ ~StreamOver THEN <<Head(unpublished)>> ELSE <<>>
  /\ UNCHANGED <<record, sub, forward, got, skips, shown, load>>

\* Close of the Feed (the last reference was released), or End of the
\* subscription: what is queued is delivered, then the stream ends.
EndFeed ==
  /\ load.ends > 0 /\ Subscribed
  /\ feed' = [feed EXCEPT !.closed = TRUE]
  /\ sub' = [sub EXCEPT !.ending = TRUE, !.wake = TRUE]
  /\ load' = [load EXCEPT !.ends = @ - 1]
  /\ UNCHANGED <<record, unpublished, offered, forward, got, skips, shown>>

-----------------------------------------------------------------------------
(* offer.                                                                  *)

Skips(s) == IF load.mixed THEN [s EXCEPT !.skipped = @ + 1] ELSE s

FallsBehind(s) == [s EXCEPT !.behind = TRUE, !.resume = s.cursor, !.wake = TRUE]

\* The queue without its oldest delta, if it has one.
WithoutDelta(queue) ==
  IF \E i \in DOMAIN queue : queue[i] = 0
  THEN RemoveAt(queue, SelectInSeq(queue, LAMBDA n : n = 0))
  ELSE queue

\* The Event is queued; a full queue makes room by dropping its oldest delta.
Enqueue(s, n) ==
  LET room  == IF Len(s.queue) < Buffer THEN s.queue ELSE WithoutDelta(s.queue)
      after == [s EXCEPT !.queue = Append(room, n), !.wake = TRUE,
                         !.cursor = IF n = 0 \/ load.mixed THEN @ ELSE n,
                         !.cursorSet = @ \/ (n # 0 /\ ~load.mixed)]
  IN IF Len(room) < Len(s.queue) THEN Skips(after)
     ELSE IF Len(s.queue) < Buffer THEN after
     ELSE IF n = 0 \/ load.mixed THEN Skips(s)
     ELSE FallsBehind(s)

\* Wrong: a gap is not noticed.
OfferNumberedBlind(s, n) ==
  IF s.cursorSet /\ n <= s.cursor THEN s
  ELSE IF ~Wanted(n) THEN [s EXCEPT !.cursor = n, !.cursorSet = TRUE]
  ELSE Enqueue(s, n)

\* A numbered Event that the subscription has, that comes after a gap, or that
\* its filter leaves out.
OfferNumbered(s, n) ==
  IF s.cursorSet /\ n <= s.cursor THEN s
  ELSE IF s.cursorSet /\ n > s.cursor + 1 THEN FallsBehind(s)
  ELSE IF ~Wanted(n) THEN [s EXCEPT !.cursor = n, !.cursorSet = TRUE]
  ELSE Enqueue(s, n)

OfferTo(s, n) ==
  IF StreamOver \/ s.ending \/ s.behind THEN s
  ELSE IF n = 0 \/ load.mixed THEN (IF n = 0 \/ Wanted(n) THEN Enqueue(s, n) ELSE s)
  ELSE OfferNumbered(s, n)

\* A mixed subscription was shown an Event that it has to account for.
Shows(n) == load.mixed /\ ~StreamOver /\ ~sub.ending /\ (n = 0 \/ Wanted(n))

Offer ==
  /\ offered # <<>>
  /\ sub' = OfferTo(sub, offered[1])
  /\ shown' = IF Shows(offered[1]) THEN shown + 1 ELSE shown
  /\ offered' = <<>>
  /\ UNCHANGED <<record, unpublished, feed, forward, got, skips, load>>

\* A delta is published and offered; nothing is kept of it.
PublishDelta ==
  /\ load.deltas > 0 /\ Subscribed
  /\ sub' = IF feed.closed THEN sub ELSE OfferTo(sub, 0)
  /\ shown' = IF Shows(0) /\ ~feed.closed THEN shown + 1 ELSE shown
  /\ load' = [load EXCEPT !.deltas = @ - 1]
  /\ UNCHANGED <<record, unpublished, offered, feed, forward, got, skips>>

-----------------------------------------------------------------------------
(* Subscribe and the subscription's goroutine.                             *)

Subscribe ==
  /\ ~Subscribed
  /\ forward' = [Unstarted EXCEPT !.at = "take"]
  /\ sub' = IF ~load.hasAfter \/ load.mixed THEN NoSub
            ELSE [NoSub EXCEPT !.behind = TRUE, !.cursor = load.after, !.resume = load.after,
                               !.cursorSet = TRUE]
  /\ UNCHANGED <<record, unpublished, offered, feed, got, skips, shown, load>>

\* finish: the subscription is over and the Feed forgets it.
Finishes(err) ==
  /\ forward' = [forward EXCEPT !.at = "ended", !.out = NoEvent, !.pending = <<>>, !.batch = <<>>]
  /\ sub' = [sub EXCEPT !.err = err, !.queue = <<>>]

\* take: what was read, then what is queued; then the Record, the end or a wait.
TakeNext ==
  /\ forward.at = "take"
  /\ \/ /\ forward.pending # <<>>
        /\ forward' = [forward EXCEPT !.at = "send", !.out = forward.pending[1],
                                      !.pending = Tail(@), !.empty = 0]
        /\ UNCHANGED <<sub, skips>>
     \/ /\ forward.pending = <<>> /\ sub.skipped > 0
        /\ sub' = [sub EXCEPT !.skipped = 0]
        /\ skips' = skips + sub.skipped
        /\ UNCHANGED forward
     \/ /\ forward.pending = <<>> /\ sub.skipped = 0 /\ sub.queue # <<>>
        /\ forward' = [forward EXCEPT !.at = "send", !.empty = 0,
                                      !.out = [number |-> Head(sub.queue), epoch |-> 1]]
        /\ sub' = [sub EXCEPT !.queue = Tail(@)]
        /\ UNCHANGED skips
     \/ /\ forward.pending = <<>> /\ sub.skipped = 0 /\ sub.queue = <<>>
        /\ \/ /\ sub.behind
              /\ forward' = [forward EXCEPT !.at = "read", !.after = sub.resume]
              /\ UNCHANGED sub
           \/ ~sub.behind /\ sub.ending /\ Finishes("eof")
           \/ /\ ~sub.behind /\ ~sub.ending
              /\ forward' = [forward EXCEPT !.at = "await"]
              /\ UNCHANGED sub
        /\ UNCHANGED skips
  /\ UNCHANGED <<record, unpublished, offered, feed, got, shown, load>>

\* Next takes the Event; SubscribeUntil ends the stream after its last one.
Next_ ==
  /\ forward.at = "send"
  /\ got' = Append(got, forward.out)
  /\ IF load.until # 0 /\ forward.out.number = load.until
     THEN Finishes("eof")
     ELSE forward' = [forward EXCEPT !.at = "take", !.out = NoEvent] /\ UNCHANGED sub
  /\ UNCHANGED <<record, unpublished, offered, feed, skips, shown, load>>

\* await: woken by an offer or an end, or by the tail's timer.
Await ==
  /\ forward.at = "await"
  /\ \/ /\ sub.wake
        /\ sub' = [sub EXCEPT !.wake = FALSE]
        /\ forward' = [forward EXCEPT !.at = "take"]
     \/ /\ load.tail /\ load.source /\ ~load.mixed
        /\ sub.cursorSet /\ ~sub.behind
        /\ record.last > sub.cursor     \* a look that finds nothing changes nothing
        /\ forward' = [forward EXCEPT !.at = "look", !.after = sub.cursor]
        /\ UNCHANGED sub
  /\ UNCHANGED <<record, unpublished, offered, feed, got, skips, shown, load>>

\* eventsAfter: the numbers it reads of the Record or of the ring, which hold
\* them in order: the first of those after the number.
EventsAfter(after) ==
  LET there == IF load.source THEN [n \in 1 .. record.last |-> n] ELSE feed.ring
      older == Cardinality({i \in DOMAIN there : there[i] <= after})
  IN SubSeq(there, older + 1, IF older + Batch < Len(there) THEN older + Batch ELSE Len(there))

\* A ring that dropped Events past the number cannot serve it.
RingLost(after) ==
  /\ ~load.source /\ feed.dropped /\ feed.ring # <<>>
  /\ feed.ring[1] > after + 1

\* read, its first half: the Events are read, from the Record there is now.
Read ==
  /\ forward.at \in {"read", "look"}
  /\ IF RingLost(forward.after) THEN Finishes("lost")
     ELSE /\ forward' =
               [forward EXCEPT
                  !.batch = [i \in DOMAIN EventsAfter(forward.after) |->
                               [number |-> EventsAfter(forward.after)[i], epoch |-> record.epoch]],
                  !.at = IF EventsAfter(forward.after) = <<>>
                         THEN (IF @ = "read" THEN "none" ELSE "take")
                         ELSE (IF @ = "read" THEN "verify" ELSE "verifyLook")]
          /\ UNCHANGED sub
  /\ UNCHANGED <<record, unpublished, offered, feed, got, skips, shown, load>>

\* read, its second half: SubscribeVerify sees that the Record is still the one.
Verify ==
  /\ forward.at \in {"verify", "verifyLook"}
  /\ IF record.epoch # 1 THEN Finishes("replaced")
     ELSE /\ forward' = [forward EXCEPT !.at = IF @ = "verify" THEN "caughtBatch" ELSE "looked"]
          /\ UNCHANGED sub
  /\ UNCHANGED <<record, unpublished, offered, feed, got, skips, shown, load>>

\* The elements of s at the places in K.
Picked(s, K) ==
  LET rank(i) == Cardinality({j \in K : j <= i})
  IN [n \in 1 .. Cardinality(K) |-> s[CHOOSE i \in K : rank(i) = n]]

\* What the filter keeps of the Events read that come after a number.
KeptAfter(number) ==
  Picked(forward.batch,
         {i \in DOMAIN forward.batch : /\ forward.batch[i].number > number
                                       /\ Wanted(forward.batch[i].number)})

\* catchUp with Events: they are pending and the next read resumes after them.
CatchUpBatch ==
  LET last == forward.batch[Len(forward.batch)].number
  IN /\ forward.at = "caughtBatch"
     /\ sub' = [sub EXCEPT !.resume = last, !.cursor = IF @ > last THEN @ ELSE last]
     /\ forward' = [forward EXCEPT !.pending = KeptAfter(0), !.batch = <<>>, !.at = "take"]
     /\ UNCHANGED <<record, unpublished, offered, feed, got, skips, shown, load>>

\* catchUp without Events: under both locks the subscription is caught up when
\* it has what was published; else it tries again, a number of times.
CatchUpNone ==
  /\ forward.at = "none"
  /\ IF sub.resume >= feed.last
     THEN /\ sub' = [sub EXCEPT !.behind = FALSE, !.cursorSet = TRUE]
          /\ forward' = [forward EXCEPT !.at = "take", !.empty = 0]
     ELSE IF forward.empty + 1 > EmptyReads THEN Finishes("lost")
     ELSE /\ forward' = [forward EXCEPT !.at = "take", !.empty = @ + 1]
          /\ UNCHANGED sub
  /\ UNCHANGED <<record, unpublished, offered, feed, got, skips, shown, load>>

\* look: what was read goes to the queue where it goes on from the cursor, which
\* publications may have moved meanwhile.
Look ==
  LET batch == forward.batch
      new   == {i \in DOMAIN batch : batch[i].number > sub.cursor}
      kept  == KeptAfter(sub.cursor)
  IN /\ forward.at = "looked"
     /\ sub' =
          IF sub.behind \/ new = {} THEN sub
          ELSE IF \A i \in new : batch[i].number # sub.cursor + 1
          THEN [sub EXCEPT !.behind = TRUE, !.resume = sub.cursor]
          ELSE [sub EXCEPT !.cursor = batch[Len(batch)].number,
                           !.queue = @ \o [i \in DOMAIN kept |-> kept[i].number]]
     /\ forward' = [forward EXCEPT !.at = "take", !.batch = <<>>]
     /\ UNCHANGED <<record, unpublished, offered, feed, got, skips, shown, load>>

-----------------------------------------------------------------------------

Forwards == TakeNext \/ Next_ \/ Await \/ Read \/ Verify \/ CatchUpBatch \/ CatchUpNone \/ Look

Publishes == Publish \/ Offer

FeedOutside == Subscribe \/ Store \/ StoreForeign \/ CreateAgain \/ PublishDelta \/ EndFeed

FeedNext == Forwards \/ Publishes \/ FeedOutside

FeedGoes == Forwards \/ Publishes \/ Subscribe \/ Store \/ StoreForeign

FeedSpec == FeedInit /\ [][FeedNext]_feedVars /\ WF_feedVars(FeedGoes)

-----------------------------------------------------------------------------
(* What a subscriber gets.                                                 *)

\* The subscriber, when it is given its i-th Event, is to have Event n: it comes
\* after the number asked for, or else not before the first Event it was given.
Since(i, n) ==
  IF load.hasAfter THEN n > load.after ELSE \E k \in 1 .. i : got[k].number \in 1 .. n

\* A subscriber of a Session is given the Events it wants in their order, once
\* and without a gap, from the number it asked for, whether they were published,
\* read from the Record or from the ring, and each of the Record it asked for
\* (Feed, subscription.offer, catchUp, look).
GivenInOrder ==
  ~load.mixed =>
    /\ \A i \in DOMAIN got : got[i].epoch = 1
    /\ \A i, j \in DOMAIN got :
         i < j /\ got[i].number # 0 /\ got[j].number # 0 => got[i].number < got[j].number
    /\ \A i \in DOMAIN got : got[i].number # 0 =>
         /\ Wanted(got[i].number) /\ Since(i, got[i].number)
         /\ \A n \in 1 .. got[i].number :
              Wanted(n) /\ Since(i, n) => \E k \in 1 .. i : got[k].number = n

\* The Events that the filter leaves out of the Record.
LeftOut == {n \in load.unwanted : n \in 1 .. record.last}

\* It is told that Events were lost only when a ring dropped them, when the
\* Record is another one, or when the filter left out as many as the empty reads
\* that are allowed: a read of such Events alone does not reset their count
\* (ErrEventsLost, catchUp).
LossesAreReal ==
  ~load.mixed /\ sub.err = "lost" =>
    feed.dropped \/ record.epoch # 1 \/ Cardinality(LeftOut) >= EmptyReads

\* A subscriber of an Instance's Events is given each Event it was shown or is
\* told of it as skipped (offer on a mixed Feed, EventsSkipped).
SkippedEventsAreCounted ==
  load.mixed /\ ~StreamOver =>
    shown = Len(got) + skips + sub.skipped + Len(sub.queue)
            + (IF forward.at = "send" THEN 1 ELSE 0)

\* Stored Events come in order and once, unless they are lost, and those left out
\* of the others are counted.
DeliveredInOrder == GivenInOrder /\ LossesAreReal /\ SkippedEventsAreCounted

\* Everything stored is delivered: a subscriber that was not ended has each
\* wanted Event since its first one, and those of other Instances if it tails.
SubscriptionSettles ==
  \/ StreamOver
  \/ /\ Subscribed /\ unpublished = <<>> /\ offered = <<>>
     /\ sub.queue = <<>> /\ forward.at = "await"
     /\ sub.cursorSet /\ load.tail /\ record.epoch = 1 => sub.cursor = record.last
     /\ sub.cursorSet => sub.cursor >= feed.last
=============================================================================
