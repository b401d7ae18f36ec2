---------------------------- MODULE SessionLocks ----------------------------
(***************************************************************************)
(* The lock of one Session (host/locks.go): what sessionLocks promises the *)
(* Runs, compactions, deletions and tool changes that go through it.       *)
(*                                                                         *)
(* There is no owner in the code: held is a Boolean, a waiter is a channel *)
(* and release closes the channel of the first one, so that the lock is    *)
(* never free in between.  `owners' says who may go on as if it held the   *)
(* lock: the caller that found it free, and whoever was handed it.  A      *)
(* waiter whose context ended as it was handed the lock is an owner until  *)
(* it has given the lock on.                                               *)
(***************************************************************************)
EXTENDS Naturals, Sequences, SequencesExt

CONSTANT Caller

VARIABLES
  held,     \* sessionLock.held
  waiters,  \* sessionLock.waiters, first come first
  owners    \* the callers acquire returned to, or was about to return to

lockVars == <<held, waiters, owners>>

Waiting == {waiters[k] : k \in DOMAIN waiters}

\* A waiter leaves the queue.
Without(c) == RemoveFirst(waiters, c)

\* newSessionLocks.
Init ==
  /\ held = FALSE
  /\ waiters = <<>>
  /\ owners = {}

\* acquire of a free lock with nobody before the caller.
Acquire(c) ==
  /\ c \notin owners
  /\ ~held
  /\ waiters = <<>>
  /\ held' = TRUE
  /\ owners' = owners \cup {c}
  /\ UNCHANGED waiters

\* acquire of a busy lock, by a caller that waits.
Wait(c) ==
  /\ c \notin owners \cup Waiting
  /\ held \/ waiters # <<>>
  /\ waiters' = Append(waiters, c)
  /\ UNCHANGED <<held, owners>>

\* The context of a waiter ended, and the lock was not handed to it.
Leave(c) ==
  /\ c \in Waiting
  /\ waiters' = Without(c)
  /\ UNCHANGED <<held, owners>>

\* release: to the first waiter, or to nobody.
Release(c) ==
  /\ c \in owners
  /\ IF waiters # <<>>
     THEN /\ owners' = (owners \ {c}) \cup {Head(waiters)}
          /\ waiters' = Tail(waiters)
          /\ UNCHANGED held
     ELSE /\ owners' = owners \ {c}
          /\ held' = FALSE
          /\ UNCHANGED waiters

Next == \E c \in Caller : Acquire(c) \/ Wait(c) \/ Leave(c) \/ Release(c)

Spec == Init /\ [][Next]_lockVars

-----------------------------------------------------------------------------
(* One use of the Session at a time, and nobody is forgotten.              *)

\* At most one caller goes on with the lock of a Session, the one it was
\* handed to included (host/locks.go acquire, release).
MutualExclusion == \A c, d \in owners : c = d

\* A lock that is held, or waited for, has an owner to give it on: a handoff
\* is never lost, so no waiter waits for a lock nobody holds.
NoLostHandoff ==
  /\ held <=> owners # {}
  /\ waiters # <<>> => held

LockOK == MutualExclusion /\ NoLostHandoff
=============================================================================
