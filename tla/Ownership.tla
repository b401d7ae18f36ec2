----------------------------- MODULE Ownership -----------------------------
(***************************************************************************)
(* What the claims of a Session promise, with no log, no store call and no *)
(* message: a Session has one owner, only its owner runs and releases it,  *)
(* and it changes hands while a Run or a change is under way only when the *)
(* owner is dead (DESIGNS.md, guideline 11; record/holder.go Claim).       *)
(***************************************************************************)
EXTENDS Integers

CONSTANTS Name, Nobody

VARIABLES
  owner,    \* the Instance that writes the Session, Nobody when there is none
  epoch,    \* the number of owners so far
  busy,     \* the owner is using the Session
  running,  \* a Run is going
  dead      \* the Instances that are gone for good

vars == <<owner, epoch, busy, running, dead>>

Init ==
  /\ owner = Nobody
  /\ epoch = 0
  /\ busy = FALSE
  /\ running = FALSE
  /\ dead = {}

Die(i) ==
  /\ dead' = dead \cup {i}
  /\ UNCHANGED <<owner, epoch, busy, running>>

Create(i) ==
  /\ owner = Nobody
  /\ owner' = i
  /\ epoch' = 1
  /\ busy' \in BOOLEAN
  /\ running' = FALSE
  /\ UNCHANGED dead

Free == ~busy /\ ~running

Claim(i) ==
  /\ owner # Nobody
  /\ owner = i \/ Free \/ owner \in dead
  /\ owner' = i
  /\ epoch' = IF owner = i THEN epoch ELSE epoch + 1
  /\ busy' = TRUE
  /\ running' = FALSE
  /\ UNCHANGED dead

Start(i) ==
  /\ owner = i
  /\ busy
  /\ ~running
  /\ running' = TRUE
  /\ UNCHANGED <<owner, epoch, busy, dead>>

End(i) ==
  /\ owner = i
  /\ running
  /\ running' = FALSE
  /\ UNCHANGED <<owner, epoch, busy, dead>>

Release(i) ==
  /\ owner = i
  /\ busy
  /\ ~running
  /\ busy' = FALSE
  /\ UNCHANGED <<owner, epoch, running, dead>>

Delete ==
  /\ owner # Nobody
  /\ owner' = Nobody
  /\ epoch' = 0
  /\ busy' = FALSE
  /\ running' = FALSE
  /\ UNCHANGED dead

Next ==
  \/ \E i \in Name :
       Die(i) \/ Create(i) \/ Claim(i) \/ Start(i) \/ End(i) \/ Release(i)
  \/ Delete

Spec == Init /\ [][Next]_vars

=============================================================================
