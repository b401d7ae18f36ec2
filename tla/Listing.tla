------------------------------ MODULE Listing -------------------------------
(***************************************************************************)
(* The listing of Sessions, page by page (store/store_check.go pageOf,     *)
(* MemoryStore.List, FileStore.List, Runner.Sessions, Handler.listSessions)*)
(* while other Instances create, update and delete Records.  A page is the *)
(* first Records after a cursor in an order that updates change, and the   *)
(* FileStore reads the Records of one page one after the other.            *)
(***************************************************************************)
EXTENDS Integers, Sequences, FiniteSets

CONSTANTS
  Record,        \* IDs, as numbers: they are ordered
  DefaultLimit,  \* defaultListLimit
  Times,         \* UpdatedAt, by the clock of the Instance that wrote
  ListLoads      \* the Records at first, the store, the Limit of a caller and
                 \* the bounds on updates, deletes, creates and failures

VARIABLES
  infos,         \* the Records and their UpdatedAt; 0 when there is none
  names,         \* FileStore.List: the directory entries still to be read
  found,         \* the Infos of the page being made
  lister,        \* the caller: where it is, its Cursor and what it was given
  touched,       \* the Records created, updated or deleted since it began
  listLoad

listVars == <<infos, names, found, lister, touched, listLoad>>

-----------------------------------------------------------------------------
(* Pages.                                                                  *)

Stored == {r \in Record : infos[r] # 0}
Info(r) == [id |-> r, at |-> infos[r]]

\* The order of sortInfos, as pageOf asks it of an Info and a cursor.
IsAfter(i, at) == IF i.at = at.at THEN i.id > at.id ELSE i.at < at.at

\* sortInfos: a place for each, the most recently updated first.
Sorted(set) ==
  CHOOSE s \in [1 .. Cardinality(set) -> set] :
    \A k \in 1 .. Cardinality(set) - 1 :
      \/ s[k].at > s[k + 1].at
      \/ s[k].at = s[k + 1].at /\ s[k].id < s[k + 1].id

PageLimit(q) == IF q <= 0 THEN DefaultLimit ELSE q

None == [id |-> 0, at |-> 0]

\* pageOf: the Infos after the cursor, and where the next page begins.
PageOf(set, cursor, q) ==
  LET rest == Sorted({i \in set : cursor = None \/ IsAfter(i, cursor)})
  IN IF Len(rest) > PageLimit(q)
     THEN [infos |-> SubSeq(rest, 1, PageLimit(q)), next |-> rest[PageLimit(q)]]
     ELSE [infos |-> rest, next |-> None]

-----------------------------------------------------------------------------

Init ==
  /\ listLoad \in ListLoads
  /\ infos = listLoad.records
  /\ names = {}
  /\ found = {}
  /\ lister = [at |-> "idle", cursor |-> None, got |-> <<>>]
  /\ touched = {}

Goto(where) == lister' = [lister EXCEPT !.at = where]

\* listSessions, or a caller of Sessions: a limit that is not a number is refused.
Ask ==
  /\ lister.at = "idle"
  /\ Goto(IF listLoad.limit < 0 THEN "refused"
          ELSE IF listLoad.file THEN "readdir" ELSE "locked")
  /\ UNCHANGED <<infos, names, found, touched, listLoad>>

\* MemoryStore.List: all Records, under the lock.
ListMemory ==
  /\ lister.at = "locked"
  /\ found' = {Info(r) : r \in Stored}
  /\ Goto("page")
  /\ UNCHANGED <<infos, names, touched, listLoad>>

\* FileStore.List: the names that are there now.
ReadDir ==
  /\ lister.at = "readdir"
  /\ names' = Stored
  /\ found' = {}
  /\ Goto("infos")
  /\ UNCHANGED <<infos, touched, listLoad>>

\* info, of the last write there is when it is read; a Record that is gone is
\* left out.
ReadInfo(r) ==
  /\ lister.at = "infos"
  /\ r \in names
  /\ names' = names \ {r}
  /\ found' = found \cup {Info(s) : s \in {r} \cap Stored}
  /\ UNCHANGED <<infos, lister, touched, listLoad>>

\* A Record cannot be read: no page, and the caller may ask for it again.
Unreadable ==
  /\ lister.at = "infos"
  /\ listLoad.fails > 0
  /\ names # {}
  /\ listLoad' = [listLoad EXCEPT !.fails = @ - 1]
  /\ names' = {}
  /\ found' = {}
  /\ Goto("idle")
  /\ UNCHANGED <<infos, touched>>

ReadAll ==
  /\ lister.at = "infos"
  /\ names = {}
  /\ Goto("page")
  /\ UNCHANGED <<infos, names, found, touched, listLoad>>

\* pageOf, and the caller asks for the next page with the Cursor it was given.
Page ==
  /\ lister.at = "page"
  /\ LET page == PageOf(found, lister.cursor, listLoad.limit)
     IN lister' = [at |-> IF page.next = None THEN "done" ELSE "idle",
                   cursor |-> page.next, got |-> lister.got \o page.infos]
  /\ found' = {}
  /\ UNCHANGED <<infos, names, touched, listLoad>>

\* Other Instances write meanwhile.
Write(r, at) ==
  /\ lister.at \notin {"done", "refused"}
  /\ infos' = [infos EXCEPT ![r] = at]
  /\ touched' = touched \cup {r}
  /\ UNCHANGED <<names, found, lister>>

Spend(what) == listLoad[what] > 0 /\ listLoad' = [listLoad EXCEPT ![what] = @ - 1]

Update(r) == r \in Stored /\ Spend("updates") /\ \E at \in Times : Write(r, at)
Create(r) == r \notin Stored /\ Spend("creates") /\ \E at \in Times : Write(r, at)
Delete(r) == r \in Stored /\ Spend("deletes") /\ Write(r, 0)

Lists == Ask \/ ListMemory \/ ReadDir \/ ReadAll \/ Page \/ \E r \in Record : ReadInfo(r)
Next == Lists \/ Unreadable \/ \E r \in Record : Update(r) \/ Create(r) \/ Delete(r)

Goes == Lists

-----------------------------------------------------------------------------

Given(r) == {k \in DOMAIN lister.got : lister.got[k].id = r}

\* A Record that nobody touched while a caller paged is given exactly once,
\* whatever happened to the others and however many were updated at the same
\* time (store/store.go ListPage: only one "updated while a caller pages may
\* repeat or be skipped"); and what is given is in the order of the listing
\* when nothing was touched at all.
ListedOnce ==
  /\ \A r \in Record \ touched : Cardinality(Given(r)) <= 1
  /\ lister.at = "done" =>
       \A r \in Stored \ touched : Cardinality(Given(r)) = 1
  /\ touched = {} =>
       \A k \in 2 .. Len(lister.got) : IsAfter(lister.got[k], lister.got[k - 1])

\* A caller that pages comes to the end.
ListingEnds == lister.at \in {"done", "refused"}
=============================================================================
