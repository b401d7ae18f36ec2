----------------------------- MODULE FileStore ------------------------------
(***************************************************************************)
(* The Records of the FileStore (store/file.go, file_batch.go,             *)
(* file_name.go, file_sweep.go) under one ID: the steps of Create, Append  *)
(* and Delete on the file system, between which a process may crash and    *)
(* the power may be cut, in several processes on one directory.            *)
(*                                                                         *)
(* A directory is the sequence of the changes made to it.  The changes up  *)
(* to the last sync are durable; of those after it a power cut keeps some  *)
(* first ones, in each directory by itself.  What is written to a file is  *)
(* durable before the file gets its name (tmp.Sync).                       *)
(***************************************************************************)
EXTENDS Naturals, Sequences, FiniteSets

CONSTANTS
  Proc,         \* processes that use the directory
  Epoch,        \* epochs: every Create has one of its own
  Batches,      \* bound: writes of a Record
  FileLoads     \* for every process its calls, and the bounds on syncs that
                \* fail (fails), crashes and power cuts

VARIABLES
  top,          \* changes of the store's directory: where each Record is
  building,     \* changes of a Record's directory: its epoch directory
  batches,      \* changes of an epoch directory: the batch files
  synced,       \* how many changes of each directory are durable
  proc,         \* where each process is
  acked,        \* the writes a caller was told are stored
  deleted,      \* the Records a caller was told are deleted
  early,        \* the Records a sweep took before Delete dated them (Chtimes)
  plan          \* what is left of the load

fileVars == <<top, building, batches, synced, proc, acked, deleted, early, plan>>

-----------------------------------------------------------------------------
(* What the changes amount to.                                             *)

\* The store's directory, and each Record's own and its epoch directory.
Top == <<"top", "all">>
Dirs == {Top} \cup {<<d, e>> : d \in {"record", "epoch"}, e \in Epoch}

\* ".creating-*", the ID, ".deleted-*", or nowhere.
PlaceIn(changes, e) ==
  LET mine == SelectSeq(changes, LAMBDA c : c.epoch = e)
  IN IF mine = <<>> THEN "nowhere" ELSE mine[Len(mine)].to

Place(e) == PlaceIn(top, e)

\* The batch files of an epoch directory, by their first position.
Files(e) == {n \in 1 .. Batches :
               LET mine == SelectSeq(batches[e], LAMBDA c : c.n = n)
               IN mine # <<>> /\ mine[Len(mine)].op = "link"}

Writer(e, n) ==
  LET mine == SelectSeq(batches[e], LAMBDA c : c.n = n /\ c.op = "link")
  IN mine[Len(mine)].by

\* currentDir: the Record under the ID.
Current == {e \in Epoch : Place(e) = "id" /\ building[e] # <<>>}

\* The head of the last batch; 0 for a Record without any.
Head_(e) == IF Files(e) = {} THEN 0 ELSE CHOOSE n \in Files(e) : \A k \in Files(e) : k <= n

Moves(e, to) == top' = Append(top, [epoch |-> e, to |-> to])

Changes(d) == CASE d = Top -> Len(top) [] d[1] = "record" -> Len(building[d[2]])
                [] OTHER -> Len(batches[d[2]])

\* syncDir: every change so far is durable.
Syncs(d) == synced' = [synced EXCEPT ![d] = Changes(d)]

Fails == plan.fails > 0 /\ plan' = [plan EXCEPT !.fails = @ - 1]

Idle(where, calls) == [at |-> where, epoch |-> "none", head |-> 0, calls |-> calls]

Goto(p, where) == proc' = [proc EXCEPT ![p].at = where]

\* The call returns.
Returns(p) == proc' = [proc EXCEPT ![p].at = "idle", ![p].calls = Tail(@)]

Calls(p, op) == proc[p].at = "idle" /\ proc[p].calls # <<>> /\ Head(proc[p].calls) = op

-----------------------------------------------------------------------------
(* Create and publishRecord.                                               *)

Unused == {e \in Epoch : Place(e) = "nowhere" /\ \A q \in Proc : proc[q].epoch # e}

\* currentDir finds a Record: ErrExists.  MkdirTemp and Mkdir otherwise.
Create(p) ==
  /\ Calls(p, "create")
  /\ IF Current # {}
     THEN Returns(p) /\ UNCHANGED <<top, building>>
     ELSE \E e \in Unused :
            /\ e = CHOOSE u \in Unused : TRUE
            /\ Moves(e, "creating")
            /\ building' = [building EXCEPT ![e] = <<"epoch">>]
            /\ proc' = [proc EXCEPT ![p].at = "create_link", ![p].epoch = e, ![p].head = 0]
  /\ UNCHANGED <<batches, synced, acked, deleted, early, plan>>


\* The epoch directory's entry is durable before the rename publishes it.
SyncBuilding(p) ==
  /\ proc[p].at = "create_building"
  /\ \/ Syncs(<<"record", proc[p].epoch>>) /\ Goto(p, "create_rename") /\ UNCHANGED plan
     \/ Fails /\ Goto(p, "create_undo") /\ UNCHANGED synced
  /\ UNCHANGED <<top, building, batches, acked, deleted, early>>

\* Rename to the ID, which fails when a Record is there.
Publish(p) ==
  /\ proc[p].at = "create_rename"
  /\ IF \E e \in Epoch : Place(e) = "id" /\ building[e] # <<>>
     THEN Goto(p, "create_undo") /\ UNCHANGED top
     ELSE Moves(proc[p].epoch, "id") /\ Goto(p, "create_sync")
  /\ UNCHANGED <<building, batches, synced, acked, deleted, early, plan>>

SyncPublished(p) ==
  /\ proc[p].at = "create_sync"
  /\ \/ /\ Syncs(Top)
        /\ acked' = acked \cup {[epoch |-> proc[p].epoch, n |-> 1, by |-> p]}
        /\ UNCHANGED plan
     \/ Fails /\ UNCHANGED <<synced, acked>>
  /\ Returns(p)
  /\ UNCHANGED <<top, building, batches, deleted, early>>

\* The deferred RemoveAll of what was built.
Undo(p) ==
  /\ proc[p].at = "create_undo"
  /\ Moves(proc[p].epoch, "removed")
  /\ Returns(p)
  /\ UNCHANGED <<building, batches, synced, acked, deleted, early, plan>>

-----------------------------------------------------------------------------
(* Load and Append.                                                        *)

\* A writer reads the Record it is going to write.
Load(p) ==
  /\ Calls(p, "append")
  /\ IF Current = {} \/ \E e \in Current : Files(e) = {}
     THEN Returns(p)
     ELSE \E e \in Current :
            proc' = [proc EXCEPT ![p].at = "append_head", ![p].epoch = e, ![p].head = Head_(e)]
  /\ UNCHANGED <<top, building, batches, synced, acked, deleted, early, plan>>

\* head: the cache is right while the file of its last write is there; the
\* directory says so otherwise, and another head is a conflict.
CheckHead(p) ==
  /\ proc[p].at = "append_head"
  /\ LET e == proc[p].epoch
     IN IF Place(e) = "id" /\ (proc[p].head \in Files(e) \/ Head_(e) = proc[p].head)
           /\ proc[p].head < Batches
        THEN Goto(p, "append_link")
        ELSE Returns(p)
  /\ UNCHANGED <<top, building, batches, synced, acked, deleted, early, plan>>

\* Link fails when the name exists.
FreeName(e, n) == n \notin Files(e)

\* writeBatch: the synced file is linked to its name in the writer's own epoch's
\* directory, which is gone when the Record was deleted.
WriteBatch(p) ==
  /\ proc[p].at \in {"append_link", "create_link"}
  /\ LET e  == proc[p].epoch
         n  == proc[p].head + 1
         ok == /\ Place(e) = IF proc[p].at = "append_link" THEN "id" ELSE "creating"
               /\ FreeName(e, n)
     IN IF ok
        THEN /\ batches' = [batches EXCEPT ![e] = Append(@, [op |-> "link", n |-> n, by |-> p])]
             /\ Goto(p, IF proc[p].at = "append_link" THEN "append_sync" ELSE "create_epoch")
        ELSE Returns(p) /\ UNCHANGED batches
  /\ UNCHANGED <<top, building, synced, acked, deleted, early, plan>>

\* The directory is synced by its path; only then the caller is told.
SyncBatch(p) ==
  /\ proc[p].at \in {"append_sync", "create_epoch"}
  /\ LET e == proc[p].epoch
     IN IF proc[p].at = "append_sync" /\ Place(e) # "id"
        THEN Returns(p) /\ UNCHANGED <<synced, acked, plan>>
        ELSE \/ /\ Syncs(<<"epoch", e>>)
                /\ IF proc[p].at = "append_sync"
                   THEN /\ acked' = acked \cup {[epoch |-> e, n |-> proc[p].head + 1, by |-> p]}
                        /\ Returns(p)
                   ELSE Goto(p, "create_building") /\ UNCHANGED acked
                /\ UNCHANGED plan
             \/ /\ Fails
                /\ IF proc[p].at = "append_sync" THEN Returns(p) ELSE Goto(p, "create_undo")
                /\ UNCHANGED <<synced, acked>>
  /\ UNCHANGED <<top, building, batches, deleted, early>>

-----------------------------------------------------------------------------
(* Delete and the sweep.                                                   *)

\* The Record is renamed away,
Delete(p) ==
  /\ Calls(p, "delete")
  /\ IF Current = {}
     THEN Returns(p) /\ UNCHANGED top
     ELSE \E e \in Current :
            /\ Moves(e, "tomb")
            /\ proc' = [proc EXCEPT ![p].at = "delete_date", ![p].epoch = e]
  /\ UNCHANGED <<building, batches, synced, acked, deleted, early, plan>>

\* dated, so that no sweep takes it for a leftover,
Date(p) ==
  /\ proc[p].at = "delete_date"
  /\ Goto(p, "delete_sync")
  /\ UNCHANGED <<top, building, batches, synced, acked, deleted, early, plan>>

\* and the rename is made durable.  When it cannot be, the tomb stays.
SyncDeleted(p) ==
  /\ proc[p].at = "delete_sync"
  /\ \/ /\ Syncs(Top)
        /\ deleted' = deleted \cup {proc[p].epoch}
        /\ Goto(p, "delete_files") /\ UNCHANGED plan
     \/ Fails /\ Returns(p) /\ UNCHANGED <<synced, deleted>>
  /\ UNCHANGED <<top, building, batches, acked, early>>

Unlinks(e) ==
  /\ \E n \in Files(e) : batches' = [batches EXCEPT ![e] = Append(@, [op |-> "unlink", n |-> n, by |-> "none"])]
  /\ UNCHANGED top

\* RemoveAll, a file at a time.
RemoveFiles(p) ==
  /\ proc[p].at = "delete_files"
  /\ IF Files(proc[p].epoch) # {} /\ Place(proc[p].epoch) = "tomb"
     THEN Unlinks(proc[p].epoch) /\ UNCHANGED proc
     ELSE Returns(p) /\ UNCHANGED <<top, batches>>
  /\ UNCHANGED <<building, synced, acked, deleted, early, plan>>

\* NewFileStore sweeps the leftovers: of a process that is gone, and a tomb
\* that still has the age of its Record.
Leftover(e) ==
  \/ Place(e) \in {"creating", "tomb"} /\ \A q \in Proc : proc[q].epoch = e => proc[q].at \in {"idle", "gone"}
  \/ Place(e) = "tomb" /\ \E q \in Proc : proc[q].epoch = e /\ proc[q].at = "delete_date"

Sweep(e) ==
  /\ Leftover(e) /\ plan.sweeps > 0
  /\ IF Files(e) # {} THEN Unlinks(e) ELSE Moves(e, "removed") /\ UNCHANGED batches
  /\ plan' = IF Files(e) # {} THEN plan ELSE [plan EXCEPT !.sweeps = @ - 1]
  /\ early' = IF top = SubSeq(top, 1, synced[Top]) THEN early ELSE early \cup {e}
  /\ UNCHANGED <<building, synced, proc, acked, deleted>>

-----------------------------------------------------------------------------

Crash(p) ==
  /\ plan.crashes > 0 /\ proc[p].at \notin {"idle", "gone"}
  /\ plan' = [plan EXCEPT !.crashes = @ - 1]
  /\ proc' = [proc EXCEPT ![p].at = "gone"]
  /\ UNCHANGED <<top, building, batches, synced, acked, deleted, early>>

\* Every process is gone, and each directory keeps a first part of its changes,
\* the durable ones included.  Only a sweep comes after it.
PowerCut ==
  /\ plan.cuts > 0
  /\ plan' = [plan EXCEPT !.cuts = @ - 1]
  /\ \E t \in synced[Top] .. Len(top) :
       /\ top' = SubSeq(top, 1, t)
       /\ building' \in {f \in [Epoch -> {<<>>, <<"epoch">>}] :
            \A e \in Epoch : Len(f[e]) \in synced[<<"record", e>>] .. Len(building[e])}
       /\ \E k \in [Epoch -> 0 .. 2 * Batches] :
            /\ \A e \in Epoch : k[e] \in synced[<<"epoch", e>>] .. Len(batches[e])
            /\ batches' = [e \in Epoch |-> SubSeq(batches[e], 1, k[e])]
  /\ synced' = [d \in Dirs |-> Changes(d)']
  /\ proc' = [p \in Proc |-> Idle("gone", <<>>)]
  /\ UNCHANGED <<acked, deleted, early>>

Init ==
  /\ plan \in FileLoads
  /\ top = <<>> /\ building = [e \in Epoch |-> <<>>] /\ batches = [e \in Epoch |-> <<>>]
  /\ synced = [d \in Dirs |-> 0]
  /\ proc = [p \in Proc |-> Idle("idle", plan.calls[p])]
  /\ acked = {} /\ deleted = {} /\ early = {}

Works(p) ==
  \/ Create(p) \/ SyncBuilding(p) \/ Publish(p) \/ SyncPublished(p) \/ Undo(p)
  \/ Load(p) \/ CheckHead(p) \/ WriteBatch(p) \/ SyncBatch(p)
  \/ Delete(p) \/ Date(p) \/ SyncDeleted(p) \/ RemoveFiles(p)

Goes == \E p \in Proc : Works(p)

Next ==
  \/ Goes
  \/ \E p \in Proc : Crash(p)
  \/ \E e \in Epoch : Sweep(e)
  \/ PowerCut

Spec == Init /\ [][Next]_fileVars /\ WF_fileVars(Goes)

-----------------------------------------------------------------------------

\* [DATA-LOSS] Through crashes, power cuts and writers in other processes a
\* Record is whole or gone: the batches of the one under the ID have no hole and
\* are there from the first, and a write that its caller was told is stored is
\* still that writer's, until a Delete takes the Record (file.go Append, Delete).
\* But for a Record whose tomb a sweep took before Delete had made its rename
\* durable, and a Record is only sure to be there once its Create was answered:
\* what another process appends before that goes with it.
RecordWholeOrGone ==
  /\ Cardinality({e \in Epoch : Place(e) = "id"}) <= 1
  /\ \A e \in Epoch : Place(e) = "id" =>
       /\ e \notin deleted
       /\ e \notin early =>
            /\ building[e] # <<>> /\ 1 \in Files(e)
            /\ \A n \in Files(e) : 1 .. n \subseteq Files(e)
            /\ \A w \in acked : w.epoch = e => w.n \in Files(e) /\ Writer(e, w.n) = w.by
  /\ \A w \in acked : w.n = 1 => Place(w.epoch) \in {"id", "tomb", "removed"}

\* Every call ends.
FileCallsEnd == \A p \in Proc : proc[p].at = "gone" \/ (proc[p].at = "idle" /\ proc[p].calls = <<>>)
=============================================================================
