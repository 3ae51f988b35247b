------------------------------ MODULE RowStore ------------------------------
(***************************************************************************)
(* The write path of one shard's row store: the buffered transaction over  *)
(* the committed state (store/memstore/tx.rs), its constraints checked     *)
(* when a row is written, the commit merge, the auto-inc counter, and what *)
(* the commit log lets a replica or a restart rebuild.                     *)
(*                                                                         *)
(* One table stands for the schema: its primary key is the #[auto_inc] id, *)
(* `ref` is a #[references] column that points at rows of the same table   *)
(* (0: None), `u` is #[unique].  The declared on_delete action is chosen   *)
(* once.                                                                   *)
(***************************************************************************)
EXTENDS Naturals, Sequences, Functions

CONSTANTS
    MaxId,       \* bound: ids are 1..MaxId
    UniqueVals,  \* values of the #[unique] column
    Step,        \* options.auto_inc_allocation_step
    Actions,     \* the on_delete actions considered
    MaxOps,      \* bound: reducer calls on one transaction
    MaxCommits,  \* bound: committed transactions
    MaxCrashes   \* bound: restarts and promotions

ASSUME RowStoreAssumption ==
    /\ MaxId \in Nat \ {0} /\ 0 \notin UniqueVals
    /\ Step \in Nat \ {0}
    /\ Actions \subseteq {"restrict", "cascade", "set_null"}
    /\ MaxOps \in Nat /\ MaxCommits \in Nat /\ MaxCrashes \in Nat

Ids == 1..MaxId
NoRow == [ref |-> 0, u |-> 0]
Rows == [ref : {0} \cup Ids, u : UniqueVals]

(***************************************************************************)
(* A committed state: the rows, the unique map (value -> owning id, 0 when *)
(* unclaimed) and the published auto-inc high water.                       *)
(***************************************************************************)
States == [rows : [Ids -> Rows \cup {NoRow}],
           uniq : [UniqueVals -> {0} \cup Ids],
           hw : Nat]

\* A record on its way to the log: the rows it takes out, the rows it puts in.
Records == [del : SUBSET Ids,
            ins : UNION {[S -> Rows \cup {NoRow}] : S \in SUBSET Ids},
            hw : Nat]

NoOp == [kind |-> "none", row |-> NoRow]
PendingOps == [kind : {"none", "insert", "update", "delete"}, row : Rows \cup {NoRow}]

\* A transaction's buffer, the calls made on it and the deletes it was refused.
Txs == [open : BOOLEAN, ops : [Ids -> PendingOps], calls : 0..MaxOps,
        refused : SUBSET Ids]

VARIABLES
    onDelete, \* the table's RefAction
    db,       \* MemStore.committed
    ctr,      \* WriterState.counters: [next, high]
    dirty,    \* WriterState.high_water_dirty
    tx,       \* the open Tx: [open, ops, calls, refused]
    queue,    \* records committed and not yet in the log
    image,    \* the state a replica built from the logged records
    severed,  \* history: ids whose refused delete was committed all the same
    issued,   \* history: ids this process handed out, and the logged ones
    logged,   \* history: ids of every row ever logged
    commits, crashes \* counted for the bounds

vars == <<onDelete, db, ctr, dirty, tx, queue, image, severed, issued, logged,
          commits, crashes>>

Empty == [rows |-> [i \in Ids |-> NoRow],
          uniq |-> [v \in UniqueVals |-> 0],
          hw |-> 0]

Closed == [open |-> FALSE, ops |-> [i \in Ids |-> NoOp], calls |-> 0, refused |-> {}]

Init ==
    /\ onDelete \in Actions
    /\ db = Empty
    /\ ctr = [next |-> 1, high |-> 0]
    /\ dirty = FALSE
    /\ tx = Closed
    /\ queue = <<>>
    /\ image = Empty
    /\ severed = {} /\ issued = {} /\ logged = {}
    /\ commits = 0 /\ crashes = 0

----------------------------------------------------------------------------
(* The overlay: what the transaction's own checks see.                     *)

\* scan_all: the committed rows with the pending operations over them.
Overlay(ops) ==
    [i \in Ids |-> CASE ops[i].kind = "none" -> db.rows[i]
                     [] ops[i].kind = "delete" -> NoRow
                     [] OTHER -> ops[i].row]

\* parent_exists: a pending parent counts, one deleted here does not.
ParentExists(ops, ref) ==
    CASE ops[ref].kind \in {"insert", "update"} -> TRUE
      [] ops[ref].kind = "delete" -> FALSE
      [] OTHER -> db.rows[ref] # NoRow

\* The overlay occupancy test of write().
Occupied(ops, id) ==
    \/ ops[id].kind \in {"insert", "update"}
    \/ ops[id].kind = "none" /\ db.rows[id] # NoRow

\* Mutant: only the committed owner is asked.
UniqueOKCommitted(ops, id, v) ==
    LET owner == db.uniq[v] IN
    owner # 0 => \/ owner = id
                 \/ ops[owner].kind \in {"delete", "update"}

\* check_unique: no other pending row carries the value, and its committed
\* owner is this row or one this transaction deleted or replaced.
UniqueOK(ops, id, v) ==
    /\ \A j \in Ids \ {id} :
          ops[j].kind \in {"insert", "update"} => ops[j].row.u # v
    /\ LET owner == db.uniq[v] IN
       owner # 0 => \/ owner = id
                    \/ ops[owner].kind \in {"delete", "update"}

\* The operation write() buffers.  A row deleted or untouched here that gets
\* its committed content back cancels to nothing.
NewOp(ops, id, row) ==
    CASE \/ ops[id].kind = "insert"
         \/ ops[id].kind = "none" /\ db.rows[id] = NoRow
            -> [kind |-> "insert", row |-> row]
      [] ops[id].kind \in {"none", "delete"} /\ db.rows[id] = row
            -> NoOp
      [] OTHER -> [kind |-> "update", row |-> row]

\* delete_one: a pending insert vanishes, anything committed stays deleted.
DeletedOp(ops, id) ==
    IF ops[id].kind = "insert" \/ db.rows[id] = NoRow
    THEN NoOp
    ELSE [kind |-> "delete", row |-> NoRow]

----------------------------------------------------------------------------
(* Auto-inc.                                                               *)

Larger(a, b) == IF a > b THEN a ELSE b

\* AutoIncCounter::allocate: a new batch of Step ids when the last is used up.
Allocated ==
    [next |-> ctr.next + 1,
     high |-> IF ctr.next > ctr.high THEN ctr.next + Step - 1 ELSE ctr.high]

\* AutoIncCounter::observe_explicit: the counter jumps past a chosen id.
Observed(id) == [next |-> Larger(ctr.next, id + 1), high |-> Larger(ctr.high, id)]

\* assign_auto_inc: 0 is the placeholder for an id to be assigned.
NextCounter(id) == IF id = 0 THEN Allocated ELSE Observed(id)

----------------------------------------------------------------------------
(* Operations of a reducer on its transaction.                             *)

\* MemStore::begin takes the writer lock: one transaction at a time.
Begin ==
    /\ ~tx.open /\ commits < MaxCommits
    /\ tx' = [Closed EXCEPT !.open = TRUE]
    /\ UNCHANGED <<onDelete, db, ctr, dirty, queue, image, severed, issued, logged,
                   commits, crashes>>

\* Tx::insert (replace = FALSE) and Tx::upsert (TRUE).  The counter moves
\* before the constraints are checked and stays moved when they fail; a
\* reducer that handles the error goes on with an unchanged buffer, one that
\* does not is rolled back by Rollback.
Write(given, ref, v, replace) ==
    LET id == IF given = 0 THEN ctr.next ELSE given
        row == [ref |-> ref, u |-> v]
        valid == /\ ref # 0 => ParentExists(tx.ops, ref)
                 /\ replace \/ ~Occupied(tx.ops, id)
                 /\ UniqueOK(tx.ops, id, v)
    IN /\ tx.open /\ tx.calls < MaxOps
       /\ id \in Ids
       /\ ctr' = NextCounter(given)
       /\ dirty' = (dirty \/ ctr'.high # ctr.high)
       /\ issued' = issued \cup {id}
       /\ tx' = [tx EXCEPT !.calls = @ + 1,
                           !.ops[id] = IF valid THEN NewOp(tx.ops, id, row) ELSE @]
       /\ UNCHANGED <<onDelete, db, queue, image, severed, logged, commits, crashes>>

\* The rows whose ref is in `gone`, as the overlay shows them.
Children(ops, gone) == {i \in Ids : Overlay(ops)[i] # NoRow /\ Overlay(ops)[i].ref \in gone}

\* Mutant: the worklist is not fed with the rows it deletes.
DoomedOnce(id) == {id} \cup Children(tx.ops, {id})

\* The worklist of a cascading delete: the row and everything that reaches it.
Doomed(id) ==
    LET closed == {S \in SUBSET Ids : id \in S /\ Children(tx.ops, S) \subseteq S}
    IN {i \in Ids : \A S \in closed : i \in S}

\* Tx::delete of a visible row.  The row goes first; then its children are
\* found in the overlay without it.  A restricted delete fails with the row
\* already out of the buffer: the reducer's Err rolls it back, a reducer that
\* handles the error keeps it (there is no savepoint).
Delete(id) ==
    LET without == [tx.ops EXCEPT ![id] = DeletedOp(tx.ops, id)]
        left == Children(without, {id})
        refuse == onDelete = "restrict" /\ left # {}
        after == CASE onDelete = "cascade" ->
                        [i \in Ids |-> IF i \in Doomed(id) THEN DeletedOp(tx.ops, i)
                                       ELSE tx.ops[i]]
                   [] onDelete = "set_null" ->
                        [i \in Ids |-> IF i \in left
                                       THEN NewOp(without, i,
                                                  [Overlay(without)[i] EXCEPT !.ref = 0])
                                       ELSE without[i]]
                   [] OTHER -> without
    IN /\ tx.open /\ tx.calls < MaxOps
       /\ Overlay(tx.ops)[id] # NoRow
       /\ tx' = [tx EXCEPT !.calls = @ + 1, !.ops = after,
                           !.refused = IF refuse THEN @ \cup {id} ELSE @]
       /\ UNCHANGED <<onDelete, db, ctr, dirty, queue, image, severed, issued, logged,
                      commits, crashes>>

----------------------------------------------------------------------------
(* Commit, rollback, log, restart.                                         *)

Touched(ops, kinds) == {i \in Ids : ops[i].kind \in kinds}

\* UniqueConstraint::remove for every id of `gone`, as its row still stands.
Released(state, gone) ==
    [v \in UniqueVals |->
        LET owner == state.uniq[v] IN
        IF owner \in gone /\ state.rows[owner].u = v THEN 0 ELSE owner]

\* UniqueConstraint::insert for every row of `new`: the claims succeed when
\* each value is free or the row's own, and no two rows want the same one.
Claimable(uniq, new) ==
    /\ \A i \in DOMAIN new : uniq[new[i].u] \in {0, i}
    /\ IsInjective([i \in DOMAIN new |-> new[i].u])

Claimed(uniq, new) ==
    [v \in UniqueVals |->
        LET owners == {i \in DOMAIN new : new[i].u = v}
        IN IF owners = {} THEN uniq[v] ELSE CHOOSE i \in owners : TRUE]

NewRows(ops) == [i \in Touched(ops, {"insert", "update"}) |-> ops[i].row]

\* The merge finds what the eager checks promised it: Delete and Update name
\* committed rows, Insert a free key, and no unique claim collides.
MergeOK(ops) ==
    /\ \A i \in Touched(ops, {"delete", "update"}) : db.rows[i] # NoRow
    /\ \A i \in Touched(ops, {"insert"}) : db.rows[i] = NoRow
    /\ Claimable(Released(db, Touched(ops, {"delete", "update"})), NewRows(ops))

\* The new committed state: every vacated value is released before any is
\* claimed; dirty counters publish their high water.
Merge(ops) ==
    [rows |-> Overlay(ops),
     uniq |-> Claimed(Released(db, Touched(ops, {"delete", "update"})), NewRows(ops)),
     hw |-> IF dirty THEN ctr.high ELSE db.hw]

\* Tx::commit, and the TxDiff on its way to the log (0: no high water rides).
Commit ==
    /\ tx.open
    /\ db' = Merge(tx.ops)
    /\ queue' = Append(queue, [del |-> Touched(tx.ops, {"delete", "update"}),
                               ins |-> NewRows(tx.ops),
                               hw |-> IF dirty THEN ctr.high ELSE 0])
    /\ dirty' = FALSE
    /\ severed' = severed \cup tx.refused
    /\ tx' = Closed
    /\ commits' = commits + 1
    /\ UNCHANGED <<onDelete, ctr, image, issued, logged, crashes>>

\* Mutant: the dirty mark is dropped with the transaction.
RollbackClearsDirty ==
    /\ tx.open
    /\ tx' = Closed
    /\ dirty' = FALSE
    /\ UNCHANGED <<onDelete, db, ctr, queue, image, severed, issued, logged,
                   commits, crashes>>

\* The reducer returned Err or panicked.  The counter and its dirty mark
\* belong to the writer, not to the transaction.
Rollback ==
    /\ tx.open
    /\ tx' = Closed
    /\ UNCHANGED <<onDelete, db, ctr, dirty, queue, image, severed, issued, logged,
                   commits, crashes>>

\* apply_replica_record: deletes with their index entries first, then every
\* row is put (over whatever is there) and claims its value.
ApplyReplicaRecord(state, rec) ==
    [rows |-> [i \in Ids |-> IF i \in DOMAIN rec.ins THEN rec.ins[i]
                             ELSE IF i \in rec.del THEN NoRow ELSE state.rows[i]],
     uniq |-> Claimed(Released(state, rec.del \cup DOMAIN rec.ins), rec.ins),
     hw |-> IF rec.hw = 0 THEN state.hw ELSE rec.hw]

ReplicaOK(state, rec) == Claimable(Released(state, rec.del), rec.ins)

\* The log writer makes the oldest record durable and the replica applies it.
Log ==
    /\ queue # <<>>
    /\ image' = ApplyReplicaRecord(image, Head(queue))
    /\ logged' = logged \cup DOMAIN Head(queue).ins
    /\ queue' = Tail(queue)
    /\ UNCHANGED <<onDelete, db, ctr, dirty, tx, severed, issued, commits, crashes>>

\* The fold of recover.rs rebuilds the unique maps from the replayed rows.
Rebuilt(rows) ==
    [v \in UniqueVals |->
        LET owners == {i \in Ids : rows[i].u = v}
        IN IF owners = {} THEN 0 ELSE CHOOSE i \in owners : TRUE]

\* What a new process starts from.  install_recovered, like the replica's
\* own counter, resumes at hw + 1; ids only the lost process knew are free.
Resume(state) ==
    /\ crashes < MaxCrashes
    /\ db' = state
    /\ ctr' = [next |-> state.hw + 1, high |-> state.hw]
    /\ dirty' = FALSE
    /\ tx' = Closed
    /\ queue' = <<>>
    /\ issued' = logged
    /\ crashes' = crashes + 1
    /\ UNCHANGED <<onDelete, image, severed, logged, commits>>

\* The shard restarts and replays its log.
Restart == Resume([image EXCEPT !.uniq = Rebuilt(image.rows)])

\* The replica takes over with the state it built.
Promote == Resume(image)

Next ==
    \/ Begin
    \/ \E given \in {0} \cup Ids, ref \in {0} \cup Ids,
          v \in UniqueVals, replace \in BOOLEAN :
          Write(given, ref, v, replace)
    \/ \E id \in Ids : Delete(id)
    \/ Commit
    \/ Rollback
    \/ Log
    \/ Restart
    \/ Promote

Spec == Init /\ [][Next]_vars

----------------------------------------------------------------------------
(* Properties.                                                             *)

\* Every variable has its type.
TypeOK ==
    /\ onDelete \in Actions
    /\ db \in States /\ image \in States
    /\ ctr \in [next : Nat, high : Nat]
    /\ dirty \in BOOLEAN
    /\ tx \in Txs
    /\ queue \in Seq(Records)
    /\ severed \subseteq Ids /\ issued \subseteq Ids /\ logged \subseteq Ids
    /\ commits \in 0..MaxCommits /\ crashes \in 0..MaxCrashes

\* Every reference names a row, in the committed state and in the replica's:
\* the eager overlay check of write() and the cascade, set_null or restrict of
\* delete() leave no dangling reference whatever the order of a transaction's
\* calls.  The exception is a delete that restrict refused in a transaction
\* that went on to commit.
RefsHold ==
    \A state \in {db, image} : \A i \in Ids :
        LET ref == state.rows[i].ref
        IN ref # 0 => state.rows[ref] # NoRow \/ ref \in severed

\* The eager checks make the merge infallible, at every point of a
\* transaction, and so does the replica's application of the record; the
\* unique maps say exactly what the rows do (a value moved between rows of
\* one transaction included), and a replica that has every record holds the
\* primary's state, its high water included.
StoreConsistent ==
    /\ tx.open => MergeOK(tx.ops)
    /\ queue # <<>> => ReplicaOK(image, Head(queue))
    /\ \A state \in {db, image} :
          /\ state.uniq = Rebuilt(state.rows)
          /\ \A i, j \in Ids : i # j /\ state.rows[i] # NoRow => state.rows[i].u # state.rows[j].u
    /\ queue = <<>> => image = db

\* The counter is past every id the process handed out, in rolled back
\* transactions and failed writes too, and past every logged id after a
\* restart or a promotion: an id is never given to a second row.
IdsNotReused == \A id \in issued : id < ctr.next
=============================================================================
