--------------------------- MODULE RowStoreProofs ---------------------------
(***************************************************************************)
(* For every table size, allocation step and number of transactions and    *)
(* restarts: the row store never gives an auto-inc id to two rows, and     *)
(* references, unique maps and the replica stay consistent.                *)
(***************************************************************************)
EXTENDS RowStore, TLAPS

(***************************************************************************)
(* IdsNotReused is not inductive: after a restart the counter comes from   *)
(* the high water of the logged records.  What carries an id there is the  *)
(* record of the transaction that used it, or an earlier one: a high water *)
(* is either still marked dirty, so that the next commit takes it along,   *)
(* or in a record that is at most as late as any row that needs it.        *)
(***************************************************************************)

\* The logged records, and the first k that wait for the log, carry a high
\* water of n or more.
Carried(n, k) == n <= image.hw \/ \E j \in 1..k : n <= queue[j].hw

CounterInv ==
    /\ ctr.next <= ctr.high + 1
    /\ \A id \in issued : id < ctr.next
    /\ \A i \in Ids : db.rows[i] # NoRow => i < ctr.next
    /\ \A i \in Ids : tx.ops[i].kind \in {"insert", "update"} => i < ctr.next

\* High waters only rise along the log, and none is ahead of the counter.
HighWaterInv ==
    /\ image.hw <= ctr.high
    /\ \A k \in DOMAIN queue :
          /\ queue[k].hw <= ctr.high
          /\ queue[k].hw # 0 => image.hw <= queue[k].hw
          /\ \A j \in 1..k : queue[k].hw # 0 => queue[j].hw <= queue[k].hw

CarriedInv ==
    /\ dirty \/ Carried(ctr.high, Len(queue))
    /\ \A k \in DOMAIN queue : \A id \in DOMAIN queue[k].ins : Carried(id, k)
    /\ \A id \in logged : id <= image.hw
    /\ \A i \in Ids : image.rows[i] # NoRow => i <= image.hw

\* Only Begin looks at the bound on commits.
BoundInv == tx.open => commits < MaxCommits

TypeInv == TypeOK /\ BoundInv

IdsInv == CounterInv /\ HighWaterInv /\ CarriedInv

----------------------------------------------------------------------------
(* Types of the operators.                                                 *)

\* Overlay shows a row, or none, for every id.
LEMMA OverlayType ==
    ASSUME db \in States, NEW ops \in [Ids -> PendingOps]
    PROVE  /\ Overlay(ops) \in [Ids -> Rows \cup {NoRow}]
           /\ \A i \in Ids : Overlay(ops)[i] # NoRow =>
                 db.rows[i] # NoRow \/ ops[i].kind \in {"insert", "update"}
<1>1. \A i \in Ids : /\ ops[i].kind \in {"none", "insert", "update", "delete"}
                     /\ ops[i].row \in Rows \cup {NoRow}
                     /\ db.rows[i] \in Rows \cup {NoRow}
  BY DEF PendingOps, States
<1> QED  BY <1>1 DEF Overlay

\* NewOp buffers an operation, an insert or an update only for its own row.
LEMMA NewOpType ==
    ASSUME db \in States, NEW ops \in [Ids -> PendingOps], NEW id \in Ids,
           NEW row \in Rows \cup {NoRow}
    PROVE  NewOp(ops, id, row) \in PendingOps
BY DEF NewOp, PendingOps, NoOp

\* DeletedOp buffers no row.
LEMMA DeletedOpType ==
    ASSUME NEW ops \in [Ids -> PendingOps], NEW id \in Ids
    PROVE  /\ DeletedOp(ops, id) \in PendingOps
           /\ DeletedOp(ops, id).kind \notin {"insert", "update"}
BY DEF DeletedOp, PendingOps, NoOp

\* The record a commit sends to the log is one.
LEMMA RecordType ==
    ASSUME NEW ops \in [Ids -> PendingOps], NEW n \in Nat
    PROVE  /\ [del |-> Touched(ops, {"delete", "update"}), ins |-> NewRows(ops), hw |-> n]
                 \in Records
           /\ DOMAIN NewRows(ops) = Touched(ops, {"insert", "update"})
<1> DEFINE T == Touched(ops, {"insert", "update"})
<1>1. T \in SUBSET Ids /\ Touched(ops, {"delete", "update"}) \in SUBSET Ids
  BY DEF Touched
<1>2. NewRows(ops) \in [T -> Rows \cup {NoRow}]
  BY <1>1 DEF NewRows, PendingOps
<1>3. NewRows(ops) \in UNION {[S -> Rows \cup {NoRow}] : S \in SUBSET Ids}
  BY <1>1, <1>2
<1> QED  BY <1>1, <1>2, <1>3 DEF Records

\* A claim puts an id or keeps what was there.
LEMMA ClaimedType ==
    ASSUME NEW uniq \in [UniqueVals -> {0} \cup Ids], NEW S \in SUBSET Ids,
           NEW new \in [S -> Rows \cup {NoRow}]
    PROVE  Claimed(uniq, new) \in [UniqueVals -> {0} \cup Ids]
<1>1. ASSUME NEW v \in UniqueVals
      PROVE  LET owners == {i \in DOMAIN new : new[i].u = v}
             IN (IF owners = {} THEN uniq[v] ELSE CHOOSE i \in owners : TRUE) \in {0} \cup Ids
  <2> DEFINE owners == {i \in DOMAIN new : new[i].u = v}
  <2>1. CASE owners = {}
    BY <2>1
  <2>2. CASE owners # {}
    <3>1. (CHOOSE i \in owners : TRUE) \in owners
      BY <2>2
    <3>2. owners \subseteq Ids
      OBVIOUS
    <3> QED  BY <2>2, <3>1, <3>2
  <2> QED  BY <2>1, <2>2
<1> QED  BY <1>1 DEF Claimed

\* Releasing values keeps the type of the unique map.
LEMMA ReleasedType ==
    ASSUME NEW state \in States, NEW gone \in SUBSET Ids
    PROVE  Released(state, gone) \in [UniqueVals -> {0} \cup Ids]
BY DEF Released, States

\* The unique map recovery rebuilds has its type.
LEMMA RebuiltType ==
    ASSUME NEW rows \in [Ids -> Rows \cup {NoRow}]
    PROVE  Rebuilt(rows) \in [UniqueVals -> {0} \cup Ids]
<1>1. ASSUME NEW v \in UniqueVals
      PROVE  LET owners == {i \in Ids : rows[i].u = v}
             IN (IF owners = {} THEN 0 ELSE CHOOSE i \in owners : TRUE) \in {0} \cup Ids
  <2> DEFINE owners == {i \in Ids : rows[i].u = v}
  <2>1. CASE owners = {}
    BY <2>1
  <2>2. CASE owners # {}
    <3>1. (CHOOSE i \in owners : TRUE) \in owners
      BY <2>2
    <3> QED  BY <2>2, <3>1
  <2> QED  BY <2>1, <2>2
<1> QED  BY <1>1 DEF Rebuilt

\* The parts of a transaction make one.
LEMMA TxType ==
    ASSUME NEW o \in BOOLEAN, NEW ops \in [Ids -> PendingOps], NEW c \in 0..MaxOps,
           NEW r \in SUBSET Ids
    PROVE  [open |-> o, ops |-> ops, calls |-> c, refused |-> r] \in Txs
BY DEF Txs

\* The transaction that is not open.
LEMMA ClosedType ==
    /\ Closed \in Txs
    /\ Closed.open = FALSE
    /\ \A i \in Ids : Closed.ops[i].kind \notin {"insert", "update"}
<1> DEFINE ops == [i \in Ids |-> NoOp]
<1>1. NoOp \in PendingOps /\ NoOp.kind = "none"
  BY DEF PendingOps, NoOp
<1>2. ops \in [Ids -> PendingOps]
  BY <1>1
<1>3. 0 \in 0..MaxOps
  BY RowStoreAssumption DEF RowStoreAssumption
<1>4. [open |-> FALSE, ops |-> ops, calls |-> 0, refused |-> {}] \in Txs
  BY <1>2, <1>3, TxType
<1> QED  BY <1>1, <1>4 DEF Closed, ops

----------------------------------------------------------------------------
(* The steps.                                                              *)

\* A fresh store has its types.
LEMMA InitTypes == Init => TypeInv
<1> SUFFICES ASSUME Init PROVE TypeInv
  OBVIOUS
<1> USE RowStoreAssumption DEF RowStoreAssumption, Init
<1>1. Empty \in States
  BY DEF Empty, States
<1>2. tx \in Txs
  BY ClosedType
<1>3. queue \in Seq(Records)
  OBVIOUS
<1>4. commits \in 0..MaxCommits /\ crashes \in 0..MaxCrashes
  OBVIOUS
<1>5. ctr \in [next : Nat, high : Nat]
  OBVIOUS
<1> QED  BY <1>1, <1>2, <1>3, <1>4, <1>5, ClosedType DEF TypeInv, TypeOK, BoundInv

\* A write keeps the types.
LEMMA WriteTypes ==
    ASSUME TypeInv, NEW given \in {0} \cup Ids, NEW ref \in {0} \cup Ids,
           NEW v \in UniqueVals, NEW replace \in BOOLEAN, Write(given, ref, v, replace)
    PROVE  TypeInv'
<1> USE RowStoreAssumption DEF RowStoreAssumption
<1> DEFINE id == IF given = 0 THEN ctr.next ELSE given
           row == [ref |-> ref, u |-> v]
<1>1. PICK valid \in BOOLEAN :
        tx' = [tx EXCEPT !.calls = @ + 1,
                         !.ops[id] = IF valid THEN NewOp(tx.ops, id, row) ELSE @]
  BY DEF Write
<1>2. /\ id \in Ids /\ tx.calls < MaxOps
      /\ ctr' = NextCounter(given) /\ dirty' \in BOOLEAN
      /\ issued' = issued \cup {id}
      /\ UNCHANGED <<onDelete, db, queue, image, severed, logged, commits, crashes>>
  BY DEF Write
<1>3. /\ tx \in Txs /\ tx.ops \in [Ids -> PendingOps] /\ tx.calls \in 0..MaxOps
      /\ tx.refused \in SUBSET Ids /\ tx.open \in BOOLEAN
      /\ db \in States
  BY DEF TypeInv, TypeOK, Txs
<1>4. row \in Rows \cup {NoRow}
  BY DEF Rows
<1>5. NewOp(tx.ops, id, row) \in PendingOps
  BY <1>2, <1>3, <1>4, NewOpType
<1> HIDE DEF id, row
<1>6. tx' = [open |-> tx.open,
             ops |-> [tx.ops EXCEPT ![id] = IF valid THEN NewOp(tx.ops, id, row) ELSE @],
             calls |-> tx.calls + 1, refused |-> tx.refused]
  BY <1>1, <1>3 DEF Txs
<1>7. tx' \in Txs
  <2>1. [tx.ops EXCEPT ![id] = IF valid THEN NewOp(tx.ops, id, row) ELSE @]
           \in [Ids -> PendingOps]
    BY <1>2, <1>3, <1>5
  <2>2. tx.calls + 1 \in 0..MaxOps
    BY <1>2, <1>3
  <2> QED  BY <1>3, <1>6, <2>1, <2>2, TxType
<1>8. ctr' \in [next : Nat, high : Nat]
  BY <1>2 DEF TypeInv, TypeOK, NextCounter, Allocated, Observed, Larger, Ids
<1>9. BoundInv'
  BY <1>2, <1>6 DEF TypeInv, BoundInv
<1> QED  BY <1>2, <1>7, <1>8, <1>9 DEF TypeInv, TypeOK

\* The buffer after a delete: every operation of it has its type, and an
\* insert or an update is of a row that was visible before.
LEMMA DeleteOps ==
    ASSUME TypeInv, NEW id \in Ids, Delete(id)
    PROVE  /\ tx'.ops \in [Ids -> PendingOps]
           /\ \A i \in Ids : tx'.ops[i].kind \in {"insert", "update"} =>
                 db.rows[i] # NoRow \/ tx.ops[i].kind \in {"insert", "update"}
<1> DEFINE without == [tx.ops EXCEPT ![id] = DeletedOp(tx.ops, id)]
           left == Children(without, {id})
           cascade == [i \in Ids |-> IF i \in Doomed(id) THEN DeletedOp(tx.ops, i)
                                     ELSE tx.ops[i]]
           nulled(i) == [Overlay(without)[i] EXCEPT !.ref = 0]
           setNull == [i \in Ids |-> IF i \in left THEN NewOp(without, i, nulled(i))
                                     ELSE without[i]]
           P(o) == /\ o \in [Ids -> PendingOps]
                   /\ \A i \in Ids : o[i].kind \in {"insert", "update"} =>
                        db.rows[i] # NoRow \/ tx.ops[i].kind \in {"insert", "update"}
<1>1. /\ tx \in Txs /\ tx.ops \in [Ids -> PendingOps] /\ db \in States
  BY DEF TypeInv, TypeOK, Txs
<1>2. tx'.ops = CASE onDelete = "cascade" -> cascade
                  [] onDelete = "set_null" -> setNull
                  [] OTHER -> without
  BY <1>1 DEF Delete, Txs
<1>3. P(without)
  BY <1>1, DeletedOpType
<1>4. P(cascade)
  BY <1>1, DeletedOpType
<1>5. P(setNull)
  <2> HIDE DEF without
  <2>1. \A i \in left : /\ i \in Ids
                        /\ Overlay(without)[i] \in Rows \cup {NoRow}
                        /\ Overlay(without)[i] # NoRow
    BY <1>1, <1>3, OverlayType DEF Children
  <2>2. \A i \in left : nulled(i) \in Rows \cup {NoRow}
    BY <2>1 DEF Rows, NoRow
  <2>3. \A i \in left : /\ NewOp(without, i, nulled(i)) \in PendingOps
                        /\ db.rows[i] # NoRow \/ tx.ops[i].kind \in {"insert", "update"}
    BY <1>1, <1>3, <2>1, <2>2, NewOpType, OverlayType
  <2> HIDE DEF left, nulled
  <2>4. \A i \in Ids : without[i] \in PendingOps
    BY <1>3
  <2> QED  BY <1>3, <2>3, <2>4
<1> HIDE DEF without, cascade, setNull
<1> QED  BY <1>2, <1>3, <1>4, <1>5

\* A delete keeps the types.
LEMMA DeleteTypes ==
    ASSUME TypeInv, NEW id \in Ids, Delete(id)
    PROVE  TypeInv'
<1>1. /\ tx \in Txs /\ tx.calls \in 0..MaxOps /\ tx.refused \in SUBSET Ids
      /\ tx.open \in BOOLEAN
  BY DEF TypeInv, TypeOK, Txs
<1>2. /\ tx.calls < MaxOps
      /\ UNCHANGED <<onDelete, db, ctr, dirty, queue, image, severed, issued, logged,
                     commits, crashes>>
  BY DEF Delete
<1>3. /\ tx' = [open |-> tx.open, ops |-> tx'.ops, calls |-> tx.calls + 1,
                refused |-> tx'.refused]
      /\ tx'.refused \in {tx.refused, tx.refused \cup {id}}
  BY <1>1 DEF Delete, Txs
<1>4. tx' \in Txs
  <2>1. tx.calls + 1 \in 0..MaxOps
    BY <1>1, <1>2, RowStoreAssumption DEF RowStoreAssumption
  <2>2. tx'.refused \in SUBSET Ids
    BY <1>1, <1>3
  <2>3. [open |-> tx.open, ops |-> tx'.ops, calls |-> tx.calls + 1,
         refused |-> tx'.refused] \in Txs
    BY <1>1, <2>1, <2>2, DeleteOps, TxType
  <2> QED  BY <1>3, <2>3
<1>5. BoundInv'
  BY <1>2, <1>3 DEF TypeInv, BoundInv
<1> QED  BY <1>2, <1>4, <1>5 DEF TypeInv, TypeOK

\* A commit keeps the types.
LEMMA CommitTypes ==
    ASSUME TypeInv, Commit
    PROVE  TypeInv'
<1>1. /\ tx \in Txs /\ tx.ops \in [Ids -> PendingOps] /\ db \in States
      /\ db.hw \in Nat /\ ctr.high \in Nat /\ commits \in Nat
      /\ tx.refused \in SUBSET Ids
  BY RowStoreAssumption DEF RowStoreAssumption, TypeInv, TypeOK, Txs, States
<1>2. db' \in States
  <2>1. Overlay(tx.ops) \in [Ids -> Rows \cup {NoRow}]
    BY <1>1, OverlayType
  <2>2. Released(db, Touched(tx.ops, {"delete", "update"})) \in [UniqueVals -> {0} \cup Ids]
    BY <1>1, ReleasedType DEF Touched
  <2>3. /\ Touched(tx.ops, {"insert", "update"}) \in SUBSET Ids
        /\ NewRows(tx.ops) \in [Touched(tx.ops, {"insert", "update"}) -> Rows \cup {NoRow}]
    BY <1>1 DEF Touched, NewRows, PendingOps
  <2>4. Claimed(Released(db, Touched(tx.ops, {"delete", "update"})), NewRows(tx.ops))
           \in [UniqueVals -> {0} \cup Ids]
    BY <2>2, <2>3, ClaimedType
  <2> QED  BY <1>1, <2>1, <2>4 DEF Commit, Merge, States
<1>3. queue' \in Seq(Records)
  BY <1>1, RecordType DEF Commit, TypeInv, TypeOK
<1>4. commits' \in 0..MaxCommits
  BY <1>1, RowStoreAssumption DEF RowStoreAssumption, Commit, TypeInv, BoundInv
<1> QED  BY <1>1, <1>2, <1>3, <1>4, ClosedType DEF Commit, TypeInv, TypeOK, BoundInv

\* The replica's application of a record keeps the types.
LEMMA ApplyType ==
    ASSUME NEW state \in States, NEW rec \in Records
    PROVE  ApplyReplicaRecord(state, rec) \in States
<1>1. PICK S \in SUBSET Ids : rec.ins \in [S -> Rows \cup {NoRow}]
  BY DEF Records
<1>2. /\ rec.del \in SUBSET Ids /\ rec.hw \in Nat /\ DOMAIN rec.ins = S
      /\ state.hw \in Nat /\ state.rows \in [Ids -> Rows \cup {NoRow}]
  BY <1>1 DEF Records, States
<1>3. Released(state, rec.del \cup DOMAIN rec.ins) \in [UniqueVals -> {0} \cup Ids]
  BY <1>2, ReleasedType
<1>4. Claimed(Released(state, rec.del \cup DOMAIN rec.ins), rec.ins)
         \in [UniqueVals -> {0} \cup Ids]
  BY <1>1, <1>3, ClaimedType
<1>5. [i \in Ids |-> IF i \in DOMAIN rec.ins THEN rec.ins[i]
                     ELSE IF i \in rec.del THEN NoRow ELSE state.rows[i]]
         \in [Ids -> Rows \cup {NoRow}]
  BY <1>1, <1>2
<1> QED  BY <1>2, <1>4, <1>5 DEF ApplyReplicaRecord, States

\* What the log takes and what is left of the queue.
LEMMA QueueFacts ==
    ASSUME TypeInv, queue # <<>>
    PROVE  /\ Head(queue) = queue[1] /\ queue[1] \in Records
           /\ Tail(queue) \in Seq(Records) /\ Len(queue) \in Nat \ {0}
           /\ Len(Tail(queue)) = Len(queue) - 1
           /\ \A k \in 1..Len(Tail(queue)) : Tail(queue)[k] = queue[k + 1]
BY DEF TypeInv, TypeOK

\* Every step keeps the types.
LEMMA StepTypes == TypeInv /\ [Next]_vars => TypeInv'
<1> SUFFICES ASSUME TypeInv, [Next]_vars PROVE TypeInv'
  OBVIOUS
<1>1. CASE Begin
  <2>1. tx' = [open |-> TRUE, ops |-> Closed.ops, calls |-> 0, refused |-> {}]
    BY <1>1 DEF Begin, Closed
  <2>2. tx' \in Txs
    <3>1. Closed.ops \in [Ids -> PendingOps] /\ 0 \in 0..MaxOps
      BY ClosedType, RowStoreAssumption DEF RowStoreAssumption, Txs
    <3> QED  BY <2>1, <3>1, TxType
  <2> QED  BY <1>1, <2>2 DEF Begin, TypeInv, TypeOK, BoundInv
<1>2. CASE \E given \in {0} \cup Ids, ref \in {0} \cup Ids,
              v \in UniqueVals, replace \in BOOLEAN :
             Write(given, ref, v, replace)
  BY <1>2, WriteTypes
<1>3. CASE \E id \in Ids : Delete(id)
  BY <1>3, DeleteTypes
<1>4. CASE Commit
  BY <1>4, CommitTypes
<1>5. CASE Rollback
  BY <1>5, ClosedType DEF Rollback, TypeInv, TypeOK, BoundInv
<1>6. CASE Log
  <2>1. image' \in States /\ queue' \in Seq(Records)
    BY <1>6, QueueFacts, ApplyType DEF Log, TypeInv, TypeOK
  <2>2. logged' \subseteq Ids
    BY <1>6, QueueFacts DEF Log, TypeInv, TypeOK, Records
  <2> QED  BY <1>6, <2>1, <2>2 DEF Log, TypeInv, TypeOK, BoundInv
<1>7. ASSUME NEW state \in States, Resume(state)
      PROVE  TypeInv'
  <2>1. crashes' \in 0..MaxCrashes
    BY <1>7, RowStoreAssumption DEF RowStoreAssumption, Resume, TypeInv, TypeOK
  <2>2. state.hw \in Nat
    BY DEF States
  <2>3. ctr' \in [next : Nat, high : Nat]
    BY <1>7, <2>2 DEF Resume
  <2>4. tx' \in Txs /\ BoundInv'
    BY <1>7, ClosedType DEF Resume, BoundInv
  <2>5. queue' \in Seq(Records)
    <3>1. queue' = <<>>
      BY <1>7 DEF Resume
    <3> QED  BY <3>1
  <2>6. dirty' \in BOOLEAN
    BY <1>7 DEF Resume
  <2> QED  BY <1>7, <2>1, <2>3, <2>4, <2>5, <2>6 DEF Resume, TypeInv, TypeOK
<1>8. CASE Restart
  <2>1. [image EXCEPT !.uniq = Rebuilt(image.rows)] \in States
    BY RebuiltType DEF TypeInv, TypeOK, States
  <2> QED  BY <1>7, <1>8, <2>1 DEF Restart
<1>9. CASE Promote
  BY <1>7, <1>9 DEF Promote, TypeInv, TypeOK
<1>10. CASE UNCHANGED vars
  BY <1>10 DEF vars, TypeInv, TypeOK, BoundInv
<1> QED  BY <1>1, <1>2, <1>3, <1>4, <1>5, <1>6, <1>8, <1>9, <1>10 DEF Next

\* A fresh counter has given nothing out.
LEMMA InitIds == Init => IdsInv
<1> SUFFICES ASSUME Init PROVE IdsInv
  OBVIOUS
<1> USE RowStoreAssumption DEF RowStoreAssumption, Init
<1>5. CounterInv
  BY ClosedType DEF CounterInv, Empty
<1>6. HighWaterInv /\ CarriedInv
  BY DEF HighWaterInv, CarriedInv, Empty, Carried
<1> QED  BY <1>5, <1>6 DEF IdsInv

\* The number types the arithmetic below rests on.
LEMMA Numbers ==
    ASSUME TypeInv
    PROVE  /\ ctr.next \in Nat /\ ctr.high \in Nat /\ image.hw \in Nat
           /\ Len(queue) \in Nat /\ DOMAIN queue = 1..Len(queue)
           /\ \A k \in DOMAIN queue : queue[k].hw \in Nat /\ queue[k] \in Records
           /\ \A k \in DOMAIN queue : DOMAIN queue[k].ins \subseteq Ids
           /\ Ids \subseteq Nat /\ issued \subseteq Nat /\ logged \subseteq Nat
           /\ tx.ops \in [Ids -> PendingOps] /\ db \in States
<1>1. queue \in Seq(Records) /\ tx \in Txs /\ db \in States /\ image \in States
      /\ ctr \in [next : Nat, high : Nat] /\ issued \subseteq Ids /\ logged \subseteq Ids
  BY DEF TypeInv, TypeOK
<1>2. Ids \subseteq Nat
  BY RowStoreAssumption DEF RowStoreAssumption, Ids
<1>3. \A rec \in Records : rec.hw \in Nat /\ DOMAIN rec.ins \subseteq Ids
  BY DEF Records
<1>4. /\ Len(queue) \in Nat /\ DOMAIN queue = 1..Len(queue)
      /\ \A k \in DOMAIN queue : queue[k] \in Records
  BY <1>1
<1>5. image.hw \in Nat /\ tx.ops \in [Ids -> PendingOps]
  BY <1>1 DEF States, Txs
<1> QED  BY <1>1, <1>2, <1>3, <1>4, <1>5

\* A write moves the counter past the id it uses, and marks a higher high
\* water dirty.
LEMMA WriteIds ==
    ASSUME TypeInv, IdsInv, NEW given \in {0} \cup Ids, NEW ref \in {0} \cup Ids,
           NEW v \in UniqueVals, NEW replace \in BOOLEAN, Write(given, ref, v, replace)
    PROVE  IdsInv'
<1> DEFINE id == IF given = 0 THEN ctr.next ELSE given
<1>1. /\ id \in Ids
      /\ ctr' = NextCounter(given) /\ dirty' = (dirty \/ ctr'.high # ctr.high)
      /\ issued' = issued \cup {id}
      /\ UNCHANGED <<db, queue, image, logged>>
  BY DEF Write
<1>2. /\ ctr'.next \in Nat /\ ctr'.high \in Nat
      /\ ctr'.next <= ctr'.high + 1 /\ id < ctr'.next
      /\ ctr.next <= ctr'.next /\ ctr.high <= ctr'.high
  <2>1. /\ ctr.next \in Nat /\ ctr.high \in Nat /\ ctr.next <= ctr.high + 1
        /\ Step \in Nat /\ Step >= 1 /\ given \in Nat /\ (given = 0 => id = ctr.next) /\ (given # 0 => id = given)
    BY <1>1, Numbers, RowStoreAssumption DEF RowStoreAssumption, IdsInv, CounterInv
  <2> HIDE DEF id
  <2>2. CASE given = 0
    <3>1. ctr' = Allocated
      BY <1>1, <2>2 DEF NextCounter
    <3>2. /\ ctr'.next = ctr.next + 1
          /\ ctr'.high = IF ctr.next > ctr.high THEN ctr.next + Step - 1 ELSE ctr.high
      BY <3>1 DEF Allocated
    <3> QED  BY <2>1, <2>2, <3>2
  <2>3. CASE given # 0
    <3>1. ctr' = Observed(given)
      BY <1>1, <2>3 DEF NextCounter
    <3>2. ctr'.next = Larger(ctr.next, given + 1) /\ ctr'.high = Larger(ctr.high, given)
      BY <3>1 DEF Observed
    <3> QED  BY <2>1, <2>3, <3>2 DEF Larger
  <2> QED  BY <2>2, <2>3
<1>3. \A i \in Ids \ {id} : tx'.ops[i] = tx.ops[i]
  BY <1>1, Numbers DEF Write, TypeInv, TypeOK, Txs
<1> HIDE DEF id
<1>4. CounterInv'
  <2>1. CounterInv /\ ctr.next \in Nat /\ Ids \subseteq Nat /\ issued \subseteq Nat
    BY Numbers DEF IdsInv
  <2>2. \A i \in issued' : i < ctr'.next
    BY <1>1, <1>2, <2>1 DEF CounterInv
  <2>3. \A i \in Ids : db'.rows[i] # NoRow => i < ctr'.next
    BY <1>1, <1>2, <2>1 DEF CounterInv
  <2>4. \A i \in Ids : tx'.ops[i].kind \in {"insert", "update"} => i < ctr'.next
    BY <1>1, <1>2, <1>3, <2>1 DEF CounterInv
  <2> QED  BY <1>2, <2>2, <2>3, <2>4 DEF CounterInv
<1>5. HighWaterInv'
  BY <1>1, <1>2, Numbers DEF IdsInv, HighWaterInv
<1>6. CarriedInv'
  BY <1>1 DEF IdsInv, CarriedInv, Carried
<1> QED  BY <1>4, <1>5, <1>6 DEF IdsInv

\* A delete buffers rows that were visible before it.
LEMMA DeleteIds ==
    ASSUME TypeInv, IdsInv, NEW id \in Ids, Delete(id)
    PROVE  IdsInv'
<1>1. UNCHANGED <<db, ctr, dirty, queue, image, issued, logged>>
  BY DEF Delete
<1>2. CounterInv'
  BY <1>1, DeleteOps DEF IdsInv, CounterInv
<1>3. HighWaterInv' /\ CarriedInv'
  BY <1>1 DEF IdsInv, HighWaterInv, CarriedInv, Carried
<1> QED  BY <1>2, <1>3 DEF IdsInv

\* A commit sends a dirty high water along with the rows that need it; a clean
\* one is in an earlier record.
LEMMA CommitIds ==
    ASSUME TypeInv, TypeInv', IdsInv, Commit
    PROVE  IdsInv'
<1> DEFINE n == Len(queue)
           rec == [del |-> Touched(tx.ops, {"delete", "update"}),
                   ins |-> NewRows(tx.ops),
                   hw |-> IF dirty THEN ctr.high ELSE 0]
<1>1. /\ queue' = Append(queue, rec) /\ dirty' = FALSE /\ db'.rows = Overlay(tx.ops)
      /\ tx' = Closed /\ UNCHANGED <<ctr, image, issued, logged>>
  BY DEF Commit, Merge
<1>2. /\ Len(queue') = n + 1 /\ queue'[n + 1] = rec
      /\ \A k \in 1..n : queue'[k] = queue[k]
      /\ DOMAIN queue' = 1..(n + 1)
  BY <1>1 DEF TypeInv, TypeOK
<1>3. /\ rec.hw = (IF dirty THEN ctr.high ELSE 0)
      /\ rec.ins = NewRows(tx.ops)
  OBVIOUS
<1>4. \A id \in DOMAIN NewRows(tx.ops) : id \in Ids /\ id <= ctr.high
  <2>1. DOMAIN NewRows(tx.ops) = Touched(tx.ops, {"insert", "update"})
    BY DEF NewRows
  <2> QED  BY <2>1, Numbers DEF Touched, IdsInv, CounterInv
<1> HIDE DEF rec
<1>5. CounterInv'
  BY <1>1, OverlayType, ClosedType, Numbers DEF IdsInv, CounterInv
<1>6. HighWaterInv'
  <2>1. ASSUME NEW k \in DOMAIN queue'
        PROVE  /\ queue'[k].hw <= ctr.high
               /\ queue'[k].hw # 0 => image.hw <= queue'[k].hw
               /\ \A j \in 1..k : queue'[k].hw # 0 => queue'[j].hw <= queue'[k].hw
    <3>1. CASE k \in 1..n
      BY <1>2, <3>1, Numbers DEF IdsInv, HighWaterInv
    <3>2. CASE k = n + 1
      BY <1>2, <1>3, <3>2, Numbers, SMTT(30) DEF IdsInv, HighWaterInv
    <3> QED  BY <1>2, <2>1, <3>1, <3>2, Numbers
  <2> QED  BY <1>1, <2>1 DEF IdsInv, HighWaterInv
<1>7. ctr.high <= image'.hw \/ \E j \in 1..(n + 1) : ctr.high <= queue'[j].hw
  BY <1>1, <1>2, <1>3, Numbers DEF IdsInv, CarriedInv, Carried
<1>8. CarriedInv'
  <2>1. ASSUME NEW k \in DOMAIN queue', NEW id \in DOMAIN queue'[k].ins
        PROVE  Carried(id, k)'
    <3>1. CASE k \in 1..n
      BY <1>1, <1>2, <2>1, <3>1, Numbers DEF IdsInv, CarriedInv, Carried
    <3>2. CASE k = n + 1
      <4>1. id \in Nat /\ id <= ctr.high
        BY <1>2, <1>3, <1>4, <2>1, <3>2, Numbers
      <4>2. image'.hw \in Nat /\ \A j \in 1..(n + 1) : queue'[j].hw \in Nat
        BY <1>1, <1>2, <1>3, Numbers
      <4> QED  BY <1>7, <3>2, <4>1, <4>2, Numbers DEF Carried
    <3> QED  BY <1>2, <2>1, <3>1, <3>2, Numbers
  <2>2. Carried(ctr.high, Len(queue))'
    BY <1>1, <1>2, <1>7 DEF Carried
  <2> QED  BY <1>1, <2>1, <2>2 DEF IdsInv, CarriedInv
<1> QED  BY <1>5, <1>6, <1>8 DEF IdsInv

\* The log takes the oldest record: the high water it leaves covers its rows.
LEMMA LogIds ==
    ASSUME TypeInv, TypeInv', IdsInv, Log
    PROVE  IdsInv'
<1> DEFINE n == Len(queue)
           rec == queue[1]
<1>1. /\ queue # <<>>
      /\ image' = ApplyReplicaRecord(image, rec)
      /\ logged' = logged \cup DOMAIN rec.ins
      /\ queue' = Tail(queue)
      /\ UNCHANGED <<db, ctr, dirty, tx, issued>>
  BY QueueFacts DEF Log
<1>2. /\ Len(queue') = n - 1 /\ n \in Nat \ {0} /\ DOMAIN queue' = 1..(n - 1)
      /\ \A k \in 1..(n - 1) : queue'[k] = queue[k + 1]
  BY <1>1, QueueFacts
<1>3. image'.hw = IF rec.hw = 0 THEN image.hw ELSE rec.hw
  BY <1>1 DEF ApplyReplicaRecord
<1>4. /\ image.hw <= image'.hw /\ rec.hw <= image'.hw /\ image'.hw <= ctr.high
      /\ image'.hw \in Nat
  BY <1>2, <1>3, Numbers DEF IdsInv, HighWaterInv
<1>5. CounterInv'
  BY <1>1 DEF IdsInv, CounterInv
<1>6. HighWaterInv'
  <2>1. ASSUME NEW k \in 1..(n - 1)
        PROVE  /\ queue[k + 1].hw <= ctr.high
               /\ queue[k + 1].hw # 0 => image'.hw <= queue[k + 1].hw
               /\ \A j \in 1..k : queue[k + 1].hw # 0 => queue[j + 1].hw <= queue[k + 1].hw
    <3>1. k + 1 \in DOMAIN queue /\ 1 \in 1..(k + 1) /\ \A j \in 1..k : j + 1 \in 1..(k + 1)
      BY <1>2, Numbers
    <3> QED  BY <1>3, <3>1, Numbers DEF IdsInv, HighWaterInv
  <2>2. \A k \in 1..(n - 1) : \A j \in 1..k : j \in 1..(n - 1)
    BY <1>2
  <2> QED  BY <1>1, <1>2, <1>4, <2>1, <2>2, ZenonT(40) DEF HighWaterInv
<1>7. ASSUME NEW m \in Nat, NEW k \in 1..n, Carried(m, k)
      PROVE  m <= image'.hw \/ \E j \in 1..(k - 1) : m <= queue'[j].hw
  <2>1. CASE m <= image.hw
    BY <1>4, <2>1, Numbers DEF Carried
  <2>2. CASE \E j \in 1..k : m <= queue[j].hw
    <3>1. PICK j \in 1..k : m <= queue[j].hw
      BY <2>2
    <3>2. CASE j = 1
      BY <1>2, <1>4, <3>1, <3>2, Numbers DEF Carried
    <3>3. CASE j # 1
      <4>1. j - 1 \in 1..(k - 1) /\ j - 1 \in 1..(n - 1) /\ queue'[j - 1] = queue[j]
        BY <1>2, <3>3
      <4> QED  BY <3>1, <4>1 DEF Carried
    <3> QED  BY <3>2, <3>3
  <2> QED  BY <1>7, <2>1, <2>2 DEF Carried
<1>8. \A id \in DOMAIN rec.ins : id <= image'.hw
  <2>1. 1 \in DOMAIN queue /\ \A id \in DOMAIN rec.ins : id \in Nat /\ Carried(id, 1)
    BY <1>2, Numbers DEF IdsInv, CarriedInv
  <2> QED  BY <1>4, <2>1, Numbers DEF Carried
<1>9. \A i \in Ids : image'.rows[i] # NoRow => i <= image'.hw
  <2>1. \A i \in Ids : image'.rows[i] # NoRow => i \in DOMAIN rec.ins \/ image.rows[i] # NoRow
    BY <1>1 DEF ApplyReplicaRecord
  <2> QED  BY <1>4, <1>8, <2>1, Numbers DEF IdsInv, CarriedInv
<1>10. CarriedInv'
  <2>1. dirty' \/ Carried(ctr.high, Len(queue))'
    <3>1. CASE dirty
      BY <1>1, <3>1
    <3>2. CASE ~dirty
      <4>1. n \in 1..n /\ Carried(ctr.high, n) /\ ctr.high \in Nat
        BY <1>2, <3>2, Numbers DEF IdsInv, CarriedInv
      <4>2. ctr.high <= image'.hw \/ \E j \in 1..(n - 1) : ctr.high <= queue'[j].hw
        BY <1>7, <4>1
      <4> QED  BY <1>1, <1>2, <4>2 DEF Carried
    <3> QED  BY <3>1, <3>2
  <2>2. ASSUME NEW k \in 1..(n - 1), NEW id \in DOMAIN queue'[k].ins
        PROVE  Carried(id, k)'
    <3>1. k + 1 \in 1..n /\ k + 1 \in DOMAIN queue /\ queue'[k] = queue[k + 1]
          /\ (k + 1) - 1 = k
      BY <1>2, Numbers
    <3>2. Carried(id, k + 1) /\ id \in Nat
      BY <2>2, <3>1, Numbers DEF IdsInv, CarriedInv
    <3>3. id <= image'.hw \/ \E j \in 1..((k + 1) - 1) : id <= queue'[j].hw
      BY <1>7, <3>1, <3>2
    <3> QED  BY <3>1, <3>3 DEF Carried
  <2>3. \A id \in logged' : id <= image'.hw
    BY <1>1, <1>4, <1>8, Numbers DEF IdsInv, CarriedInv
  <2> QED  BY <1>2, <1>9, <2>1, <2>2, <2>3 DEF CarriedInv
<1> QED  BY <1>5, <1>6, <1>10 DEF IdsInv

\* A new process counts on from the high water of the logged records.
LEMMA ResumeIds ==
    ASSUME TypeInv, IdsInv, NEW state, Resume(state), state.rows = image.rows,
           state.hw = image.hw
    PROVE  IdsInv'
<1>1. /\ db' = state /\ ctr' = [next |-> image.hw + 1, high |-> image.hw]
      /\ tx' = Closed /\ queue' = <<>> /\ issued' = logged
      /\ UNCHANGED <<image, logged>>
  BY DEF Resume
<1>2. CounterInv'
  BY <1>1, ClosedType, Numbers DEF IdsInv, CarriedInv, CounterInv
<1>3. HighWaterInv' /\ CarriedInv'
  BY <1>1, Numbers DEF IdsInv, CarriedInv, HighWaterInv, Carried
<1> QED  BY <1>2, <1>3 DEF IdsInv

\* Every step keeps the id invariant.
LEMMA StepIds == TypeInv /\ TypeInv' /\ IdsInv /\ [Next]_vars => IdsInv'
<1> SUFFICES ASSUME TypeInv, TypeInv', IdsInv, [Next]_vars PROVE IdsInv'
  OBVIOUS
<1>1. CASE Begin \/ Rollback
  <2>1. /\ tx'.ops = Closed.ops
        /\ UNCHANGED <<db, ctr, dirty, queue, image, issued, logged>>
    BY <1>1 DEF Begin, Rollback, Closed
  <2> QED  BY <2>1, ClosedType DEF IdsInv, CounterInv, HighWaterInv, CarriedInv, Carried
<1>2. CASE \E given \in {0} \cup Ids, ref \in {0} \cup Ids,
              v \in UniqueVals, replace \in BOOLEAN :
             Write(given, ref, v, replace)
  BY <1>2, WriteIds
<1>3. CASE \E id \in Ids : Delete(id)
  BY <1>3, DeleteIds
<1>4. CASE Commit
  BY <1>4, CommitIds
<1>5. CASE Log
  BY <1>5, LogIds
<1>6. CASE Restart \/ Promote
  <2>1. image \in States
    BY DEF TypeInv, TypeOK
  <2>2. PICK state : Resume(state) /\ state.rows = image.rows /\ state.hw = image.hw
    BY <1>6, <2>1 DEF Restart, Promote, States
  <2> QED  BY <2>2, ResumeIds
<1>7. CASE UNCHANGED vars
  BY <1>7 DEF vars, IdsInv, CounterInv, HighWaterInv, CarriedInv, Carried
<1> QED  BY <1>1, <1>2, <1>3, <1>4, <1>5, <1>6, <1>7 DEF Next

----------------------------------------------------------------------------
(***************************************************************************)
(* References and unique values.  What makes the merge infallible is an    *)
(* agreement between the buffer and the committed state (PendingInv); what *)
(* makes the replica equal the primary is that each waiting record leads   *)
(* from one good state to the next, from the replica's to the primary's    *)
(* (ChainInv).                                                             *)
(***************************************************************************)

\* The unique map says what the rows say, and no two rows share a value.
UniqueMatches(state) ==
    /\ \A i \in Ids : state.rows[i] # NoRow => state.uniq[state.rows[i].u] = i
    /\ \A v \in UniqueVals : state.uniq[v] # 0 => state.rows[state.uniq[v]].u = v

\* Every reference of `rows` names a row, or one of `excused`.
Referring(rows, excused) ==
    \A i \in Ids : rows[i].ref # 0 => rows[rows[i].ref] # NoRow \/ rows[i].ref \in excused

Good(state) == UniqueMatches(state) /\ Referring(state.rows, severed)

\* Each buffered operation fits the committed row it is about; pending values
\* are distinct, and one that is taken in the committed state belongs to the
\* row itself or to one the transaction takes it from.
OpsFit(ops) ==
    /\ \A i \in Ids :
          /\ ops[i].kind \in {"delete", "update"} => db.rows[i] # NoRow
          /\ ops[i].kind = "insert" => db.rows[i] = NoRow
          /\ ops[i].kind \in {"insert", "update"} => ops[i].row \in Rows
    /\ \A i, j \in Ids :
          /\ ops[i].kind \in {"insert", "update"} /\ ops[j].kind \in {"insert", "update"}
          /\ ops[i].row.u = ops[j].row.u
          => i = j
    /\ \A i \in Ids :
          ops[i].kind \in {"insert", "update"} =>
             LET owner == db.uniq[ops[i].row.u] IN
             owner \in {0, i} \/ ops[owner].kind \in {"delete", "update"}

PendingInv == OpsFit(tx.ops) /\ Referring(Overlay(tx.ops), severed \cup tx.refused)

Chain(f) ==
    /\ f \in [0..Len(queue) -> States]
    /\ f[0] = image /\ f[Len(queue)] = db
    /\ \A k \in 0..Len(queue) : Good(f[k])
    /\ \A k \in 1..Len(queue) : /\ ReplicaOK(f[k - 1], queue[k])
                                /\ f[k] = ApplyReplicaRecord(f[k - 1], queue[k])

ChainInv == (\E f : Chain(f)) /\ db.hw <= ctr.high

RowsInv == PendingInv /\ ChainInv

\* A row is not the absence of one, and has a value of its own.
LEMMA RowFacts ==
    /\ \A r \in Rows : r # NoRow /\ r.u \in UniqueVals /\ r.ref \in {0} \cup Ids
    /\ NoRow.ref = 0 /\ NoRow.u \notin UniqueVals
    /\ 0 \notin Ids
BY RowStoreAssumption DEF RowStoreAssumption, Rows, NoRow, Ids

\* The replica's state and the served one are good.
LEMMA EndsGood ==
    ASSUME TypeInv, ChainInv
    PROVE  Good(image) /\ Good(db)
<1>1. PICK f : Chain(f)
  BY DEF ChainInv
<1>2. 0 \in 0..Len(queue) /\ Len(queue) \in 0..Len(queue)
  BY Numbers
<1> QED  BY <1>1, <1>2 DEF Chain

\* In a good state the unique map is the one recovery rebuilds.
LEMMA MatchesRebuilt ==
    ASSUME NEW state \in States, UniqueMatches(state)
    PROVE  /\ state.uniq = Rebuilt(state.rows)
           /\ \A i, j \in Ids : i # j /\ state.rows[i] # NoRow =>
                 state.rows[i].u # state.rows[j].u
<1>1. /\ state.rows \in [Ids -> Rows \cup {NoRow}]
      /\ state.uniq \in [UniqueVals -> {0} \cup Ids]
  BY DEF States
<1>2. ASSUME NEW v \in UniqueVals
      PROVE  state.uniq[v] = LET owners == {i \in Ids : state.rows[i].u = v}
                             IN IF owners = {} THEN 0 ELSE CHOOSE i \in owners : TRUE
  <2> DEFINE owners == {i \in Ids : state.rows[i].u = v}
  <2>1. \A i \in owners : state.uniq[v] = i
    BY <1>1, RowFacts DEF UniqueMatches
  <2>2. CASE owners = {}
    BY <1>1, <2>2 DEF UniqueMatches
  <2>3. CASE owners # {}
    <3>1. (CHOOSE i \in owners : TRUE) \in owners
      BY <2>3
    <3> QED  BY <2>1, <2>3, <3>1
  <2> QED  BY <2>2, <2>3
<1>3. ASSUME NEW i \in Ids, NEW j \in Ids, i # j, state.rows[i] # NoRow,
             state.rows[i].u = state.rows[j].u
      PROVE  FALSE
  <2>1. state.rows[i].u \in UniqueVals
    BY <1>1, <1>3, RowFacts
  <2>2. state.rows[j] # NoRow
    BY <1>3, <2>1, RowFacts
  <2> QED  BY <1>3, <2>1, <2>2 DEF UniqueMatches
<1> QED  BY <1>1, <1>2, <1>3 DEF Rebuilt

\* A write shows its row and leaves the others; if its value passed the unique
\* check the buffer still fits.
LEMMA WriteFits ==
    ASSUME db \in States, UniqueMatches(db), NEW ops \in [Ids -> PendingOps], OpsFit(ops),
           NEW id \in Ids, NEW row \in Rows, UniqueOK(ops, id, row.u),
           NEW new, new = [ops EXCEPT ![id] = NewOp(ops, id, row)]
    PROVE  /\ OpsFit(new)
           /\ Overlay(new) = [Overlay(ops) EXCEPT ![id] = row]
<1>1. /\ db.rows \in [Ids -> Rows \cup {NoRow}]
      /\ db.uniq \in [UniqueVals -> {0} \cup Ids]
      /\ \A i \in Ids : ops[i].kind \in {"none", "insert", "update", "delete"}
  BY DEF States, PendingOps
<1>2. /\ new[id] = NewOp(ops, id, row) /\ DOMAIN new = Ids
      /\ \A i \in Ids \ {id} : new[i] = ops[i]
  OBVIOUS
<1>3. /\ new[id].kind \in {"none", "insert", "update"}
      /\ new[id].kind = "none" => db.rows[id] = row
      /\ new[id].kind = "insert" <=> db.rows[id] = NoRow
      /\ new[id].kind # "none" => new[id].row = row
  <2>1. /\ row # NoRow /\ ops[id].kind \in {"none", "insert", "update", "delete"}
        /\ ops[id].kind \in {"delete", "update"} => db.rows[id] # NoRow
        /\ ops[id].kind = "insert" => db.rows[id] = NoRow
    BY <1>1, RowFacts DEF OpsFit
  <2>2. CASE db.rows[id] = NoRow
    <3>1. new[id] = [kind |-> "insert", row |-> row]
      BY <1>2, <2>1, <2>2 DEF NewOp
    <3> QED  BY <2>1, <2>2, <3>1
  <2>3. CASE db.rows[id] # NoRow
    <3>1. \/ new[id] = NoOp /\ db.rows[id] = row
          \/ new[id] = [kind |-> "update", row |-> row]
      BY <1>2, <2>1, <2>3 DEF NewOp
    <3> QED  BY <2>1, <2>3, <3>1 DEF NoOp
  <2> QED  BY <2>2, <2>3
<1>4. Overlay(new) = [Overlay(ops) EXCEPT ![id] = row]
  <2>1. \A i \in Ids \ {id} : Overlay(new)[i] = Overlay(ops)[i]
    BY <1>2 DEF Overlay
  <2>2. Overlay(new)[id] = row
    <3>1. CASE new[id].kind = "none"
      BY <1>3, <3>1 DEF Overlay
    <3>2. CASE new[id].kind # "none"
      BY <1>3, <3>2 DEF Overlay
    <3> QED  BY <3>1, <3>2
  <2>3. Overlay(new) = [i \in Ids |-> Overlay(new)[i]] /\ Overlay(ops) = [i \in Ids |-> Overlay(ops)[i]]
    BY DEF Overlay
  <2> QED  BY <2>1, <2>2, <2>3
<1>5. \A i \in Ids :
         /\ new[i].kind \in {"delete", "update"} => db.rows[i] # NoRow
         /\ new[i].kind = "insert" => db.rows[i] = NoRow
         /\ new[i].kind \in {"insert", "update"} => new[i].row \in Rows
  BY <1>1, <1>2, <1>3 DEF OpsFit
<1>6. \A j \in Ids \ {id} : new[j].kind \in {"insert", "update"} => new[j].row.u # row.u
  BY <1>2 DEF UniqueOK
<1>7. ASSUME NEW i \in Ids, NEW j \in Ids,
             new[i].kind \in {"insert", "update"}, new[j].kind \in {"insert", "update"},
             new[i].row.u = new[j].row.u
      PROVE  i = j
  BY <1>2, <1>3, <1>6, <1>7 DEF OpsFit
<1>8. ASSUME NEW i \in Ids, new[i].kind \in {"insert", "update"}
      PROVE  LET owner == db.uniq[new[i].row.u] IN
             owner \in {0, i} \/ new[owner].kind \in {"delete", "update"}
  <2> DEFINE owner == db.uniq[new[i].row.u]
  <2>1. new[i].row \in Rows /\ new[i].row.u \in UniqueVals
    BY <1>5, <1>8, RowFacts
  <2>2. owner \in {0} \cup Ids
    BY <1>1, <2>1
  <2>3. CASE i = id
    <3>1. new[i].row = row
      BY <1>3, <1>8, <2>3
    <3>2. owner \in {0, id} \/ ops[owner].kind \in {"delete", "update"}
      BY <3>1 DEF UniqueOK
    <3> QED  BY <1>2, <2>2, <2>3, <3>2
  <2>4. CASE i # id
    <3>1. new[i] = ops[i]
      BY <1>2, <2>4
    <3>2. owner \in {0, i} \/ ops[owner].kind \in {"delete", "update"}
      BY <1>8, <3>1 DEF OpsFit
    <3>3. CASE owner = id
      <4>1. db.rows[id].u = new[i].row.u /\ db.rows[id] # NoRow
        BY <2>1, <2>2, <3>3, RowFacts DEF UniqueMatches
      <4>2. new[id].kind # "none"
        BY <1>3, <1>6, <1>8, <2>4, <4>1
      <4> QED  BY <1>3, <3>3, <4>1, <4>2
    <3>4. CASE owner # id
      BY <1>2, <2>2, <3>2, <3>4
    <3> QED  BY <3>3, <3>4
  <2> QED  BY <2>3, <2>4
<1> QED  BY <1>4, <1>5, <1>7, <1>8 DEF OpsFit

\* Deleting rows hides them, leaves the others and frees their values.
LEMMA RemoveFits ==
    ASSUME db \in States, UniqueMatches(db), NEW ops \in [Ids -> PendingOps], OpsFit(ops),
           NEW gone \in SUBSET Ids,
           NEW new, new = [i \in Ids |-> IF i \in gone THEN DeletedOp(ops, i) ELSE ops[i]]
    PROVE  /\ OpsFit(new)
           /\ Overlay(new) = [i \in Ids |-> IF i \in gone THEN NoRow ELSE Overlay(ops)[i]]
<1>1. /\ db.rows \in [Ids -> Rows \cup {NoRow}]
      /\ db.uniq \in [UniqueVals -> {0} \cup Ids]
      /\ \A i \in Ids : ops[i].kind \in {"none", "insert", "update", "delete"}
  BY DEF States, PendingOps
<1>2. \A i \in gone : /\ new[i].kind \in {"none", "delete"}
                      /\ new[i].kind = "none" <=> db.rows[i] = NoRow
  BY <1>1 DEF DeletedOp, NoOp, OpsFit
<1>3. \A i \in Ids \ gone : new[i] = ops[i]
  OBVIOUS
<1>4. Overlay(new) = [i \in Ids |-> IF i \in gone THEN NoRow ELSE Overlay(ops)[i]]
  BY <1>1, <1>2, <1>3 DEF Overlay
<1>5. ASSUME NEW i \in Ids, new[i].kind \in {"insert", "update"}
      PROVE  LET owner == db.uniq[new[i].row.u] IN
             owner \in {0, i} \/ new[owner].kind \in {"delete", "update"}
  <2> DEFINE owner == db.uniq[new[i].row.u]
  <2>1. new[i] = ops[i] /\ new[i].row \in Rows /\ new[i].row.u \in UniqueVals
    BY <1>2, <1>3, <1>5, RowFacts DEF OpsFit
  <2>2. owner \in {0, i} \/ ops[owner].kind \in {"delete", "update"}
    BY <1>5, <2>1 DEF OpsFit
  <2>3. owner # 0 => owner \in Ids /\ db.rows[owner] # NoRow
    BY <1>1, <2>1, RowFacts DEF UniqueMatches
  <2> QED  BY <1>2, <1>3, <2>2, <2>3
<1>6. /\ \A i \in Ids :
            /\ new[i].kind \in {"delete", "update"} => db.rows[i] # NoRow
            /\ new[i].kind = "insert" => db.rows[i] = NoRow
            /\ new[i].kind \in {"insert", "update"} => new[i].row \in Rows
      /\ \A i, j \in Ids :
            /\ new[i].kind \in {"insert", "update"} /\ new[j].kind \in {"insert", "update"}
            /\ new[i].row.u = new[j].row.u
            => i = j
  BY <1>2, <1>3 DEF OpsFit
<1> QED  BY <1>4, <1>5, <1>6 DEF OpsFit

\* `new` is `ops` after the rows of `left`, all visible, were written with
\* their reference set to None.
Nulls(ops, left, nulled, new) ==
    /\ left \in SUBSET Ids
    /\ \A i \in left : Overlay(ops)[i] # NoRow /\ Overlay(ops)[i].ref # 0
    /\ nulled \in [left -> Rows]
    /\ \A i \in left : nulled[i].ref = 0 /\ nulled[i].u = Overlay(ops)[i].u
    /\ \A i \in left : new[i] = NewOp(ops, i, nulled[i])
    /\ \A i \in Ids \ left : new[i] = ops[i]

\* Setting references of visible rows to None shows just that.
LEMMA NullFits ==
    ASSUME db \in States, UniqueMatches(db), NEW ops \in [Ids -> PendingOps], OpsFit(ops),
           NEW left, NEW nulled, NEW new, Nulls(ops, left, nulled, new)
    PROVE  /\ OpsFit(new)
           /\ \A i \in left : Overlay(new)[i] = nulled[i]
           /\ \A i \in Ids \ left : Overlay(new)[i] = Overlay(ops)[i]
<1> USE DEF Nulls
<1>1. /\ db.rows \in [Ids -> Rows \cup {NoRow}]
      /\ db.uniq \in [UniqueVals -> {0} \cup Ids]
      /\ \A i \in Ids : ops[i].kind \in {"none", "insert", "update", "delete"}
  BY DEF States, PendingOps
<1>2. \A i \in left : Overlay(ops)[i] \in Rows /\ nulled[i] # Overlay(ops)[i]
  BY OverlayType
<1>3. \A i \in left : /\ ops[i].kind # "delete"
                      /\ ops[i].kind = "none" => /\ db.rows[i] # NoRow
                                                 /\ Overlay(ops)[i] = db.rows[i]
                      /\ ops[i].kind \in {"insert", "update"} => Overlay(ops)[i] = ops[i].row
  BY <1>1 DEF Overlay
<1>4. \A i \in left : /\ new[i] = NewOp(ops, i, nulled[i])
                      /\ new[i].kind \in {"insert", "update"} /\ new[i].row = nulled[i]
                      /\ new[i].kind = "insert" <=> ops[i].kind = "insert"
  <2>2. ASSUME NEW i \in left
        PROVE  NewOp(ops, i, nulled[i]) =
                  [kind |-> IF ops[i].kind = "insert" THEN "insert" ELSE "update",
                   row |-> nulled[i]]
    <3>1. CASE ops[i].kind = "insert"
      BY <3>1 DEF NewOp
    <3>2. CASE ops[i].kind = "none"
      BY <1>2, <1>3, <3>2 DEF NewOp
    <3>3. CASE ops[i].kind = "update"
      BY <3>3 DEF NewOp
    <3> QED  BY <1>1, <1>3, <3>1, <3>2, <3>3
  <2> QED  BY <2>2
<1>5. \A i \in Ids \ left : new[i] = ops[i]
  OBVIOUS
<1>6. \A i \in Ids : Overlay(new)[i] = IF i \in left THEN nulled[i] ELSE Overlay(ops)[i]
  <2>1. \A i \in Ids : (CASE new[i].kind = "none" -> db.rows[i]
                          [] new[i].kind = "delete" -> NoRow
                          [] OTHER -> new[i].row)
                       = IF i \in left THEN nulled[i] ELSE Overlay(ops)[i]
    BY <1>4, <1>5 DEF Overlay
  <2> QED  BY <2>1 DEF Overlay
<1>7. \A i \in Ids :
         /\ new[i].kind \in {"delete", "update"} => db.rows[i] # NoRow
         /\ new[i].kind = "insert" => db.rows[i] = NoRow
         /\ new[i].kind \in {"insert", "update"} => new[i].row \in Rows
  <2>1. ASSUME NEW i \in left
        PROVE  /\ new[i].kind = "update" => db.rows[i] # NoRow
               /\ new[i].kind = "insert" => db.rows[i] = NoRow
               /\ new[i].kind \in {"insert", "update"} /\ new[i].row \in Rows
    <3>1. ops[i].kind \in {"none", "insert", "update"}
      BY <1>1, <1>3
    <3>2. /\ ops[i].kind = "insert" => db.rows[i] = NoRow
          /\ ops[i].kind = "update" => db.rows[i] # NoRow
      BY DEF OpsFit
    <3> QED  BY <1>2, <1>3, <1>4, <3>1, <3>2
  <2> QED  BY <1>5, <2>1 DEF OpsFit
<1>8. ASSUME NEW i \in left
      PROVE  \/ ops[i].kind \in {"insert", "update"} /\ ops[i].row.u = new[i].row.u
             \/ ops[i].kind = "none" /\ db.uniq[new[i].row.u] = i
  <2>1. new[i].row.u = Overlay(ops)[i].u
    BY <1>2, <1>4
  <2>2. ops[i].kind \in {"none", "insert", "update"}
    BY <1>1, <1>3
  <2> QED  BY <1>3, <2>1, <2>2 DEF UniqueMatches
<1>9. ASSUME NEW i \in Ids, NEW j \in Ids,
             new[i].kind \in {"insert", "update"}, new[j].kind \in {"insert", "update"},
             new[i].row.u = new[j].row.u
      PROVE  i = j
  <2>1. \A k \in {i, j} :
           \/ ops[k].kind \in {"insert", "update"} /\ ops[k].row.u = new[i].row.u
           \/ ops[k].kind = "none" /\ db.uniq[new[i].row.u] = k
    BY <1>5, <1>8, <1>9
  <2>2. ASSUME NEW k \in Ids, NEW l \in Ids,
               ops[k].kind \in {"insert", "update"}, ops[k].row.u = new[i].row.u,
               ops[l].kind = "none", db.uniq[new[i].row.u] = l
        PROVE  FALSE
    BY <2>2, RowFacts DEF OpsFit
  <2>3. CASE ops[i].kind = "none" /\ ops[j].kind = "none"
    BY <2>1, <2>3
  <2>4. CASE ops[i].kind # "none" /\ ops[j].kind # "none"
    BY <2>1, <2>4 DEF OpsFit
  <2> QED  BY <2>1, <2>2, <2>3, <2>4
<1>10. ASSUME NEW i \in Ids, new[i].kind \in {"insert", "update"}
       PROVE  LET owner == db.uniq[new[i].row.u] IN
              owner \in {0, i} \/ new[owner].kind \in {"delete", "update"}
  <2> DEFINE owner == db.uniq[new[i].row.u]
  <2>1. new[i].row.u \in UniqueVals /\ owner \in {0} \cup Ids
    BY <1>1, <1>7, <1>10, RowFacts
  <2>2. \/ ops[i].kind \in {"insert", "update"} /\ ops[i].row.u = new[i].row.u
        \/ owner = i
    BY <1>5, <1>8, <1>10
  <2>3. owner \in {0, i} \/ ops[owner].kind \in {"delete", "update"}
    BY <2>2 DEF OpsFit
  <2> QED  BY <1>3, <1>4, <1>5, <2>1, <2>3
<1> QED  BY <1>6, <1>7, <1>9, <1>10 DEF OpsFit

\* The rows a cascading delete removes are closed: nothing outside refers to
\* one of them.
LEMMA DoomedClosed ==
    ASSUME db \in States, tx.ops \in [Ids -> PendingOps], NEW id \in Ids
    PROVE  /\ Doomed(id) \subseteq Ids /\ id \in Doomed(id)
           /\ \A i \in Ids \ Doomed(id) :
                 Overlay(tx.ops)[i] # NoRow => Overlay(tx.ops)[i].ref \notin Doomed(id)
<1> DEFINE closed == {S \in SUBSET Ids : id \in S /\ Children(tx.ops, S) \subseteq S}
<1>1. Doomed(id) = {i \in Ids : \A S \in closed : i \in S}
  BY DEF Doomed
<1>2. ASSUME NEW i \in Ids, Overlay(tx.ops)[i] # NoRow,
             Overlay(tx.ops)[i].ref \in Doomed(id)
      PROVE  i \in Doomed(id)
  <2>1. ASSUME NEW S \in closed
        PROVE  i \in S
    <3>1. Overlay(tx.ops)[i].ref \in S
      BY <1>1, <1>2
    <3>2. i \in Children(tx.ops, S)
      BY <1>2, <3>1 DEF Children
    <3> QED  BY <3>2
  <2> QED  BY <1>1, <2>1
<1>3. id \in Doomed(id) /\ Doomed(id) \subseteq Ids
  BY <1>1
<1> QED  BY <1>2, <1>3

\* With the committed state unchanged the overlay is that of the new buffer.
LEMMA SameDb ==
    ASSUME db' = db
    PROVE  Overlay(tx.ops)' = Overlay(tx'.ops) /\ (OpsFit(tx'.ops) => OpsFit(tx.ops)')
BY DEF Overlay, OpsFit

\* The chain depends on the queue, its two ends and the excused references.
LEMMA ChainKept ==
    ASSUME ChainInv, UNCHANGED <<db, image, queue, severed>>, db.hw <= ctr'.high
    PROVE  ChainInv'
<1>1. PICK f : Chain(f)
  BY DEF ChainInv
<1>2. Chain(f)'
  BY <1>1 DEF Chain, Good
<1> QED  BY <1>2 DEF ChainInv

\* A parent that exists for the write is one the overlay shows.
LEMMA ParentShown ==
    ASSUME NEW ops \in [Ids -> PendingOps], OpsFit(ops), NEW ref \in Ids,
           ParentExists(ops, ref)
    PROVE  Overlay(ops)[ref] # NoRow
<1>1. ops[ref].kind \in {"none", "insert", "update", "delete"}
  BY DEF PendingOps
<1> QED  BY <1>1, RowFacts DEF OpsFit, ParentExists, Overlay

\* A write refers to a row that exists, or to itself.
LEMMA WriteRows ==
    ASSUME TypeInv, IdsInv, RowsInv, NEW given \in {0} \cup Ids, NEW ref \in {0} \cup Ids,
           NEW v \in UniqueVals, NEW replace \in BOOLEAN, Write(given, ref, v, replace)
    PROVE  RowsInv'
<1> DEFINE id == IF given = 0 THEN ctr.next ELSE given
           row == [ref |-> ref, u |-> v]
           valid == /\ ref # 0 => ParentExists(tx.ops, ref)
                    /\ replace \/ ~Occupied(tx.ops, id)
                    /\ UniqueOK(tx.ops, id, v)
<1>1. /\ id \in Ids /\ ctr' = NextCounter(given)
      /\ tx' = [tx EXCEPT !.calls = @ + 1,
                          !.ops[id] = IF valid THEN NewOp(tx.ops, id, row) ELSE @]
      /\ UNCHANGED <<db, queue, image, severed>>
  BY DEF Write
<1>2. tx \in Txs /\ tx.ops \in [Ids -> PendingOps] /\ db \in States /\ UniqueMatches(db)
  BY EndsGood DEF TypeInv, TypeOK, Txs, RowsInv, Good
<1>3. row \in Rows /\ row.u = v /\ row.ref = ref
  BY DEF Rows
<1> HIDE DEF id, row, valid
<1>4. /\ tx'.ops = [tx.ops EXCEPT ![id] = IF valid THEN NewOp(tx.ops, id, row) ELSE @]
      /\ tx'.refused = tx.refused
  BY <1>1, <1>2 DEF Txs
<1>5. PendingInv'
  <2>1. CASE ~valid
    <3>1. tx'.ops = tx.ops
      BY <1>1, <1>2, <1>4, <2>1
    <3> QED  BY <1>1, <1>4, <3>1, SameDb DEF RowsInv, PendingInv, Referring
  <2>2. CASE valid
    <3>1. tx'.ops = [tx.ops EXCEPT ![id] = NewOp(tx.ops, id, row)]
      BY <1>4, <2>2
    <3>2. UniqueOK(tx.ops, id, row.u) /\ (ref # 0 => ParentExists(tx.ops, ref))
      BY <1>3, <2>2 DEF valid
    <3>3. /\ OpsFit(tx'.ops)
          /\ Overlay(tx'.ops) = [Overlay(tx.ops) EXCEPT ![id] = row]
      BY <1>1, <1>2, <1>3, <3>1, <3>2, WriteFits DEF RowsInv, PendingInv
    <3>4. /\ Overlay(tx.ops) \in [Ids -> Rows \cup {NoRow}]
          /\ Referring(Overlay(tx.ops), severed \cup tx.refused)
          /\ ref # 0 => Overlay(tx.ops)[ref] # NoRow
      BY <1>2, <3>2, OverlayType, ParentShown DEF RowsInv, PendingInv
    <3>5. Referring(Overlay(tx'.ops), severed \cup tx.refused)
      <4> DEFINE old == Overlay(tx.ops)
                 new == Overlay(tx'.ops)
      <4>1. \A i \in Ids : old[i] # NoRow => new[i] # NoRow
        BY <1>1, <1>3, <3>3, <3>4, RowFacts
      <4>2. \A i \in Ids : new[i].ref # 0 => new[i].ref \in Ids
        BY <1>1, <1>3, <3>3, <3>4, RowFacts
      <4>3. \A i \in Ids \ {id} : new[i] = old[i]
        BY <3>3, <3>4
      <4>4. new[id] = row
        BY <1>1, <3>3, <3>4
      <4> HIDE DEF old, new
      <4> QED  BY <1>1, <1>3, <3>4, <4>1, <4>2, <4>3, <4>4 DEF Referring, old, new
    <3> QED  BY <1>1, <1>4, <3>3, <3>5, SameDb DEF PendingInv, Referring
  <2> QED  BY <2>1, <2>2
<1>6. ChainInv'
  <2>1. db.hw <= ctr'.high
    <3>1. ctr.high <= ctr'.high /\ ctr'.high \in Nat
      <4>1. /\ ctr.next \in Nat /\ ctr.high \in Nat /\ Step \in Nat /\ Step >= 1 /\ given \in Nat
            /\ ctr' = NextCounter(given)
        BY <1>1, Numbers, RowStoreAssumption DEF RowStoreAssumption
      <4>2. CASE given = 0
        <5>1. ctr'.high = IF ctr.next > ctr.high THEN ctr.next + Step - 1 ELSE ctr.high
          BY <4>1, <4>2 DEF NextCounter, Allocated
        <5> QED  BY <4>1, <5>1
      <4>3. CASE given # 0
        <5>1. ctr'.high = Larger(ctr.high, given)
          BY <4>1, <4>3 DEF NextCounter, Observed
        <5> QED  BY <4>1, <5>1 DEF Larger
      <4> QED  BY <4>2, <4>3
    <3>2. db.hw \in Nat
      BY <1>2 DEF States
    <3> QED  BY <3>1, <3>2, Numbers DEF RowsInv, ChainInv
  <2> QED  BY <1>1, <2>1, ChainKept DEF RowsInv
<1> QED  BY <1>5, <1>6 DEF RowsInv

\* A delete leaves no reference to what it removed, or was refused.
LEMMA DeleteRows ==
    ASSUME TypeInv, RowsInv, NEW id \in Ids, Delete(id)
    PROVE  RowsInv'
<1> DEFINE without == [tx.ops EXCEPT ![id] = DeletedOp(tx.ops, id)]
           left == Children(without, {id})
           refuse == onDelete = "restrict" /\ left # {}
           cascade == [i \in Ids |-> IF i \in Doomed(id) THEN DeletedOp(tx.ops, i)
                                     ELSE tx.ops[i]]
           setNull == [i \in Ids |-> IF i \in left
                                     THEN NewOp(without, i,
                                                [Overlay(without)[i] EXCEPT !.ref = 0])
                                     ELSE without[i]]
           old == Overlay(tx.ops)
           excused == severed \cup tx.refused
<1>1. /\ tx \in Txs /\ tx.ops \in [Ids -> PendingOps] /\ db \in States /\ UniqueMatches(db)
      /\ OpsFit(tx.ops) /\ Referring(old, excused) /\ old \in [Ids -> Rows \cup {NoRow}]
  BY EndsGood, OverlayType DEF TypeInv, TypeOK, Txs, RowsInv, PendingInv, Good
<1>2. /\ tx'.ops = CASE onDelete = "cascade" -> cascade
                     [] onDelete = "set_null" -> setNull
                     [] OTHER -> without
      /\ tx'.refused = IF refuse THEN tx.refused \cup {id} ELSE tx.refused
      /\ UNCHANGED <<db, ctr, queue, image, severed>>
  BY <1>1 DEF Delete, Txs
<1>3. /\ without \in [Ids -> PendingOps] /\ OpsFit(without)
      /\ Overlay(without) = [i \in Ids |-> IF i = id THEN NoRow ELSE old[i]]
  <2> DEFINE one == {id}
  <2>1. /\ without = [i \in Ids |-> IF i \in one THEN DeletedOp(tx.ops, i) ELSE tx.ops[i]]
        /\ one \in SUBSET Ids /\ \A i \in Ids : i \in one <=> i = id
    BY <1>1
  <2>2. without \in [Ids -> PendingOps]
    BY <1>1, DeletedOpType
  <2> HIDE DEF without, old, one
  <2>3. /\ OpsFit(without)
        /\ Overlay(without) = [i \in Ids |-> IF i \in one THEN NoRow
                                             ELSE Overlay(tx.ops)[i]]
    BY <1>1, <2>1, RemoveFits
  <2> QED  BY <2>1, <2>2, <2>3 DEF old
<1>4. \A i \in Ids : old[i].ref # 0 =>
         old[i].ref \in Ids /\ (old[old[i].ref] # NoRow \/ old[i].ref \in excused)
  BY <1>1, RowFacts DEF Referring
<1>5. left = {i \in Ids \ {id} : old[i] # NoRow /\ old[i].ref = id}
  BY <1>3 DEF Children
<1> HIDE DEF without, old, excused
<1>6. CASE onDelete = "cascade"
  <2>1. tx'.ops = cascade /\ tx'.refused = tx.refused
    BY <1>2, <1>6
  <2>2. /\ OpsFit(cascade)
        /\ Overlay(cascade) = [i \in Ids |-> IF i \in Doomed(id) THEN NoRow ELSE old[i]]
    BY <1>1, DoomedClosed, RemoveFits DEF old
  <2>3. \A i \in Ids \ Doomed(id) : old[i] # NoRow => old[i].ref \notin Doomed(id)
    BY <1>1, DoomedClosed DEF old
  <2> HIDE DEF cascade
  <2>4. Referring(Overlay(cascade), excused)
    <3>1. ASSUME NEW i \in Ids, Overlay(cascade)[i].ref # 0
          PROVE  LET ref == Overlay(cascade)[i].ref
                 IN Overlay(cascade)[ref] # NoRow \/ ref \in excused
      <4>1. i \notin Doomed(id) /\ Overlay(cascade)[i] = old[i] /\ old[i] # NoRow
        BY <2>2, <3>1, RowFacts
      <4> QED  BY <1>4, <2>2, <2>3, <3>1, <4>1
    <3> QED  BY <3>1 DEF Referring
  <2> QED  BY <1>2, <2>1, <2>2, <2>4, SameDb, ChainKept
           DEF RowsInv, PendingInv, ChainInv, Referring, excused
<1>7. CASE onDelete = "set_null"
  <2>1. tx'.ops = setNull /\ tx'.refused = tx.refused
    BY <1>2, <1>7
  <2> DEFINE shown == Overlay(without)
             nulled == [i \in left |-> [shown[i] EXCEPT !.ref = 0]]
  <2>2. /\ left \in SUBSET Ids
        /\ \A i \in left : shown[i] \in Rows /\ shown[i] # NoRow /\ shown[i].ref # 0
    BY <1>1, <1>3, <1>5, RowFacts
  <2>3. /\ nulled \in [left -> Rows]
        /\ \A i \in left : nulled[i].ref = 0 /\ nulled[i].u = shown[i].u
    BY <2>2 DEF Rows
  <2>4. /\ \A i \in left : setNull[i] = NewOp(without, i, nulled[i])
        /\ \A i \in Ids \ left : setNull[i] = without[i]
    BY <2>2
  <2> HIDE DEF setNull, left, nulled
  <2>5. /\ OpsFit(setNull)
        /\ \A i \in left : Overlay(setNull)[i] = nulled[i]
        /\ \A i \in Ids \ left : Overlay(setNull)[i] = shown[i]
    <3>1. Nulls(without, left, nulled, setNull)
      BY <2>2, <2>3, <2>4 DEF Nulls
    <3> QED  BY <1>1, <1>3, <3>1, NullFits
  <2> HIDE DEF shown
  <2>6. Referring(Overlay(setNull), excused)
    <3> DEFINE new == Overlay(setNull)
    <3>1. \A i \in left : nulled[i].ref = 0 /\ nulled[i] # NoRow
      BY <2>3, RowFacts
    <3>2. \A i \in Ids \ left : new[i] = IF i = id THEN NoRow ELSE old[i]
      BY <1>3, <2>5 DEF shown
    <3>3. \A i \in left : new[i] = nulled[i]
      BY <2>5
    <3> HIDE DEF new
    <3>4. ASSUME NEW i \in Ids, new[i].ref # 0
          PROVE  new[new[i].ref] # NoRow \/ new[i].ref \in excused
      <4>1. i \notin left /\ i # id /\ new[i] = old[i] /\ old[i] # NoRow
        BY <3>1, <3>2, <3>3, <3>4, RowFacts
      <4>2. old[i].ref # id
        BY <1>5, <4>1
      <4>3. old[i].ref \in Ids /\ (old[old[i].ref] # NoRow \/ old[i].ref \in excused)
        BY <1>4, <3>4, <4>1
      <4> QED  BY <3>1, <3>2, <3>3, <4>1, <4>2, <4>3
    <3> QED  BY <3>4 DEF Referring, new
  <2> QED  BY <1>2, <2>1, <2>5, <2>6, SameDb, ChainKept
           DEF RowsInv, PendingInv, ChainInv, Referring, excused
<1>8. CASE onDelete \notin {"cascade", "set_null"}
  <2>1. tx'.ops = without
    BY <1>2, <1>8
  <2>2. onDelete = "restrict"
    BY <1>8, RowStoreAssumption DEF RowStoreAssumption, TypeInv, TypeOK
  <2>3. Referring(Overlay(without), severed \cup tx'.refused)
    <3> DEFINE new == Overlay(without)
    <3>1. ASSUME NEW i \in Ids, new[i].ref # 0
          PROVE  new[new[i].ref] # NoRow \/ new[i].ref \in severed \cup tx'.refused
      <4>1. i # id /\ new[i] = old[i] /\ old[i] # NoRow
        BY <1>3, <3>1, RowFacts
      <4>2. CASE old[i].ref = id
        <5>1. i \in left
          BY <1>5, <4>1, <4>2
        <5> QED  BY <1>2, <2>2, <4>1, <4>2, <5>1
      <4>3. CASE old[i].ref # id
        BY <1>2, <1>3, <1>4, <3>1, <4>1, <4>3 DEF excused
      <4> QED  BY <4>2, <4>3
    <3> QED  BY <3>1 DEF Referring
  <2> QED  BY <1>2, <1>3, <2>1, <2>3, SameDb, ChainKept
           DEF RowsInv, PendingInv, ChainInv, Referring
<1> QED  BY <1>6, <1>7, <1>8

\* What a claim leaves in the unique map, when no two rows want one value.
LEMMA ClaimedValue ==
    ASSUME NEW uniq, NEW new,
           \A i \in DOMAIN new : new[i].u \in UniqueVals,
           \A i, j \in DOMAIN new : new[i].u = new[j].u => i = j
    PROVE  /\ \A i \in DOMAIN new : Claimed(uniq, new)[new[i].u] = i
           /\ \A v \in UniqueVals :
                 (\A i \in DOMAIN new : new[i].u # v) => Claimed(uniq, new)[v] = uniq[v]
<1>1. ASSUME NEW i \in DOMAIN new
      PROVE  Claimed(uniq, new)[new[i].u] = i
  <2> DEFINE owners == {j \in DOMAIN new : new[j].u = new[i].u}
  <2>1. i \in owners /\ \A j \in owners : j = i
    OBVIOUS
  <2>2. (CHOOSE j \in owners : TRUE) = i
    BY <2>1
  <2>3. Claimed(uniq, new)[new[i].u] =
           IF owners = {} THEN uniq[new[i].u] ELSE CHOOSE j \in owners : TRUE
    BY DEF Claimed
  <2> QED  BY <2>1, <2>2, <2>3
<1>2. ASSUME NEW v \in UniqueVals, \A i \in DOMAIN new : new[i].u # v
      PROVE  Claimed(uniq, new)[v] = uniq[v]
  BY <1>2 DEF Claimed
<1> QED  BY <1>1, <1>2

\* What the eager checks promise the merge: it cannot fail, its result is
\* good, and a replica in the same state gets there with the record.
LEMMA MergeGood ==
    ASSUME db \in States, UniqueMatches(db), NEW ops \in [Ids -> PendingOps], OpsFit(ops)
    PROVE  /\ MergeOK(ops)
           /\ UniqueMatches(Merge(ops))
           /\ \A hw \in Nat :
                 LET rec == [del |-> Touched(ops, {"delete", "update"}),
                             ins |-> NewRows(ops), hw |-> hw]
                 IN /\ ReplicaOK(db, rec)
                    /\ ApplyReplicaRecord(db, rec).rows = Merge(ops).rows
                    /\ ApplyReplicaRecord(db, rec).uniq = Merge(ops).uniq
                    /\ ApplyReplicaRecord(db, rec).hw = IF hw = 0 THEN db.hw ELSE hw
<1> DEFINE out == Touched(ops, {"delete", "update"})
           in == Touched(ops, {"insert", "update"})
           new == NewRows(ops)
           rel == Released(db, out)
<1>1. /\ db.rows \in [Ids -> Rows \cup {NoRow}]
      /\ db.uniq \in [UniqueVals -> {0} \cup Ids]
      /\ \A i \in Ids : ops[i].kind \in {"none", "insert", "update", "delete"}
  BY DEF States, PendingOps
<1>2. /\ out = {i \in Ids : ops[i].kind \in {"delete", "update"}}
      /\ in = {i \in Ids : ops[i].kind \in {"insert", "update"}}
      /\ DOMAIN new = in /\ \A i \in in : new[i] = ops[i].row /\ new[i] \in Rows
  BY DEF Touched, NewRows, OpsFit
<1>3. /\ \A i \in in : new[i].u \in UniqueVals
      /\ \A i, j \in in : new[i].u = new[j].u => i = j
  BY <1>2, RowFacts DEF OpsFit
<1>4. \A v \in UniqueVals : rel[v] = IF db.uniq[v] \in out THEN 0 ELSE db.uniq[v]
  BY <1>1, <1>2, RowFacts DEF Released, UniqueMatches
<1>5. rel \in [UniqueVals -> {0} \cup Ids] /\ out \in SUBSET Ids /\ in \in SUBSET Ids
  BY <1>2, ReleasedType
<1>6. \A i \in in : rel[new[i].u] \in {0, i}
  BY <1>1, <1>2, <1>3, <1>4 DEF OpsFit
<1> HIDE DEF out, in, new, rel
<1>7. Claimable(rel, new)
  <2>1. IsInjective([i \in DOMAIN new |-> new[i].u])
    BY <1>2, <1>3 DEF IsInjective
  <2> QED  BY <1>2, <1>6, <2>1 DEF Claimable
<1>8. MergeOK(ops)
  <2>1. \A i \in out : db.rows[i] # NoRow
    BY <1>2 DEF OpsFit
  <2>2. \A i \in Touched(ops, {"insert"}) : db.rows[i] = NoRow
    BY DEF Touched, OpsFit
  <2> QED  BY <1>7, <2>1, <2>2 DEF MergeOK, out, new, rel
<1>9. Merge(ops).rows = Overlay(ops) /\ Merge(ops).uniq = Claimed(rel, new)
  BY DEF Merge, out, new, rel
<1>10. /\ \A i \in in : Claimed(rel, new)[new[i].u] = i
       /\ \A v \in UniqueVals : (\A i \in in : new[i].u # v) => Claimed(rel, new)[v] = rel[v]
  BY <1>2, <1>3, ClaimedValue
<1>11. UniqueMatches(Merge(ops))
  <2>1. ASSUME NEW i \in Ids, Overlay(ops)[i] # NoRow
        PROVE  Claimed(rel, new)[Overlay(ops)[i].u] = i
    <3>1. CASE i \in in
      BY <1>2, <1>10, <3>1 DEF Overlay
    <3>2. CASE i \notin in
      <4>1. ops[i].kind = "none" /\ Overlay(ops)[i] = db.rows[i]
        BY <1>1, <1>2, <2>1, <3>2 DEF Overlay
      <4> DEFINE v == db.rows[i].u
      <4>2. v \in UniqueVals /\ db.uniq[v] = i
        BY <1>1, <2>1, <4>1, RowFacts DEF UniqueMatches
      <4>3. rel[v] = i
        BY <1>2, <1>4, <4>1, <4>2
      <4>4. \A j \in in : new[j].u # v
        BY <1>2, <1>6, <3>2, <4>3, RowFacts
      <4> QED  BY <1>10, <4>1, <4>2, <4>3, <4>4
    <3> QED  BY <3>1, <3>2
  <2>2. ASSUME NEW v \in UniqueVals, Claimed(rel, new)[v] # 0
        PROVE  Overlay(ops)[Claimed(rel, new)[v]].u = v
    <3>1. CASE \E i \in in : new[i].u = v
      <4>1. PICK i \in in : new[i].u = v
        BY <3>1
      <4>2. i \in Ids /\ Claimed(rel, new)[v] = i /\ Overlay(ops)[i] = new[i]
        BY <1>2, <1>10, <4>1 DEF Overlay
      <4> QED  BY <4>1, <4>2
    <3>2. CASE \A i \in in : new[i].u # v
      <4> DEFINE o == db.uniq[v]
      <4>1. Claimed(rel, new)[v] = o /\ o # 0 /\ o \notin out /\ o \in Ids
        BY <1>1, <1>4, <1>10, <2>2, <3>2
      <4>2. db.rows[o].u = v /\ db.rows[o] # NoRow
        BY <4>1, RowFacts DEF UniqueMatches
      <4>3. ops[o].kind = "none"
        BY <1>1, <1>2, <4>1, <4>2 DEF OpsFit
      <4> QED  BY <4>1, <4>2, <4>3 DEF Overlay
    <3> QED  BY <3>1, <3>2
  <2> QED  BY <1>9, <2>1, <2>2 DEF UniqueMatches
<1>12. ASSUME NEW hw \in Nat, NEW rec, rec = [del |-> out, ins |-> new, hw |-> hw]
       PROVE  /\ ReplicaOK(db, rec)
              /\ ApplyReplicaRecord(db, rec).rows = Merge(ops).rows
              /\ ApplyReplicaRecord(db, rec).uniq = Merge(ops).uniq
              /\ ApplyReplicaRecord(db, rec).hw = IF hw = 0 THEN db.hw ELSE hw
  <2>1. rec.del = out /\ rec.ins = new /\ rec.hw = hw
    BY <1>12
  <2>2. ReplicaOK(db, rec)
    BY <1>7, <2>1 DEF ReplicaOK, rel
  <2>3. ApplyReplicaRecord(db, rec).rows = Overlay(ops)
    <3>1. \A i \in Ids :
             (IF i \in in THEN new[i] ELSE IF i \in out THEN NoRow ELSE db.rows[i])
             = CASE ops[i].kind = "none" -> db.rows[i]
                 [] ops[i].kind = "delete" -> NoRow
                 [] OTHER -> ops[i].row
      BY <1>1, <1>2
    <3> QED  BY <1>2, <2>1, <3>1 DEF ApplyReplicaRecord, Overlay
  <2>4. Released(db, out \cup in) = rel
    <3>1. \A v \in UniqueVals : db.uniq[v] # 0 =>
             db.rows[db.uniq[v]] # NoRow
      BY <1>1, RowFacts DEF UniqueMatches
    <3>2. \A v \in UniqueVals : db.uniq[v] \in in => db.uniq[v] \in out
      BY <1>1, <1>2, <3>1, RowFacts DEF OpsFit
    <3> QED  BY <3>2 DEF Released, rel
  <2> QED  BY <1>2, <1>9, <2>1, <2>2, <2>3, <2>4 DEF ApplyReplicaRecord
<1> QED  BY <1>8, <1>11, <1>12 DEF out, new

\* A transaction that has just begun, or ended, fits a good state.
LEMMA ClosedPending ==
    ASSUME TypeInv', Good(db)', tx'.refused = {}, tx'.ops = Closed.ops
    PROVE  PendingInv'
<1>1. \A i \in Ids : tx'.ops[i] = NoOp
  BY DEF Closed
<1>2. OpsFit(tx.ops)'
  BY <1>1 DEF OpsFit, NoOp
<1>3. Overlay(tx.ops)' = db'.rows
  <2>1. db'.rows \in [Ids -> Rows \cup {NoRow}]
    BY DEF TypeInv, TypeOK, States
  <2> QED  BY <1>1, <2>1 DEF Overlay, NoOp
<1> QED  BY <1>2, <1>3 DEF PendingInv, Good, Referring

\* A commit adds one link to the chain.
LEMMA CommitRows ==
    ASSUME TypeInv, TypeInv', RowsInv, Commit
    PROVE  RowsInv'
<1> DEFINE n == Len(queue)
           hw == IF dirty THEN ctr.high ELSE 0
           rec == [del |-> Touched(tx.ops, {"delete", "update"}),
                   ins |-> NewRows(tx.ops), hw |-> hw]
<1>1. /\ queue' = Append(queue, rec) /\ db' = Merge(tx.ops) /\ tx' = Closed
      /\ severed' = severed \cup tx.refused /\ UNCHANGED <<ctr, image>>
  BY DEF Commit
<1>2. /\ tx.ops \in [Ids -> PendingOps] /\ db \in States /\ UniqueMatches(db)
      /\ OpsFit(tx.ops) /\ Referring(Overlay(tx.ops), severed \cup tx.refused)
      /\ hw \in Nat /\ ctr.high \in Nat /\ db.hw \in Nat /\ db.hw <= ctr.high
      /\ db' \in States /\ n \in Nat
  BY EndsGood, Numbers
     DEF TypeInv, TypeOK, States, RowsInv, PendingInv, ChainInv, Good
<1>3. /\ ReplicaOK(db, rec) /\ UniqueMatches(db')
      /\ ApplyReplicaRecord(db, rec).rows = db'.rows
      /\ ApplyReplicaRecord(db, rec).uniq = db'.uniq
      /\ ApplyReplicaRecord(db, rec).hw = IF hw = 0 THEN db.hw ELSE hw
  <2> HIDE DEF hw
  <2> QED  BY <1>1, <1>2, MergeGood
<1>4. db'.hw = (IF hw = 0 THEN db.hw ELSE hw) /\ db'.hw <= ctr'.high
  BY <1>1, <1>2 DEF Merge
<1>5. rec \in Records
  <2> HIDE DEF hw
  <2> QED  BY <1>2, RecordType
<1> HIDE DEF rec, hw
<1>6. db' = ApplyReplicaRecord(db, rec)
  <2>1. ApplyReplicaRecord(db, rec) \in States
    BY <1>2, <1>5, ApplyType
  <2> QED  BY <1>2, <1>3, <1>4, <2>1 DEF States
<1>7. Good(db)'
  <2>1. db'.rows = Overlay(tx.ops)
    BY <1>1 DEF Merge
  <2> QED  BY <1>1, <1>2, <1>3, <2>1 DEF Good, UniqueMatches, Referring
<1>8. PendingInv'
  BY <1>1, <1>7, ClosedPending DEF Closed
<1>9. ChainInv'
  <2>1. PICK f : Chain(f)
    BY DEF RowsInv, ChainInv
  <2>0. PICK g : g = [k \in 0..(n + 1) |-> IF k = n + 1 THEN db' ELSE f[k]]
    OBVIOUS
  <2>2. /\ Len(queue') = n + 1 /\ queue'[n + 1] = rec
        /\ \A k \in 1..n : queue'[k] = queue[k]
    BY <1>1 DEF TypeInv, TypeOK
  <2>3. f \in [0..n -> States] /\ f[0] = image /\ f[n] = db
    BY <2>1 DEF Chain
  <2>4. /\ g \in [0..(n + 1) -> States] /\ g[0] = image' /\ g[n + 1] = db'
        /\ \A k \in 0..n : g[k] = f[k]
    BY <1>1, <1>2, <2>0, <2>3
  <2>5. \A k \in 0..n : UniqueMatches(f[k]) /\ Referring(f[k].rows, severed')
    BY <1>1, <2>1 DEF Chain, Good, Referring
  <2>6. UniqueMatches(db') /\ Referring(db'.rows, severed')
    BY <1>7 DEF Good, UniqueMatches, Referring
  <2>7. \A k \in 0..(n + 1) : UniqueMatches(g[k]) /\ Referring(g[k].rows, severed')
    BY <1>2, <2>4, <2>5, <2>6
  <2>8. ASSUME NEW k \in 1..(n + 1)
        PROVE  /\ ReplicaOK(g[k - 1], queue'[k])
               /\ g[k] = ApplyReplicaRecord(g[k - 1], queue'[k])
    <3>1. CASE k \in 1..n
      <4>1. g[k] = f[k] /\ g[k - 1] = f[k - 1] /\ queue'[k] = queue[k]
        BY <1>2, <2>2, <2>4, <3>1
      <4> QED  BY <2>1, <3>1, <4>1 DEF Chain
    <3>2. CASE k = n + 1
      <4>1. k - 1 = n /\ n \in 0..n
        BY <1>2, <3>2
      <4> QED  BY <1>3, <1>6, <2>2, <2>3, <2>4, <3>2, <4>1
    <3> QED  BY <1>2, <3>1, <3>2
  <2>9. Chain(g)'
    BY <2>2, <2>4, <2>7, <2>8 DEF Chain, Good
  <2> QED  BY <1>4, <2>9 DEF ChainInv
<1> QED  BY <1>8, <1>9 DEF RowsInv

\* The log takes the first link.
LEMMA LogRows ==
    ASSUME TypeInv, RowsInv, Log
    PROVE  RowsInv'
<1> DEFINE n == Len(queue)
<1>1. /\ queue # <<>> /\ queue' = Tail(queue)
      /\ image' = ApplyReplicaRecord(image, queue[1])
      /\ UNCHANGED <<db, ctr, tx, severed>>
  BY QueueFacts DEF Log
<1>2. /\ n \in Nat \ {0} /\ Len(queue') = n - 1
      /\ \A k \in 1..(n - 1) : queue'[k] = queue[k + 1]
  BY <1>1, QueueFacts
<1>3. PICK f : Chain(f)
  BY DEF RowsInv, ChainInv
<1>0. PICK g : g = [k \in 0..(n - 1) |-> f[k + 1]]
  OBVIOUS
<1>4. f \in [0..n -> States] /\ f[0] = image /\ f[n] = db
  BY <1>3 DEF Chain
<1>5. /\ g \in [0..(n - 1) -> States]
      /\ \A k \in 0..(n - 1) : g[k] = f[k + 1]
  BY <1>0, <1>2, <1>4
<1>6. g[0] = image' /\ g[n - 1] = db'
  <2>1. 1 \in 1..n /\ 1 - 1 = 0 /\ 0 \in 0..(n - 1) /\ 0 + 1 = 1
        /\ n - 1 \in 0..(n - 1) /\ (n - 1) + 1 = n
    BY <1>2
  <2>2. f[1] = ApplyReplicaRecord(f[1 - 1], queue[1])
    BY <1>3, <2>1 DEF Chain
  <2> QED  BY <1>1, <1>4, <1>5, <2>1, <2>2
<1>7. \A k \in 0..(n - 1) : UniqueMatches(g[k]) /\ Referring(g[k].rows, severed)
  <2>1. \A k \in 0..(n - 1) : k + 1 \in 0..n
    BY <1>2
  <2> QED  BY <1>3, <1>5, <2>1 DEF Chain, Good
<1>8. ASSUME NEW k \in 1..(n - 1)
      PROVE  /\ ReplicaOK(g[k - 1], queue'[k])
             /\ g[k] = ApplyReplicaRecord(g[k - 1], queue'[k])
  <2>1. /\ k + 1 \in 1..n /\ k - 1 \in 0..(n - 1) /\ k \in 0..(n - 1)
        /\ (k - 1) + 1 = (k + 1) - 1
    BY <1>2
  <2>2. g[k - 1] = f[(k + 1) - 1] /\ g[k] = f[k + 1] /\ queue'[k] = queue[k + 1]
    BY <1>2, <1>5, <2>1
  <2> QED  BY <1>3, <2>1, <2>2 DEF Chain
<1>9. Chain(g)'
  BY <1>1, <1>2, <1>5, <1>6, <1>7, <1>8 DEF Chain, Good
<1>10. PendingInv'
  BY <1>1, SameDb DEF RowsInv, PendingInv, Referring
<1> QED  BY <1>1, <1>9, <1>10 DEF RowsInv, ChainInv

\* A new process starts from the replica's end of the chain.
LEMMA ResumeRows ==
    ASSUME TypeInv, TypeInv', RowsInv, Resume(image)
    PROVE  RowsInv'
<1>1. /\ db' = image /\ ctr' = [next |-> image.hw + 1, high |-> image.hw]
      /\ tx' = Closed /\ queue' = <<>> /\ UNCHANGED <<image, severed>>
  BY DEF Resume
<1>2. Good(image) /\ image \in States
  BY EndsGood DEF RowsInv, TypeInv, TypeOK
<1>3. Good(db)'
  BY <1>1, <1>2 DEF Good, UniqueMatches, Referring
<1>4. PendingInv'
  BY <1>1, <1>3, ClosedPending DEF Closed
<1>0. PICK g : g = [k \in 0..0 |-> image]
  OBVIOUS
<1>5. Len(queue') = 0 /\ g \in [0..0 -> States] /\ g[0] = image /\ 0..0 = {0} /\ 1..0 = {}
  BY <1>0, <1>1, <1>2
<1>6. Chain(g)'
  BY <1>1, <1>2, <1>5 DEF Chain, Good
<1>7. db'.hw <= ctr'.high
  BY <1>1, Numbers
<1> QED  BY <1>4, <1>6, <1>7 DEF RowsInv, ChainInv

\* A fresh store is its own replica.
LEMMA InitRows == Init => RowsInv
<1> SUFFICES ASSUME Init PROVE RowsInv
  OBVIOUS
<1>1. db = Empty /\ image = Empty /\ tx = Closed /\ queue = <<>> /\ ctr.high = 0
  BY DEF Init
<1>2. Good(Empty)
  BY RowFacts DEF Good, UniqueMatches, Referring, Empty
<1>3. Empty \in States
  BY InitTypes DEF Init, TypeInv, TypeOK
<1>4. PendingInv
  <2>1. \A i \in Ids : tx.ops[i] = NoOp
    BY <1>1 DEF Closed
  <2>2. OpsFit(tx.ops)
    BY <2>1 DEF OpsFit, NoOp
  <2>3. \A i \in Ids : Overlay(tx.ops)[i] = NoRow
    BY <1>1, <2>1 DEF Overlay, NoOp, Empty
  <2> QED  BY <2>2, <2>3, RowFacts DEF PendingInv, Referring
<1> DEFINE g == [k \in 0..0 |-> Empty]
<1>5. Len(queue) = 0 /\ g \in [0..0 -> States] /\ g[0] = Empty /\ 0..0 = {0} /\ 1..0 = {}
  BY <1>1, <1>3
<1> HIDE DEF g
<1>6. Chain(g)
  BY <1>1, <1>2, <1>5 DEF Chain
<1>7. db.hw <= ctr.high
  BY <1>1 DEF Empty
<1> QED  BY <1>4, <1>6, <1>7 DEF RowsInv, ChainInv

\* Every step keeps the rows consistent.
LEMMA StepRows == TypeInv /\ TypeInv' /\ IdsInv /\ RowsInv /\ [Next]_vars => RowsInv'
<1> SUFFICES ASSUME TypeInv, TypeInv', IdsInv, RowsInv, [Next]_vars PROVE RowsInv'
  OBVIOUS
<1>1. CASE Begin \/ Rollback
  <2>1. /\ tx'.ops = Closed.ops /\ tx'.refused = {}
        /\ UNCHANGED <<db, ctr, queue, image, severed>>
    BY <1>1 DEF Begin, Rollback, Closed
  <2>2. Good(db)'
    BY <2>1, EndsGood DEF RowsInv, Good, UniqueMatches, Referring
  <2> QED  BY <2>1, <2>2, ClosedPending, ChainKept DEF RowsInv, ChainInv
<1>2. CASE \E given \in {0} \cup Ids, ref \in {0} \cup Ids,
              v \in UniqueVals, replace \in BOOLEAN :
             Write(given, ref, v, replace)
  BY <1>2, WriteRows
<1>3. CASE \E id \in Ids : Delete(id)
  BY <1>3, DeleteRows
<1>4. CASE Commit
  BY <1>4, CommitRows
<1>5. CASE Log
  BY <1>5, LogRows
<1>6. CASE Restart
  <2>1. image \in States /\ UniqueMatches(image)
    BY EndsGood DEF RowsInv, Good, TypeInv, TypeOK
  <2>2. image.uniq = Rebuilt(image.rows)
    BY <2>1, MatchesRebuilt
  <2>3. [image EXCEPT !.uniq = Rebuilt(image.rows)] = image
    BY <2>1, <2>2 DEF States
  <2> QED  BY <1>6, <2>3, ResumeRows DEF Restart
<1>7. CASE Promote
  BY <1>7, ResumeRows DEF Promote
<1>8. CASE UNCHANGED vars
  <2>1. UNCHANGED <<db, ctr, queue, image, severed, tx>>
    BY <1>8 DEF vars
  <2>2. PendingInv'
    BY <2>1, SameDb DEF RowsInv, PendingInv, Referring
  <2> QED  BY <2>1, <2>2, ChainKept DEF RowsInv, ChainInv
<1> QED  BY <1>1, <1>2, <1>3, <1>4, <1>5, <1>6, <1>7, <1>8 DEF Next

----------------------------------------------------------------------------
(* The theorems.                                                           *)

\* Every variable of the row store keeps its type.
THEOREM StoreTypes == Spec => []TypeOK
<1>1. Init => TypeInv
  BY InitTypes
<1>2. TypeInv /\ [Next]_vars => TypeInv'
  BY StepTypes
<1>3. TypeInv => TypeOK
  BY DEF TypeInv
<1> QED  BY <1>1, <1>2, <1>3, PTL DEF Spec

\* The counter is past every id this process handed out and every id the log
\* holds, through rollbacks, restarts and promotions: no id is given twice.
THEOREM IdsStayUnique == Spec => []IdsNotReused
<1>1. Init => TypeInv /\ IdsInv
  BY InitTypes, InitIds
<1>2. TypeInv /\ IdsInv /\ [Next]_vars => TypeInv' /\ IdsInv'
  BY StepTypes, StepIds
<1>3. IdsInv => IdsNotReused
  BY DEF IdsInv, CounterInv, IdsNotReused
<1> QED  BY <1>1, <1>2, <1>3, PTL DEF Spec

\* References hold in the served state and in the replica's, under every
\* on_delete action; only deletes that restrict refused in a transaction that
\* went on to commit are excused.
THEOREM RefsStayValid == Spec => []RefsHold
<1>1. Init => TypeInv /\ IdsInv /\ RowsInv
  BY InitTypes, InitIds, InitRows
<1>2. TypeInv /\ IdsInv /\ RowsInv /\ [Next]_vars => TypeInv' /\ IdsInv' /\ RowsInv'
  BY StepTypes, StepIds, StepRows
<1>3. TypeInv /\ RowsInv => RefsHold
  BY EndsGood DEF RowsInv, Good, Referring, RefsHold
<1> QED  BY <1>1, <1>2, <1>3, PTL DEF Spec

\* The merge and the replica's application never fail, the unique maps say
\* what the rows say, and a replica with every record holds the served state.
THEOREM StoreStaysConsistent == Spec => []StoreConsistent
<1>1. Init => TypeInv /\ IdsInv /\ RowsInv
  BY InitTypes, InitIds, InitRows
<1>2. TypeInv /\ IdsInv /\ RowsInv /\ [Next]_vars => TypeInv' /\ IdsInv' /\ RowsInv'
  BY StepTypes, StepIds, StepRows
<1>3. TypeInv /\ RowsInv => StoreConsistent
  <2> SUFFICES ASSUME TypeInv, RowsInv PROVE StoreConsistent
    OBVIOUS
  <2>1. /\ db \in States /\ UniqueMatches(db) /\ image \in States /\ UniqueMatches(image)
        /\ tx.ops \in [Ids -> PendingOps] /\ OpsFit(tx.ops)
    BY EndsGood DEF RowsInv, PendingInv, Good, TypeInv, TypeOK, Txs
  <2>2. MergeOK(tx.ops)
    BY <2>1, MergeGood
  <2>3. PICK f : Chain(f)
    BY DEF RowsInv, ChainInv
  <2>4. queue # <<>> => ReplicaOK(image, Head(queue))
    <3>1. CASE queue # <<>>
      <4>1. 1 \in 1..Len(queue) /\ 1 - 1 = 0 /\ Head(queue) = queue[1]
        BY <3>1, QueueFacts
      <4>2. ReplicaOK(f[1 - 1], queue[1]) /\ f[0] = image
        BY <2>3, <4>1 DEF Chain
      <4> QED  BY <4>1, <4>2
    <3> QED  BY <3>1
  <2>5. queue = <<>> => image = db
    BY <2>3 DEF Chain
  <2>6. \A state \in {db, image} :
           /\ state.uniq = Rebuilt(state.rows)
           /\ \A i, j \in Ids : i # j /\ state.rows[i] # NoRow =>
                 state.rows[i].u # state.rows[j].u
    BY <2>1, MatchesRebuilt
  <2> QED  BY <2>2, <2>4, <2>5, <2>6 DEF StoreConsistent
<1> QED  BY <1>1, <1>2, <1>3, PTL DEF Spec

=============================================================================
