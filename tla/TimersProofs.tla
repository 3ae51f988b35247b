---------------------------- MODULE TimersProofs ----------------------------
(***************************************************************************)
(* For every set of schedules, every TTL, batch and back-off, and whatever *)
(* crashes: a scheduled call and its row go together, and the sweeper      *)
(* deletes nothing but what has expired.                                   *)
(***************************************************************************)
EXTENDS Timers, FiniteSetTheorems, TLAPS

(***************************************************************************)
(* OncePerOccurrence speaks of the committed state.  A crash goes back to  *)
(* what the log has, so the same must hold of saved; and a step that gives *)
(* out an id needs to know that the id is new: no row has it, nothing ran  *)
(* under it.                                                               *)
(***************************************************************************)

Entries == [id : Ids, name : DOMAIN Static \cup {App}, at : Nat, period : Nat]

States ==
    [sched : SUBSET Entries, nextId : 1..MaxIds + 1, ran : [Ids -> Nat], last : [Ids -> Int],
     gone : SUBSET Ids, row : [Keys -> Contents \cup Expiries \cup {None}]]

RowsOf(d, id) == {e \in d.sched : e.id = id}

\* The rows of a state: one per id and per static schedule, under ids given out.
RowsInv(d) ==
    /\ \A e \in d.sched : e.id < d.nextId
    /\ \A e, f \in d.sched : e.id = f.id => e = f
    /\ \A e, f \in d.sched : e.name = f.name /\ e.name # App => e = f

\* What a state says has run agrees with the rows it still has.
RanInv(d, t) ==
    /\ \A id \in Ids : id >= d.nextId => d.ran[id] = 0 /\ d.last[id] = -1
    /\ \A id \in Ids : d.last[id] <= t
    /\ \A id \in Ids :
          id < d.nextId /\ RowsOf(d, id) = {} /\ id \notin d.gone => d.ran[id] = 1
    /\ \A e \in d.sched : IF e.period = 0 THEN d.ran[e.id] = 0 ELSE e.at > d.last[e.id]

ScheduleInv(d, t) == d \in States /\ RowsInv(d) /\ RanInv(d, t)

(***************************************************************************)
(* SweptExpired relates the time of the scan, which the sweeper remembers, *)
(* to the first time a row had its content: a witness is never older than  *)
(* that.                                                                   *)
(***************************************************************************)

\* A row that is there has had its content at time t, since f at the latest.
ContentInv(d, f, t) ==
    /\ \A k \in Sliding : d.row[k] # None => d.row[k] \in Contents /\ f[k][d.row[k]] <= t
    /\ \A k \in Absolute : d.row[k] # None => d.row[k] \in Expiries

WitnessInv ==
    \A k \in Sliding : witness[k] # None =>
       /\ witness[k].row \in Contents /\ witness[k].at \in Nat
       /\ first[k][witness[k].row] <= witness[k].at /\ witness[k].at <= now

\* The rows a scan chose had expired by the time it notes.
DoomedInv ==
    /\ sweeper.at \in Nat /\ sweeper.at <= now
    /\ \A d \in sweeper.doomed :
          /\ d.key \in Keys
          /\ d.key \in Sliding => d.row \in Contents /\ sweeper.at - first[d.key][d.row] > Ttl

ClockInv ==
    /\ now \in Nat /\ now <= MaxTime /\ events \in Nat
    /\ first \in [Sliding -> [Contents -> Nat]]
    /\ witness = [k \in Keys |-> witness[k]]

SweepInv ==
    ContentInv(db, first, now) /\ ContentInv(saved, first, now) /\ WitnessInv /\ DoomedInv

TimersInv == ClockInv /\ ScheduleInv(db, now) /\ ScheduleInv(saved, now) /\ SweepInv

----------------------------------------------------------------------------
(* The schedule                                                            *)

\* Time alone disturbs nothing.
LEMMA ScheduleLater ==
    ASSUME NEW d, NEW t \in Nat, NEW u \in Nat, t <= u, ScheduleInv(d, t)
    PROVE  ScheduleInv(d, u)
BY DEF ScheduleInv, RanInv, States

\* Missing schedules are given the next ids, all of them and each once.
LEMMA OrderFills ==
    ASSUME NEW M, IsFiniteSet(M), NEW n \in Nat,
           NEW order \in [M -> n..n + Cardinality(M) - 1],
           \A a, b \in M : order[a] = order[b] => a = b
    PROVE  \A id \in n..n + Cardinality(M) - 1 : \E a \in M : order[a] = id
<1> DEFINE T == n..n + Cardinality(M) - 1
<1>1. Cardinality(M) \in Nat
  BY FS_CardinalityType
<1>2. IsFiniteSet(T) /\ Cardinality(T) = Cardinality(M)
  <2>1. n \in Int /\ n + Cardinality(M) - 1 \in Int
    BY <1>1
  <2>2. IsFiniteSet(T)
         /\ Cardinality(T) = IF n > n + Cardinality(M) - 1 THEN 0
                             ELSE (n + Cardinality(M) - 1) - n + 1
    BY <2>1, FS_Interval
  <2> QED  BY <1>1, <2>2
<1>3. order \in Injection(M, T)
  BY DEF Injection, IsInjective
<1>4. order \in Surjection(M, T)
  BY <1>2, <1>3, FS_Injection
<1> QED  BY <1>4 DEF Surjection

\* What a new row with the next id needs.
LEMMA StartSchedule ==
    ASSUME TimersInv, Start
    PROVE  ScheduleInv(db', now)
<1> DEFINE C == Cardinality(Missing)
<1> PICK order \in [Missing -> db.nextId..db.nextId + C - 1] :
       /\ \A m, n \in Missing : order[m] = order[n] => m = n
       /\ db' = [db EXCEPT
            !.sched = @ \cup {[id |-> order[n], name |-> n, at |-> now + Static[n].delay,
                               period |-> Static[n].period] : n \in Missing},
            !.nextId = @ + C]
  BY DEF Start
<1> DEFINE row(n) == [id |-> order[n], name |-> n, at |-> now + Static[n].delay,
                      period |-> Static[n].period]
           new == {row(n) : n \in Missing}
<1>1. Missing \subseteq DOMAIN Static /\ IsFiniteSet(Missing)
  BY TimerBounds, FS_Subset DEF Missing
<1>2. C \in Nat /\ db.nextId + C <= MaxIds + 1
  BY <1>1, FS_CardinalityType DEF Start
<1>3. db \in States /\ db.nextId \in 1..MaxIds + 1 /\ now \in Nat /\ MaxIds \in Nat
  BY TimerBounds DEF TimersInv, ScheduleInv, States, ClockInv
<1>4. \A n \in Missing : row(n) \in Entries /\ order[n] >= db.nextId /\ order[n] < db.nextId + C
  BY <1>1, <1>2, <1>3, TimerBounds DEF Entries, Ids
<1>5. \A id \in db.nextId..db.nextId + C - 1 : \E n \in Missing : order[n] = id
  BY <1>1, <1>3, OrderFills
<1>6. /\ db'.sched = db.sched \cup new /\ db'.nextId = db.nextId + C
      /\ db'.ran = db.ran /\ db'.last = db.last /\ db'.gone = db.gone /\ db'.row = db.row
  BY <1>3 DEF States
<1>7. db' \in States
  <2>1. new \subseteq Entries
    BY <1>4
  <2>2. db' = [db EXCEPT !.sched = db.sched \cup new, !.nextId = db.nextId + C]
    OBVIOUS
  <2>3. db.nextId + C \in 1..MaxIds + 1
    BY <1>2, <1>3
  <2>4. db.sched \cup new \in SUBSET Entries
    BY <1>3, <2>1 DEF States
  <2> HIDE DEF new, C
  <2> QED  BY <1>3, <2>2, <2>3, <2>4 DEF States
<1>8. RowsInv(db')
  <2>1. \A e \in db.sched : e.id < db.nextId
    BY DEF TimersInv, ScheduleInv, RowsInv
  <2>2. \A e \in db.sched : e.id \in Nat
    BY <1>3 DEF States, Entries, Ids
  <2>3. \A e \in db'.sched : e.id < db'.nextId
    BY <1>2, <1>3, <1>4, <1>6, <2>1, <2>2
  <2>4. \A e, f \in db'.sched : e.id = f.id => e = f
    <3> SUFFICES ASSUME NEW e \in db.sched \cup new, NEW f \in db.sched \cup new, e.id = f.id
                 PROVE  e = f
      BY <1>6
    <3>1. CASE e \in db.sched /\ f \in db.sched
      BY <3>1 DEF TimersInv, ScheduleInv, RowsInv
    <3>2. CASE e \in new /\ f \in new
      BY <3>2
    <3>3. \A g \in new : g.id >= db.nextId
      BY <1>4
    <3> QED  BY <1>3, <2>1, <2>2, <3>1, <3>2, <3>3
  <2>5. \A e, f \in db'.sched : e.name = f.name /\ e.name # App => e = f
    <3> SUFFICES ASSUME NEW e \in db.sched \cup new, NEW f \in db.sched \cup new,
                        e.name = f.name, e.name # App
                 PROVE  e = f
      BY <1>6
    <3>1. CASE e \in db.sched /\ f \in db.sched
      BY <3>1 DEF TimersInv, ScheduleInv, RowsInv
    <3>2. CASE e \in new /\ f \in new
      BY <3>2
    <3>3. \A g \in new, h \in db.sched : g.name # h.name
      BY DEF Missing
    <3> QED  BY <3>1, <3>2, <3>3
  <2> QED  BY <2>3, <2>4, <2>5 DEF RowsInv
<1>9. RanInv(db', now)
  <2>1. \A id \in Ids : id >= db'.nextId => db'.ran[id] = 0 /\ db'.last[id] = -1
    BY <1>2, <1>3, <1>6 DEF TimersInv, ScheduleInv, RanInv, Ids
  <2>2. \A id \in Ids : db'.last[id] <= now
    BY <1>6 DEF TimersInv, ScheduleInv, RanInv
  <2>3. ASSUME NEW id \in Ids, id < db'.nextId, RowsOf(db', id) = {}, id \notin db'.gone
        PROVE  db'.ran[id] = 1
    <3>1. RowsOf(db, id) = {}
      BY <1>6, <2>3 DEF RowsOf
    <3>2. id < db.nextId
      <4> SUFFICES ASSUME id >= db.nextId
                   PROVE  FALSE
        BY <1>3 DEF Ids
      <4>0. id \in Nat /\ id < db.nextId + C /\ db.nextId \in Nat
        <5>1. db'.nextId = db.nextId + C
          BY <1>6
        <5>2. id < db'.nextId
          BY <2>3
        <5> QED  BY <1>3, <5>1, <5>2 DEF Ids
      <4>1. PICK n \in Missing : order[n] = id
        BY <1>2, <1>5, <4>0
      <4>2. row(n) \in db'.sched /\ row(n).id = id
        BY <1>6, <4>1
      <4> QED  BY <2>3, <4>2 DEF RowsOf
    <3> QED  BY <1>6, <2>3, <3>1, <3>2 DEF TimersInv, ScheduleInv, RanInv
  <2>4. ASSUME NEW e \in db'.sched
        PROVE  IF e.period = 0 THEN db'.ran[e.id] = 0 ELSE e.at > db'.last[e.id]
    <3>1. CASE e \in db.sched
      BY <1>6, <3>1 DEF TimersInv, ScheduleInv, RanInv
    <3>2. CASE e \in new
      <4>1. PICK n \in Missing : e = row(n)
        BY <3>2
      <4>2. e.id \in Ids /\ e.id >= db.nextId /\ e.at \in Nat
        BY <1>4, <4>1 DEF Entries
      <4>3. db.ran[e.id] = 0 /\ db.last[e.id] = -1
        BY <4>2 DEF TimersInv, ScheduleInv, RanInv
      <4> QED  BY <1>6, <4>2, <4>3
    <3> QED  BY <1>6, <2>4, <3>1, <3>2
  <2> QED  BY <2>1, <2>2, <2>3, <2>4 DEF RanInv
<1> QED  BY <1>7, <1>8, <1>9 DEF ScheduleInv

\* A firing moves a recurring row past now, and takes a one-shot away.
LEMMA FireSchedule ==
    ASSUME TimersInv, Fire
    PROVE  ScheduleInv(db', now)
<1> DEFINE id == Head(due)
<1>1. db \in States /\ now \in Nat /\ RowsInv(db) /\ RanInv(db, now)
  BY DEF TimersInv, ScheduleInv, ClockInv
<1>2. CASE UNCHANGED db
  BY <1>2 DEF TimersInv
<1>3. ASSUME NEW e \in db.sched, e.id = id,
             db' = [db EXCEPT !.sched = (@ \ {e}) \cup Leaves(e),
                              !.ran[id] = @ + 1, !.last[id] = now]
      PROVE  ScheduleInv(db', now)
  <2>1. e \in Entries /\ id \in Ids /\ id < db.nextId /\ e.period \in Nat /\ e.at \in Nat
    BY <1>1, <1>3 DEF States, Entries, RowsInv
  <2>2. /\ db'.sched = (db.sched \ {e}) \cup Leaves(e) /\ db'.nextId = db.nextId
        /\ db'.ran = [db.ran EXCEPT ![id] = @ + 1] /\ db'.last = [db.last EXCEPT ![id] = now]
        /\ db'.gone = db.gone /\ db'.row = db.row
    BY <1>1, <1>3 DEF States
  <2>3. \A f \in Leaves(e) : /\ f \in Entries /\ f.id = id /\ f.name = e.name
                             /\ f.period = e.period /\ f.period > 0 /\ f.at > now
    <3>1. SUFFICES ASSUME e.period > 0
                   PROVE  LET f == [e EXCEPT !.at = NextAt(e)]
                          IN /\ f \in Entries /\ f.id = id /\ f.name = e.name
                             /\ f.period = e.period /\ f.period > 0 /\ f.at > now
      BY DEF Leaves
    <3>2. NextAt(e) \in Nat /\ NextAt(e) > now
      BY <1>1, <2>1, <3>1 DEF NextAt
    <3> QED  BY <1>3, <2>1, <3>1, <3>2 DEF Entries
  <2>4. \A f, g \in Leaves(e) : f = g
    BY DEF Leaves
  <2>5. db' \in States
    <3>1. (db.sched \ {e}) \cup Leaves(e) \in SUBSET Entries
      BY <1>1, <2>3 DEF States
    <3>2. [db.ran EXCEPT ![id] = @ + 1] \in [Ids -> Nat] /\ [db.last EXCEPT ![id] = now] \in [Ids -> Int]
      BY <1>1, <2>1 DEF States
    <3>3. db' = [db EXCEPT !.sched = (db.sched \ {e}) \cup Leaves(e),
                           !.ran = [db.ran EXCEPT ![id] = @ + 1],
                           !.last = [db.last EXCEPT ![id] = now]]
      BY <1>1, <1>3 DEF States
    <3> QED  BY <1>1, <3>1, <3>2, <3>3 DEF States
  <2>6. RowsInv(db')
    <3>1. \A f \in db.sched \ {e} : f.id # id /\ (f.name = e.name => f.name = App)
      BY <1>1, <1>3 DEF RowsInv
    <3> QED  BY <1>1, <2>1, <2>2, <2>3, <2>4, <3>1 DEF RowsInv
  <2>7. RanInv(db', now)
    <3>1. ASSUME NEW i \in Ids
          PROVE  /\ db'.ran[i] = IF i = id THEN db.ran[i] + 1 ELSE db.ran[i]
                 /\ db'.last[i] = IF i = id THEN now ELSE db.last[i]
                 /\ db.ran[i] \in Nat /\ db.last[i] \in Int
      BY <1>1, <2>2 DEF States
    <3>2. ASSUME NEW i \in Ids, i >= db'.nextId
          PROVE  db'.ran[i] = 0 /\ db'.last[i] = -1
      <4>1. i # id
        BY <1>1, <2>1, <2>2, <3>2 DEF Ids, States
      <4> QED  BY <1>1, <2>2, <3>1, <3>2, <4>1 DEF RanInv
    <3>3. \A i \in Ids : db'.last[i] <= now
      BY <1>1, <3>1 DEF RanInv
    <3>4. ASSUME NEW i \in Ids, i < db'.nextId, RowsOf(db', i) = {}, i \notin db'.gone
          PROVE  db'.ran[i] = 1
      <4>1. CASE i = id
        <5>1. e.period = 0
          <6> SUFFICES ASSUME e.period # 0
                       PROVE  FALSE
            OBVIOUS
          <6>1. [e EXCEPT !.at = NextAt(e)] \in Leaves(e)
            BY <2>1 DEF Leaves
          <6>2. [e EXCEPT !.at = NextAt(e)] \in RowsOf(db', i)
            BY <2>2, <2>3, <4>1, <6>1 DEF RowsOf
          <6> QED  BY <3>4, <6>2
        <5>2. db.ran[id] = 0
          BY <1>1, <1>3, <5>1 DEF RanInv
        <5> QED  BY <2>1, <3>1, <4>1, <5>2
      <4>2. CASE i # id
        <5>1. RowsOf(db, i) \subseteq RowsOf(db', i)
          BY <1>3, <2>2, <4>2 DEF RowsOf
        <5>2. db.ran[i] = 1
          BY <1>1, <2>2, <3>4, <5>1 DEF RanInv
        <5> QED  BY <3>1, <4>2, <5>2
      <4> QED  BY <4>1, <4>2
    <3>5. ASSUME NEW f \in db'.sched
          PROVE  IF f.period = 0 THEN db'.ran[f.id] = 0 ELSE f.at > db'.last[f.id]
      <4>1. CASE f \in Leaves(e)
        BY <2>1, <2>3, <3>1, <4>1
      <4>2. CASE f \in db.sched \ {e}
        <5>1. f.id # id /\ f.id \in Ids
          BY <1>1, <1>3, <4>2 DEF RowsInv, States, Entries
        <5> QED  BY <1>1, <3>1, <4>2, <5>1 DEF RanInv
      <4> QED  BY <2>2, <3>5, <4>1, <4>2
    <3> QED  BY <3>2, <3>3, <3>4, <3>5 DEF RanInv
  <2> QED  BY <2>5, <2>6, <2>7 DEF ScheduleInv
<1> QED  BY <1>2, <1>3 DEF Fire

\* An application's call takes the next id.
LEMMA ScheduleAfterSchedule ==
    ASSUME TimersInv, ScheduleAfter
    PROVE  ScheduleInv(db', now)
<1> DEFINE e == [id |-> db.nextId, name |-> App, at |-> now + Delay, period |-> 0]
<1>1. db \in States /\ now \in Nat /\ RowsInv(db) /\ RanInv(db, now)
  BY DEF TimersInv, ScheduleInv, ClockInv
<1>2. db.nextId \in Ids /\ Delay \in Nat /\ e \in Entries
  BY <1>1, TimerBounds DEF ScheduleAfter, States, Ids, Entries
<1>3. db' = [db EXCEPT !.sched = @ \cup {e}, !.nextId = @ + 1]
  BY DEF ScheduleAfter, New
<1>4. /\ db'.sched = db.sched \cup {e} /\ db'.nextId = db.nextId + 1
      /\ db'.ran = db.ran /\ db'.last = db.last /\ db'.gone = db.gone /\ db'.row = db.row
  BY <1>1, <1>3 DEF States
<1> HIDE DEF e
<1>5. e.id = db.nextId /\ e.name = App /\ e.period = 0
  BY DEF e
<1>6. db' \in States
  <2>1. db.sched \cup {e} \in SUBSET Entries /\ db.nextId + 1 \in 1..MaxIds + 1
    BY <1>1, <1>2, TimerBounds DEF States, Ids
  <2> QED  BY <1>1, <1>3, <2>1 DEF States
<1>7. RowsInv(db')
  BY <1>1, <1>2, <1>4, <1>5 DEF RowsInv, States, Entries, Ids
<1>8. RanInv(db', now)
  <2>1. \A i \in Ids : i >= db'.nextId => db'.ran[i] = 0 /\ db'.last[i] = -1
    BY <1>1, <1>2, <1>4 DEF RanInv, Ids
  <2>2. \A i \in Ids : db'.last[i] <= now
    BY <1>1, <1>4 DEF RanInv
  <2>3. ASSUME NEW i \in Ids, i < db'.nextId, RowsOf(db', i) = {}, i \notin db'.gone
        PROVE  db'.ran[i] = 1
    <3>1. RowsOf(db, i) = {} /\ i # db.nextId
      BY <1>4, <1>5, <2>3 DEF RowsOf
    <3>2. i < db.nextId
      BY <1>2, <1>4, <2>3, <3>1 DEF Ids
    <3> QED  BY <1>1, <1>4, <2>3, <3>1, <3>2 DEF RanInv
  <2>4. \A f \in db'.sched : IF f.period = 0 THEN db'.ran[f.id] = 0 ELSE f.at > db'.last[f.id]
    <3>1. db.ran[e.id] = 0
      BY <1>1, <1>2, <1>5 DEF RanInv, Ids
    <3> QED  BY <1>1, <1>4, <1>5, <3>1 DEF RanInv
  <2> QED  BY <2>1, <2>2, <2>3, <2>4 DEF RanInv
<1> QED  BY <1>6, <1>7, <1>8 DEF ScheduleInv

\* A cancelled row is noted as gone.
LEMMA CancelSchedule ==
    ASSUME TimersInv, Cancel
    PROVE  ScheduleInv(db', now)
<1>1. db \in States /\ now \in Nat /\ RowsInv(db) /\ RanInv(db, now)
  BY DEF TimersInv, ScheduleInv, ClockInv
<1>2. PICK e \in db.sched : db' = [db EXCEPT !.sched = @ \ {e}, !.gone = @ \cup {e.id}]
  BY DEF Cancel
<1>3. /\ db'.sched = db.sched \ {e} /\ db'.gone = db.gone \cup {e.id}
      /\ db'.nextId = db.nextId /\ db'.ran = db.ran /\ db'.last = db.last /\ db'.row = db.row
  BY <1>1, <1>2 DEF States
<1>4. db' \in States
  BY <1>1, <1>2 DEF States, Entries
<1>5. RowsInv(db')
  BY <1>1, <1>3 DEF RowsInv
<1>6. RanInv(db', now)
  <2>1. ASSUME NEW i \in Ids, i < db'.nextId, RowsOf(db', i) = {}, i \notin db'.gone
        PROVE  db'.ran[i] = 1
    <3>1. RowsOf(db, i) = {}
      BY <1>3, <2>1 DEF RowsOf
    <3> QED  BY <1>1, <1>3, <2>1, <3>1 DEF RanInv
  <2> QED  BY <1>1, <1>3, <2>1 DEF RanInv
<1> QED  BY <1>4, <1>5, <1>6 DEF ScheduleInv

\* A state that differs in its rows of swept tables alone.
LEMMA RowSchedule ==
    ASSUME NEW d, NEW t \in Nat, ScheduleInv(d, t),
           NEW r \in [Keys -> Contents \cup Expiries \cup {None}]
    PROVE  ScheduleInv([d EXCEPT !.row = r], t)
<1> DEFINE c == [d EXCEPT !.row = r]
<1>1. /\ c \in States /\ c.sched = d.sched /\ c.nextId = d.nextId /\ c.ran = d.ran
      /\ c.last = d.last /\ c.gone = d.gone
  BY DEF ScheduleInv, States
<1> HIDE DEF c
<1>2. RowsInv(c) /\ RanInv(c, t)
  BY <1>1 DEF ScheduleInv, RowsInv, RanInv, RowsOf
<1>3. ScheduleInv(c, t)
  BY <1>1, <1>2 DEF ScheduleInv
<1> QED  BY <1>3 DEF c

\* Every step keeps the schedule right, in the committed state and in the log.
LEMMA ScheduleStep ==
    ASSUME TimersInv, [Next]_vars
    PROVE  ScheduleInv(db', now') /\ ScheduleInv(saved', now')
<1>1. now \in Nat /\ ScheduleInv(db, now) /\ ScheduleInv(saved, now)
  BY DEF TimersInv, ClockInv
<1>2. db.row \in [Keys -> Contents \cup Expiries \cup {None}]
  BY <1>1 DEF ScheduleInv, States
<1>3. CASE Start
  BY <1>1, <1>3, StartSchedule DEF Start
<1>4. CASE Fire
  BY <1>1, <1>4, FireSchedule DEF Fire
<1>5. CASE ScheduleAfter
  BY <1>1, <1>5, ScheduleAfterSchedule DEF ScheduleAfter
<1>6. CASE Cancel
  BY <1>1, <1>6, CancelSchedule DEF Cancel
<1>7. CASE Upsert
  <2>1. now' = now /\ saved' = saved
    BY <1>7 DEF Upsert
  <2>2. PICK k \in Keys, v \in Contents \cup Expiries : db' = [db EXCEPT !.row[k] = v]
    BY <1>7 DEF Upsert, Keys
  <2>3. db' = [db EXCEPT !.row = [db.row EXCEPT ![k] = v]]
    BY <2>2
  <2>4. [db.row EXCEPT ![k] = v] \in [Keys -> Contents \cup Expiries \cup {None}]
    BY <1>2
  <2> QED  BY <1>1, <2>1, <2>3, <2>4, RowSchedule
<1>8. CASE SweepDelete
  <2> DEFINE hit == {d \in sweeper.doomed : StillExpired(d)}
             r == [k \in Keys |-> IF \E d \in hit : d.key = k THEN None ELSE db.row[k]]
  <2>1. now' = now /\ saved' = saved /\ db' = [db EXCEPT !.row = r]
    BY <1>8 DEF SweepDelete
  <2>2. r \in [Keys -> Contents \cup Expiries \cup {None}]
    BY <1>2
  <2> HIDE DEF r
  <2> QED  BY <1>1, <2>1, <2>2, RowSchedule
<1>9. CASE Advance
  BY <1>1, <1>9, ScheduleLater DEF Advance
<1>10. CASE Poll \/ PollAgain \/ SweepScan \/ Write \/ Crash \/ UNCHANGED vars
  BY <1>1, <1>10 DEF Poll, PollAgain, SweepScan, Write, Crash, vars
<1> QED  BY <1>3, <1>4, <1>5, <1>6, <1>7, <1>8, <1>9, <1>10 DEF Next

----------------------------------------------------------------------------
(* The sweeper                                                             *)

\* Content stays known as time passes and first goes down.
LEMMA ContentLater ==
    ASSUME NEW d, NEW f \in [Sliding -> [Contents -> Nat]], NEW g \in [Sliding -> [Contents -> Nat]],
           NEW t \in Nat, NEW u \in Nat, t <= u,
           \A k \in Sliding, v \in Contents : g[k][v] <= f[k][v],
           ContentInv(d, f, t)
    PROVE  ContentInv(d, g, u)
<1>1. ASSUME NEW k \in Sliding, d.row[k] # None
      PROVE  d.row[k] \in Contents /\ g[k][d.row[k]] <= u
  <2>1. d.row[k] \in Contents /\ f[k][d.row[k]] <= t
    BY <1>1 DEF ContentInv
  <2>2. g[k][d.row[k]] <= f[k][d.row[k]] /\ g[k][d.row[k]] \in Nat /\ f[k][d.row[k]] \in Nat
    BY <2>1
  <2> QED  BY <2>1, <2>2
<1> QED  BY <1>1 DEF ContentInv

\* The clock only goes on, and a content is first seen once.
LEMMA ClockStep ==
    ASSUME TimersInv, [Next]_vars
    PROVE  /\ ClockInv'
           /\ now <= now'
           /\ \A k \in Sliding, v \in Contents : first'[k][v] <= first[k][v]
<1>1. /\ now \in Nat /\ now <= MaxTime /\ events \in Nat /\ MaxTime \in Nat
      /\ first \in [Sliding -> [Contents -> Nat]] /\ witness = [k \in Keys |-> witness[k]]
  BY TimerBounds DEF TimersInv, ClockInv
<1>2. CASE Upsert
  <2>1. now' = now /\ events' = events + 1 /\ witness' = witness
    BY <1>2 DEF Upsert, Event
  <2>2. CASE UNCHANGED first
    BY <1>1, <2>1, <2>2 DEF ClockInv
  <2>3. CASE \E k \in Sliding, v \in Contents :
               first' = [first EXCEPT ![k][v] = IF @ > now THEN now ELSE @]
    <3>1. PICK k \in Sliding, v \in Contents :
               first' = [first EXCEPT ![k][v] = IF @ > now THEN now ELSE @]
      BY <2>3
    <3>2. \A j \in Sliding, u \in Contents : first[j][u] \in Nat
      BY <1>1
    <3>3. /\ first' \in [Sliding -> [Contents -> Nat]]
          /\ \A j \in Sliding, u \in Contents : first'[j][u] <= first[j][u]
      BY <1>1, <3>1, <3>2
    <3> QED  BY <1>1, <2>1, <3>3 DEF ClockInv
  <2> QED  BY <1>2, <2>2, <2>3 DEF Upsert
<1>3. CASE Advance
  BY <1>1, <1>3 DEF Advance, ClockInv
<1>4. CASE SweepScan
  BY <1>1, <1>4 DEF SweepScan, ClockInv
<1>5. CASE SweepDelete
  BY <1>1, <1>5 DEF SweepDelete, ClockInv
<1>6. CASE Crash
  BY <1>1, <1>6 DEF Crash, ClockInv, Event
<1>7. ASSUME now' = now, first' = first, witness' = witness, events' \in {events, events + 1}
      PROVE  /\ ClockInv' /\ now <= now'
             /\ \A k \in Sliding, v \in Contents : first'[k][v] <= first[k][v]
  <2>1. \A k \in Sliding, v \in Contents : first[k][v] \in Nat
    BY <1>1
  <2> QED  BY <1>1, <1>7, <2>1 DEF ClockInv
<1>8. CASE Fire \/ ScheduleAfter \/ Cancel
  <2>1. now' = now /\ first' = first /\ witness' = witness
    BY <1>8 DEF Fire, ScheduleAfter, Cancel
  <2>2. events' \in {events, events + 1}
    BY <1>8 DEF Fire, ScheduleAfter, Cancel, Event
  <2> QED  BY <1>7, <2>1, <2>2
<1>9. CASE Start \/ Poll \/ PollAgain \/ Write \/ UNCHANGED vars
  <2>1. now' = now /\ first' = first /\ witness' = witness /\ events' = events
    BY <1>9 DEF Start, Poll, PollAgain, Write, vars
  <2> QED  BY <1>7, <2>1
<1> QED  BY <1>2, <1>3, <1>4, <1>5, <1>6, <1>8, <1>9 DEF Next

\* A step that changes no row, no witness and no choice of the sweeper.
LEMMA SweepLater ==
    ASSUME TimersInv, [Next]_vars, UNCHANGED <<witness, sweeper>>
    PROVE  WitnessInv' /\ DoomedInv'
<1>1. /\ now \in Nat /\ now' \in Nat /\ now <= now'
      /\ first \in [Sliding -> [Contents -> Nat]] /\ first' \in [Sliding -> [Contents -> Nat]]
      /\ \A k \in Sliding, v \in Contents : first'[k][v] <= first[k][v]
  BY ClockStep DEF TimersInv, ClockInv
<1>2. \A k \in Sliding, v \in Contents : first[k][v] \in Nat /\ first'[k][v] \in Nat
  BY <1>1
<1>3. WitnessInv'
  BY <1>1, <1>2 DEF TimersInv, SweepInv, WitnessInv
<1>4. DoomedInv'
  <2>1. sweeper.at \in Nat /\ sweeper.at <= now
    BY DEF TimersInv, SweepInv, DoomedInv
  <2>2. ASSUME NEW d \in sweeper.doomed
        PROVE  /\ d.key \in Keys
               /\ d.key \in Sliding => d.row \in Contents /\ sweeper.at - first'[d.key][d.row] > Ttl
    BY <1>1, <1>2, <2>1, TimerBounds DEF TimersInv, SweepInv, DoomedInv
  <2> QED  BY <1>1, <2>1, <2>2 DEF DoomedInv
<1> QED  BY <1>3, <1>4

\* A scan sees a row with a content it has had since first at the latest.
LEMMA SweepScanSweep ==
    ASSUME TimersInv, SweepScan
    PROVE  WitnessInv' /\ DoomedInv'
<1>1. /\ now \in Nat /\ now' = now /\ first' = first /\ db' = db
      /\ first \in [Sliding -> [Contents -> Nat]]
  BY DEF TimersInv, ClockInv, SweepScan
<1>2. Scanned \subseteq Live /\ Live \subseteq Keys /\ Sliding \subseteq Keys
  BY DEF Scanned, Live, Keys
<1>3. \A k \in Sliding : k \in Live => db.row[k] \in Contents /\ first[k][db.row[k]] <= now
  BY DEF TimersInv, SweepInv, ContentInv, Live
<1>4. \A k \in Keys : witness'[k] =
        IF k \notin Scanned \/ k \in Absolute THEN None
        ELSE IF witness[k] # None /\ witness[k].row = db.row[k] THEN witness[k]
        ELSE [row |-> db.row[k], at |-> now]
  BY DEF SweepScan
<1>5. WitnessInv'
  <2> SUFFICES ASSUME NEW k \in Sliding, witness'[k] # None
               PROVE  /\ witness'[k].row \in Contents /\ witness'[k].at \in Nat
                      /\ first[k][witness'[k].row] <= witness'[k].at /\ witness'[k].at <= now
    BY <1>1 DEF WitnessInv
  <2>1. k \in Live /\ k \in Keys
    BY <1>2, <1>4
  <2>2. CASE witness'[k] = witness[k]
    BY <2>2 DEF TimersInv, SweepInv, WitnessInv
  <2>3. CASE witness'[k] = [row |-> db.row[k], at |-> now]
    BY <1>1, <1>3, <2>1, <2>3
  <2> QED  BY <1>4, <2>1, <2>2, <2>3
<1>6. DoomedInv'
  <2> DEFINE doomed == {[key |-> k, row |-> db.row[k]] : k \in {j \in Scanned : Expired(j)}}
  <2>1. CASE sweeper' = sweeper
    BY <1>1, <2>1 DEF TimersInv, SweepInv, DoomedInv
  <2>2. CASE sweeper' = [pc |-> "delete", at |-> now, doomed |-> doomed]
    <3>1. ASSUME NEW k \in Scanned, Expired(k)
          PROVE  /\ k \in Keys
                 /\ k \in Sliding => db.row[k] \in Contents /\ now - first[k][db.row[k]] > Ttl
      <4>1. k \in Live /\ k \in Keys
        BY <1>2
      <4>2. ASSUME k \in Sliding
            PROVE  db.row[k] \in Contents /\ now - first[k][db.row[k]] > Ttl
        <5>1. witness[k] # None /\ witness[k].row = db.row[k] /\ now - witness[k].at > Ttl
          BY <3>1, <4>2, TimerBounds DEF Expired
        <5>2. witness[k].at \in Nat /\ first[k][db.row[k]] <= witness[k].at /\ db.row[k] \in Contents
          BY <4>2, <5>1 DEF TimersInv, SweepInv, WitnessInv
        <5>3. first[k][db.row[k]] \in Nat
          BY <1>1, <4>2, <5>2
        <5> QED  BY <1>1, <5>1, <5>2, <5>3, TimerBounds
      <4> QED  BY <4>1, <4>2
    <3>2. sweeper'.at = now /\ sweeper'.doomed = doomed
      BY <2>2
    <3>3. \A d \in doomed :
            /\ d.key \in Keys
            /\ d.key \in Sliding => d.row \in Contents /\ now - first[d.key][d.row] > Ttl
      BY <3>1
    <3> HIDE DEF doomed
    <3> QED  BY <1>1, <3>2, <3>3 DEF DoomedInv
  <2> QED  BY <2>1, <2>2 DEF SweepScan
<1> QED  BY <1>5, <1>6

\* Every step keeps what the sweeper knows true.
LEMMA SweepStep ==
    ASSUME TimersInv, [Next]_vars
    PROVE  SweepInv'
<1>1. /\ now \in Nat /\ now' \in Nat /\ now <= now'
      /\ first \in [Sliding -> [Contents -> Nat]] /\ first' \in [Sliding -> [Contents -> Nat]]
      /\ \A k \in Sliding, v \in Contents : first'[k][v] <= first[k][v]
  BY ClockStep DEF TimersInv, ClockInv
<1>2. ContentInv(db, first', now') /\ ContentInv(saved, first', now')
  BY <1>1, ContentLater DEF TimersInv, SweepInv
<1>3. db \in States /\ db.row \in [Keys -> Contents \cup Expiries \cup {None}]
  BY DEF TimersInv, ScheduleInv, States
<1>4. ASSUME UNCHANGED <<witness, sweeper>>
      PROVE  WitnessInv' /\ DoomedInv'
  BY <1>4, SweepLater
<1>5. ASSUME db'.row = db.row, saved' \in {db, saved}
      PROVE  ContentInv(db', first', now') /\ ContentInv(saved', first', now')
  BY <1>2, <1>5 DEF ContentInv
<1>6. CASE Upsert
  <2>1. saved' = saved /\ now' = now /\ UNCHANGED <<witness, sweeper>>
    BY <1>6 DEF Upsert
  <2>2. CASE \E k \in Absolute, t \in Expiries : db' = [db EXCEPT !.row[k] = t]
    <3>1. PICK k \in Absolute, t \in Expiries : db' = [db EXCEPT !.row[k] = t]
      BY <2>2
    <3>2. db'.row = [db.row EXCEPT ![k] = t] /\ k \in Keys /\ \A j \in Sliding : j # k /\ j \in Keys
      BY <1>3, <3>1, TimerBounds DEF States, Keys
    <3>3. ContentInv(db', first', now')
      BY <1>2, <1>3, <3>2 DEF ContentInv, Keys
    <3> QED  BY <1>2, <1>4, <2>1, <3>3 DEF SweepInv
  <2>3. CASE \E k \in Sliding, v \in Contents :
               /\ db' = [db EXCEPT !.row[k] = v]
               /\ first' = [first EXCEPT ![k][v] = IF @ > now THEN now ELSE @]
    <3>1. PICK k \in Sliding, v \in Contents :
               /\ db' = [db EXCEPT !.row[k] = v]
               /\ first' = [first EXCEPT ![k][v] = IF @ > now THEN now ELSE @]
      BY <2>3
    <3>2. db'.row = [db.row EXCEPT ![k] = v] /\ k \in Keys /\ \A j \in Absolute : j # k /\ j \in Keys
      BY <1>3, <3>1, TimerBounds DEF States, Keys
    <3>3. first'[k][v] <= now'
      BY <1>1, <2>1, <3>1
    <3>4. ContentInv(db', first', now')
      BY <1>2, <1>3, <3>2, <3>3 DEF ContentInv, Keys
    <3> QED  BY <1>2, <1>4, <2>1, <3>4 DEF SweepInv
  <2> QED  BY <1>6, <2>2, <2>3 DEF Upsert
<1>7. CASE SweepScan
  <2>1. WitnessInv' /\ DoomedInv'
    BY <1>7, SweepScanSweep
  <2> QED  BY <1>5, <1>7, <2>1 DEF SweepInv, SweepScan
<1>8. CASE SweepDelete
  <2>1. now' = now /\ first' = first /\ saved' = saved /\ sweeper' = Idle
    BY <1>8 DEF SweepDelete
  <2>2. \A k \in Keys : db'.row[k] \in {None, db.row[k]}
    BY <1>3, <1>8 DEF SweepDelete, States
  <2>3. ContentInv(db', first', now')
    BY <1>2, <2>2 DEF ContentInv, Keys
  <2>4. \A k \in Keys : witness'[k] \in {None, witness[k]}
    BY <1>8 DEF SweepDelete
  <2>5. WitnessInv'
    BY <2>1, <2>4 DEF TimersInv, SweepInv, WitnessInv, Keys
  <2>6. DoomedInv'
    BY <1>1, <2>1 DEF DoomedInv, Idle
  <2> QED  BY <1>2, <2>1, <2>3, <2>5, <2>6 DEF SweepInv
<1>9. CASE Crash
  <2>1. db' = saved /\ saved' = saved /\ sweeper' = Idle /\ witness' = [k \in Keys |-> None]
    BY <1>9 DEF Crash
  <2>2. WitnessInv'
    BY <2>1 DEF WitnessInv, Keys
  <2>3. DoomedInv'
    BY <1>1, <2>1 DEF DoomedInv, Idle
  <2> QED  BY <1>2, <2>1, <2>2, <2>3 DEF SweepInv
<1>10. CASE Start \/ Fire \/ ScheduleAfter \/ Cancel
  <2>1. UNCHANGED <<witness, sweeper, saved>>
    BY <1>10 DEF Start, Fire, ScheduleAfter, Cancel
  <2>2. db'.row = db.row
    BY <1>3, <1>10 DEF Start, Fire, ScheduleAfter, Cancel, States, New
  <2> QED  BY <1>4, <1>5, <2>1, <2>2 DEF SweepInv
<1>11. CASE Poll \/ PollAgain \/ Advance \/ Write \/ UNCHANGED vars
  <2>1. UNCHANGED <<witness, sweeper, db>> /\ saved' \in {db, saved}
    BY <1>11 DEF Poll, PollAgain, Advance, Write, vars
  <2> QED  BY <1>4, <1>5, <2>1 DEF SweepInv
<1> QED  BY <1>6, <1>7, <1>8, <1>9, <1>10, <1>11 DEF Next

----------------------------------------------------------------------------
(* The results                                                             *)

LEMMA TimersInit == Init => TimersInv
<1> SUFFICES ASSUME Init
             PROVE  TimersInv
  OBVIOUS
<1>1. MaxIds \in Nat /\ MaxTime \in Nat
  BY TimerBounds
<1>2. ClockInv
  BY <1>1 DEF Init, ClockInv
<1>3. db \in States
  BY <1>1 DEF Init, States, Fresh, Ids
<1>4. ScheduleInv(db, now)
  BY <1>1, <1>3 DEF Init, ScheduleInv, RowsInv, RanInv, Fresh, Ids
<1>5. SweepInv
  BY <1>1 DEF Init, SweepInv, ContentInv, WitnessInv, DoomedInv, Idle, Keys
<1> QED  BY <1>2, <1>4, <1>5 DEF TimersInv, Init

LEMMA TimersInvStep == TimersInv /\ [Next]_vars => TimersInv'
BY ScheduleStep, SweepStep, ClockStep DEF TimersInv

\* The invariant, for every schedule, every table and every bound.
THEOREM TimersInvariant == Spec => []TimersInv
BY TimersInit, TimersInvStep, PTL DEF Spec

\* A scheduled call runs exactly once for each occurrence, whatever is lost in
\* a crash, cancelled, or already on the worker's list (fire_entry,
\* enqueue_static_schedules).
THEOREM FiringsExactlyOnce == Spec => []OncePerOccurrence
<1>1. TimersInv => OncePerOccurrence
  <2> SUFFICES ASSUME TimersInv
               PROVE  OncePerOccurrence
    OBVIOUS
  <2>1. db \in States /\ RowsInv(db) /\ RanInv(db, now) /\ Issued \subseteq Ids
    BY TimerBounds DEF TimersInv, ScheduleInv, States, Issued, Ids
  <2>2. \A id \in Issued : id < db.nextId /\ PendingOf(id) = RowsOf(db, id)
    BY <2>1 DEF Issued, PendingOf, RowsOf, States
  <2>3. ASSUME NEW id \in Issued
        PROVE  /\ PendingOf(id) = {} /\ id \notin db.gone => db.ran[id] = 1
               /\ \A e \in PendingOf(id) :
                    IF e.period = 0 THEN db.ran[id] = 0 ELSE e.at > db.last[id]
    BY <2>1, <2>2 DEF RanInv, RowsOf
  <2> QED  BY <2>1, <2>3 DEF OncePerOccurrence, RowsInv
<1> QED  BY <1>1, TimersInvariant, PTL

\* The sweeper deletes only rows that have expired, although it decides on a
\* snapshot that reducers write past (sweep_once_at).
THEOREM SweepsOnlyExpired == Spec => SweptExpired
<1>1. TimersInv /\ [Next]_vars =>
        [events' = events => \A k \in Live : db'.row[k] = None =>
           \/ k \in Absolute /\ db.row[k] <= now
           \/ k \in Sliding /\ now - first[k][db.row[k]] > Ttl]_vars
  <2> SUFFICES ASSUME TimersInv, Next, events' = events, NEW k \in Live, db'.row[k] = None
               PROVE  \/ k \in Absolute /\ db.row[k] <= now
                      \/ k \in Sliding /\ now - first[k][db.row[k]] > Ttl
    OBVIOUS
  <2>1. db \in States /\ events \in Nat /\ now \in Nat /\ k \in Keys /\ db.row[k] # None
    BY DEF TimersInv, ScheduleInv, ClockInv, Live
  <2>2. SweepDelete
    <3>1. ~(ScheduleAfter \/ Cancel \/ Upsert \/ Crash)
      <4>1. ~Event
        BY <2>1 DEF Event
      <4> QED  BY <4>1 DEF ScheduleAfter, Cancel, Upsert, Crash
    <3>2. db'.row # db.row
      BY <2>1
    <3>3. CASE Start \/ Fire
      BY <2>1, <3>2, <3>3 DEF Start, Fire, States
    <3>4. CASE Poll \/ PollAgain \/ SweepScan \/ Advance \/ Write
      BY <3>2, <3>4 DEF Poll, PollAgain, SweepScan, Advance, Write
    <3> QED  BY <3>1, <3>3, <3>4 DEF Next
  <2>3. PICK d \in sweeper.doomed : StillExpired(d) /\ d.key = k
    BY <2>1, <2>2 DEF SweepDelete, States
  <2>4. sweeper.at \in Nat /\ sweeper.at <= now
    BY DEF TimersInv, SweepInv, DoomedInv
  <2>5. CASE k \in Absolute
    <3>1. db.row[k] \in Nat /\ db.row[k] <= sweeper.at
      BY <2>1, <2>3, <2>5, TimerBounds DEF StillExpired, TimersInv, SweepInv, ContentInv
    <3> QED  BY <2>1, <2>4, <2>5, <3>1
  <2>6. CASE k \in Sliding
    <3>1. db.row[k] = d.row
      BY <2>3, <2>6, TimerBounds DEF StillExpired
    <3>2. d.row \in Contents /\ sweeper.at - first[k][d.row] > Ttl
      BY <2>3, <2>6 DEF TimersInv, SweepInv, DoomedInv
    <3>3. first[k][d.row] \in Nat
      BY <2>6, <3>2 DEF TimersInv, ClockInv
    <3> QED  BY <2>1, <2>4, <2>6, <3>1, <3>2, <3>3, TimerBounds
  <2> QED  BY <2>1, <2>5, <2>6 DEF Keys
<1> QED  BY <1>1, TimersInvariant, PTL DEF Spec, SweptExpired

=============================================================================
