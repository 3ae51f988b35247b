------------------------------- MODULE Timers -------------------------------
(* What a shard does by the clock (fluxum-core/src/scheduler/mod.rs): the   *)
(* schedule worker with the durable __schedule__ table, and the row-TTL     *)
(* sweeper.  Both read a snapshot, decide, and then act in transactions of  *)
(* the single writer, between which reducers run and time passes.           *)
(*                                                                          *)
(* db is the committed state, saved the part of the history that reached    *)
(* the log: a crash goes back to it.  A row of a swept table is its content *)
(* (sliding tables) or its expiry column (absolute tables).                 *)
EXTENDS Integers, Sequences, FiniteSets

CONSTANTS
  Static,     \* reducers of #[schedule]: a function to [delay, period]
  App,        \* the reducer that applications schedule
  Delay,      \* ... and the delay they ask for
  Sliding,    \* keys of tables with #[ttl(after)], naturals in scan order
  Absolute,   \* keys of tables with #[ttl(column)], the same
  Contents,   \* contents of a sliding row
  Expiries,   \* expiry times of an absolute row
  None,       \* no row
  Ttl,        \* after_us
  Retry,      \* retry_backoff
  Batch,      \* max_batch
  MaxTime, MaxIds,
  MaxEvents   \* failing firings, crashes, and transactions of applications

Keys == Sliding \cup Absolute
Times == 0..MaxTime
Ids == 1..MaxIds

ASSUME TimerBounds ==
  /\ Keys \subseteq Nat /\ Sliding \cap Absolute = {} /\ App \notin DOMAIN Static
  /\ Expiries \subseteq Nat
  /\ {Delay, Ttl, Retry, MaxTime, MaxIds, MaxEvents} \subseteq Nat /\ Batch \in Nat \ {0}
  /\ IsFiniteSet(DOMAIN Static)
  /\ \A d \in DOMAIN Static : Static[d] \in [delay : Nat, period : Nat]

VARIABLES
  now,
  db,      \* [sched, nextId, ran, last, gone, row]
  saved,
  pc,      \* of the worker: boot, sleep, fire
  due,     \* ids it read as due and has not fired yet
  backoff, \* id |-> earliest next attempt, for failed firings
  sweeper, \* [pc, at, doomed]: doomed is a set of [key, row]
  witness, \* key |-> [row, at], None where there is none
  first,   \* history: when a sliding row was first given a content
  events

vars == <<now, db, saved, pc, due, backoff, sweeper, witness, first, events>>

Event == events < MaxEvents /\ events' = events + 1
Idle == [pc |-> "sleep", at |-> 0, doomed |-> {}]
Fresh == [id \in Ids |-> 0]

\* The committed state, the worker's and the sweeper's memory fit their shapes.
TypeOK ==
  /\ now \in Times /\ events \in 0..MaxEvents
  /\ \A d \in {db, saved} :
       /\ \A e \in d.sched : e.id < d.nextId /\ e.name \in DOMAIN Static \cup {App}
       /\ \A e, f \in d.sched : e.id = f.id => e = f
       /\ d.gone \subseteq 1..d.nextId - 1
  /\ pc \in {"boot", "sleep", "fire"} /\ due \in Seq(Ids)
  /\ \A i, j \in DOMAIN due : i < j => due[i] # due[j]
  /\ sweeper.pc \in {"sleep", "delete"} /\ Cardinality(sweeper.doomed) <= Batch
  /\ \A k \in Absolute : witness[k] = None

Init ==
  /\ now = 0 /\ events = 0
  /\ db = [sched |-> {}, nextId |-> 1, ran |-> Fresh, last |-> [id \in Ids |-> -1], gone |-> {},
           row |-> [k \in Keys |-> None]]
  /\ saved = db
  /\ pc = "boot" /\ due = <<>> /\ backoff = Fresh
  /\ sweeper = Idle /\ witness = [k \in Keys |-> None]
  /\ first = [k \in Sliding |-> [v \in Contents |-> MaxTime + 1]]

-----------------------------------------------------------------------------
(* The schedule worker                                                       *)

New(d, name, at, period) ==
  [d EXCEPT !.sched = @ \cup {[id |-> d.nextId, name |-> name, at |-> at, period |-> period]},
            !.nextId = @ + 1]

\* Mutant: every start enqueues them all.
AllStatic == DOMAIN Static
\* The static schedules that have no pending row.
Missing == {n \in DOMAIN Static : \A e \in db.sched : e.name # n}

\* enqueue_static_schedules: whatever has no row yet gets one, in one
\* transaction, before the worker starts.
Start ==
  /\ pc = "boot" /\ pc' = "sleep"
  /\ db.nextId + Cardinality(Missing) <= MaxIds + 1
  /\ \E order \in [Missing -> db.nextId..db.nextId + Cardinality(Missing) - 1] :
       /\ \A m, n \in Missing : order[m] = order[n] => m = n
       /\ db' = [db EXCEPT
            !.sched = @ \cup {[id |-> order[n], name |-> n, at |-> now + Static[n].delay,
                               period |-> Static[n].period] : n \in Missing},
            !.nextId = @ + Cardinality(Missing)]
  /\ UNCHANGED <<now, saved, due, backoff, sweeper, witness, first, events>>

Before(e, f) == e.at < f.at \/ (e.at = f.at /\ e.id < f.id)

\* Mutant: an entry that failed once stays put off.
NeverAgain == {e \in db.sched : e.at <= now /\ backoff[e.id] = 0}
\* due_entries: on a snapshot, by intended time and then by id.
DueEntries == {e \in db.sched : e.at <= now /\ backoff[e.id] <= now}
Poll ==
  /\ pc = "sleep" /\ DueEntries # {} /\ pc' = "fire"
  /\ due' = [i \in 1..Cardinality(DueEntries) |->
       (CHOOSE e \in DueEntries :
          Cardinality({f \in DueEntries : Before(f, e)}) = i - 1).id]
  /\ UNCHANGED <<now, db, saved, backoff, sweeper, witness, first, events>>

\* The next occurrence, from the intended time, or from now when that is past.
NextAt(e) == IF e.at + e.period <= now THEN now + e.period ELSE e.at + e.period

\* What a firing leaves of its row, in the transaction of the reducer.
Leaves(e) == IF e.period > 0 THEN {[e EXCEPT !.at = NextAt(e)]} ELSE {}

\* fire_entry re-reads the row: absent is a clean no-op; an error rolls all of
\* it back and keeps the row, to be tried again later.
Fire ==
  /\ pc = "fire" /\ due # <<>> /\ due' = Tail(due)
  /\ LET id == Head(due)
         found == {e \in db.sched : e.id = id}
     IN \/ found = {} /\ UNCHANGED <<db, backoff, events>>
        \/ \E e \in found :
             /\ db' = [db EXCEPT !.sched = (@ \ {e}) \cup Leaves(e),
                                 !.ran[id] = @ + 1, !.last[id] = now]
             /\ UNCHANGED <<backoff, events>>
        \/ \E e \in found :
             /\ Event /\ now + Retry <= MaxTime /\ now + e.period <= MaxTime
             /\ backoff' = [backoff EXCEPT ![id] =
                              now + (IF e.period > Retry THEN e.period ELSE Retry)]
             /\ UNCHANGED db
  /\ UNCHANGED <<now, saved, pc, sweeper, witness, first>>

PollAgain ==
  /\ pc = "fire" /\ due = <<>> /\ pc' = "sleep"
  /\ UNCHANGED <<now, db, saved, due, backoff, sweeper, witness, first, events>>

-----------------------------------------------------------------------------
(* Transactions of applications                                              *)

\* ctx.schedule_after
ScheduleAfter ==
  /\ Event /\ db.nextId <= MaxIds
  /\ db' = New(db, App, now + Delay, 0)
  /\ UNCHANGED <<now, saved, pc, due, backoff, sweeper, witness, first>>

\* A reducer deletes a pending row.
Cancel ==
  /\ Event
  /\ \E e \in db.sched : db' = [db EXCEPT !.sched = @ \ {e}, !.gone = @ \cup {e.id}]
  /\ UNCHANGED <<now, saved, pc, due, backoff, sweeper, witness, first>>

\* An upsert of a swept table.
Upsert ==
  /\ Event
  /\ \/ \E k \in Sliding, v \in Contents :
          /\ db' = [db EXCEPT !.row[k] = v]
          /\ first' = [first EXCEPT ![k][v] = IF @ > now THEN now ELSE @]
     \/ \E k \in Absolute, t \in Expiries :
          db' = [db EXCEPT !.row[k] = t] /\ UNCHANGED first
  /\ UNCHANGED <<now, saved, pc, due, backoff, sweeper, witness>>

-----------------------------------------------------------------------------
(* The TTL sweeper                                                           *)

Live == {k \in Keys : db.row[k] # None}

\* Whether a pass takes the row for expired.
Expired(k) ==
  \/ k \in Absolute /\ db.row[k] <= now
  \/ k \in Sliding /\ witness[k] # None /\ witness[k].row = db.row[k] /\ now - witness[k].at > Ttl

\* The rows a pass looks at: it stops at the one that fills the batch.
Scanned ==
  {k \in Live : Cardinality({j \in Live : j < k /\ Expired(j)}) < Batch}

\* sweep_once_at, phase 1.  A row that is new, or not what it was, gets a new
\* witness; witnesses of rows the pass did not see are dropped.
SweepScan ==
  /\ sweeper.pc = "sleep"
  /\ witness' = [k \in Keys |->
       IF k \notin Scanned \/ k \in Absolute THEN None
       ELSE IF witness[k] # None /\ witness[k].row = db.row[k] THEN witness[k]
       ELSE [row |-> db.row[k], at |-> now]]
  /\ LET doomed == {[key |-> k, row |-> db.row[k]] : k \in {j \in Scanned : Expired(j)}}
     IN sweeper' = IF doomed = {} THEN sweeper
                   ELSE [pc |-> "delete", at |-> now, doomed |-> doomed]
  /\ witness' # witness \/ sweeper' # sweeper
  /\ UNCHANGED <<now, db, saved, pc, due, backoff, first, events>>

\* Mutant: the transaction trusts the scan.
StillThere(d) == db.row[d.key] # None
\* Phase 2's second look, in the transaction.
StillExpired(d) ==
  /\ db.row[d.key] # None
  /\ IF d.key \in Absolute THEN db.row[d.key] <= sweeper.at ELSE db.row[d.key] = d.row

\* sweep_once_at, phase 2: delete in one transaction, then drop the witnesses.
SweepDelete ==
  /\ sweeper.pc = "delete" /\ sweeper' = Idle
  /\ LET hit == {d \in sweeper.doomed : StillExpired(d)}
     IN db' = [db EXCEPT !.row = [k \in Keys |-> IF \E d \in hit : d.key = k THEN None ELSE @[k]]]
  /\ witness' = [k \in Keys |-> IF \E d \in sweeper.doomed : d.key = k THEN None ELSE witness[k]]
  /\ UNCHANGED <<now, saved, pc, due, backoff, first, events>>

-----------------------------------------------------------------------------
(* Time, the log and crashes                                                 *)

Advance ==
  /\ now < MaxTime /\ now' = now + 1
  /\ UNCHANGED <<db, saved, pc, due, backoff, sweeper, witness, first, events>>

Write ==
  /\ saved # db /\ saved' = db
  /\ UNCHANGED <<now, db, pc, due, backoff, sweeper, witness, first, events>>

Crash ==
  /\ Event /\ db' = saved
  /\ pc' = "boot" /\ due' = <<>> /\ backoff' = Fresh
  /\ sweeper' = Idle /\ witness' = [k \in Keys |-> None]
  /\ UNCHANGED <<now, saved, first>>

Next ==
  \/ Start \/ Poll \/ Fire \/ PollAgain
  \/ ScheduleAfter \/ Cancel \/ Upsert
  \/ SweepScan \/ SweepDelete
  \/ Advance \/ Write \/ Crash

Spec == Init /\ [][Next]_vars
FairSpec ==
  /\ Spec /\ WF_vars(Start) /\ WF_vars(Poll) /\ WF_vars(Fire) /\ WF_vars(PollAgain)
  /\ WF_vars(SweepScan) /\ WF_vars(SweepDelete) /\ WF_vars(Advance)

-----------------------------------------------------------------------------
Issued == 1..db.nextId - 1
PendingOf(id) == {e \in db.sched : e.id = id}

(* A scheduled call and its row commit together (RED-023): an entry that is *)
(* pending as a one-shot has not run, one that is gone ran once or was      *)
(* cancelled before it ran, whatever was lost in between and however old    *)
(* the worker's list was; a recurring entry never comes due at or before a  *)
(* time at which it ran (RED-024); and no restart adds a second row of a    *)
(* static schedule.                                                         *)
OncePerOccurrence ==
  /\ \A id \in Issued :
       /\ PendingOf(id) = {} /\ id \notin db.gone => db.ran[id] = 1
       /\ \A e \in PendingOf(id) :
            IF e.period = 0 THEN db.ran[id] = 0 ELSE e.at > db.last[id]
  /\ \A e, f \in db.sched : e.name = f.name /\ e.name # App => e = f

(* The sweeper deletes no row but one that has expired: an absolute row     *)
(* whose own column says so when it is deleted, or a sliding row that had   *)
(* the very content it dies with more than a Ttl before (DMX-020).          *)
SweptExpired ==
  [][events' = events => \A k \in Live : db'.row[k] = None =>
       \/ k \in Absolute /\ db.row[k] <= now
       \/ k \in Sliding /\ now - first[k][db.row[k]] > Ttl]_vars

(* A call that is due is run, put off past its failures and crashes, unless *)
(* it is cancelled (RED-021).                                               *)
DueFires ==
  \A id \in Ids :
    (\E e \in PendingOf(id) : e.at <= now) ~> (\A e \in PendingOf(id) : e.at > now)

=============================================================================
