------------------------------- MODULE Pages -------------------------------
(***************************************************************************)
(* The paged cold tier under the row store: copy-on-write versions of the  *)
(* committed state, the reclaimer that frees the pages no live version can *)
(* reach (store/pager/reclaim.rs, memstore.rs), the buffer pool that       *)
(* evicts and faults them while readers and the one writer run             *)
(* (pool.rs, mod.rs), and the page file whose extents are reused           *)
(* (pagefile.rs).                                                          *)
(*                                                                         *)
(* A version is one page per table (a tree with a single node): a commit   *)
(* rewrites one table's page and shares the others.  A page's image is its *)
(* id.  Extents have one size.  The reclaimer's and the pool's critical    *)
(* sections are single steps; I/O happens between them.                    *)
(***************************************************************************)
EXTENDS Naturals, Sequences, FiniteSets, FiniteSetsExt, Functions

CONSTANTS
    Tables,      \* tables of the shard
    Readers,     \* threads that read snapshots
    Writer,      \* the shard's writer thread
    Frames,      \* PoolOptions.frames
    High, Low,   \* the watermarks in frames
    Window,      \* temporal_window
    Budget,      \* temporal_window_max_bytes, in pages
    MaxCommits,  \* bound: transactions begun
    MaxReads,    \* bound: pages read by the readers
    MaxFails     \* bound: failing page writes

ASSUME PagesAssumption ==
    /\ Writer \notin Readers
    /\ IsFiniteSet(Tables) /\ IsFiniteSet(Readers)
    /\ Frames \in Nat \ {0} /\ High \in 1..Frames /\ Low \in 0..High
    /\ Cardinality(Tables) <= Frames
    /\ Window \in Nat /\ Budget \in Nat
    /\ MaxCommits \in Nat /\ MaxReads \in Nat /\ MaxFails \in Nat

Threads == Readers \cup {Writer}
Pages == 1..(Cardinality(Tables) + MaxCommits)
Versions == 1..(MaxCommits + 1)
Extents == 1..(Cardinality(Pages) + MaxFails)

VARIABLES
    ver,      \* the pages of each version published so far
    cur,      \* MemStore.committed
    history,  \* the temporal window: versions, oldest first
    snap,     \* the version each reader's Snapshot holds (0: none)
    tx,       \* the writer's transaction: [stage, base, table, page]
    live,     \* Reclaimer.live: pinned versions
    garbage,  \* Reclaimer.garbage: version -> pages
    freeing,  \* drained pages collect has still to free
    pool,     \* [in, dirty, pins, inflight, reclaiming]
    dir,      \* TableIo.directory: page -> extent (0: none)
    file,     \* the page each extent holds (0: nothing yet)
    free,     \* PageFile.free
    th,       \* what each thread does in the pool: [pc, page, new, victim, ext]
    broken,   \* history: a read found no extent, or another page's image
    dropped,  \* history: dirty pages lost to a failed spill
    made, reads, fails \* counted for the bounds

vars == <<ver, cur, history, snap, tx, live, garbage, freeing, pool, dir, file,
          free, th, broken, dropped, made, reads, fails>>

versions == <<ver, cur, history, snap, tx, live, garbage, freeing>>
disk == <<dir, file, free>>
marks == <<broken, dropped>>
bounds == <<made, reads, fails>>

Idle == [pc |-> "idle", page |-> 0, new |-> FALSE, victim |-> 0, ext |-> 0]
NoTx == [stage |-> "none", base |-> 0, table |-> 0, page |-> 0]

\* Recovery bulk-loads every table into the pool and publishes version 1.
Init ==
    /\ ver = <<CHOOSE f \in [Tables -> 1..Cardinality(Tables)] : IsInjective(f)>>
    /\ cur = 1 /\ history = <<>>
    /\ snap = [r \in Readers |-> 0]
    /\ tx = NoTx
    /\ live = {1}
    /\ garbage = [v \in Versions |-> {}]
    /\ freeing = {}
    /\ pool = [in |-> Range(ver[1]), dirty |-> Range(ver[1]),
               pins |-> [p \in Pages |-> 0], inflight |-> {}, reclaiming |-> FALSE]
    /\ dir = [p \in Pages |-> 0]
    /\ file = [e \in Extents |-> 0]
    /\ free = Extents
    /\ th = [x \in Threads |-> Idle]
    /\ broken = FALSE /\ dropped = {}
    /\ made = Cardinality(Tables) /\ reads = 0 /\ fails = 0

----------------------------------------------------------------------------
(* Versions and their reclamation.                                         *)

\* The versions someone's Arc<CommittedState> keeps alive.
Held(c, h, s, base) == ({c, base} \cup Range(h) \cup Range(s)) \ {0}

\* Mutant: everything below the newest version is free to go.
FloorNewest(pinned) == Max(pinned)

\* The reclamation floor: the smallest live version.
Floor(pinned) == Min(pinned)

\* The last Arc of a version drops its VersionGuard: unpin, then collect.
\* What collect drains is freed page by page, outside the lock.
Reclaim(pinned, trash) ==
    LET drained == UNION {trash[v] : v \in {w \in Versions : w <= Floor(pinned)}}
    IN /\ live' = pinned
       /\ garbage' = [v \in Versions |-> IF v <= Floor(pinned) THEN {} ELSE trash[v]]
       /\ freeing' = freeing \cup drained

\* MemStore::snapshot, or snapshot_as_of inside the window.
Snapshot(r) ==
    /\ snap[r] = 0 /\ reads < MaxReads
    /\ \E v \in {cur} \cup Range(history) : snap' = [snap EXCEPT ![r] = v]
    /\ UNCHANGED <<ver, cur, history, tx, live, garbage, freeing, pool, th>>
    /\ UNCHANGED <<disk, marks, bounds>>

\* The reader drops its snapshot.
Release(r) ==
    /\ snap[r] # 0 /\ th[r].pc = "idle"
    /\ snap' = [snap EXCEPT ![r] = 0]
    /\ Reclaim(live \cap Held(cur, history, snap', tx.base), garbage)
    /\ UNCHANGED <<ver, cur, history, tx, pool, th>>
    /\ UNCHANGED <<disk, marks, bounds>>

\* publish_versioned: pin the new version, then swap it in.
Publish ==
    /\ tx.stage = "built"
    /\ ver' = Append(ver, [ver[tx.base] EXCEPT ![tx.table] = tx.page])
    /\ cur' = Len(ver')
    /\ live' = live \cup {cur'}
    /\ tx' = [tx EXCEPT !.stage = "published"]
    /\ UNCHANGED <<history, snap, garbage, freeing, pool, th>>
    /\ UNCHANGED <<disk, marks, bounds>>

\* Reclaimer::retire of the page the commit superseded.
Retire ==
    /\ tx.stage = "published"
    /\ Reclaim(live, [garbage EXCEPT ![cur] = @ \cup {ver[tx.base][tx.table]}])
    /\ tx' = [tx EXCEPT !.stage = "retired"]
    /\ UNCHANGED <<ver, cur, history, snap, pool, th>>
    /\ UNCHANGED <<disk, marks, bounds>>

\* retain_in_temporal_window: trimmed by count, and emptied when too much
\* garbage waits: nothing popped is unpinned before the loop has ended, so no
\* pop brings the pending count down.
Retained ==
    LET pushed == Append(history, cur)
        pending == Cardinality(UNION Range(garbage))
    IN CASE Window = 0 -> history
         [] pending > Budget -> <<>>
         [] Len(pushed) > Window -> Tail(pushed)
         [] OTHER -> pushed

\* The commit is retained, what the window lets go is dropped, and then the
\* Tx handle with its base.
EndCommit ==
    /\ tx.stage = "retired"
    /\ history' = Retained
    /\ tx' = NoTx
    /\ Reclaim(live \cap Held(cur, history', snap, 0), garbage)
    /\ UNCHANGED <<ver, cur, snap, pool, th>>
    /\ UNCHANGED <<disk, marks, bounds>>

\* A failed commit only drops the handle.
EndFailed ==
    /\ tx.stage = "failed"
    /\ tx' = NoTx
    /\ Reclaim(live \cap Held(cur, history, snap, 0), garbage)
    /\ UNCHANGED <<ver, cur, history, snap, pool, th>>
    /\ UNCHANGED <<disk, marks, bounds>>

----------------------------------------------------------------------------
\* Pager::free_page: out of the pool without a spill (a pinned frame would
\* make that fail, see LivePagesServed), and the extent back to the free list.
FreePage(p) ==
    /\ p \in freeing /\ pool.pins[p] = 0
    /\ freeing' = freeing \ {p}
    /\ pool' = [pool EXCEPT !.in = @ \ {p}, !.dirty = @ \ {p}]
    /\ dir' = [dir EXCEPT ![p] = 0]
    /\ free' = IF dir[p] = 0 THEN free ELSE free \cup {dir[p]}
    /\ UNCHANGED <<ver, cur, history, snap, tx, live, garbage, file, th>>
    /\ UNCHANGED <<marks, bounds>>

----------------------------------------------------------------------------
(* The buffer pool.                                                        *)

Pinned(x, p) == th' = [th EXCEPT ![x] = [Idle EXCEPT !.pc = "pinned", !.page = p]]

\* An error surfaces: a reader's read failed, the writer's commit is over.
Failed(x) ==
    /\ th' = [th EXCEPT ![x] = Idle]
    /\ tx' = IF x = Writer THEN [tx EXCEPT !.stage = "failed"] ELSE tx

Ask(x, p) == th' = [th EXCEPT ![x] = [Idle EXCEPT !.pc = "get", !.page = p]]

\* get_or_fault: a hit pins; the first miss claims the key; the others wait
\* for it and look again.
Get(x) ==
    LET p == th[x].page IN
    /\ th[x].pc = "get"
    /\ IF p \in pool.in
       THEN /\ pool' = [pool EXCEPT !.pins[p] = @ + 1]
            /\ Pinned(x, p)
       ELSE /\ p \notin pool.inflight
            /\ pool' = [pool EXCEPT !.inflight = @ \cup {p}]
            /\ th' = [th EXCEPT ![x].pc = "look"]
    /\ UNCHANGED <<versions, disk, marks, bounds>>

\* A reader reads a page of its snapshot.
Read(r, t) ==
    /\ snap[r] # 0 /\ th[r].pc = "idle" /\ reads < MaxReads
    /\ Ask(r, ver[snap[r]][t])
    /\ reads' = reads + 1
    /\ UNCHANGED <<versions, pool, disk, marks, made, fails>>

\* A transaction captures its base, and its commit merge first reads the
\* page it is about to replace.
BeginTx(t) ==
    /\ tx.stage = "none" /\ made < Cardinality(Pages)
    /\ tx' = [stage |-> "open", base |-> cur, table |-> t, page |-> 0]
    /\ made' = made + 1
    /\ Ask(Writer, ver[cur][t])
    /\ UNCHANGED <<ver, cur, history, snap, live, garbage, freeing, pool>>
    /\ UNCHANGED <<disk, marks, reads, fails>>

\* The directory lookup of a fault.
Look(x) ==
    LET e == dir[th[x].page] IN
    /\ th[x].pc = "look"
    /\ \/ /\ e # 0
          /\ th' = [th EXCEPT ![x].pc = "read", ![x].ext = e]
          /\ UNCHANGED <<broken, pool, tx>>
       \/ /\ e = 0
          /\ broken' = TRUE
          /\ pool' = [pool EXCEPT !.inflight = @ \ {th[x].page}]
          /\ Failed(x)
    /\ UNCHANGED <<ver, cur, history, snap, live, garbage, freeing>>
    /\ UNCHANGED <<disk, dropped, bounds>>

\* The read of the extent; an image of another page would fail the check of
\* its coordinates.
ReadExtent(x) ==
    /\ th[x].pc = "read"
    /\ broken' = (broken \/ file[th[x].ext] # th[x].page)
    /\ th' = [th EXCEPT ![x].pc = "install", ![x].ext = 0]
    /\ UNCHANGED <<versions, pool, disk, dropped, bounds>>

Occupied == Cardinality(pool.in)
Reclaiming == pool.reclaiming \/ Occupied + 1 > High
MustEvict == Occupied >= Frames
WantEvict == Reclaiming /\ Occupied + 1 > Low

\* pick_victim: the clock takes some clean unpinned frame, a dirty one only
\* when there is none.
Victims ==
    LET unpinned == {p \in pool.in : pool.pins[p] = 0}
    IN IF unpinned \subseteq pool.dirty THEN unpinned ELSE unpinned \ pool.dirty

\* install_with, one turn of its loop: the page arrived by another hand, or
\* there is room, or a victim makes room, or every frame is pinned.  With
\* frames free but all pinned above the watermark the loop turns in place.
Install(x) ==
    LET p == th[x].page IN
    /\ th[x].pc = "install"
    /\ \/ /\ p \in pool.in \/ (~MustEvict /\ ~WantEvict)
          /\ pool' = [pool EXCEPT !.in = @ \cup {p}, !.pins[p] = @ + 1,
                                  !.dirty = IF th[x].new THEN @ \cup {p} ELSE @,
                                  !.inflight = @ \ {p},
                                  !.reclaiming = IF p \in pool.in THEN @ ELSE FALSE]
          /\ Pinned(x, p)
          /\ UNCHANGED tx
       \/ /\ p \notin pool.in /\ (MustEvict \/ WantEvict)
          /\ UNCHANGED tx
          /\ \E v \in Victims :
                IF v \in pool.dirty
                THEN /\ pool' = [pool EXCEPT !.in = @ \ {v}, !.dirty = @ \ {v},
                                             !.inflight = @ \cup {v},
                                             !.reclaiming = Reclaiming]
                     /\ th' = [th EXCEPT ![x].pc = "write", ![x].victim = v]
                ELSE /\ pool' = [pool EXCEPT !.in = @ \ {v}, !.reclaiming = Reclaiming]
                     /\ UNCHANGED th
       \/ /\ p \notin pool.in /\ MustEvict /\ Victims = {}
          /\ pool' = [pool EXCEPT !.inflight = @ \ {p}, !.reclaiming = Reclaiming]
          /\ Failed(x)
    /\ UNCHANGED <<ver, cur, history, snap, live, garbage, freeing>>
    /\ UNCHANGED <<disk, marks, bounds>>

\* Pager::spill writes the image to the first free extent.
SpillWrite(x) ==
    LET e == Min(free) IN
    /\ th[x].pc = "write"
    /\ free' = free \ {e}
    /\ file' = [file EXCEPT ![e] = th[x].victim]
    /\ th' = [th EXCEPT ![x].pc = "point", ![x].ext = e]
    /\ UNCHANGED <<versions, pool, dir, marks, bounds>>

\* Mutant: the spilled key stays in the single-flight set.
SpillPointKeepsKey(x) ==
    LET v == th[x].victim IN
    /\ th[x].pc = "point"
    /\ dir' = [dir EXCEPT ![v] = th[x].ext]
    /\ free' = IF dir[v] = 0 THEN free ELSE free \cup {dir[v]}
    /\ th' = [th EXCEPT ![x].pc = "install", ![x].victim = 0, ![x].ext = 0]
    /\ UNCHANGED <<versions, pool, file, marks, bounds>>

\* It repoints the directory, frees the extent this one supersedes, and the
\* installer goes back to its loop.
SpillPoint(x) ==
    LET v == th[x].victim IN
    /\ th[x].pc = "point"
    /\ dir' = [dir EXCEPT ![v] = th[x].ext]
    /\ free' = IF dir[v] = 0 THEN free ELSE free \cup {dir[v]}
    /\ pool' = [pool EXCEPT !.inflight = @ \ {v}]
    /\ th' = [th EXCEPT ![x].pc = "install", ![x].victim = 0, ![x].ext = 0]
    /\ UNCHANGED <<versions, file, marks, bounds>>

\* The write fails, its extent stays allocated.  The victim goes back into a
\* free slot; without one it is lost.
SpillFails(x) ==
    LET v == th[x].victim
        back == Occupied < Frames
    IN /\ th[x].pc = "write" /\ fails < MaxFails
       /\ fails' = fails + 1
       /\ free' = free \ {Min(free)}
       /\ pool' = [pool EXCEPT !.in = IF back THEN @ \cup {v} ELSE @,
                               !.dirty = IF back THEN @ \cup {v} ELSE @,
                               !.inflight = @ \ {v, th[x].page}]
       /\ dropped' = IF back THEN dropped ELSE dropped \cup {v}
       /\ Failed(x)
       /\ UNCHANGED <<ver, cur, history, snap, live, garbage, freeing>>
       /\ UNCHANGED <<dir, file, broken, made, reads>>

\* insert_cow, delete_cow: the node just read is rewritten under a fresh id.
Rewrite ==
    /\ th' = [th EXCEPT ![Writer] =
                 [Idle EXCEPT !.pc = "install", !.page = made, !.new = TRUE]]
    /\ tx' = [tx EXCEPT !.page = made]

\* The PageGuard goes.
Unpin(x) ==
    /\ th[x].pc = "pinned"
    /\ pool' = [pool EXCEPT !.pins[th[x].page] = @ - 1]
    /\ \/ /\ x # Writer
          /\ th' = [th EXCEPT ![x] = Idle]
          /\ UNCHANGED tx
       \/ /\ x = Writer /\ tx.page = 0
          /\ Rewrite
       \/ /\ x = Writer /\ tx.page # 0
          /\ th' = [th EXCEPT ![x] = Idle]
          /\ tx' = [tx EXCEPT !.stage = "built"]
    /\ UNCHANGED <<ver, cur, history, snap, live, garbage, freeing>>
    /\ UNCHANGED <<disk, marks, bounds>>

Step(x) ==
    \/ Get(x) \/ Look(x) \/ ReadExtent(x) \/ Install(x) \/ SpillWrite(x) \/ SpillPoint(x)
    \/ SpillFails(x) \/ Unpin(x)

Next ==
    \/ \E r \in Readers : Snapshot(r) \/ Release(r)
    \/ \E r \in Readers, t \in Tables : Read(r, t)
    \/ \E t \in Tables : BeginTx(t)
    \/ Publish \/ Retire \/ EndCommit \/ EndFailed
    \/ \E p \in Pages : FreePage(p)
    \/ \E x \in Threads : Step(x)

Spec == Init /\ [][Next]_vars

\* The threads are scheduled; a page operation under way goes on.
FairSpec == Spec /\ \A x \in Threads : WF_vars(Step(x))

----------------------------------------------------------------------------
(* Properties.                                                             *)

\* Every variable has its type.
TypeOK ==
    /\ ver \in Seq([Tables -> Pages]) /\ cur = Len(ver)
    /\ history \in Seq(1..cur)
    /\ snap \in [Readers -> 0..cur]
    /\ tx.stage \in {"none", "open", "built", "published", "retired", "failed"}
    /\ live \subseteq 1..cur
    /\ garbage \in [Versions -> SUBSET Pages]
    /\ freeing \subseteq Pages
    /\ pool.dirty \subseteq pool.in /\ pool.in \subseteq Pages
    /\ Cardinality(pool.in) <= Frames
    /\ pool.pins \in [Pages -> 0..Cardinality(Threads)]
    /\ dir \in [Pages -> {0} \cup Extents]
    /\ file \in [Extents -> {0} \cup Pages] /\ free \subseteq Extents

\* The page is in the pool, in the hands of a thread that spills it, or at an
\* extent of its own that holds its image.
Served(p) ==
    \/ p \in pool.in
    \/ \E x \in Threads : th[x].pc \in {"write", "point"} /\ th[x].victim = p
    \/ dir[p] # 0 /\ file[dir[p]] = p /\ dir[p] \notin free

\* Every page a held version can reach stays readable through evictions,
\* spills, reclamation and extent reuse, and no read finds it missing or
\* finds another page's image; a pinned frame is never discarded.  The one
\* exception is a dirty page lost to a failed spill whose slot was taken.
LivePagesServed ==
    /\ \A v \in Held(cur, history, snap, tx.base) : \A t \in Tables :
          ver[v][t] \notin dropped => Served(ver[v][t])
    /\ tx.stage = "built" /\ tx.page \notin dropped => Served(tx.page)
    /\ dropped = {} => ~broken
    /\ \A p \in freeing : pool.pins[p] = 0

\* Every page operation ends: a miss that waits for another thread's fault or
\* spill is served, an installer finds room or reports the pool exhausted.
ReadsEnd == \A x \in Threads : th[x].pc # "idle" ~> th[x].pc = "idle"
=============================================================================
