---------------------------- MODULE PagesProofs ----------------------------
(***************************************************************************)
(* Proofs about Pages, for every set of tables and readers, every size of  *)
(* the pool, every window and budget: what a held version can reach stays  *)
(* readable.                                                               *)
(*                                                                         *)
(* The argument has two halves.  The pages of a version that is pinned are *)
(* never freed: a page is retired by the version that no longer has it,    *)
(* and drained once all pinned versions are that one or later (VersionInv, *)
(* GarbageInv).  And a page that is not freed is in the pool, in the hands *)
(* of the one thread that spills it, or at an extent of its own (PoolInv,  *)
(* ThreadInv, DiskInv): a key in flight has one owner, an image is never   *)
(* rewritten, and a free extent is never one a page is read from.          *)
(***************************************************************************)
EXTENDS Pages, FiniteSetTheorems, TLAPS

TxType == [stage : {"none", "open", "built", "published", "retired", "failed"},
           base : Nat, table : Tables \cup {0}, page : Nat]

ThreadType == [pc : {"idle", "get", "look", "read", "install", "write", "point", "pinned"},
               page : Nat, new : BOOLEAN, victim : Nat, ext : Nat]

PoolType == [in : SUBSET Pages, dirty : SUBSET Pages, pins : [Pages -> Nat],
             inflight : SUBSET Pages, reclaiming : BOOLEAN]

\* The versions: what anybody holds is pinned, and no version has a page twice.
VersionInv ==
    /\ ver \in Seq([Tables -> Pages]) /\ cur = Len(ver)
    /\ live \subseteq 1..cur /\ cur \in live
    /\ history \in Seq(Nat) /\ Range(history) \subseteq live
    /\ snap \in [Readers -> Nat] /\ \A r \in Readers : snap[r] # 0 => snap[r] \in live
    /\ \A v \in 1..cur : \A s, t \in Tables : ver[v][s] = ver[v][t] => s = t

\* The writer's transaction: what it is based on, and the page it adds.
TxInv ==
    /\ tx \in TxType /\ (tx.base # 0 => tx.base \in live)
    /\ tx.stage \in {"open", "built", "published"} => tx.base # 0 /\ tx.table \in Tables
    /\ tx.stage \in {"open", "built"} => tx.base = cur
    /\ tx.stage = "published" => \A t \in Tables : ver[cur][t] # ver[tx.base][tx.table]
    /\ tx.stage = "open" => tx.page \in {0, made}
    /\ tx.stage = "built" => tx.page = made
    /\ made \in Nat /\ made <= Cardinality(Pages) /\ (tx.stage = "open" => made # 0)

\* A page the transaction under way did not make.
Old(p) == p <= made /\ (tx.stage \in {"open", "built"} => p < made)

\* A page the pool may have met.
Seen(p) == p <= made /\ (tx.stage = "open" /\ tx.page = 0 => p < made)

\* A page waits under a version that no longer has it, as no later one does;
\* what collect drained is out of every pinned version.
GarbageInv ==
    /\ garbage \in [Versions -> SUBSET Pages] /\ freeing \subseteq Pages
    /\ \A w \in Versions : \A p \in garbage[w] :
         w <= cur /\ Old(p) /\ \A v \in w..cur : \A t \in Tables : ver[v][t] # p
    /\ \A p \in freeing : Old(p) /\ \A v \in live : \A t \in Tables : ver[v][t] # p
    /\ \A v \in 1..cur : \A t \in Tables : Old(ver[v][t])

\* Threads that pin a page.
Pinners(p) == {x \in Threads : th[x].pc = "pinned" /\ th[x].page = p}

\* The pool: only pages that were never written are dirty.
PoolInv ==
    /\ pool \in PoolType /\ pool.dirty \subseteq pool.in
    /\ \A p \in pool.in : Seen(p) /\ (p \in pool.dirty <=> dir[p] = 0)
    /\ \A p \in Pages : pool.pins[p] = Cardinality(Pinners(p))

\* What thread x in state s has to do with the versions.
Owns(x, s) ==
    s.pc # "idle" =>
      /\ s.page \in Pages /\ Seen(s.page)
      /\ x \in Readers => /\ ~s.new /\ snap[x] # 0
                          /\ \E t \in Tables : s.page = ver[snap[x]][t]
      /\ x = Writer /\ tx.page = 0 => ~s.new /\ s.page = ver[tx.base][tx.table]
      /\ x = Writer /\ tx.page # 0 => s.page = tx.page /\ (s.new \/ s.pc = "pinned")
      /\ x = Writer => tx.stage = "open"

Busy == {"look", "read", "install", "write", "point"}
Spilling == {"write", "point"}

\* What a thread in state s has to do with the pool and the disk.
Holds(s) ==
    /\ s.pc = "pinned" => s.page \in pool.in
    /\ s.new => s.pc \in {"install", "write", "point"}
    /\ s.pc \in Busy => s.page \notin pool.in /\ (s.new \/ s.page \in pool.inflight)
    /\ s.pc \in Busy \ {"look"} => (s.new <=> dir[s.page] = 0)
    /\ s.pc = "read" => s.ext = dir[s.page]
    /\ s.pc \in Spilling =>
         /\ s.victim \in Pages /\ Seen(s.victim) /\ s.victim # s.page
         /\ s.victim \notin pool.in /\ s.victim \in pool.inflight /\ dir[s.victim] = 0
    /\ s.pc = "point" => s.ext \in Extents \ free /\ file[s.ext] = s.victim

\* The pages a thread in state s is moving.
Moves(s) == {p \in {s.page} : s.pc \in Busy} \cup {p \in {s.victim} : s.pc \in Spilling}

ThreadInv ==
    /\ th \in [Threads -> ThreadType]
    /\ \A x \in Threads : Owns(x, th[x]) /\ Holds(th[x])
    /\ \A x, y \in Threads : x # y => Moves(th[x]) \cap Moves(th[y]) = {}

\* The pages that occupy an extent.
Stored == {p \in Pages : dir[p] # 0 \/ \E x \in Threads : th[x].pc = "point" /\ th[x].victim = p}

\* The disk: an extent of the directory holds its page and is not free, and
\* every extent is free, a page's, or lost to a failed write.
DiskInv ==
    /\ dir \in [Pages -> {0} \cup Extents] /\ DOMAIN file = Extents /\ free \subseteq Extents
    /\ \A p \in Pages : dir[p] # 0 => file[dir[p]] = p /\ dir[p] \notin free /\ Seen(p)
    /\ fails \in 0..MaxFails
    /\ Cardinality(free) + Cardinality(Stored) + fails = Cardinality(Extents)

\* A page somebody may read.
Alive(p) ==
    \/ \E v \in live : \E t \in Tables : ver[v][t] = p
    \/ tx.stage = "built" /\ tx.page = p

ServedInv ==
    /\ \A p \in Pages : Alive(p) /\ p \notin dropped => Served(p)
    /\ dropped = {} => ~broken

PagesInv == VersionInv /\ TxInv /\ GarbageInv /\ PoolInv /\ ThreadInv /\ DiskInv /\ ServedInv

-----------------------------------------------------------------------------
(* Numbers and sets.                                                       *)

LEMMA Bounds ==
    /\ IsFiniteSet(Tables) /\ Cardinality(Tables) \in Nat
    /\ IsFiniteSet(Pages) /\ Pages \subseteq Nat
    /\ Cardinality(Pages) = Cardinality(Tables) + MaxCommits /\ Cardinality(Pages) \in Nat
    /\ \A n \in Nat : n # 0 /\ n <= Cardinality(Pages) => n \in Pages
    /\ \A p \in Pages : p # 0 /\ p <= Cardinality(Pages)
    /\ IsFiniteSet(Extents) /\ Extents \subseteq Nat /\ 0 \notin Extents
    /\ Cardinality(Extents) = Cardinality(Pages) + MaxFails
    /\ IsFiniteSet(Threads) /\ MaxFails \in Nat /\ MaxCommits \in Nat
<1>1. /\ IsFiniteSet(Tables) /\ IsFiniteSet(Readers) /\ MaxCommits \in Nat /\ MaxFails \in Nat
  BY PagesAssumption DEF PagesAssumption
<1>2. Cardinality(Tables) \in Nat
  BY <1>1, FS_CardinalityType
<1> DEFINE n == Cardinality(Tables) + MaxCommits
<1>3. n \in Nat /\ Pages = 1..n
  BY <1>1, <1>2 DEF Pages
<1> HIDE DEF n
<1>4. IsFiniteSet(1..n) /\ Cardinality(1..n) = n
  <2>1. 1 \in Int /\ n \in Int
    BY <1>3
  <2>2. IsFiniteSet(1..n) /\ Cardinality(1..n) = IF 1 > n THEN 0 ELSE n - 1 + 1
    BY <2>1, FS_Interval
  <2> QED
    BY <2>2, <1>3
<1>5. IsFiniteSet(Pages) /\ Cardinality(Pages) = n
  BY <1>3, <1>4
<1> DEFINE m == Cardinality(Pages) + MaxFails
<1>6. m \in Nat /\ Extents = 1..m
  BY <1>1, <1>3, <1>5 DEF Extents
<1> HIDE DEF m
<1>7. IsFiniteSet(1..m) /\ Cardinality(1..m) = m
  <2>1. 1 \in Int /\ m \in Int
    BY <1>6
  <2>2. IsFiniteSet(1..m) /\ Cardinality(1..m) = IF 1 > m THEN 0 ELSE m - 1 + 1
    BY <2>1, FS_Interval
  <2> QED
    BY <2>2, <1>6
<1>8. IsFiniteSet(Threads)
  BY <1>1, FS_AddElement DEF Threads
<1>9. Cardinality(Pages) = Cardinality(Tables) + MaxCommits
  BY <1>5 DEF n
<1>10. IsFiniteSet(Extents) /\ Cardinality(Extents) = Cardinality(Pages) + MaxFails
  <2>1. IsFiniteSet(Extents) /\ Cardinality(Extents) = m
    BY <1>6, <1>7
  <2> QED
    BY <2>1 DEF m
<1>11. /\ Pages \subseteq Nat /\ \A k \in Nat : k # 0 /\ k <= n => k \in Pages
       /\ \A p \in Pages : p # 0 /\ p <= n
  BY <1>3
<1>12. Extents \subseteq Nat /\ 0 \notin Extents
  BY <1>6
<1> QED
  BY <1>1, <1>2, <1>3, <1>5, <1>8, <1>9, <1>10, <1>11, <1>12

\* A set of numbers has a smallest one.
LEMMA MinIs ==
  ASSUME NEW S \in SUBSET Nat, S # {}
  PROVE  Min(S) \in S /\ \A y \in S : Min(S) <= y
<1> DEFINE R == OpToRel(<, Nat)
<1>1. PICK x \in S : \A y \in S : ~(<<y, x>> \in R)
  <2> HIDE DEF R
  <2>1. IsWellFoundedOn(R, Nat)
    BY NatLessThanWellFounded DEF R
  <2> QED
    BY <2>1, WFMin
<1>2. \A y \in S : ~(y < x)
  BY <1>1 DEF OpToRel
<1>3. \A y \in S : x <= y
  BY <1>2
<1> QED
  BY <1>3 DEF Min

\* Initially the tables' pages are distinct.
LEMMA FirstVersion ==
  LET f == CHOOSE f \in [Tables -> 1..Cardinality(Tables)] : IsInjective(f)
  IN  f \in [Tables -> 1..Cardinality(Tables)] /\ IsInjective(f)
<1> DEFINE n == Cardinality(Tables)
<1>1. n \in Nat /\ IsFiniteSet(Tables)
  BY Bounds
<1>2. IsFiniteSet(1..n) /\ Cardinality(1..n) = n
  <2>1. 1 \in Int /\ n \in Int
    BY <1>1
  <2>2. IsFiniteSet(1..n) /\ Cardinality(1..n) = IF 1 > n THEN 0 ELSE n - 1 + 1
    BY <2>1, FS_Interval
  <2> QED
    BY <2>2, <1>1
<1>3. ExistsBijection(Tables, 1..n)
  <2>1. Cardinality(Tables) = Cardinality(1..n)
    BY <1>2
  <2> HIDE DEF n
  <2> QED
    BY <1>1, <1>2, <2>1, FS_SameCardinalityBij
<1>4. \E f \in [Tables -> 1..n] : IsInjective(f)
  BY <1>3 DEF ExistsBijection, Bijection, Injection
<1> QED
  BY <1>4

LEMMA InitInv == Init => PagesInv
<1> SUFFICES ASSUME Init PROVE PagesInv
  OBVIOUS
<1> DEFINE f == CHOOSE f \in [Tables -> 1..Cardinality(Tables)] : IsInjective(f)
           n == Cardinality(Tables)
<1>f. f \in [Tables -> 1..n] /\ \A s, t \in Tables : f[s] = f[t] => s = t
  BY FirstVersion DEF IsInjective
<1>1. ver = <<f>> /\ cur = 1 /\ live = {1} /\ tx = NoTx /\ made = n
  BY DEF Init
<1> HIDE DEF f
<1>n. n \in Nat /\ n <= Cardinality(Pages) /\ 1..n \subseteq Pages /\ Cardinality(Pages) \in Nat
  BY Bounds DEF Pages
<1> HIDE DEF n
<1>2. Len(ver) = 1 /\ ver[1] = f /\ ver \in Seq([Tables -> Pages]) /\ 1..cur = {1}
  BY <1>1, <1>f, <1>n
<1>3. Range(f) \subseteq 1..n
  BY <1>f DEF Range
<1>4. tx.stage = "none" /\ tx.base = 0 /\ tx.table = 0 /\ tx.page = 0 /\ tx \in TxType
  BY <1>1 DEF NoTx, TxType
<1>5. VersionInv
  <2>1. history \in Seq(Nat) /\ Range(history) = {}
    BY DEF Init, Range
  <2>2. snap \in [Readers -> Nat] /\ \A r \in Readers : snap[r] = 0
    BY DEF Init
  <2> QED
    BY <1>1, <1>2, <1>f, <2>1, <2>2 DEF VersionInv
<1>6. TxInv
  BY <1>1, <1>4, <1>n DEF TxInv
<1>7. GarbageInv
  <2>1. garbage \in [Versions -> SUBSET Pages] /\ (\A w \in Versions : garbage[w] = {}) /\ freeing = {}
    BY DEF Init
  <2>2. \A t \in Tables : Old(ver[1][t])
    BY <1>1, <1>2, <1>4, <1>f, <1>n DEF Old
  <2> QED
    BY <1>2, <2>1, <2>2 DEF GarbageInv
<1>8. th = [x \in Threads |-> Idle] /\ \A x \in Threads : th[x].pc = "idle" /\ ~th[x].new
  BY DEF Init, Idle
<1>d. (\A p \in Pages : dir[p] = 0) /\ dir \in [Pages -> {0} \cup Extents] /\ DOMAIN file = Extents /\ free = Extents
  BY DEF Init
<1>9. PoolInv
  <2>1. pool = [in |-> Range(f), dirty |-> Range(f), pins |-> [p \in Pages |-> 0],
                inflight |-> {}, reclaiming |-> FALSE]
    BY <1>2 DEF Init
  <2>2. Range(f) \subseteq Pages /\ \A p \in Range(f) : p <= n
    BY <1>3, <1>n
  <2>3. pool \in PoolType /\ pool.in = Range(f) /\ pool.dirty = Range(f) /\ \A p \in Pages : pool.pins[p] = 0
    BY <2>1, <2>2 DEF PoolType
  <2>4. \A p \in Pages : Cardinality(Pinners(p)) = 0
    <3>1. \A p \in Pages : Pinners(p) = {}
      BY <1>8 DEF Pinners
    <3> QED
      BY <3>1, FS_EmptySet
  <2>5. \A p \in Range(f) : Seen(p)
    BY <2>2, <1>1, <1>4 DEF Seen
  <2> QED
    BY <2>2, <2>3, <2>4, <2>5, <1>d DEF PoolInv
<1>10. ThreadInv
  <2>1. th \in [Threads -> ThreadType]
    BY <1>8 DEF Idle, ThreadType
  <2> QED
    BY <2>1, <1>8 DEF ThreadInv, Owns, Holds, Moves, Busy, Spilling
<1>11. DiskInv
  <2>1. Stored = {}
    BY <1>8, <1>d DEF Stored
  <2>2. Cardinality(free) + Cardinality(Stored) + fails = Cardinality(Extents) /\ fails \in 0..MaxFails
    <3>1. Cardinality(Stored) = 0 /\ fails = 0
      BY <2>1, FS_EmptySet DEF Init
    <3>2. Cardinality(Extents) \in Nat /\ MaxFails \in Nat
      BY Bounds
    <3> QED
      BY <3>1, <3>2, <1>d
  <2> QED
    BY <2>2, <1>d DEF DiskInv
<1>12. ServedInv
  <2>1. \A p \in Pages : Alive(p) => p \in Range(f)
    BY <1>1, <1>2, <1>4, <1>f DEF Alive, Range
  <2>2. pool.in = Range(f)
    BY <1>2 DEF Init
  <2>3. ~broken
    BY DEF Init
  <2> QED
    BY <2>1, <2>2, <2>3 DEF ServedInv, Served
<1> QED
  BY <1>5, <1>6, <1>7, <1>9, <1>10, <1>11, <1>12 DEF PagesInv

-----------------------------------------------------------------------------
(* Versions come and go.                                                   *)

\* A step of the versions leaves the pool, the threads and the disk alone.
LEMMA QuietPool ==
  ASSUME PagesInv, UNCHANGED <<pool, dir, file, free, th, broken, dropped, made, fails>>,
         \A p : Seen(p) => Seen(p)',
         \A x \in Threads : Owns(x, th[x])',
         \A p \in Pages : Alive(p)' => Alive(p)
  PROVE  PoolInv' /\ ThreadInv' /\ DiskInv' /\ ServedInv'
<1>i. PoolInv /\ ThreadInv /\ DiskInv /\ ServedInv
  BY DEF PagesInv
<1>1. \A p : Pinners(p)' = Pinners(p)
  BY DEF Pinners
<1>2. PoolInv'
  <2>1. \A p \in pool.in : Seen(p)' /\ (p \in pool.dirty <=> dir[p] = 0)
    BY <1>i DEF PoolInv
  <2> QED
    BY <1>1, <1>i, <2>1 DEF PoolInv
<1>3. ThreadInv'
  <2>1. \A x \in Threads : Holds(th[x])'
    <3>1. \A x \in Threads : Holds(th[x])
      BY <1>i DEF ThreadInv
    <3> QED
      BY <3>1 DEF Holds
  <2> QED
    BY <1>i, <2>1 DEF ThreadInv, Moves
<1>4. DiskInv'
  <2>1. Stored' = Stored
    BY DEF Stored
  <2>2. \A p \in Pages : dir[p] # 0 => file[dir[p]] = p /\ dir[p] \notin free /\ Seen(p)'
    BY <1>i DEF DiskInv
  <2> QED
    BY <1>i, <2>1, <2>2 DEF DiskInv
<1>5. ServedInv'
  <2>1. \A p : Served(p) => Served(p)'
    BY DEF Served
  <2> QED
    BY <1>i, <2>1 DEF ServedInv
<1> QED
  BY <1>2, <1>3, <1>4, <1>5

\* What is drained is below every version that stays pinned.
LEMMA ReclaimKeeps ==
  ASSUME VersionInv, GarbageInv, NEW pinned \in SUBSET live, cur \in pinned,
         NEW trash \in [Versions -> SUBSET Pages],
         \A w \in Versions : \A p \in trash[w] :
           w <= cur /\ Old(p) /\ \A v \in w..cur : \A t \in Tables : ver[v][t] # p,
         Reclaim(pinned, trash), ver' = ver, cur' = cur, \A p : Old(p) => Old(p)'
  PROVE  GarbageInv' /\ live' = pinned
<1>1. pinned \in SUBSET Nat /\ pinned # {} /\ cur \in Nat /\ \A v \in pinned : v \in 1..cur
  BY DEF VersionInv
<1> DEFINE fl == Floor(pinned)
           drained == UNION {trash[v] : v \in {w \in Versions : w <= Floor(pinned)}}
<1>2. fl \in pinned /\ \A v \in pinned : fl <= v
  BY <1>1, MinIs DEF Floor
<1>3. /\ live' = pinned /\ freeing' = freeing \cup drained
      /\ garbage' = [v \in Versions |-> IF v <= fl THEN {} ELSE trash[v]]
  BY DEF Reclaim
<1>4. \A p \in drained : \E w \in Versions : w <= fl /\ p \in trash[w]
  OBVIOUS
<1>5. drained \subseteq Pages
  BY <1>4
<1> HIDE DEF fl, drained
<1>6. garbage' \in [Versions -> SUBSET Pages] /\ \A w \in Versions : garbage'[w] \subseteq trash[w]
  BY <1>3
<1>7. \A w \in Versions : \A p \in garbage'[w] :
         w <= cur /\ Old(p)' /\ \A v \in w..cur : \A t \in Tables : ver[v][t] # p
  BY <1>6
<1>8. ASSUME NEW p \in drained PROVE Old(p) /\ \A v \in pinned : \A t \in Tables : ver[v][t] # p
  <2>1. PICK w \in Versions : w <= fl /\ p \in trash[w]
    BY <1>4
  <2>2. w \in Nat
    BY DEF Versions
  <2>3. \A v \in pinned : v \in w..cur
    BY <2>1, <2>2, <1>1, <1>2
  <2> QED
    BY <2>1, <2>3
<1>9. \A p \in freeing' : Old(p)' /\ \A v \in pinned : \A t \in Tables : ver[v][t] # p
  BY <1>3, <1>8 DEF GarbageInv
<1>10. freeing' \subseteq Pages
  BY <1>3, <1>5 DEF GarbageInv
<1> QED
  BY <1>3, <1>6, <1>7, <1>9, <1>10 DEF GarbageInv

\* A version that is dropped by its last holder: live shrinks to what is held.
LEMMA DropKeeps ==
  ASSUME PagesInv, NEW pinned \in SUBSET live, cur \in pinned, Reclaim(pinned, garbage),
         UNCHANGED <<ver, cur, pool, dir, file, free, th, broken, dropped, made, fails>>,
         history' \in Seq(Nat), Range(history') \subseteq pinned,
         snap' \in [Readers -> Nat], \A r \in Readers : snap'[r] # 0 => snap'[r] \in pinned,
         \A r \in Readers : th[r].pc # "idle" => snap'[r] = snap[r],
         \/ tx' = tx /\ (tx.base # 0 => tx.base \in pinned)
         \/ tx' = NoTx /\ tx.stage \in {"retired", "failed"}
  PROVE  PagesInv'
<1>i. VersionInv /\ TxInv /\ GarbageInv /\ ThreadInv
  BY DEF PagesInv
<1>0. tx' = NoTx => tx'.stage = "none" /\ tx'.base = 0 /\ tx'.page = 0 /\ tx' \in TxType
  BY DEF NoTx, TxType
<1>1. \A p : (Old(p) => Old(p)') /\ (Seen(p) => Seen(p)')
  BY <1>0 DEF Old, Seen
<1>2. garbage \in [Versions -> SUBSET Pages]
  BY <1>i DEF GarbageInv
<1>3. GarbageInv' /\ live' = pinned
  <2>1. \A w \in Versions : \A p \in garbage[w] :
           w <= cur /\ Old(p) /\ \A v \in w..cur : \A t \in Tables : ver[v][t] # p
    BY <1>i DEF GarbageInv
  <2> QED
    BY <1>1, <1>2, <1>i, <2>1, ReclaimKeeps
<1>4. VersionInv'
  <2>1. ver' \in Seq([Tables -> Pages]) /\ cur' = Len(ver') /\ live' \subseteq 1..cur' /\ cur' \in live'
    BY <1>3, <1>i DEF VersionInv
  <2>2. \A v \in 1..cur' : \A s, t \in Tables : ver'[v][s] = ver'[v][t] => s = t
    <3>1. ver' = ver /\ cur' = cur
      OBVIOUS
    <3> QED
      BY <3>1, <1>i DEF VersionInv
  <2>3. Range(history') \subseteq live' /\ \A r \in Readers : snap'[r] # 0 => snap'[r] \in live'
    BY <1>3
  <2> QED
    BY <2>1, <2>2, <2>3 DEF VersionInv
<1>5. TxInv'
  BY <1>0, <1>3, <1>i DEF TxInv
<1>6. \A x \in Threads : Owns(x, th[x])'
  <2> SUFFICES ASSUME NEW x \in Threads, th[x].pc # "idle" PROVE Owns(x, th[x])'
    BY DEF Owns
  <2>1. Owns(x, th[x])
    BY <1>i DEF ThreadInv
  <2>2. Seen(th[x].page)'
    BY <2>1, <1>1 DEF Owns
  <2>3. x = Writer => tx' = tx
    BY <2>1, <1>0 DEF Owns
  <2>4. x \in Readers => snap'[x] = snap[x]
    OBVIOUS
  <2> QED
    BY <2>1, <2>2, <2>3, <2>4 DEF Owns
<1>7. \A p \in Pages : Alive(p)' => Alive(p)
  BY <1>0, <1>3 DEF Alive
<1> QED
  BY <1>1, <1>3, <1>4, <1>5, <1>6, <1>7, QuietPool DEF PagesInv

\* What is held, as seen by the steps that let go of something.
LEMMA HeldIs ==
  ASSUME VersionInv, NEW h \in Seq(Nat), NEW s \in [Readers -> Nat], NEW b \in Nat
  PROVE  LET H == live \cap Held(cur, h, s, b) IN
         /\ H \in SUBSET live /\ cur \in H
         /\ Range(h) \subseteq live => Range(h) \subseteq H
         /\ \A r \in Readers : s[r] # 0 /\ s[r] \in live => s[r] \in H
         /\ b # 0 /\ b \in live => b \in H
<1>1. cur \in live /\ \A v \in live : v # 0
  BY DEF VersionInv
<1>2. \A r \in Readers : s[r] \in Range(s)
  BY DEF Range
<1> QED
  BY <1>1, <1>2 DEF Held

LEMMA SnapshotKeeps == ASSUME PagesInv, NEW r \in Readers, Snapshot(r) PROVE PagesInv'
<1>i. VersionInv /\ TxInv /\ GarbageInv /\ ThreadInv
  BY DEF PagesInv
<1>1. PICK v \in {cur} \cup Range(history) : snap' = [snap EXCEPT ![r] = v]
  BY DEF Snapshot
<1>u. /\ snap[r] = 0
      /\ UNCHANGED <<ver, cur, history, tx, live, garbage, freeing, pool, dir, file, free, th,
                     broken, dropped, made, fails>>
  BY DEF Snapshot, disk, marks, bounds
<1>2. v \in live /\ v \in Nat
  BY <1>i DEF VersionInv
<1>3. /\ snap' \in [Readers -> Nat] /\ \A x \in Readers : x # r => snap'[x] = snap[x]
      /\ snap'[r] = v
  BY <1>1, <1>2, <1>i DEF VersionInv
<1>4. VersionInv'
  <2>1. \A x \in Readers : snap'[x] # 0 => snap'[x] \in live
    BY <1>2, <1>3, <1>i DEF VersionInv
  <2> QED
    BY <2>1, <1>3, <1>u, <1>i DEF VersionInv
<1>5. TxInv' /\ GarbageInv' /\ \A p : Seen(p) => Seen(p)'
  BY <1>u, <1>i DEF TxInv, GarbageInv, Old, Seen
<1>6. \A x \in Threads : Owns(x, th[x])'
  <2> SUFFICES ASSUME NEW x \in Threads, th[x].pc # "idle" PROVE Owns(x, th[x])'
    BY <1>u DEF Owns
  <2>1. Owns(x, th[x])
    BY <1>i DEF ThreadInv
  <2>2. x \in Readers => snap'[x] = snap[x]
    BY <2>1, <1>3, <1>u DEF Owns
  <2> QED
    BY <2>1, <2>2, <1>5, <1>u DEF Owns
<1>7. \A p \in Pages : Alive(p)' => Alive(p)
  BY <1>u DEF Alive
<1> QED
  BY <1>4, <1>5, <1>6, <1>7, <1>u, QuietPool DEF PagesInv

LEMMA ReleaseKeeps == ASSUME PagesInv, NEW r \in Readers, Release(r) PROVE PagesInv'
<1>i. VersionInv /\ TxInv /\ ThreadInv
  BY DEF PagesInv
<1> DEFINE H == live \cap Held(cur, history, snap', tx.base)
<1>1. /\ th[r].pc = "idle" /\ snap' = [snap EXCEPT ![r] = 0] /\ Reclaim(H, garbage)
      /\ UNCHANGED <<ver, cur, history, tx, pool, dir, file, free, th, broken, dropped, made, fails>>
  BY DEF Release, disk, marks, bounds
<1>2. /\ snap' \in [Readers -> Nat] /\ \A x \in Readers : x # r => snap'[x] = snap[x]
      /\ snap'[r] = 0
  BY <1>1, <1>i DEF VersionInv
<1>3. history \in Seq(Nat) /\ tx.base \in Nat /\ Range(history) \subseteq live
  BY <1>i DEF VersionInv, TxInv, TxType
<1>4. /\ H \in SUBSET live /\ cur \in H /\ Range(history) \subseteq H
      /\ \A x \in Readers : snap'[x] # 0 /\ snap'[x] \in live => snap'[x] \in H
      /\ tx.base # 0 /\ tx.base \in live => tx.base \in H
  BY <1>2, <1>3, <1>i, HeldIs
<1> HIDE DEF H
<1>5. \A x \in Readers : snap'[x] # 0 => snap'[x] \in H
  BY <1>2, <1>4, <1>i DEF VersionInv
<1>6. tx.base # 0 => tx.base \in H
  BY <1>4, <1>i DEF TxInv
<1>7. \A x \in Readers : th[x].pc # "idle" => snap'[x] = snap[x]
  BY <1>1, <1>2
<1> QED
  BY <1>1, <1>2, <1>3, <1>4, <1>5, <1>6, <1>7, DropKeeps

\* What the window keeps, it had, or it is the new version.
LEMMA RetainedIs ==
  ASSUME VersionInv
  PROVE  Retained \in Seq(Nat) /\ Range(Retained) \subseteq live
<1> DEFINE pushed == Append(history, cur)
<1>1. pushed \in Seq(live) /\ history \in Seq(live) /\ pushed # <<>>
  <2>1. history \in Seq(live)
    <3>0. history \in Seq(Nat) /\ DOMAIN history = 1..Len(history) /\ Range(history) \subseteq live
      BY DEF VersionInv
    <3>1. \A i \in 1..Len(history) : history[i] \in live
      BY <3>0 DEF Range
    <3>2. Len(history) \in Nat /\ history \in [1..Len(history) -> live]
      BY <3>0, <3>1
    <3> QED
      BY <3>2
  <2> QED
    BY <2>1 DEF VersionInv
<1>2. Tail(pushed) \in Seq(live) /\ <<>> \in Seq(live)
  BY <1>1
<1>3. Retained \in {history, <<>>, Tail(pushed), pushed}
  BY DEF Retained
<1>4. Retained \in Seq(live)
  BY <1>1, <1>2, <1>3
<1>5. live \subseteq Nat
  BY DEF VersionInv
<1> QED
  <2> DEFINE R == Retained
  <2> HIDE DEF R
  <2>0. R \in Seq(live)
    BY <1>4 DEF R
  <2>1. R \in Seq(Nat) /\ DOMAIN R = 1..Len(R) /\ \A i \in 1..Len(R) : R[i] \in live
    <3>1. DOMAIN R = 1..Len(R) /\ Len(R) \in Nat /\ \A i \in 1..Len(R) : R[i] \in live
      BY <2>0
    <3>2. R \in [1..Len(R) -> Nat]
      <4>1. R \in [1..Len(R) -> live]
        BY <2>0
      <4> QED
        BY <4>1, <1>5
    <3> QED
      BY <3>1, <3>2
  <2>2. Range(R) \subseteq live
    BY <2>1 DEF Range
  <2> QED
    BY <2>1, <2>2 DEF R

LEMMA EndKeeps == ASSUME PagesInv, EndCommit \/ EndFailed PROVE PagesInv'
<1>i. VersionInv /\ TxInv /\ ThreadInv
  BY DEF PagesInv
<1> DEFINE H == live \cap Held(cur, history', snap, 0)
<1>1. /\ tx' = NoTx /\ tx.stage \in {"retired", "failed"} /\ Reclaim(H, garbage)
      /\ history' = history \/ history' = Retained
      /\ UNCHANGED <<ver, cur, snap, pool, dir, file, free, th, broken, dropped, made, fails>>
  <2>1. CASE EndCommit
    BY <2>1 DEF EndCommit, disk, marks, bounds
  <2>2. CASE EndFailed
    <3>1. history' = history
      BY <2>2 DEF EndFailed
    <3> QED
      BY <2>2, <3>1 DEF EndFailed, disk, marks, bounds
  <2> QED
    BY <2>1, <2>2
<1>2. history' \in Seq(Nat) /\ Range(history') \subseteq live
  BY <1>1, <1>i, RetainedIs DEF VersionInv
<1>3. snap \in [Readers -> Nat] /\ 0 \in Nat
  BY <1>i DEF VersionInv
<1>4. /\ H \in SUBSET live /\ cur \in H /\ Range(history') \subseteq H
      /\ \A x \in Readers : snap[x] # 0 /\ snap[x] \in live => snap[x] \in H
  BY <1>2, <1>3, <1>i, HeldIs
<1> HIDE DEF H
<1>5. \A x \in Readers : snap[x] # 0 => snap[x] \in H
  BY <1>4, <1>i DEF VersionInv
<1> QED
  BY <1>1, <1>2, <1>3, <1>4, <1>5, DropKeeps

\* The superseded page waits for the versions before the one that dropped it.
LEMMA RetireKeeps == ASSUME PagesInv, Retire PROVE PagesInv'
<1>i. VersionInv /\ TxInv /\ GarbageInv /\ ThreadInv
  BY DEF PagesInv
<1> DEFINE p == ver[tx.base][tx.table]
           trash == [garbage EXCEPT ![cur] = garbage[cur] \cup {p}]
<1>1. /\ tx.stage = "published" /\ Reclaim(live, trash) /\ tx' = [tx EXCEPT !.stage = "retired"]
      /\ UNCHANGED <<ver, cur, history, snap, pool, dir, file, free, th, broken, dropped, made, fails>>
  BY DEF Retire, disk, marks, bounds
<1>2. /\ tx' \in TxType /\ tx'.stage = "retired" /\ tx'.base = tx.base /\ tx'.page = tx.page
      /\ tx'.table = tx.table
  BY <1>1, <1>i DEF TxInv, TxType
<1>3. /\ tx.base \in live /\ tx.base \in 1..cur /\ tx.table \in Tables /\ cur \in Nat
      /\ \A t \in Tables : ver[cur][t] # p
  BY <1>1, <1>i DEF TxInv, VersionInv
<1>4. p \in Pages /\ Old(p)
  <2>1. ver[tx.base] \in [Tables -> Pages]
    BY <1>3, <1>i DEF VersionInv
  <2> QED
    BY <2>1, <1>3, <1>i DEF GarbageInv
<1> HIDE DEF p
<1>5. trash \in [Versions -> SUBSET Pages] /\ \A w \in Versions : \A q \in trash[w] : q \in garbage[w] \/ (w = cur /\ q = p)
  BY <1>4, <1>i DEF GarbageInv
<1> HIDE DEF trash
<1>6. \A w \in Versions : \A q \in trash[w] :
        w <= cur /\ Old(q) /\ \A v \in w..cur : \A t \in Tables : ver[v][t] # q
  <2> SUFFICES ASSUME NEW w \in Versions, NEW q \in trash[w]
               PROVE  w <= cur /\ Old(q) /\ \A v \in w..cur : \A t \in Tables : ver[v][t] # q
    OBVIOUS
  <2>1. CASE q \in garbage[w]
    BY <2>1, <1>i DEF GarbageInv
  <2>2. CASE w = cur /\ q = p
    <3>1. \A v \in w..cur : v = cur
      BY <2>2, <1>3
    <3> QED
      BY <2>2, <3>1, <1>3, <1>4
  <2> QED
    BY <2>1, <2>2, <1>5
<1>7. \A q : (Old(q) => Old(q)') /\ (Seen(q) => Seen(q)')
  BY <1>1, <1>2 DEF Old, Seen
<1>8. GarbageInv' /\ live' = live
  <2>1. live \in SUBSET live /\ cur \in live
    BY <1>i DEF VersionInv
  <2> QED
    BY <2>1, <1>1, <1>5, <1>6, <1>7, <1>i, ReclaimKeeps
<1>9. VersionInv'
  BY <1>1, <1>8, <1>i DEF VersionInv
<1>10. TxInv'
  BY <1>1, <1>2, <1>8, <1>i DEF TxInv
<1>11. \A x \in Threads : Owns(x, th[x])'
  <2>1. \A x \in Threads : Owns(x, th[x])
    BY <1>i DEF ThreadInv
  <2> QED
    BY <2>1, <1>1, <1>2, <1>7 DEF Owns
<1>12. \A q \in Pages : Alive(q)' => Alive(q)
  BY <1>1, <1>2, <1>8 DEF Alive
<1> QED
  BY <1>1, <1>7, <1>8, <1>9, <1>10, <1>11, <1>12, QuietPool DEF PagesInv

\* The new version shares all pages of its base but one.
LEMMA PublishKeeps == ASSUME PagesInv, Publish PROVE PagesInv'
<1>i. VersionInv /\ TxInv /\ GarbageInv /\ ThreadInv
  BY DEF PagesInv
<1> DEFINE n == [ver[tx.base] EXCEPT ![tx.table] = tx.page]
<1>1. /\ tx.stage = "built" /\ ver' = Append(ver, n) /\ cur' = Len(ver')
      /\ live' = live \cup {cur'} /\ tx' = [tx EXCEPT !.stage = "published"]
      /\ UNCHANGED <<history, snap, garbage, freeing, pool, dir, file, free, th, broken, dropped, made, fails>>
  BY DEF Publish, disk, marks, bounds
<1>2. /\ tx' \in TxType /\ tx'.stage = "published" /\ tx'.base = tx.base /\ tx'.page = tx.page
      /\ tx'.table = tx.table
  BY <1>1, <1>i DEF TxInv, TxType
<1>3. /\ tx.base = cur /\ cur \in live /\ cur \in Nat /\ cur \in 1..cur /\ tx.table \in Tables
      /\ tx.page = made /\ made \in Nat /\ made <= Cardinality(Pages)
  BY <1>1, <1>i DEF TxInv, VersionInv
<1>4. ver \in Seq([Tables -> Pages]) /\ ver[cur] \in [Tables -> Pages] /\ Len(ver) = cur
  BY <1>3, <1>i DEF VersionInv
<1>5. \A v \in 1..cur : \A t \in Tables : ver[v][t] < made /\ ver[v][t] <= made
  BY <1>1, <1>i DEF GarbageInv, Old
<1>6. made \in Pages
  <2>1. ver[cur][tx.table] \in Nat /\ ver[cur][tx.table] < made
    BY <1>3, <1>4, <1>5, Bounds
  <2>2. made # 0
    BY <2>1, <1>3
  <2> QED
    BY <2>2, <1>3, Bounds
<1>7. /\ n \in [Tables -> Pages] /\ n[tx.table] = made
      /\ \A t \in Tables : t # tx.table => n[t] = ver[cur][t]
  BY <1>3, <1>4, <1>6
<1> HIDE DEF n
<1>8. /\ ver' \in Seq([Tables -> Pages]) /\ cur' = cur + 1 /\ ver'[cur + 1] = n
      /\ \A v \in 1..cur : ver'[v] = ver[v]
      /\ \A v \in 1..(cur + 1) : v \in 1..cur \/ v = cur + 1
  BY <1>1, <1>3, <1>4, <1>7
<1>9. \A s, t \in Tables : n[s] = n[t] => s = t
  <2>1. \A t \in Tables : t # tx.table => n[t] # made
    BY <1>3, <1>5, <1>7
  <2> QED
    BY <2>1, <1>3, <1>7, <1>i DEF VersionInv
<1>l. live \subseteq 1..cur /\ live' \subseteq 1..(cur + 1) /\ cur + 1 \in live' /\ live \subseteq live'
  BY <1>1, <1>3, <1>8, <1>i DEF VersionInv
<1>10. VersionInv'
  <2>1. \A v \in 1..(cur + 1) : \A s, t \in Tables : ver'[v][s] = ver'[v][t] => s = t
    <3>1. \A v \in 1..cur : \A s, t \in Tables : ver'[v][s] = ver'[v][t] => s = t
      BY <1>8, <1>i DEF VersionInv
    <3> QED
      BY <3>1, <1>8, <1>9
  <2>2. cur + 1 = Len(ver')
    BY <1>1, <1>8
  <2>3. history' \in Seq(Nat) /\ Range(history') \subseteq live'
    BY <1>1, <1>l, <1>i DEF VersionInv
  <2>4. snap' \in [Readers -> Nat] /\ \A r \in Readers : snap'[r] # 0 => snap'[r] \in live'
    BY <1>1, <1>l, <1>i DEF VersionInv
  <2> QED
    BY <2>1, <2>2, <2>3, <2>4, <1>8, <1>l DEF VersionInv
<1>11. TxInv'
  <2>1. \A t \in Tables : n[t] # ver[cur][tx.table]
    <3>1. ver[cur][tx.table] # made
      BY <1>3, <1>4, <1>5, Bounds
    <3> QED
      BY <3>1, <1>3, <1>7, <1>i DEF VersionInv
  <2>2. \A t \in Tables : ver'[cur'][t] # ver'[tx'.base][tx'.table]
    BY <2>1, <1>2, <1>3, <1>8
  <2>3. tx'.base # 0 /\ tx'.base \in live' /\ made' = made
    BY <1>1, <1>2, <1>3, <1>l
  <2> QED
    BY <2>2, <2>3, <1>2, <1>3 DEF TxInv
<1>12. \A p : (p \in Nat /\ p <= made) => Old(p)' /\ Seen(p)'
  BY <1>1, <1>2 DEF Old, Seen
<1>13. GarbageInv'
  <2>1. ASSUME NEW w \in Versions, NEW p \in garbage[w]
        PROVE  w <= cur' /\ Old(p)' /\ \A v \in w..cur' : \A t \in Tables : ver'[v][t] # p
    <3>1. w \in Nat /\ w # 0 /\ w <= cur /\ Old(p) /\ p \in Nat /\ \A v \in w..cur : \A t \in Tables : ver[v][t] # p
      BY <1>i, Bounds DEF GarbageInv, Versions
    <3>2. p < made
      BY <3>1, <1>1 DEF Old
    <3>3. \A t \in Tables : n[t] # p
      <4>1. cur \in w..cur
        BY <3>1, <1>3
      <4> QED
        BY <4>1, <3>1, <3>2, <1>3, <1>7
    <3>4. \A v \in w..(cur + 1) : (v \in w..cur /\ v \in 1..cur) \/ v = cur + 1
      BY <3>1, <1>3
    <3>5. \A v \in w..(cur + 1) : \A t \in Tables : ver'[v][t] # p
      BY <3>1, <3>3, <3>4, <1>8
    <3>6. Old(p)'
      BY <3>1, <3>2, <1>3, <1>12
    <3> QED
      BY <3>1, <3>5, <3>6, <1>3, <1>8
  <2>2. ASSUME NEW p \in freeing PROVE Old(p)' /\ \A v \in live' : \A t \in Tables : ver'[v][t] # p
    <3>1. p \in Nat /\ Old(p) /\ \A v \in live : \A t \in Tables : ver[v][t] # p
      BY <1>i, Bounds DEF GarbageInv
    <3>2. p < made
      BY <3>1, <1>1 DEF Old
    <3>3. \A t \in Tables : n[t] # p
      BY <3>1, <3>2, <1>3, <1>7
    <3>4. \A v \in live' : (v \in live /\ v \in 1..cur) \/ v = cur + 1
      BY <1>1, <1>8, <1>l
    <3> QED
      BY <3>1, <3>2, <3>3, <3>4, <1>3, <1>8, <1>12
  <2>3. ASSUME NEW v \in 1..(cur + 1), NEW t \in Tables PROVE Old(ver[v][t])'
    <3>1. ver'[v] \in [Tables -> Pages]
      BY <1>4, <1>7, <1>8
    <3>2. ver'[v][t] \in Nat
      BY <3>1, Bounds
    <3>3. ver'[v][t] <= made
      <4>1. CASE v \in 1..cur
        BY <4>1, <1>5, <1>8
      <4>2. CASE v = cur + 1
        <5>1. n[t] = made \/ n[t] = ver[cur][t]
          BY <1>7
        <5> QED
          BY <4>2, <5>1, <1>3, <1>5, <1>8
      <4> QED
        BY <4>1, <4>2, <1>8
    <3> QED
      BY <3>2, <3>3, <1>1, <1>2 DEF Old
  <2>4. garbage' \in [Versions -> SUBSET Pages] /\ freeing' \subseteq Pages
    BY <1>1, <1>i DEF GarbageInv
  <2> QED
    BY <2>1, <2>2, <2>3, <2>4, <1>1, <1>8 DEF GarbageInv
<1>14. \A p : Seen(p) => Seen(p)'
  BY <1>1, <1>2 DEF Seen
<1>15. \A x \in Threads : Owns(x, th[x])'
  <2> SUFFICES ASSUME NEW x \in Threads, th[x].pc # "idle" PROVE Owns(x, th[x])'
    BY <1>1 DEF Owns
  <2>1. Owns(x, th[x]) /\ x # Writer
    BY <1>1, <1>i DEF ThreadInv, Owns
  <2>2. x \in Readers /\ snap[x] \in 1..cur
    BY <2>1, <1>l, <1>i DEF Threads, Owns, VersionInv
  <2>3. snap' = snap /\ ver'[snap[x]] = ver[snap[x]] /\ th' = th
    BY <2>2, <1>1, <1>8
  <2> QED
    BY <2>1, <2>2, <2>3, <1>14 DEF Owns
<1>16. \A p \in Pages : Alive(p)' => Alive(p)
  <2> SUFFICES ASSUME NEW p \in Pages, Alive(p)' PROVE Alive(p)
    OBVIOUS
  <2>1. PICK v \in live' : \E t \in Tables : ver'[v][t] = p
    BY <1>2 DEF Alive
  <2>2. CASE v \in live
    <3>1. ver'[v] = ver[v]
      BY <2>2, <1>8, <1>l
    <3> QED
      BY <2>1, <2>2, <3>1 DEF Alive
  <2>3. CASE v = cur + 1
    BY <2>1, <2>3, <1>1, <1>3, <1>7, <1>8 DEF Alive
  <2> QED
    BY <2>2, <2>3, <1>1, <1>8
<1> QED
  BY <1>1, <1>10, <1>11, <1>13, <1>14, <1>15, <1>16, QuietPool DEF PagesInv

-----------------------------------------------------------------------------
(* The threads in the pool.                                                *)

\* The parts of the invariant.
LEMMA Parts ==
  ASSUME PagesInv
  PROVE  VersionInv /\ TxInv /\ GarbageInv /\ PoolInv /\ ThreadInv /\ DiskInv /\ ServedInv
  BY DEF PagesInv

\* The versions stay; the transaction fails, gets its page, or has it built.
VersionsStay == UNCHANGED <<ver, cur, history, snap, live, garbage, freeing>>

TxMoves ==
    \/ tx' = tx
    \/ tx' = [tx EXCEPT !.stage = "failed"]
    \/ tx.stage = "open" /\ tx.page = 0 /\ tx' = [tx EXCEPT !.page = made]
    \/ tx.stage = "open" /\ tx.page # 0 /\ tx' = [tx EXCEPT !.stage = "built"]

LEMMA TxKeeps ==
  ASSUME PagesInv, VersionsStay, made' = made, TxMoves
  PROVE  /\ VersionInv' /\ TxInv' /\ GarbageInv'
         /\ \A p : Seen(p) => Seen(p)'
         /\ \A p : Alive(p)' => Alive(p) \/ (tx.stage = "open" /\ tx'.stage = "built" /\ p = tx.page)
<1>i. VersionInv /\ TxInv /\ GarbageInv
  BY DEF PagesInv
<1> USE DEF VersionsStay
<1>1. VersionInv'
  BY <1>i DEF VersionInv
<1>2. /\ tx' \in TxType /\ tx'.base = tx.base /\ tx'.table = tx.table
      /\ \/ tx'.stage = tx.stage /\ tx'.page = tx.page
         \/ tx'.stage = "failed" /\ tx'.page = tx.page
         \/ tx.stage = "open" /\ tx.page = 0 /\ tx'.stage = "open" /\ tx'.page = made
         \/ tx.stage = "open" /\ tx.page # 0 /\ tx'.stage = "built" /\ tx'.page = tx.page
  BY <1>i DEF TxInv, TxType, TxMoves
<1>3. TxInv'
  BY <1>2, <1>i DEF TxInv
<1>4. \A p : (Old(p) => Old(p)') /\ (Seen(p) => Seen(p)')
  BY <1>2 DEF Old, Seen
<1>5. GarbageInv'
  <2>1. \A w \in Versions : \A p \in garbage[w] :
          w <= cur /\ Old(p)' /\ \A v \in w..cur : \A t \in Tables : ver[v][t] # p
    BY <1>4, <1>i DEF GarbageInv
  <2>2. \A p \in freeing : Old(p)' /\ \A v \in live : \A t \in Tables : ver[v][t] # p
    BY <1>4, <1>i DEF GarbageInv
  <2>3. \A v \in 1..cur : \A t \in Tables : Old(ver[v][t])'
    <3>1. \A v \in 1..cur : \A t \in Tables : Old(ver[v][t])
      BY <1>i DEF GarbageInv
    <3> QED
      BY <3>1, <1>2 DEF Old
  <2> QED
    BY <2>1, <2>2, <2>3, <1>i DEF GarbageInv
<1>6. \A p : Alive(p)' => Alive(p) \/ (tx.stage = "open" /\ tx'.stage = "built" /\ p = tx.page)
  BY <1>2 DEF Alive
<1> QED
  BY <1>1, <1>3, <1>4, <1>5, <1>6

\* A pinned page has its pins.
LEMMA PinCounts ==
  ASSUME PoolInv, NEW x \in Threads, th[x].pc = "pinned", th[x].page \in Pages
  PROVE  pool.pins[th[x].page] # 0
<1>1. x \in Pinners(th[x].page) /\ Pinners(th[x].page) \subseteq Threads
  BY DEF Pinners
<1>2. IsFiniteSet(Pinners(th[x].page))
  BY <1>1, Bounds, FS_Subset
<1>3. Cardinality(Pinners(th[x].page)) # 0
  BY <1>1, <1>2, FS_EmptySet
<1> QED
  BY <1>3 DEF PoolInv

\* A step of thread x to s keeps what the others do, as long as it takes
\* nothing of theirs: only keys it moves itself come into the pool, leave the
\* set of keys in flight or get another extent, and no pinned page goes.
LEMMA ThreadStep ==
  ASSUME PoolInv, ThreadInv, NEW x \in Threads, NEW s \in ThreadType, th' = [th EXCEPT ![x] = s],
         UNCHANGED <<ver, snap>>, x # Writer => tx' = tx, \A p \in Pages : Seen(p) => Seen(p)',
         Owns(x, s)', Holds(s)',
         \A y \in Threads \ {x} : Moves(th[y]) \cap Moves(s) = {},
         pool'.in \ pool.in \subseteq Moves(th[x]),
         \A p \in pool.in \ pool'.in : pool.pins[p] = 0,
         pool.inflight \ pool'.inflight \subseteq Moves(th[x]),
         \A p \in Pages : dir'[p] = dir[p] \/ p \in Moves(th[x]),
         \A e \in Extents \ free : file'[e] = file[e], free' \subseteq free
  PROVE  ThreadInv'
<1>1. th' \in [Threads -> ThreadType] /\ th'[x] = s /\ \A y \in Threads \ {x} : th'[y] = th[y]
  BY DEF ThreadInv
<1>2. ASSUME NEW y \in Threads \ {x} PROVE Owns(y, th[y])' /\ Holds(th[y])'
  <2>0. Owns(y, th[y]) /\ Holds(th[y]) /\ th'[y] = th[y] /\ Moves(th[y]) \cap Moves(th[x]) = {}
    BY <1>1 DEF ThreadInv
  <2>1. Owns(y, th[y])'
    <3>1. th[y].pc # "idle" => Seen(th[y].page)'
      BY <2>0 DEF Owns
    <3>2. y = Writer => tx' = tx
      OBVIOUS
    <3> QED
      BY <2>0, <3>1, <3>2 DEF Owns
  <2>2. th[y].pc # "idle" => th[y].page \in Pages
    BY <2>0 DEF Owns
  <2>3. th[y].pc = "pinned" => th[y].page \in pool'.in
    <3>1. ASSUME th[y].pc = "pinned" PROVE pool.pins[th[y].page] # 0
      BY <3>1, <2>2, PinCounts
    <3> QED
      BY <3>1, <2>0 DEF Holds
  <2>4. ASSUME th[y].pc \in Busy
        PROVE  /\ th[y].page \notin pool'.in /\ (th[y].page \in pool.inflight => th[y].page \in pool'.inflight)
               /\ dir'[th[y].page] = dir[th[y].page]
    <3>1. th[y].page \in Moves(th[y]) /\ th[y].page \in Pages
      BY <2>2, <2>4 DEF Moves, Busy
    <3>2. th[y].page \notin Moves(th[x])
      BY <2>0, <3>1
    <3> QED
      BY <2>0, <2>4, <3>1, <3>2 DEF Holds
  <2>5. ASSUME th[y].pc \in Spilling
        PROVE  /\ th[y].victim \in Pages /\ Seen(th[y].victim)' /\ th[y].victim # th[y].page
               /\ th[y].victim \notin pool'.in /\ th[y].victim \in pool'.inflight
               /\ dir'[th[y].victim] = 0
    <3>1. th[y].victim \in Moves(th[y])
      BY <2>5 DEF Moves
    <3>2. th[y].victim \notin Moves(th[x])
      BY <2>0, <3>1
    <3>3. /\ th[y].victim \in Pages /\ Seen(th[y].victim) /\ th[y].victim # th[y].page
          /\ th[y].victim \notin pool.in /\ th[y].victim \in pool.inflight /\ dir[th[y].victim] = 0
      BY <2>0, <2>5 DEF Holds
    <3>4. \A p \in Pages : Seen(p) => Seen(p)'
      OBVIOUS
    <3>5. Seen(th[y].victim)'
      BY <3>3, <3>4, <2>0 DEF Seen
    <3> QED
      BY <3>2, <3>3, <3>5
  <2>6. th[y].pc = "point" => th[y].ext \in Extents \ free' /\ file'[th[y].ext] = th[y].victim
    BY <2>0 DEF Holds
  <2>8. Holds(th[y])'
    <3>1. /\ th[y].new => th[y].pc \in {"install", "write", "point"}
          /\ th[y].pc \in Busy => th[y].new \/ th[y].page \in pool.inflight
          /\ th[y].pc \in Busy \ {"look"} => (th[y].new <=> dir[th[y].page] = 0)
          /\ th[y].pc = "read" => th[y].ext = dir[th[y].page]
      BY <2>0 DEF Holds
    <3>2. "read" \in Busy
      BY DEF Busy
    <3> QED
      BY <3>1, <3>2, <2>0, <2>3, <2>4, <2>5, <2>6 DEF Holds
  <2> QED
    BY <2>1, <2>8
<1>3. Owns(x, th[x])' /\ Holds(th[x])'
  BY <1>1 DEF Owns, Holds, Seen
<1>4. \A y \in Threads : Owns(y, th[y])' /\ Holds(th[y])'
  BY <1>2, <1>3
<1>5. \A y, z \in Threads : y # z => Moves(th'[y]) \cap Moves(th'[z]) = {}
  <2>1. \A y, z \in Threads : y # z => Moves(th[y]) \cap Moves(th[z]) = {}
    BY DEF ThreadInv
  <2>2. \A y \in Threads : (y = x /\ th'[y] = s) \/ (y \in Threads \ {x} /\ th'[y] = th[y])
    BY <1>1
  <2> QED
    BY <2>1, <2>2
<1> QED
  BY <1>1, <1>4, <1>5 DEF ThreadInv, Moves

\* The pins, when x neither takes nor drops one, takes one, and drops one.
LEMMA PinsKept ==
  ASSUME PoolInv, ThreadInv, NEW x \in Threads, NEW s, th' = [th EXCEPT ![x] = s],
         th[x].pc # "pinned", s.pc # "pinned", pool'.pins = pool.pins
  PROVE  \A p \in Pages : pool'.pins[p] = Cardinality(Pinners(p)')
<1>1. th'[x] = s /\ \A y \in Threads : y # x => th'[y] = th[y]
  BY DEF ThreadInv
<1>2. \A p \in Pages : Pinners(p)' = Pinners(p)
  BY <1>1 DEF Pinners
<1> QED
  BY <1>2 DEF PoolInv

LEMMA PinAdded ==
  ASSUME PoolInv, ThreadInv, NEW x \in Threads, NEW s, th' = [th EXCEPT ![x] = s],
         th[x].pc # "pinned", s.pc = "pinned", NEW q \in Pages, s.page = q,
         pool'.pins = [pool.pins EXCEPT ![q] = pool.pins[q] + 1]
  PROVE  /\ pool'.pins \in [Pages -> Nat]
         /\ \A p \in Pages : pool'.pins[p] = Cardinality(Pinners(p)')
<1>1. th'[x] = s /\ \A y \in Threads : y # x => th'[y] = th[y]
  BY DEF ThreadInv
<1>2. pool.pins \in [Pages -> Nat]
  BY DEF PoolInv, PoolType
<1>3. pool'.pins \in [Pages -> Nat]
  BY <1>2
<1>4. ASSUME NEW p \in Pages PROVE pool'.pins[p] = Cardinality(Pinners(p)')
  <2>1. CASE p # q
    <3>1. Pinners(p)' = Pinners(p)
      BY <2>1, <1>1 DEF Pinners
    <3> QED
      BY <2>1, <3>1, <1>2 DEF PoolInv
  <2>2. CASE p = q
    <3>1. Pinners(q)' = Pinners(q) \cup {x} /\ x \notin Pinners(q) /\ Pinners(q) \subseteq Threads
      BY <1>1 DEF Pinners
    <3>2. IsFiniteSet(Pinners(q))
      BY <3>1, Bounds, FS_Subset
    <3>3. Cardinality(Pinners(q)') = Cardinality(Pinners(q)) + 1
      BY <3>1, <3>2, FS_AddElement
    <3> QED
      BY <2>2, <3>3, <1>2 DEF PoolInv
  <2> QED
    BY <2>1, <2>2
<1> QED
  BY <1>3, <1>4

LEMMA PinRemoved ==
  ASSUME PoolInv, ThreadInv, NEW x \in Threads, NEW s, th' = [th EXCEPT ![x] = s],
         th[x].pc = "pinned", s.pc # "pinned", NEW q \in Pages, th[x].page = q,
         pool'.pins = [pool.pins EXCEPT ![q] = pool.pins[q] - 1]
  PROVE  /\ pool'.pins \in [Pages -> Nat]
         /\ \A p \in Pages : pool'.pins[p] = Cardinality(Pinners(p)')
<1>1. th'[x] = s /\ \A y \in Threads : y # x => th'[y] = th[y]
  BY DEF ThreadInv
<1>2. pool.pins \in [Pages -> Nat] /\ pool.pins[q] # 0
  BY PinCounts DEF PoolInv, PoolType
<1>3. pool'.pins \in [Pages -> Nat]
  <2>1. pool.pins[q] - 1 \in Nat
    BY <1>2
  <2> QED
    BY <2>1, <1>2
<1>4. ASSUME NEW p \in Pages PROVE pool'.pins[p] = Cardinality(Pinners(p)')
  <2>1. CASE p # q
    <3>1. Pinners(p)' = Pinners(p)
      BY <2>1, <1>1 DEF Pinners
    <3> QED
      BY <2>1, <3>1, <1>2 DEF PoolInv
  <2>2. CASE p = q
    <3>1. Pinners(q)' = Pinners(q) \ {x} /\ x \in Pinners(q) /\ Pinners(q) \subseteq Threads
      BY <1>1 DEF Pinners
    <3>2. IsFiniteSet(Pinners(q))
      BY <3>1, Bounds, FS_Subset
    <3>3. Cardinality(Pinners(q)') = Cardinality(Pinners(q)) - 1
      BY <3>1, <3>2, FS_RemoveElement
    <3> QED
      BY <2>2, <3>3, <1>2 DEF PoolInv
  <2> QED
    BY <2>1, <2>2
<1> QED
  BY <1>3, <1>4

\* The disk, when a thread neither writes nor repoints.
LEMMA DiskKept ==
  ASSUME DiskInv, ThreadInv, NEW x \in Threads, NEW s, th' = [th EXCEPT ![x] = s],
         th[x].pc # "point", s.pc # "point", UNCHANGED <<dir, file, free, fails>>,
         \A p \in Pages : Seen(p) => Seen(p)'
  PROVE  DiskInv'
<1>1. th'[x] = s /\ \A y \in Threads : y # x => th'[y] = th[y]
  BY DEF ThreadInv
<1>2. Stored' = Stored
  BY <1>1 DEF Stored
<1>3. \A p \in Pages : dir[p] # 0 => file[dir[p]] = p /\ dir[p] \notin free /\ Seen(p)'
  BY DEF DiskInv
<1> QED
  BY <1>2, <1>3 DEF DiskInv

\* What is served stays served: a page leaves the pool into the hands of x or
\* with its image on disk, and x lets go of a victim only when it is in the
\* pool again, on disk, or lost.
LEMMA ServedStep ==
  ASSUME DiskInv, ThreadInv, NEW x \in Threads, NEW s, th' = [th EXCEPT ![x] = s],
         \A p \in pool.in \ pool'.in : (s.pc \in Spilling /\ s.victim = p) \/ dir[p] # 0,
         \A p \in Pages : dir[p] # 0 => dir'[p] = dir[p],
         \A e \in Extents \ free : file'[e] = file[e], free' \subseteq free,
         th[x].pc \in Spilling =>
           \/ th[x].victim \in dropped' \/ th[x].victim \in pool'.in
           \/ s.pc \in Spilling /\ s.victim = th[x].victim
           \/ /\ dir'[th[x].victim] # 0 /\ file'[dir'[th[x].victim]] = th[x].victim
              /\ dir'[th[x].victim] \notin free'
  PROVE  \A p \in Pages : Served(p) => Served(p)' \/ p \in dropped'
<1>1. th'[x] = s /\ \A y \in Threads : y # x => th'[y] = th[y]
  BY DEF ThreadInv
<1>2. ASSUME NEW p \in Pages, dir[p] # 0
      PROVE  dir'[p] # 0 /\ file'[dir'[p]] = p /\ dir'[p] \notin free'
  <2>1. dir[p] \in Extents \ free /\ file[dir[p]] = p /\ dir'[p] = dir[p]
    BY <1>2 DEF DiskInv
  <2> QED
    BY <2>1, <1>2
<1> SUFFICES ASSUME NEW p \in Pages, Served(p) PROVE Served(p)' \/ p \in dropped'
  OBVIOUS
<1>3. CASE dir[p] # 0
  BY <1>2, <1>3 DEF Served
<1>4. CASE p \in pool.in
  BY <1>1, <1>2, <1>4 DEF Served, Spilling
<1>5. ASSUME NEW y \in Threads, th[y].pc \in {"write", "point"}, th[y].victim = p
      PROVE  Served(p)' \/ p \in dropped'
  <2>1. CASE y # x
    BY <1>1, <1>5, <2>1 DEF Served
  <2>2. CASE y = x
    BY <1>1, <1>5, <2>2 DEF Served, Spilling
  <2> QED
    BY <2>1, <2>2
<1> QED
  BY <1>3, <1>4, <1>5 DEF Served

\* A page that somebody is about to read is served.
LEMMA AskedAlive ==
  ASSUME PagesInv, NEW x \in Threads, th[x].pc # "idle", ~th[x].new, x \in Readers \/ tx.page = 0
  PROVE  Alive(th[x].page) /\ th[x].page \notin freeing /\ th[x].page \in Pages /\ Old(th[x].page)
<1>i. VersionInv /\ TxInv /\ GarbageInv /\ Owns(x, th[x])
  BY DEF PagesInv, ThreadInv
<1>1. PICK v \in live : \E t \in Tables : th[x].page = ver[v][t]
  <2>1. CASE x \in Readers
    BY <2>1, <1>i DEF Owns, VersionInv
  <2>2. CASE x = Writer
    <3>1. x \notin Readers
      BY <2>2, PagesAssumption DEF PagesAssumption
    <3>2. tx.stage = "open" /\ th[x].page = ver[tx.base][tx.table]
      BY <2>2, <3>1, <1>i DEF Owns
    <3> QED
      BY <3>2, <1>i DEF TxInv
  <2> QED
    BY <2>1, <2>2 DEF Threads
<1>2. v \in 1..cur
  BY <1>i DEF VersionInv
<1> QED
  BY <1>1, <1>2, <1>i DEF Alive, GarbageInv, Owns

\* A step of thread x to s, in all: what each of the steps below has to show.
LEMMA Advance ==
  ASSUME PagesInv, VersionsStay, made' = made, TxMoves,
         NEW x \in Threads, x # Writer => tx' = tx,
         NEW s \in ThreadType, th' = [th EXCEPT ![x] = s], Owns(x, s)', Holds(s)',
         \A y \in Threads \ {x} : Moves(th[y]) \cap Moves(s) = {},
         pool' \in PoolType, pool'.dirty \subseteq pool'.in,
         \A p \in pool'.in : (p \in pool.in \/ p \in Moves(th[x])) /\ (p \in pool'.dirty <=> dir'[p] = 0),
         \A p \in Pages : pool'.pins[p] = Cardinality(Pinners(p)'),
         \A p \in pool.in \ pool'.in :
           pool.pins[p] = 0 /\ ((s.pc \in Spilling /\ s.victim = p) \/ dir[p] # 0),
         pool.inflight \ pool'.inflight \subseteq Moves(th[x]),
         \A p \in Pages : dir'[p] = dir[p] \/ (p \in Moves(th[x]) /\ dir[p] = 0),
         \A e \in Extents \ free : file'[e] = file[e], free' \subseteq free, DiskInv',
         th[x].pc \in Spilling =>
           \/ th[x].victim \in dropped' \/ th[x].victim \in pool'.in
           \/ s.pc \in Spilling /\ s.victim = th[x].victim
           \/ /\ dir'[th[x].victim] # 0 /\ file'[dir'[th[x].victim]] = th[x].victim
              /\ dir'[th[x].victim] \notin free',
         dropped \subseteq dropped', dropped' = {} => ~broken',
         tx.stage = "open" /\ tx'.stage = "built" => tx.page \in pool'.in
  PROVE  PagesInv'
<1>i. VersionInv /\ TxInv /\ GarbageInv /\ PoolInv /\ ThreadInv /\ DiskInv /\ ServedInv
  BY Parts
<1>1. /\ VersionInv' /\ TxInv' /\ GarbageInv'
      /\ \A p : Seen(p) => Seen(p)'
      /\ \A p : Alive(p)' => Alive(p) \/ (tx.stage = "open" /\ tx'.stage = "built" /\ p = tx.page)
  BY TxKeeps
<1>2. \A p \in Moves(th[x]) : Seen(p)
  <2>1. Owns(x, th[x]) /\ Holds(th[x])
    BY <1>i DEF ThreadInv
  <2> QED
    BY <2>1 DEF Moves, Owns, Holds, Busy, Spilling
<1>3. PoolInv'
  <2>1. \A p \in pool'.in : Seen(p)'
    BY <1>1, <1>2, <1>i DEF PoolInv
  <2> QED
    BY <2>1 DEF PoolInv
<1>4. ThreadInv'
  <2>1. UNCHANGED <<ver, snap>>
    BY DEF VersionsStay
  <2>2. pool'.in \ pool.in \subseteq Moves(th[x])
    OBVIOUS
  <2> QED
    BY <1>1, <1>i, <2>1, <2>2, ThreadStep
<1>5. \A p \in Pages : Served(p) => Served(p)' \/ p \in dropped'
  BY <1>i, ServedStep
<1>6. ServedInv'
  <2>1. ASSUME NEW p \in Pages, Alive(p)', p \notin dropped' PROVE Served(p)'
    <3>1. CASE Alive(p)
      BY <2>1, <3>1, <1>5, <1>i DEF ServedInv
    <3>2. CASE tx.stage = "open" /\ tx'.stage = "built" /\ p = tx.page
      BY <3>2 DEF Served
    <3> QED
      BY <2>1, <3>1, <3>2, <1>1
  <2> QED
    BY <2>1 DEF ServedInv
<1> QED
  BY <1>1, <1>3, <1>4, <1>6 DEF PagesInv

LEMMA IdleIs ==
  /\ Idle \in ThreadType /\ Idle.pc = "idle" /\ ~Idle.new /\ Moves(Idle) = {}
  /\ \A p \in Nat : LET s == [Idle EXCEPT !.pc = "pinned", !.page = p] IN
       s \in ThreadType /\ s.pc = "pinned" /\ s.page = p /\ ~s.new /\ Moves(s) = {}
  /\ \A p \in Nat : LET s == [Idle EXCEPT !.pc = "get", !.page = p] IN
       s \in ThreadType /\ s.pc = "get" /\ s.page = p /\ ~s.new /\ Moves(s) = {}
  BY DEF Idle, ThreadType, Moves, Busy, Spilling

\* Whatever an idle thread does, it holds and owns nothing.
LEMMA IdleFree == ASSUME NEW x PROVE Owns(x, Idle)' /\ Holds(Idle)'
  BY IdleIs DEF Owns, Holds, Busy, Spilling

\* The fields of a thread and of the pool.
LEMMA ThreadFields ==
  ASSUME PagesInv, NEW x \in Threads
  PROVE  /\ th[x] \in ThreadType /\ Owns(x, th[x]) /\ Holds(th[x])
         /\ pool \in PoolType /\ pool.dirty \subseteq pool.in
         /\ \A p \in pool.in : p \in pool.dirty <=> dir[p] = 0
         /\ \A y \in Threads \ {x} : Moves(th[y]) \cap Moves(th[x]) = {}
  BY DEF PagesInv, ThreadInv, PoolInv

\* A thread that goes on with the same page, or pins it.
LEMMA OwnsKept ==
  ASSUME NEW x, NEW s, Owns(x, th[x]), th[x].pc # "idle", th[x].pc # "pinned", s.page = th[x].page,
         (s.new <=> th[x].new) \/ (s.pc = "pinned" /\ ~s.new),
         UNCHANGED <<ver, snap, tx, made>>
  PROVE  Owns(x, s)'
<1>1. /\ s.page \in Pages /\ Seen(s.page)
      /\ x \in Readers => /\ ~s.new /\ snap[x] # 0
                          /\ \E t \in Tables : s.page = ver[snap[x]][t]
      /\ x = Writer /\ tx.page = 0 => ~s.new /\ s.page = ver[tx.base][tx.table]
      /\ x = Writer /\ tx.page # 0 => s.page = tx.page /\ (s.new \/ s.pc = "pinned")
      /\ x = Writer => tx.stage = "open"
  BY DEF Owns
<1> QED
  BY <1>1 DEF Owns, Seen

\* Steps that change neither what is in the pool nor the disk.
LEMMA AdvanceQuiet ==
  ASSUME PagesInv, VersionsStay, made' = made, TxMoves,
         NEW x \in Threads, x # Writer => tx' = tx,
         NEW s \in ThreadType, th' = [th EXCEPT ![x] = s], Owns(x, s)', Holds(s)',
         \A y \in Threads \ {x} : Moves(th[y]) \cap Moves(s) = {},
         pool' \in PoolType, pool'.in = pool.in, pool'.dirty = pool.dirty,
         \A p \in Pages : pool'.pins[p] = Cardinality(Pinners(p)'),
         pool.inflight \ pool'.inflight \subseteq Moves(th[x]),
         UNCHANGED <<dir, file, free, fails, dropped>>, th[x].pc \notin Spilling, s.pc \notin Spilling,
         dropped = {} => ~broken', tx.stage = "open" /\ tx'.stage = "built" => tx.page \in pool.in
  PROVE  PagesInv'
<1>i. ThreadInv /\ DiskInv /\ PoolInv
  BY Parts
<1>1. \A p : Seen(p) => Seen(p)'
  BY TxKeeps
<1>2. DiskInv'
  BY <1>1, <1>i, DiskKept DEF Spilling
<1>3. /\ pool'.dirty \subseteq pool'.in
      /\ \A p \in pool'.in : (p \in pool.in \/ p \in Moves(th[x])) /\ (p \in pool'.dirty <=> dir'[p] = 0)
  BY <1>i DEF PoolInv
<1>4. /\ \A p \in Pages : dir'[p] = dir[p]
      /\ \A e \in Extents \ free : file'[e] = file[e]
      /\ free' \subseteq free /\ dropped \subseteq dropped' /\ (dropped' = {} => ~broken')
  OBVIOUS
<1>5. pool.in \ pool'.in = {}
  OBVIOUS
<1>6. tx.stage = "open" /\ tx'.stage = "built" => tx.page \in pool'.in
  OBVIOUS
<1> QED
  BY <1>2, <1>3, <1>4, <1>5, <1>6, Advance

LEMMA ReadKeeps ==
  ASSUME PagesInv, NEW r \in Readers, NEW t \in Tables, Read(r, t) PROVE PagesInv'
<1>i. VersionInv /\ PoolInv /\ ThreadInv /\ GarbageInv /\ ServedInv /\ TxInv
  BY Parts
<1> DEFINE p == ver[snap[r]][t]
<1>p. PICK s : s = [Idle EXCEPT !.pc = "get", !.page = p]
  OBVIOUS
<1>1. /\ snap[r] # 0 /\ th[r].pc = "idle" /\ th' = [th EXCEPT ![r] = s] /\ VersionsStay /\ tx' = tx
      /\ UNCHANGED <<pool, dir, file, free, broken, dropped, made, fails>>
  BY <1>p DEF Read, Ask, versions, disk, marks, VersionsStay
<1>2. p \in Pages /\ Old(p) /\ p \in Nat
  <2>1. snap[r] \in 1..cur
    BY <1>1, <1>i DEF VersionInv
  <2>2. ver[snap[r]] \in [Tables -> Pages]
    BY <2>1, <1>i DEF VersionInv
  <2> QED
    BY <2>1, <2>2, <1>i, Bounds DEF GarbageInv
<1>3. s \in ThreadType /\ s.pc = "get" /\ s.page = p /\ ~s.new /\ Moves(s) = {}
  BY <1>p, <1>2, IdleIs
<1>t. r \in Threads /\ r # Writer
  BY PagesAssumption DEF PagesAssumption, Threads
<1>4. Owns(r, s)'
  <2>1. Seen(p)
    BY <1>2 DEF Old, Seen
  <2>2. snap'[r] # 0 /\ s.page = ver'[snap'[r]][t]
    BY <1>1, <1>3 DEF VersionsStay
  <2> QED
    BY <2>1, <2>2, <1>1, <1>2, <1>3, <1>t DEF Owns, Seen
<1>5. Holds(s)'
  BY <1>3 DEF Holds, Busy, Spilling
<1>6. \A q \in Pages : pool'.pins[q] = Cardinality(Pinners(q)')
  <2>1. th[r].pc # "pinned" /\ s.pc # "pinned" /\ pool'.pins = pool.pins
    BY <1>1, <1>3
  <2> QED
    BY <2>1, <1>1, <1>t, <1>i, PinsKept
<1>7. /\ th[r].pc \notin Spilling /\ s.pc \notin Spilling /\ pool' \in PoolType
      /\ \A y \in Threads \ {r} : Moves(th[y]) \cap Moves(s) = {}
      /\ dropped = {} => ~broken'
  BY <1>1, <1>3, <1>i DEF Spilling, PoolInv, ServedInv
<1>8. TxMoves /\ pool.inflight \ pool'.inflight \subseteq Moves(th[r]) /\ pool'.in = pool.in /\ pool'.dirty = pool.dirty
  BY <1>1 DEF TxMoves
<1> QED
  BY <1>1, <1>3, <1>t, <1>4, <1>5, <1>6, <1>7, <1>8, AdvanceQuiet

\* The claim of a key that nobody moves, or a pin.
LEMMA GetKeeps == ASSUME PagesInv, NEW x \in Threads, Get(x) PROVE PagesInv'
<1>i. VersionInv /\ PoolInv /\ ThreadInv /\ GarbageInv /\ ServedInv /\ TxInv
  BY Parts
<1> DEFINE p == th[x].page
<1>1. /\ th[x].pc = "get" /\ VersionsStay /\ tx' = tx
      /\ UNCHANGED <<dir, file, free, broken, dropped, made, fails>>
  BY DEF Get, versions, disk, marks, bounds, VersionsStay
<1>2. /\ th[x] \in ThreadType /\ Owns(x, th[x]) /\ Holds(th[x])
      /\ pool \in PoolType /\ p \in Pages /\ p \in Nat /\ ~th[x].new
  <2>1. th[x] \in ThreadType /\ Owns(x, th[x]) /\ Holds(th[x]) /\ pool \in PoolType
    BY ThreadFields
  <2>2. p \in Pages /\ ~th[x].new
    BY <2>1, <1>1 DEF Owns, Holds
  <2> QED
    BY <2>1, <2>2, Bounds
<1>3. TxMoves /\ (dropped = {} => ~broken') /\ Moves(th[x]) = {}
  BY <1>1, <1>i DEF TxMoves, ServedInv, Moves, Busy, Spilling
<1>4. CASE p \in pool.in
  <2>p. PICK s : s = [Idle EXCEPT !.pc = "pinned", !.page = p]
    OBVIOUS
  <2>1. pool' = [pool EXCEPT !.pins[p] = pool.pins[p] + 1] /\ th' = [th EXCEPT ![x] = s]
    BY <1>4, <2>p DEF Get, Pinned
  <2>2. s \in ThreadType /\ s.pc = "pinned" /\ s.page = p /\ ~s.new /\ Moves(s) = {}
    BY <2>p, <1>2, IdleIs
  <2>3. /\ pool'.in = pool.in /\ pool'.dirty = pool.dirty /\ pool'.inflight = pool.inflight
        /\ pool'.reclaiming = pool.reclaiming
        /\ pool'.pins = [pool.pins EXCEPT ![p] = pool.pins[p] + 1]
        /\ pool' = [in |-> pool'.in, dirty |-> pool'.dirty, pins |-> pool'.pins,
                    inflight |-> pool'.inflight, reclaiming |-> pool'.reclaiming]
    BY <2>1, <1>2 DEF PoolType
  <2>4. /\ pool'.pins \in [Pages -> Nat]
        /\ \A q \in Pages : pool'.pins[q] = Cardinality(Pinners(q)')
    <3>1. th[x].pc # "pinned"
      BY <1>1
    <3> HIDE DEF p
    <3>2. p \in Pages
      BY <1>2
    <3> QED
      BY <2>1, <2>2, <2>3, <3>1, <3>2, <1>i, PinAdded
  <2>5. pool' \in PoolType
    BY <2>3, <2>4, <1>2 DEF PoolType
  <2>6. Owns(x, s)'
    BY <2>2, <1>1, <1>2 DEF Owns, Seen, VersionsStay
  <2>7. Holds(s)'
    BY <2>2, <2>3, <1>4 DEF Holds, Busy, Spilling
  <2>8. /\ th[x].pc \notin Spilling /\ s.pc \notin Spilling
        /\ \A y \in Threads \ {x} : Moves(th[y]) \cap Moves(s) = {}
        /\ pool.inflight \ pool'.inflight \subseteq Moves(th[x])
    BY <2>2, <2>3, <1>1 DEF Spilling
  <2> QED
    BY <1>1, <1>3, <2>1, <2>2, <2>3, <2>4, <2>5, <2>6, <2>7, <2>8, AdvanceQuiet
<1>5. CASE p \notin pool.in
  <2>p. PICK s : s = [th[x] EXCEPT !.pc = "look"]
    OBVIOUS
  <2>1. /\ pool' = [pool EXCEPT !.inflight = pool.inflight \cup {p}] /\ th' = [th EXCEPT ![x] = s]
        /\ p \notin pool.inflight
    BY <1>5, <2>p DEF Get
  <2>2. s \in ThreadType /\ s.pc = "look" /\ s.page = p /\ ~s.new
    BY <2>p, <1>2 DEF ThreadType
  <2>3. /\ pool'.in = pool.in /\ pool'.dirty = pool.dirty /\ pool'.inflight = pool.inflight \cup {p}
        /\ pool'.pins = pool.pins /\ pool' \in PoolType
    BY <2>1, <1>2 DEF PoolType
  <2>4. \A q \in Pages : pool'.pins[q] = Cardinality(Pinners(q)')
    BY <2>1, <2>2, <2>3, <1>1, <1>i, PinsKept
  <2>6. Owns(x, s)'
    BY <2>2, <1>1, <1>2 DEF Owns, Seen, VersionsStay
  <2>7. Holds(s)'
    BY <2>2, <2>3, <1>5 DEF Holds, Busy, Spilling
  <2>m. Moves(s) = {p}
    BY <2>2 DEF Moves, Busy, Spilling
  <2>8. ASSUME NEW y \in Threads \ {x} PROVE Moves(th[y]) \cap Moves(s) = {}
    <3>1. Owns(y, th[y]) /\ Holds(th[y])
      BY ThreadFields
    <3>2. th[y].pc \in Spilling => th[y].victim # p
      BY <3>1, <2>1 DEF Holds
    <3>3. th[y].pc \in Busy => th[y].page # p
      <4>1. CASE ~th[y].new
        BY <4>1, <3>1, <2>1 DEF Holds
      <4>2. CASE th[y].new /\ th[y].pc \in Busy
        <5>1. y = Writer /\ th[y].page = tx.page /\ tx.stage = "open" /\ tx.page # 0
          BY <4>2, <3>1 DEF Owns, Threads, Busy
        <5>2. Old(p) /\ tx.page = made
          <6>1. x \in Readers
            BY <5>1 DEF Threads
          <6> QED
            BY <6>1, <5>1, <1>1, <1>2, <1>i, AskedAlive DEF TxInv
        <5>3. p < made /\ made \in Nat
          BY <5>1, <5>2, <1>i DEF Old, TxInv
        <5> QED
          BY <5>1, <5>2, <5>3, <1>2
      <4> QED
        BY <4>1, <4>2
    <3> QED
      BY <3>2, <3>3, <2>m DEF Moves
  <2>9. /\ th[x].pc \notin Spilling /\ s.pc \notin Spilling
        /\ pool.inflight \ pool'.inflight \subseteq Moves(th[x])
    BY <2>2, <2>3, <1>1 DEF Spilling
  <2> QED
    BY <1>1, <1>3, <2>1, <2>2, <2>3, <2>4, <2>6, <2>7, <2>8, <2>9, AdvanceQuiet
<1> QED
  BY <1>4, <1>5

\* The page a thread faults is on disk, unless it was lost.
LEMMA FaultFinds ==
  ASSUME PagesInv, NEW x \in Threads, th[x].pc = "look", dropped = {}
  PROVE  dir[th[x].page] # 0
<1>i. PoolInv /\ ThreadInv /\ ServedInv
  BY Parts
<1>1. Owns(x, th[x]) /\ Holds(th[x]) /\ \A y \in Threads \ {x} : Moves(th[y]) \cap Moves(th[x]) = {}
  BY ThreadFields
<1>2. ~th[x].new /\ th[x].page \notin pool.in
  BY <1>1 DEF Holds, Busy
<1>3. x \in Readers \/ tx.page = 0
  BY <1>1, <1>2 DEF Owns, Threads
<1>4. Alive(th[x].page) /\ th[x].page \in Pages
  BY <1>2, <1>3, AskedAlive
<1>5. Served(th[x].page)
  BY <1>4, <1>i DEF ServedInv
<1>6. \A y \in Threads : th[y].pc \in {"write", "point"} => th[y].victim # th[x].page
  <2> SUFFICES ASSUME NEW y \in Threads, th[y].pc \in {"write", "point"}, th[y].victim = th[x].page PROVE FALSE
    OBVIOUS
  <2>1. y # x
    OBVIOUS
  <2>2. th[x].page \in Moves(th[x]) /\ th[y].victim \in Moves(th[y])
    BY DEF Moves, Busy, Spilling
  <2> QED
    BY <2>1, <2>2, <1>1
<1> QED
  BY <1>2, <1>5, <1>6 DEF Served

\* An error: x is idle again, and its commit over if it was the writer's.
LEMMA FailedKeeps ==
  ASSUME PagesInv, VersionsStay, made' = made, NEW x \in Threads, Failed(x), th[x].pc \in Busy \ Spilling,
         pool' \in PoolType, pool'.in = pool.in, pool'.dirty = pool.dirty, pool'.pins = pool.pins,
         pool'.inflight = pool.inflight \ {th[x].page},
         UNCHANGED <<dir, file, free, fails, dropped>>, dropped = {} => ~broken'
  PROVE  PagesInv'
<1>i. PoolInv /\ ThreadInv
  BY Parts
<1>p. PICK s : s = Idle
  OBVIOUS
<1>1. th' = [th EXCEPT ![x] = s] /\ TxMoves /\ (x # Writer => tx' = tx)
  BY <1>p DEF Failed, TxMoves
<1>2. s \in ThreadType /\ s.pc = "idle" /\ Moves(s) = {} /\ Owns(x, s)' /\ Holds(s)'
  <2>1. s \in ThreadType /\ s.pc = "idle" /\ ~s.new /\ Moves(s) = {}
    BY <1>p, IdleIs
  <2> QED
    BY <2>1 DEF Owns, Holds, Busy, Spilling
<1>3. th[x].page \in Moves(th[x])
  BY DEF Moves
<1>4. \A q \in Pages : pool'.pins[q] = Cardinality(Pinners(q)')
  <2>1. th[x].pc # "pinned" /\ s.pc # "pinned"
    BY <1>2 DEF Busy
  <2> QED
    BY <2>1, <1>1, <1>i, PinsKept
<1>5. ~(tx.stage = "open" /\ tx'.stage = "built")
  <2>1. CASE x = Writer
    <3>1. tx' = [tx EXCEPT !.stage = "failed"] /\ tx \in TxType
      BY <2>1, Parts DEF Failed, TxInv
    <3> QED
      BY <3>1 DEF TxType
  <2>2. CASE x # Writer
    BY <2>2, <1>1
  <2> QED
    BY <2>1, <2>2
<1>6. /\ th[x].pc \notin Spilling /\ s.pc \notin Spilling
      /\ \A y \in Threads \ {x} : Moves(th[y]) \cap Moves(s) = {}
      /\ pool.inflight \ pool'.inflight \subseteq Moves(th[x])
  BY <1>2, <1>3 DEF Spilling
<1> QED
  BY <1>1, <1>2, <1>4, <1>5, <1>6, AdvanceQuiet

LEMMA DirNat == ASSUME DiskInv, NEW p \in Pages PROVE dir[p] \in Nat
<1>1. dir[p] \in {0} \cup Extents
  BY DEF DiskInv
<1>2. \A e \in {0} \cup Extents : e \in Nat
  BY Bounds
<1> QED
  BY <1>1, <1>2, Zenon

LEMMA LookKeeps == ASSUME PagesInv, NEW x \in Threads, Look(x) PROVE PagesInv'
<1>i. PoolInv /\ ThreadInv /\ ServedInv /\ DiskInv /\ TxInv
  BY Parts
<1> DEFINE p == th[x].page
           e == dir[p]
<1>1. /\ th[x].pc = "look" /\ VersionsStay /\ UNCHANGED <<dir, file, free, dropped, made, fails>>
  BY DEF Look, versions, disk, marks, bounds, VersionsStay
<1>2. /\ th[x] \in ThreadType /\ Owns(x, th[x]) /\ Holds(th[x]) /\ pool \in PoolType
      /\ \A y \in Threads \ {x} : Moves(th[y]) \cap Moves(th[x]) = {}
  BY ThreadFields
<1>3. p \in Pages /\ ~th[x].new /\ p \notin pool.in /\ p \in pool.inflight
  BY <1>1, <1>2 DEF Owns, Holds, Busy
<1>4. CASE e # 0
  <2>p. PICK s : s = [th[x] EXCEPT !.pc = "read", !.ext = e]
    OBVIOUS
  <2>1. th' = [th EXCEPT ![x] = s] /\ UNCHANGED <<broken, pool, tx>>
    BY <1>4, <2>p DEF Look
  <2>2. s \in ThreadType /\ s.pc = "read" /\ s.page = p /\ ~s.new /\ s.ext = e
    <3>1. e \in Nat
      BY <1>3, <1>i, DirNat
    <3> QED
      BY <2>p, <3>1, <1>2, <1>3 DEF ThreadType
  <2>3. Owns(x, s)'
    <3>1. UNCHANGED <<ver, snap, tx, made>> /\ th[x].pc # "idle" /\ th[x].pc # "pinned"
      BY <2>1, <1>1 DEF VersionsStay
    <3> QED
      BY <3>1, <2>2, <1>2, <1>3, OwnsKept
  <2>4. Holds(s)'
    BY <2>1, <2>2, <1>1, <1>3, <1>4 DEF Holds, Busy, Spilling
  <2>5. Moves(s) = {p} /\ Moves(th[x]) = {p}
    BY <2>2, <1>1 DEF Moves, Busy, Spilling
  <2>6. \A q \in Pages : pool'.pins[q] = Cardinality(Pinners(q)')
    BY <2>1, <2>2, <1>1, <1>i, PinsKept
  <2>7. /\ th[x].pc \notin Spilling /\ s.pc \notin Spilling /\ TxMoves /\ (dropped = {} => ~broken')
        /\ \A y \in Threads \ {x} : Moves(th[y]) \cap Moves(s) = {}
        /\ ~(tx.stage = "open" /\ tx'.stage = "built")
        /\ pool'.in = pool.in /\ pool'.dirty = pool.dirty /\ pool.inflight \ pool'.inflight \subseteq Moves(th[x])
    BY <2>1, <2>2, <2>5, <1>1, <1>2, <1>i DEF Spilling, TxMoves, ServedInv
  <2> QED
    BY <2>1, <2>2, <2>3, <2>4, <2>6, <2>7, <1>1, <1>2, AdvanceQuiet
<1>5. CASE e = 0
  <2>1. pool' = [pool EXCEPT !.inflight = pool.inflight \ {p}] /\ Failed(x)
    BY <1>5 DEF Look
  <2>2. dropped # {}
    BY <1>1, <1>5, FaultFinds
  <2>3. /\ pool' \in PoolType /\ pool'.in = pool.in /\ pool'.dirty = pool.dirty /\ pool'.pins = pool.pins
        /\ pool'.inflight = pool.inflight \ {p}
    BY <2>1, <1>2 DEF PoolType
  <2>4. th[x].pc \in Busy \ Spilling
    BY <1>1 DEF Busy, Spilling
  <2> QED
    BY <2>1, <2>2, <2>3, <2>4, <1>1, FailedKeeps
<1> QED
  BY <1>4, <1>5

\* The extent read is the page's: nobody else wrote to it meanwhile.
LEMMA ReadExtentKeeps == ASSUME PagesInv, NEW x \in Threads, ReadExtent(x) PROVE PagesInv'
<1>i. PoolInv /\ ThreadInv /\ ServedInv /\ DiskInv /\ TxInv
  BY Parts
<1> DEFINE p == th[x].page
<1>p. PICK s : s = [th[x] EXCEPT !.pc = "install", !.ext = 0]
  OBVIOUS
<1>1. /\ th[x].pc = "read" /\ VersionsStay /\ UNCHANGED <<dir, file, free, dropped, made, fails, pool, tx>>
      /\ th' = [th EXCEPT ![x] = s] /\ broken' = (broken \/ file[th[x].ext] # p)
  BY <1>p DEF ReadExtent, versions, disk, marks, bounds, VersionsStay
<1>2. /\ th[x] \in ThreadType /\ Owns(x, th[x]) /\ Holds(th[x]) /\ pool \in PoolType
      /\ \A y \in Threads \ {x} : Moves(th[y]) \cap Moves(th[x]) = {}
  BY ThreadFields
<1>3. p \in Pages /\ ~th[x].new /\ p \notin pool.in /\ p \in pool.inflight /\ dir[p] # 0 /\ th[x].ext = dir[p]
  <2>1. p \in Pages /\ ~th[x].new /\ p \notin pool.in /\ p \in pool.inflight /\ th[x].ext = dir[p]
    BY <1>1, <1>2 DEF Owns, Holds, Busy
  <2>2. dir[p] # 0
    BY <1>1, <1>2, <2>1 DEF Holds, Busy
  <2> QED
    BY <2>1, <2>2
<1>4. file[th[x].ext] = p
  BY <1>3, <1>i DEF DiskInv
<1>5. dropped = {} => ~broken'
  BY <1>1, <1>4, <1>i DEF ServedInv
<1>6. s \in ThreadType /\ s.pc = "install" /\ s.page = p /\ ~s.new
  BY <1>p, <1>2, <1>3 DEF ThreadType
<1>7. Owns(x, s)'
  <2>1. UNCHANGED <<ver, snap, tx, made>> /\ th[x].pc # "idle" /\ th[x].pc # "pinned"
    BY <1>1 DEF VersionsStay
  <2> QED
    BY <2>1, <1>2, <1>3, <1>6, OwnsKept
<1>8. Holds(s)'
  BY <1>1, <1>3, <1>6 DEF Holds, Busy, Spilling
<1>9. Moves(s) = {p} /\ Moves(th[x]) = {p}
  BY <1>1, <1>6 DEF Moves, Busy, Spilling
<1>10. \A q \in Pages : pool'.pins[q] = Cardinality(Pinners(q)')
  BY <1>1, <1>6, <1>i, PinsKept
<1>11. /\ th[x].pc \notin Spilling /\ s.pc \notin Spilling /\ TxMoves
       /\ \A y \in Threads \ {x} : Moves(th[y]) \cap Moves(s) = {}
       /\ ~(tx.stage = "open" /\ tx'.stage = "built")
       /\ pool'.in = pool.in /\ pool'.dirty = pool.dirty /\ pool.inflight \ pool'.inflight \subseteq Moves(th[x])
  BY <1>1, <1>2, <1>6, <1>9 DEF Spilling, TxMoves
<1> QED
  BY <1>1, <1>2, <1>5, <1>6, <1>7, <1>8, <1>10, <1>11, AdvanceQuiet

\* What is on its way is not in the pool.
LEMMA MovesOut ==
  ASSUME PagesInv, NEW x \in Threads
  PROVE  /\ \A p \in Moves(th[x]) : p \notin pool.in /\ p \in Pages
         /\ th[x].pc \in Busy => th[x].page \in Moves(th[x])
         /\ th[x].pc \in Spilling => th[x].victim \in Moves(th[x])
  BY ThreadFields DEF Moves, Owns, Holds, Busy, Spilling

\* The page comes in, with a pin: clean when it was read, dirty when it is new.
LEMMA ArriveKeeps ==
  ASSUME PagesInv, VersionsStay, NEW x \in Threads, th[x].pc = "install", NEW p \in Pages, p = th[x].page,
         NEW s \in ThreadType, s.pc = "pinned", s.page = p, ~s.new, Moves(s) = {}, th' = [th EXCEPT ![x] = s],
         pool' \in PoolType, pool'.in = pool.in \cup {p},
         pool'.dirty = (IF th[x].new THEN pool.dirty \cup {p} ELSE pool.dirty),
         pool'.pins = [pool.pins EXCEPT ![p] = pool.pins[p] + 1],
         pool'.inflight = pool.inflight \ {p},
         UNCHANGED <<tx, dir, file, free, broken, dropped, made, fails>>
  PROVE  PagesInv'
<1>i. PoolInv /\ ThreadInv /\ ServedInv /\ DiskInv
  BY Parts
<1>3. Owns(x, th[x]) /\ Holds(th[x]) /\ p \notin pool.in /\ p \in Moves(th[x])
  BY ThreadFields, MovesOut DEF Busy
<1>4. Owns(x, s)'
  <2>1. UNCHANGED <<ver, snap, tx, made>> /\ th[x].pc # "idle" /\ th[x].pc # "pinned"
    BY DEF VersionsStay
  <2> QED
    BY <2>1, <1>3, OwnsKept
<1>5. Holds(s)'
  BY DEF Holds, Busy, Spilling
<1>6. \A q \in Pages : pool'.pins[q] = Cardinality(Pinners(q)')
  <2>1. th[x].pc # "pinned"
    OBVIOUS
  <2>2. PoolInv /\ ThreadInv
    BY <1>i
  <2> QED
    BY <2>1, <2>2, PinAdded, ZenonT(40)
<1>7. th[x].new <=> dir[p] = 0
  BY <1>3 DEF Holds, Busy
<1>8. pool.dirty \subseteq pool.in /\ \A q \in pool.in : q \in pool.dirty <=> dir[q] = 0
  BY ThreadFields
<1>9. /\ pool'.dirty \subseteq pool'.in
      /\ \A q \in pool'.in : (q \in pool.in \/ q \in Moves(th[x])) /\ (q \in pool'.dirty <=> dir'[q] = 0)
  <2>1. pool'.dirty \subseteq pool.dirty \cup {p} /\ pool.dirty \subseteq pool'.dirty
    OBVIOUS
  <2>2. p \in pool'.dirty <=> dir[p] = 0
    BY <1>3, <1>7, <1>8
  <2> QED
    BY <2>1, <2>2, <1>3, <1>8
<1>10. \A q : Seen(q) => Seen(q)'
  BY DEF Seen
<1>11. th[x].pc # "point" /\ s.pc # "point" /\ th[x].pc \notin Spilling
  BY DEF Spilling
<1>12. DiskInv'
  BY <1>10, <1>11, <1>i, DiskKept
<1>13. /\ \A y \in Threads \ {x} : Moves(th[y]) \cap Moves(s) = {}
       /\ pool.in \ pool'.in = {} /\ pool.inflight \ pool'.inflight \subseteq Moves(th[x])
       /\ (dropped' = {} => ~broken') /\ TxMoves /\ ~(tx.stage = "open" /\ tx'.stage = "built")
  BY <1>3, <1>i DEF ServedInv, TxMoves
<1>14. /\ \A q \in Pages : dir'[q] = dir[q]
       /\ \A e \in Extents \ free : file'[e] = file[e]
       /\ free' \subseteq free /\ dropped \subseteq dropped'
  OBVIOUS
<1> QED
  BY <1>4, <1>5, <1>6, <1>9, <1>11, <1>12, <1>13, <1>14, Advance

\* A page goes: a dirty one into the hands of x, a clean one is on disk.
LEMMA EvictKeeps ==
  ASSUME PagesInv, VersionsStay, NEW x \in Threads, th[x].pc = "install", NEW v \in Victims,
         NEW s \in ThreadType, th' = [th EXCEPT ![x] = s], s.page = th[x].page, s.new <=> th[x].new,
         \/ v \in pool.dirty /\ s.pc = "write" /\ s.victim = v /\ pool'.inflight = pool.inflight \cup {v}
         \/ v \notin pool.dirty /\ s.pc = "install" /\ pool'.inflight = pool.inflight,
         pool' \in PoolType, pool'.in = pool.in \ {v}, pool'.dirty = pool.dirty \ {v}, pool'.pins = pool.pins,
         UNCHANGED <<tx, dir, file, free, broken, dropped, made, fails>>
  PROVE  PagesInv'
<1>i. PoolInv /\ ThreadInv /\ ServedInv /\ DiskInv
  BY Parts
<1>0. v \in pool.in /\ pool.pins[v] = 0
  BY DEF Victims
<1>1. Owns(x, th[x]) /\ Holds(th[x]) /\ th[x].page \notin pool.in /\ th[x].page \in Moves(th[x])
  BY ThreadFields, MovesOut DEF Busy
<1>2. pool.dirty \subseteq pool.in /\ \A q \in pool.in : q \in pool.dirty <=> dir[q] = 0
  BY ThreadFields
<1>3. Owns(x, s)'
  <2>1. UNCHANGED <<ver, snap, tx, made>> /\ th[x].pc # "idle" /\ th[x].pc # "pinned"
    BY DEF VersionsStay
  <2> QED
    BY <2>1, <1>1, OwnsKept
<1>4. \A q : Seen(q) => Seen(q)'
  BY DEF Seen
<1>5. Holds(s)'
  <2>1. /\ s.page \notin pool'.in /\ (s.new \/ s.page \in pool'.inflight)
        /\ (s.new <=> dir'[s.page] = 0) /\ s.pc \in {"install", "write"}
    BY <1>1 DEF Holds, Busy
  <2>2. ASSUME s.pc = "write"
        PROVE  /\ s.victim \in Pages /\ Seen(s.victim)' /\ s.victim # s.page
               /\ s.victim \notin pool'.in /\ s.victim \in pool'.inflight /\ dir'[s.victim] = 0
    <3>1. s.victim = v /\ v \in pool.dirty /\ v \in pool'.inflight
      BY <2>2
    <3>2. v \in Pages /\ Seen(v)
      BY <1>0, <1>i DEF PoolInv, PoolType
    <3>3. dir[v] = 0 /\ v # s.page
      BY <3>1, <1>0, <1>1, <1>2
    <3>4. Seen(v)'
      BY <3>2, <1>4
    <3> QED
      BY <3>1, <3>2, <3>3, <3>4 DEF Seen
  <2> QED
    BY <2>1, <2>2 DEF Holds, Busy, Spilling
<1>6. \A q \in Pages : pool'.pins[q] = Cardinality(Pinners(q)')
  <2>1. th[x].pc # "pinned" /\ s.pc # "pinned"
    OBVIOUS
  <2> QED
    BY <2>1, <1>i, PinsKept
<1>7. ASSUME NEW y \in Threads \ {x} PROVE Moves(th[y]) \cap Moves(s) = {}
  <2>1. Moves(s) \subseteq {th[x].page, v}
    BY DEF Moves, Spilling
  <2>2. v \notin Moves(th[y]) /\ Moves(th[y]) \cap Moves(th[x]) = {}
    BY <1>0, MovesOut, ThreadFields
  <2> QED
    BY <2>1, <2>2, <1>1
<1>8. /\ pool'.dirty \subseteq pool'.in
      /\ \A q \in pool'.in : (q \in pool.in \/ q \in Moves(th[x])) /\ (q \in pool'.dirty <=> dir'[q] = 0)
  BY <1>2
<1>9. \A q \in pool.in \ pool'.in : pool.pins[q] = 0 /\ ((s.pc \in Spilling /\ s.victim = q) \/ dir[q] # 0)
  BY <1>0, <1>2 DEF Spilling
<1>10. th[x].pc # "point" /\ s.pc # "point" /\ th[x].pc \notin Spilling
  BY DEF Spilling
<1>11. DiskInv'
  BY <1>4, <1>10, <1>i, DiskKept
<1>12. /\ pool.inflight \ pool'.inflight \subseteq Moves(th[x])
       /\ (dropped' = {} => ~broken') /\ TxMoves /\ ~(tx.stage = "open" /\ tx'.stage = "built")
  BY <1>i DEF ServedInv, TxMoves
<1>13. /\ \A q \in Pages : dir'[q] = dir[q]
       /\ \A e \in Extents \ free : file'[e] = file[e]
       /\ free' \subseteq free /\ dropped \subseteq dropped'
  OBVIOUS
<1> QED
  BY <1>3, <1>5, <1>6, <1>7, <1>8, <1>9, <1>10, <1>11, <1>12, <1>13, Advance

LEMMA InstallKeeps == ASSUME PagesInv, NEW x \in Threads, Install(x) PROVE PagesInv'
<1> DEFINE p == th[x].page
<1>1. /\ th[x].pc = "install" /\ VersionsStay /\ UNCHANGED <<dir, file, free, broken, dropped, made, fails>>
  BY DEF Install, disk, marks, bounds, VersionsStay
<1>2. /\ th[x] \in ThreadType /\ pool \in PoolType /\ pool.dirty \subseteq pool.in
      /\ p \in Pages /\ p \notin pool.in
  BY <1>1, ThreadFields, MovesOut DEF Busy
<1>b. Reclaiming \in BOOLEAN
  BY <1>2 DEF Reclaiming, PoolType
<1>3. ASSUME pool' = [pool EXCEPT !.in = @ \cup {p}, !.pins[p] = @ + 1,
                                  !.dirty = IF th[x].new THEN @ \cup {p} ELSE @,
                                  !.inflight = @ \ {p},
                                  !.reclaiming = IF p \in pool.in THEN @ ELSE FALSE],
             Pinned(x, p), UNCHANGED tx
      PROVE  PagesInv'
  <2>1. /\ pool'.in = pool.in \cup {p} /\ pool'.inflight = pool.inflight \ {p} /\ pool'.reclaiming = FALSE
        /\ pool'.dirty = (IF th[x].new THEN pool.dirty \cup {p} ELSE pool.dirty)
        /\ pool'.pins = [pool.pins EXCEPT ![p] = pool.pins[p] + 1]
        /\ pool' = [in |-> pool'.in, dirty |-> pool'.dirty, pins |-> pool'.pins,
                    inflight |-> pool'.inflight, reclaiming |-> pool'.reclaiming]
    BY <1>2, <1>3 DEF PoolType
  <2>2. pool.pins \in [Pages -> Nat] /\ pool.in \subseteq Pages /\ pool.dirty \subseteq Pages /\ pool.inflight \subseteq Pages
    BY <1>2 DEF PoolType
  <2>3. pool'.pins \in [Pages -> Nat]
    <3>1. pool.pins[p] + 1 \in Nat
      BY <2>2, <1>2
    <3> QED
      BY <2>1, <2>2, <3>1
  <2>4. pool'.in \subseteq Pages /\ pool'.dirty \subseteq Pages /\ pool'.inflight \subseteq Pages
    BY <2>1, <2>2, <1>2
  <2>5. pool' \in PoolType
    BY <2>1, <2>3, <2>4 DEF PoolType
  <2>p. PICK s : s = [Idle EXCEPT !.pc = "pinned", !.page = p]
    OBVIOUS
  <2>6. th' = [th EXCEPT ![x] = s] /\ tx' = tx /\ p \in Nat
    BY <1>2, <1>3, <2>p, Bounds DEF Pinned
  <2>7. s \in ThreadType /\ s.pc = "pinned" /\ s.page = p /\ ~s.new /\ Moves(s) = {}
    BY <2>p, <2>6, IdleIs
  <2> QED
    BY <1>1, <1>2, <2>1, <2>5, <2>6, <2>7, ArriveKeeps
<1>4. ASSUME NEW v \in Victims, v \in pool.dirty, UNCHANGED tx,
             pool' = [pool EXCEPT !.in = @ \ {v}, !.dirty = @ \ {v}, !.inflight = @ \cup {v},
                                  !.reclaiming = Reclaiming],
             th' = [th EXCEPT ![x].pc = "write", ![x].victim = v]
      PROVE  PagesInv'
  <2>0. v \in Pages /\ v \in Nat
    BY <1>2, Bounds DEF Victims, PoolType
  <2>p. PICK s : s = [th[x] EXCEPT !.pc = "write", !.victim = v]
    OBVIOUS
  <2>1. th' = [th EXCEPT ![x] = s]
    BY <1>4, <2>p, Parts DEF ThreadInv
  <2>2. s \in ThreadType /\ s.pc = "write" /\ s.victim = v /\ s.page = p /\ (s.new <=> th[x].new)
    BY <2>0, <2>p, <1>2 DEF ThreadType
  <2>3. /\ pool'.in = pool.in \ {v} /\ pool'.dirty = pool.dirty \ {v} /\ pool'.pins = pool.pins
        /\ pool'.inflight = pool.inflight \cup {v} /\ pool' \in PoolType
    BY <1>2, <1>4, <1>b, <2>0 DEF PoolType
  <2>4. v \in pool.dirty /\ s.pc = "write" /\ s.victim = v /\ pool'.inflight = pool.inflight \cup {v}
    BY <1>4, <2>2, <2>3
  <2>5. VersionsStay /\ th[x].pc = "install" /\ UNCHANGED <<tx, dir, file, free, broken, dropped, made, fails>>
    BY <1>1, <1>4
  <2>6. s.page = th[x].page
    BY <2>2
  <2> HIDE DEF p
  <2> QED
    BY <2>1, <2>2, <2>3, <2>4, <2>5, <2>6, EvictKeeps
<1>5. ASSUME NEW v \in Victims, v \notin pool.dirty, UNCHANGED <<tx, th>>,
             pool' = [pool EXCEPT !.in = @ \ {v}, !.reclaiming = Reclaiming]
      PROVE  PagesInv'
  <2>p. PICK s : s = th[x]
    OBVIOUS
  <2>1. th' = [th EXCEPT ![x] = s]
    BY <1>5, <2>p, Parts DEF ThreadInv
  <2>2. s \in ThreadType /\ s.pc = "install" /\ s.page = p /\ (s.new <=> th[x].new)
    BY <2>p, <1>1, <1>2
  <2>3. /\ pool'.in = pool.in \ {v} /\ pool'.dirty = pool.dirty /\ pool'.pins = pool.pins
        /\ pool'.inflight = pool.inflight /\ pool' \in PoolType
    BY <1>2, <1>5, <1>b DEF PoolType
  <2>4. pool'.dirty = pool.dirty \ {v} /\ tx' = tx
    BY <2>3, <1>5
  <2> QED
    BY <1>1, <1>5, <2>1, <2>2, <2>3, <2>4, EvictKeeps
<1>6. ASSUME pool' = [pool EXCEPT !.inflight = @ \ {p}, !.reclaiming = Reclaiming], Failed(x)
      PROVE  PagesInv'
  <2>1. /\ pool'.in = pool.in /\ pool'.dirty = pool.dirty /\ pool'.pins = pool.pins
        /\ pool'.inflight = pool.inflight \ {p} /\ pool' \in PoolType
    BY <1>2, <1>6, <1>b DEF PoolType
  <2>2. th[x].pc \in Busy \ Spilling /\ (dropped = {} => ~broken')
    BY <1>1, Parts DEF Busy, Spilling, ServedInv
  <2> QED
    BY <1>1, <1>6, <2>1, <2>2, FailedKeeps
<1> QED
  BY <1>3, <1>4, <1>5, <1>6 DEF Install

-----------------------------------------------------------------------------
(* Spills.                                                                 *)

\* A spill finds an extent: the file has one for every page, and one for every
\* write that may fail.
LEMMA SpillRoom ==
  ASSUME PagesInv, NEW x \in Threads, th[x].pc = "write"
  PROVE  /\ IsFiniteSet(Stored) /\ IsFiniteSet(free) /\ th[x].victim \notin Stored
         /\ Min(free) \in free /\ Min(free) \in Extents
<1>i. ThreadInv /\ DiskInv
  BY Parts
<1>1. Holds(th[x]) /\ \A y \in Threads \ {x} : Moves(th[y]) \cap Moves(th[x]) = {}
  BY ThreadFields
<1>2. th[x].victim \in Pages /\ dir[th[x].victim] = 0 /\ th[x].victim \in Moves(th[x])
  BY <1>1, MovesOut DEF Holds, Spilling
<1>3. th[x].victim \notin Stored
  <2>1. \A y \in Threads : ~(th[y].pc = "point" /\ th[y].victim = th[x].victim)
    <3> SUFFICES ASSUME NEW y \in Threads, th[y].pc = "point", th[y].victim = th[x].victim PROVE FALSE
      OBVIOUS
    <3>1. y # x /\ th[y].victim \in Moves(th[y])
      BY MovesOut DEF Spilling
    <3> QED
      BY <3>1, <1>1, <1>2
  <2> QED
    BY <2>1, <1>2 DEF Stored
<1> DEFINE S == Stored \cup {th[x].victim}
<1>4. S \subseteq Pages /\ Stored \subseteq Pages
  BY <1>2 DEF Stored
<1>5. /\ IsFiniteSet(Stored) /\ Cardinality(Stored) \in Nat
      /\ IsFiniteSet(S) /\ Cardinality(S) = Cardinality(Stored) + 1 /\ Cardinality(S) <= Cardinality(Pages)
  <2>1. IsFiniteSet(Stored)
    BY <1>4, Bounds, FS_Subset
  <2>2. Cardinality(S) = Cardinality(Stored) + 1
    BY <2>1, <1>3, FS_AddElement
  <2>3. IsFiniteSet(S) /\ Cardinality(S) <= Cardinality(Pages)
    <3> HIDE DEF S
    <3> QED
      BY <1>4, Bounds, FS_Subset
  <2> QED
    BY <2>1, <2>2, <2>3, FS_CardinalityType
<1>6. free \subseteq Extents /\ free \subseteq Nat /\ IsFiniteSet(free) /\ Cardinality(free) \in Nat
  <2>1. free \subseteq Extents
    BY <1>i DEF DiskInv
  <2> QED
    BY <2>1, Bounds, FS_Subset, FS_CardinalityType
<1>7. Cardinality(free) # 0
  <2>1. /\ Cardinality(free) + Cardinality(Stored) + fails = Cardinality(Pages) + MaxFails
        /\ fails \in 0..MaxFails
    BY <1>i, Bounds DEF DiskInv
  <2>2. Cardinality(Stored) + 1 <= Cardinality(Pages) /\ Cardinality(Pages) \in Nat /\ MaxFails \in Nat
    BY <1>5, Bounds
  <2> QED
    BY <2>1, <2>2, <1>5, <1>6
<1>8. free # {}
  BY <1>7, FS_EmptySet
<1> QED
  BY <1>3, <1>5, <1>6, <1>8, MinIs

LEMMA SpillWriteKeeps == ASSUME PagesInv, NEW x \in Threads, SpillWrite(x) PROVE PagesInv'
<1>i. PoolInv /\ ThreadInv /\ ServedInv /\ DiskInv
  BY Parts
<1> DEFINE p == th[x].page
           v == th[x].victim
<1>e. PICK e : e = Min(free)
  OBVIOUS
<1>p. PICK s : s = [th[x] EXCEPT !.pc = "point", !.ext = e]
  OBVIOUS
<1>1. /\ th[x].pc = "write" /\ VersionsStay
      /\ UNCHANGED <<tx, pool, dir, broken, dropped, made, fails>>
      /\ th' = [th EXCEPT ![x] = s] /\ free' = free \ {e} /\ file' = [file EXCEPT ![e] = v]
  BY <1>e, <1>p, <1>i DEF SpillWrite, versions, marks, bounds, VersionsStay, ThreadInv
<1>2. IsFiniteSet(Stored) /\ IsFiniteSet(free) /\ v \notin Stored /\ e \in free /\ e \in Extents /\ e \in Nat
  BY <1>1, <1>e, SpillRoom, Bounds
<1>3. /\ th[x] \in ThreadType /\ Owns(x, th[x]) /\ Holds(th[x]) /\ pool \in PoolType
      /\ \A y \in Threads \ {x} : Moves(th[y]) \cap Moves(th[x]) = {}
  BY ThreadFields
<1>4. s \in ThreadType /\ s.pc = "point" /\ s.page = p /\ (s.new <=> th[x].new) /\ s.victim = v /\ s.ext = e
  BY <1>p, <1>2, <1>3 DEF ThreadType
<1>5. DOMAIN file = Extents /\ file'[e] = v /\ DOMAIN file' = Extents /\ \A f \in Extents \ free : file'[f] = file[f]
  BY <1>1, <1>2, <1>i DEF DiskInv
<1>6. Owns(x, s)'
  <2>1. UNCHANGED <<ver, snap, tx, made>> /\ th[x].pc # "idle" /\ th[x].pc # "pinned"
    BY <1>1 DEF VersionsStay
  <2> QED
    BY <2>1, <1>3, <1>4, OwnsKept
<1>s. \A q : Seen(q) => Seen(q)'
  BY <1>1 DEF Seen
<1>7. Holds(s)'
  <2>1. /\ p \notin pool.in /\ (th[x].new \/ p \in pool.inflight) /\ (th[x].new <=> dir[p] = 0)
        /\ v \in Pages /\ Seen(v) /\ v # p
        /\ v \notin pool.in /\ v \in pool.inflight /\ dir[v] = 0
    BY <1>1, <1>3 DEF Holds, Busy, Spilling
  <2>2. Seen(s.victim)'
    BY <2>1, <1>1, <1>4 DEF Seen
  <2>3. s.ext \in Extents \ free' /\ file'[s.ext] = s.victim
    BY <1>1, <1>2, <1>4, <1>5
  <2> QED
    BY <2>1, <2>2, <2>3, <1>1, <1>4 DEF Holds, Busy, Spilling
<1>8. Moves(s) = Moves(th[x])
  BY <1>1, <1>4 DEF Moves, Busy, Spilling
<1>9. \A q \in Pages : pool'.pins[q] = Cardinality(Pinners(q)')
  <2>1. th[x].pc # "pinned" /\ s.pc # "pinned" /\ pool'.pins = pool.pins
    BY <1>1, <1>4
  <2> QED
    BY <2>1, <1>1, <1>i, PinsKept
<1>10. DiskInv'
  <2>1. Stored' = Stored \cup {v}
    <3>1. th'[x] = s /\ \A y \in Threads : y # x => th'[y] = th[y]
      BY <1>1, <1>i DEF ThreadInv
    <3>2. dir' = dir /\ v \in Pages /\ th[x].pc # "point"
      BY <1>1, <1>3 DEF Holds, Spilling
    <3> QED
      BY <3>1, <3>2, <1>4 DEF Stored
  <2>2. Cardinality(Stored') = Cardinality(Stored) + 1 /\ Cardinality(Stored) \in Nat
    BY <2>1, <1>2, FS_AddElement, FS_CardinalityType
  <2>3. Cardinality(free') = Cardinality(free) - 1 /\ Cardinality(free) \in Nat
    BY <1>1, <1>2, FS_RemoveElement, FS_CardinalityType
  <2>4. fails \in 0..MaxFails /\ Cardinality(free) + Cardinality(Stored) + fails = Cardinality(Extents) /\ MaxFails \in Nat
    BY <1>i, Bounds DEF DiskInv
  <2>5. Cardinality(free') + Cardinality(Stored') + fails = Cardinality(Extents)
    BY <2>2, <2>3, <2>4
  <2>6. \A q \in Pages : dir[q] # 0 => file'[dir[q]] = q /\ dir[q] \notin free' /\ Seen(q)'
    <3>1. \A q \in Pages : dir[q] # 0 => dir[q] \in Extents \ free /\ file[dir[q]] = q /\ Seen(q)
      BY <1>i DEF DiskInv
    <3> QED
      BY <3>1, <1>1, <1>5, <1>s
  <2>7. dir \in [Pages -> {0} \cup Extents] /\ free' \subseteq Extents
    BY <1>1, <1>i DEF DiskInv
  <2>8. dir' = dir /\ fails' = fails
    BY <1>1
  <2> QED
    BY <2>4, <2>5, <2>6, <2>7, <2>8, <1>5 DEF DiskInv
<1>11. /\ pool' \in PoolType /\ pool'.dirty \subseteq pool'.in
       /\ \A q \in pool'.in : (q \in pool.in \/ q \in Moves(th[x])) /\ (q \in pool'.dirty <=> dir'[q] = 0)
  BY <1>1, <1>3, ThreadFields
<1>12. /\ \A y \in Threads \ {x} : Moves(th[y]) \cap Moves(s) = {}
       /\ pool.in \ pool'.in = {} /\ pool.inflight \ pool'.inflight \subseteq Moves(th[x])
       /\ s.pc \in Spilling /\ s.victim = th[x].victim
  BY <1>1, <1>3, <1>4, <1>8 DEF Spilling
<1>13. /\ \A q \in Pages : dir'[q] = dir[q]
       /\ free' \subseteq free /\ dropped \subseteq dropped' /\ made' = made
       /\ (dropped' = {} => ~broken') /\ TxMoves /\ tx' = tx /\ ~(tx.stage = "open" /\ tx'.stage = "built")
  BY <1>1, <1>i DEF ServedInv, TxMoves
<1> QED
  BY <1>1, <1>4, <1>5, <1>6, <1>7, <1>9, <1>10, <1>11, <1>12, <1>13, Advance

\* The victim had no extent, so nothing is freed; from here on it has one.
LEMMA SpillPointKeeps == ASSUME PagesInv, NEW x \in Threads, SpillPoint(x) PROVE PagesInv'
<1>i. PoolInv /\ ThreadInv /\ ServedInv /\ DiskInv
  BY Parts
<1> DEFINE p == th[x].page
           v == th[x].victim
           e == th[x].ext
<1>p. PICK s : s = [th[x] EXCEPT !.pc = "install", !.victim = 0, !.ext = 0]
  OBVIOUS
<1>1. /\ th[x].pc = "point" /\ VersionsStay
      /\ UNCHANGED <<tx, file, broken, dropped, made, fails>>
      /\ th' = [th EXCEPT ![x] = s] /\ dir' = [dir EXCEPT ![v] = e]
      /\ pool' = [pool EXCEPT !.inflight = pool.inflight \ {v}]
  BY <1>p, <1>i DEF SpillPoint, versions, marks, bounds, VersionsStay, ThreadInv
<1>2. /\ th[x] \in ThreadType /\ Owns(x, th[x]) /\ Holds(th[x]) /\ pool \in PoolType
      /\ \A y \in Threads \ {x} : Moves(th[y]) \cap Moves(th[x]) = {}
  BY ThreadFields
<1>3. /\ p \notin pool.in /\ (th[x].new \/ p \in pool.inflight) /\ (th[x].new <=> dir[p] = 0)
      /\ v \in Pages /\ Seen(v) /\ v # p
      /\ v \notin pool.in /\ v \in pool.inflight /\ dir[v] = 0
      /\ e \in Extents \ free /\ file[e] = v /\ e # 0
  <2>1. e \in Extents \ free /\ file[e] = v
    BY <1>1, <1>2 DEF Holds
  <2>2. e # 0
    BY <2>1, Bounds
  <2> QED
    BY <2>1, <2>2, <1>1, <1>2 DEF Holds, Busy, Spilling
<1>4. free' = free
  BY <1>3 DEF SpillPoint
<1>5. s \in ThreadType /\ s.pc = "install" /\ s.page = p /\ (s.new <=> th[x].new)
  BY <1>p, <1>2 DEF ThreadType
<1>6. dir \in [Pages -> {0} \cup Extents] /\ dir'[v] = e /\ \A q \in Pages : q # v => dir'[q] = dir[q]
  BY <1>1, <1>3, <1>i DEF DiskInv
<1>7. Owns(x, s)' /\ p \in Pages
  <2>1. UNCHANGED <<ver, snap, tx, made>> /\ th[x].pc # "idle" /\ th[x].pc # "pinned"
    BY <1>1 DEF VersionsStay
  <2> QED
    BY <2>1, <1>2, <1>5, OwnsKept DEF Owns
<1>s. \A q : Seen(q) => Seen(q)'
  BY <1>1 DEF Seen
<1>8. /\ pool'.in = pool.in /\ pool'.dirty = pool.dirty /\ pool'.pins = pool.pins
      /\ pool'.inflight = pool.inflight \ {v} /\ pool' \in PoolType
  BY <1>1, <1>2 DEF PoolType
<1>9. Holds(s)'
  <2>1. dir'[p] = dir[p]
    BY <1>3, <1>6, <1>7
  <2> QED
    BY <2>1, <1>3, <1>5, <1>8 DEF Holds, Busy, Spilling
<1>10. Moves(s) \subseteq Moves(th[x]) /\ v \in Moves(th[x])
  BY <1>1, <1>5 DEF Moves, Busy, Spilling
<1>11. \A q \in Pages : pool'.pins[q] = Cardinality(Pinners(q)')
  <2>1. th[x].pc # "pinned" /\ s.pc # "pinned"
    BY <1>1, <1>5
  <2> QED
    BY <2>1, <1>1, <1>8, <1>i, PinsKept
<1>12. DiskInv'
  <2>1. Stored' = Stored
    <3>1. th'[x] = s /\ \A y \in Threads : y # x => th'[y] = th[y]
      BY <1>1, <1>i DEF ThreadInv
    <3> QED
      BY <3>1, <1>1, <1>3, <1>5, <1>6 DEF Stored
  <2>2. fails \in 0..MaxFails /\ Cardinality(free) + Cardinality(Stored) + fails = Cardinality(Extents)
    BY <1>i DEF DiskInv
  <2>3. \A q \in Pages : dir'[q] # 0 => file[dir'[q]] = q /\ dir'[q] \notin free /\ Seen(q)'
    <3>1. \A q \in Pages : dir[q] # 0 => dir[q] \notin free /\ file[dir[q]] = q /\ Seen(q)
      BY <1>i DEF DiskInv
    <3> QED
      BY <3>1, <1>3, <1>6, <1>s
  <2>4. dir' \in [Pages -> {0} \cup Extents] /\ free \subseteq Extents /\ DOMAIN file = Extents
    BY <1>1, <1>3, <1>6, <1>i DEF DiskInv
  <2>5. fails' = fails /\ file' = file
    BY <1>1
  <2> QED
    BY <2>1, <2>2, <2>3, <2>4, <2>5, <1>4 DEF DiskInv
<1>13. /\ pool'.dirty \subseteq pool'.in
       /\ \A q \in pool'.in : (q \in pool.in \/ q \in Moves(th[x])) /\ (q \in pool'.dirty <=> dir'[q] = 0)
  <2>1. pool.dirty \subseteq pool.in /\ (\A q \in pool.in : q \in pool.dirty <=> dir[q] = 0) /\ pool.in \subseteq Pages
    BY <1>2, ThreadFields DEF PoolType
  <2> QED
    BY <2>1, <1>3, <1>6, <1>8
<1>14. /\ \A y \in Threads \ {x} : Moves(th[y]) \cap Moves(s) = {}
       /\ pool.in \ pool'.in = {} /\ pool.inflight \ pool'.inflight \subseteq Moves(th[x])
       /\ dir'[th[x].victim] # 0 /\ file'[dir'[th[x].victim]] = th[x].victim /\ dir'[th[x].victim] \notin free'
  BY <1>1, <1>2, <1>3, <1>4, <1>6, <1>8, <1>10
<1>15. /\ \A q \in Pages : dir'[q] = dir[q] \/ (q \in Moves(th[x]) /\ dir[q] = 0)
       /\ \A f \in Extents \ free : file'[f] = file[f]
       /\ free' \subseteq free /\ dropped \subseteq dropped' /\ made' = made
       /\ (dropped' = {} => ~broken') /\ TxMoves /\ tx' = tx /\ ~(tx.stage = "open" /\ tx'.stage = "built")
  BY <1>1, <1>3, <1>4, <1>6, <1>10, <1>i DEF ServedInv, TxMoves
<1> QED
  BY <1>1, <1>5, <1>7, <1>8, <1>9, <1>11, <1>12, <1>13, <1>14, <1>15, Advance

\* A failed write: its extent is lost, and the victim back or lost.
LEMMA SpillFailsKeeps == ASSUME PagesInv, NEW x \in Threads, SpillFails(x) PROVE PagesInv'
<1>i. PoolInv /\ ThreadInv /\ ServedInv /\ DiskInv /\ TxInv
  BY Parts
<1> DEFINE p == th[x].page
           v == th[x].victim
<1>e. PICK e : e = Min(free)
  OBVIOUS
<1>b. PICK back \in BOOLEAN : back <=> Occupied < Frames
  OBVIOUS
<1>p. PICK s : s = Idle
  OBVIOUS
<1>1. /\ th[x].pc = "write" /\ VersionsStay /\ UNCHANGED <<dir, file, broken, made>>
      /\ fails < MaxFails /\ fails' = fails + 1 /\ free' = free \ {e}
      /\ dropped' = (IF back THEN dropped ELSE dropped \cup {v})
      /\ th' = [th EXCEPT ![x] = s] /\ tx' = IF x = Writer THEN [tx EXCEPT !.stage = "failed"] ELSE tx
  BY <1>e, <1>b, <1>p DEF SpillFails, Failed, VersionsStay
<1>2. IsFiniteSet(Stored) /\ IsFiniteSet(free) /\ e \in free
  BY <1>1, <1>e, SpillRoom
<1>3. /\ pool \in PoolType /\ v \in Pages /\ v \notin pool.in /\ dir[v] = 0
      /\ p \in Moves(th[x]) /\ v \in Moves(th[x]) /\ pool.dirty \subseteq pool.in
      /\ \A q \in pool.in : q \in pool.dirty <=> dir[q] = 0
  BY <1>1, ThreadFields, MovesOut DEF Holds, Busy, Spilling
<1>4. pool' = [pool EXCEPT !.in = IF back THEN pool.in \cup {v} ELSE pool.in,
                           !.dirty = IF back THEN pool.dirty \cup {v} ELSE pool.dirty,
                           !.inflight = pool.inflight \ {v, p}]
  BY <1>b, <1>3 DEF SpillFails, PoolType
<1>5. /\ pool'.in = (IF back THEN pool.in \cup {v} ELSE pool.in)
      /\ pool'.dirty = (IF back THEN pool.dirty \cup {v} ELSE pool.dirty)
      /\ pool'.inflight = pool.inflight \ {v, p} /\ pool'.pins = pool.pins /\ pool' \in PoolType
  BY <1>3, <1>4 DEF PoolType
<1>6. s \in ThreadType /\ s.pc = "idle" /\ Moves(s) = {} /\ Owns(x, s)' /\ Holds(s)'
  <2>1. s \in ThreadType /\ s.pc = "idle" /\ ~s.new /\ Moves(s) = {}
    BY <1>p, IdleIs
  <2> QED
    BY <2>1 DEF Owns, Holds, Busy, Spilling
<1>7. TxMoves /\ (x # Writer => tx' = tx) /\ ~(tx.stage = "open" /\ tx'.stage = "built")
  <2>1. tx \in TxType
    BY <1>i DEF TxInv
  <2> QED
    BY <2>1, <1>1 DEF TxMoves, TxType
<1>s. \A q : Seen(q) => Seen(q)'
  BY <1>1, <1>7, TxKeeps
<1>8. \A q \in Pages : pool'.pins[q] = Cardinality(Pinners(q)')
  <2>1. th[x].pc # "pinned" /\ s.pc # "pinned"
    BY <1>1, <1>6
  <2> QED
    BY <2>1, <1>1, <1>5, <1>i, PinsKept
<1>9. DiskInv'
  <2>1. Stored' = Stored
    <3>1. th'[x] = s /\ (\A y \in Threads : y # x => th'[y] = th[y]) /\ th[x].pc # "point" /\ s.pc # "point" /\ dir' = dir
      BY <1>1, <1>6, <1>i DEF ThreadInv
    <3> QED
      BY <3>1 DEF Stored
  <2>2. Cardinality(free') = Cardinality(free) - 1 /\ Cardinality(free) \in Nat /\ Cardinality(Stored) \in Nat
    BY <1>1, <1>2, FS_RemoveElement, FS_CardinalityType
  <2>3. fails \in 0..MaxFails /\ Cardinality(free) + Cardinality(Stored) + fails = Cardinality(Extents) /\ MaxFails \in Nat
    BY <1>i, Bounds DEF DiskInv
  <2>4. Cardinality(free') + Cardinality(Stored) + fails' = Cardinality(Extents) /\ fails' \in 0..MaxFails
    BY <2>2, <2>3, <1>1
  <2>5. \A q \in Pages : dir[q] # 0 => file[dir[q]] = q /\ dir[q] \notin free' /\ Seen(q)'
    BY <1>1, <1>s, <1>i DEF DiskInv
  <2>6. dir \in [Pages -> {0} \cup Extents] /\ free' \subseteq Extents /\ DOMAIN file = Extents
    BY <1>1, <1>i DEF DiskInv
  <2>7. dir' = dir /\ file' = file
    BY <1>1
  <2> QED
    BY <2>1, <2>4, <2>5, <2>6, <2>7 DEF DiskInv
<1>10. /\ pool'.dirty \subseteq pool'.in
       /\ \A q \in pool'.in : (q \in pool.in \/ q \in Moves(th[x])) /\ (q \in pool'.dirty <=> dir'[q] = 0)
  <2>1. dir' = dir
    BY <1>1
  <2> QED
    BY <2>1, <1>3, <1>5
<1>11. /\ \A y \in Threads \ {x} : Moves(th[y]) \cap Moves(s) = {}
       /\ pool.in \ pool'.in = {} /\ pool.inflight \ pool'.inflight \subseteq Moves(th[x])
       /\ th[x].victim \in dropped' \/ th[x].victim \in pool'.in
  BY <1>1, <1>3, <1>5, <1>6
<1>12. /\ \A q \in Pages : dir'[q] = dir[q]
       /\ \A f \in Extents \ free : file'[f] = file[f]
       /\ free' \subseteq free /\ dropped \subseteq dropped' /\ made' = made
       /\ (dropped' = {} => ~broken')
  BY <1>1, <1>i DEF ServedInv
<1> QED
  BY <1>1, <1>5, <1>6, <1>7, <1>8, <1>9, <1>10, <1>11, <1>12, Advance

-----------------------------------------------------------------------------
(* Unpins, transactions begun, pages freed.                                *)

LEMMA UnpinKeeps == ASSUME PagesInv, NEW x \in Threads, Unpin(x) PROVE PagesInv'
<1>i. PoolInv /\ ThreadInv /\ ServedInv /\ DiskInv /\ TxInv
  BY Parts
<1>q. PICK q : q = th[x].page
  OBVIOUS
<1>1. /\ th[x].pc = "pinned" /\ VersionsStay /\ UNCHANGED <<dir, file, free, broken, dropped, made, fails>>
      /\ pool' = [pool EXCEPT !.pins[q] = pool.pins[q] - 1]
  BY <1>q DEF Unpin, disk, marks, bounds, VersionsStay
<1>2. /\ Owns(x, th[x]) /\ Holds(th[x]) /\ pool \in PoolType /\ q \in Pages /\ q \in pool.in
      /\ Moves(th[x]) = {} /\ th[x].pc \notin Spilling /\ (dropped = {} => ~broken')
  <2>1. Owns(x, th[x]) /\ Holds(th[x]) /\ pool \in PoolType
    BY ThreadFields
  <2>2. q \in Pages /\ q \in pool.in
    BY <2>1, <1>1, <1>q DEF Owns, Holds
  <2>3. Moves(th[x]) = {} /\ th[x].pc \notin Spilling /\ (dropped = {} => ~broken')
    BY <1>1, <1>i DEF Moves, Busy, Spilling, ServedInv
  <2> QED
    BY <2>1, <2>2, <2>3
<1>3. /\ pool'.in = pool.in /\ pool'.dirty = pool.dirty /\ pool'.inflight = pool.inflight
      /\ pool'.reclaiming = pool.reclaiming
      /\ pool'.pins = [pool.pins EXCEPT ![q] = pool.pins[q] - 1]
      /\ pool' = [in |-> pool'.in, dirty |-> pool'.dirty, pins |-> pool'.pins,
                  inflight |-> pool'.inflight, reclaiming |-> pool'.reclaiming]
  BY <1>1, <1>2 DEF PoolType
<1>4. ASSUME NEW s \in ThreadType, th' = [th EXCEPT ![x] = s], s.pc # "pinned", s.pc \notin Spilling,
             Owns(x, s)', Holds(s)', TxMoves, x # Writer => tx' = tx,
             \A y \in Threads \ {x} : Moves(th[y]) \cap Moves(s) = {},
             tx.stage = "open" /\ tx'.stage = "built" => tx.page \in pool.in
      PROVE  PagesInv'
  <2>1. /\ pool'.pins \in [Pages -> Nat]
        /\ \A p \in Pages : pool'.pins[p] = Cardinality(Pinners(p)')
    BY <1>1, <1>2, <1>3, <1>4, <1>q, <1>i, PinRemoved
  <2>2. pool' \in PoolType
    BY <2>1, <1>2, <1>3 DEF PoolType
  <2>3. pool.inflight \ pool'.inflight \subseteq Moves(th[x]) /\ UNCHANGED <<dir, file, free, fails, dropped>>
    BY <1>1, <1>3
  <2> QED
    BY <2>1, <2>2, <2>3, <1>1, <1>2, <1>3, <1>4, AdvanceQuiet
<1>5. /\ Idle \in ThreadType /\ Idle.pc # "pinned" /\ Idle.pc \notin Spilling /\ Moves(Idle) = {}
      /\ Owns(x, Idle)' /\ Holds(Idle)'
  BY IdleIs, IdleFree DEF Spilling
<1>6. CASE x # Writer /\ th' = [th EXCEPT ![x] = Idle] /\ tx' = tx
  <2>1. TxMoves /\ ~(tx.stage = "open" /\ tx'.stage = "built")
    BY <1>6 DEF TxMoves
  <2>p. PICK s : s = Idle
    OBVIOUS
  <2>2. s \in ThreadType /\ th' = [th EXCEPT ![x] = s] /\ s.pc # "pinned" /\ s.pc \notin Spilling /\ Moves(s) = {}
    BY <2>p, <1>5, <1>6
  <2>3. Owns(x, s)' /\ Holds(s)'
    BY <2>p, <1>5
  <2> QED
    BY <2>1, <2>2, <2>3, <1>4, <1>6
<1>7. CASE x = Writer /\ tx.page # 0 /\ th' = [th EXCEPT ![x] = Idle] /\ tx' = [tx EXCEPT !.stage = "built"]
  <2>1. tx.stage = "open" /\ tx.page = q
    BY <1>1, <1>2, <1>7, <1>q DEF Owns
  <2>2. TxMoves
    BY <2>1, <1>7 DEF TxMoves
  <2>p. PICK s : s = Idle
    OBVIOUS
  <2>3. s \in ThreadType /\ th' = [th EXCEPT ![x] = s] /\ s.pc # "pinned" /\ s.pc \notin Spilling /\ Moves(s) = {}
    BY <2>p, <1>5, <1>7
  <2>4. Owns(x, s)' /\ Holds(s)'
    BY <2>p, <1>5
  <2> QED
    BY <2>1, <2>2, <2>3, <2>4, <1>2, <1>4, <1>7
<1>8. CASE x = Writer /\ tx.page = 0 /\ Rewrite
  <2>1. tx.stage = "open" /\ x \notin Readers /\ made # 0 /\ made \in Nat /\ made \in Pages
    <3>1. tx.stage = "open" /\ x \notin Readers
      BY <1>1, <1>2, <1>8, PagesAssumption DEF Owns, PagesAssumption
    <3> QED
      BY <3>1, <1>i, Bounds DEF TxInv
  <2>p. PICK s : s = [Idle EXCEPT !.pc = "install", !.page = made, !.new = TRUE]
    OBVIOUS
  <2>2. s \in ThreadType /\ s.pc = "install" /\ s.page = made /\ s.new /\ Moves(s) = {made}
    <3>1. s \in ThreadType /\ s.pc = "install" /\ s.page = made /\ s.new
      BY <2>p, <2>1 DEF Idle, ThreadType
    <3> QED
      BY <3>1 DEF Moves, Busy, Spilling
  <2>3. th' = [th EXCEPT ![x] = s] /\ tx' = [tx EXCEPT !.page = made]
    BY <2>p, <1>8 DEF Rewrite
  <2>4. tx'.page = made /\ tx'.stage = "open" /\ TxMoves /\ made' = made
    BY <2>1, <2>3, <1>1, <1>8, <1>i DEF TxMoves, TxInv, TxType
  <2>5. \A p \in Pages : Seen(p) => p # made
    BY <2>1, <1>8, Bounds DEF Seen
  <2>6. made \notin pool.in /\ dir[made] = 0
    BY <2>1, <2>5, <1>i DEF PoolInv, DiskInv
  <2>7. Owns(x, s)'
    BY <2>1, <2>2, <2>4, <1>8 DEF Owns, Seen
  <2>8. Holds(s)'
    BY <2>2, <2>6, <1>1, <1>3 DEF Holds, Busy, Spilling
  <2>9. ASSUME NEW y \in Threads \ {x} PROVE Moves(th[y]) \cap Moves(s) = {}
    <3>1. Owns(y, th[y]) /\ Holds(th[y])
      BY ThreadFields
    <3>2. \A p \in Moves(th[y]) : p \in Pages /\ Seen(p)
      BY <3>1 DEF Moves, Owns, Holds, Busy, Spilling
    <3> QED
      BY <3>2, <2>2, <2>5
  <2>10. s.pc # "pinned" /\ s.pc \notin Spilling /\ ~(tx.stage = "open" /\ tx'.stage = "built")
    BY <2>2, <2>4 DEF Spilling
  <2> QED
    BY <2>2, <2>3, <2>4, <2>7, <2>8, <2>9, <2>10, <1>4, <1>8
<1> QED
  BY <1>6, <1>7, <1>8 DEF Unpin

\* A transaction begins on the current version, under a fresh page id.
LEMMA BeginTxKeeps == ASSUME PagesInv, NEW t \in Tables, BeginTx(t) PROVE PagesInv'
<1>i. VersionInv /\ TxInv /\ GarbageInv /\ PoolInv /\ ThreadInv /\ DiskInv /\ ServedInv
  BY Parts
<1>q. PICK q : q = ver[cur][t]
  OBVIOUS
<1>p. PICK s : s = [Idle EXCEPT !.pc = "get", !.page = q]
  OBVIOUS
<1>1. /\ tx.stage = "none" /\ made < Cardinality(Pages) /\ made' = made + 1
      /\ tx' = [stage |-> "open", base |-> cur, table |-> t, page |-> 0]
      /\ th' = [th EXCEPT ![Writer] = s]
      /\ UNCHANGED <<ver, cur, history, snap, live, garbage, freeing, pool, dir, file, free, broken, dropped, fails>>
  BY <1>q, <1>p DEF BeginTx, Ask, disk, marks
<1>2. /\ cur \in live /\ cur \in 1..cur /\ cur # 0 /\ cur \in Nat /\ ver[cur] \in [Tables -> Pages]
      /\ q \in Pages /\ Old(q) /\ q \in Nat /\ q <= made /\ made \in Nat
  <2>1. cur \in live /\ cur \in 1..cur /\ cur # 0 /\ cur \in Nat /\ ver[cur] \in [Tables -> Pages]
    BY <1>i DEF VersionInv
  <2>2. q \in Pages /\ Old(q)
    BY <2>1, <1>q, <1>i DEF GarbageInv
  <2> QED
    BY <2>1, <2>2, <1>i, Bounds DEF Old, TxInv
<1>3. /\ tx'.stage = "open" /\ tx'.base = cur /\ tx'.table = t /\ tx'.page = 0 /\ tx' \in TxType
  BY <1>1, <1>2 DEF TxType
<1>4. VersionInv'
  BY <1>1, <1>i DEF VersionInv
<1>5. TxInv'
  <2>1. made' \in Nat /\ made' # 0 /\ made' <= Cardinality(Pages)
    BY <1>1, <1>2, Bounds
  <2> QED
    BY <2>1, <1>1, <1>2, <1>3 DEF TxInv
<1>6. \A p \in Pages : p <= made => Old(p)' /\ Seen(p)'
  BY <1>1, <1>2, <1>3, Bounds DEF Old, Seen
<1>7. GarbageInv'
  <2>1. garbage \in [Versions -> SUBSET Pages] /\ freeing \subseteq Pages
    BY <1>i DEF GarbageInv
  <2>2. \A w \in Versions : \A p \in garbage[w] :
          w <= cur /\ Old(p)' /\ \A v \in w..cur : \A u \in Tables : ver[v][u] # p
    BY <2>1, <1>6, <1>i DEF GarbageInv, Old
  <2>3. \A p \in freeing : Old(p)' /\ \A v \in live : \A u \in Tables : ver[v][u] # p
    BY <2>1, <1>6, <1>i DEF GarbageInv, Old
  <2>4. ASSUME NEW v \in 1..cur, NEW u \in Tables PROVE Old(ver[v][u])'
    <3>1. ver[v] \in [Tables -> Pages] /\ Old(ver[v][u])
      BY <1>i DEF VersionInv, GarbageInv
    <3>2. ver[v][u] \in Pages /\ ver[v][u] <= made
      BY <3>1 DEF Old
    <3>3. ver[v][u] < made' /\ ver[v][u] <= made'
      <4>1. \A p \in Pages : p <= made => p < made' /\ p <= made'
        BY <1>1, <1>2, Bounds
      <4> QED
        BY <4>1, <3>2
    <3> QED
      BY <3>3, <1>1 DEF Old
  <2> QED
    BY <2>1, <2>2, <2>3, <2>4, <1>1 DEF GarbageInv
<1>8. s \in ThreadType /\ s.pc = "get" /\ s.page = q /\ ~s.new /\ Moves(s) = {}
  BY <1>p, <1>2, IdleIs
<1>w. Writer \in Threads /\ Writer \notin Readers
  BY PagesAssumption DEF PagesAssumption, Threads
<1>9. th[Writer].pc = "idle"
  BY <1>1, <1>w, <1>i DEF ThreadInv, Owns
<1>10. Owns(Writer, s)' /\ Holds(s)'
  <2>1. Seen(q)' /\ ver'[tx'.base][tx'.table] = q
    BY <1>1, <1>2, <1>3, <1>6, <1>q
  <2>2. Seen(s.page)'
    BY <2>1, <1>8 DEF Seen
  <2> QED
    BY <2>1, <2>2, <1>2, <1>3, <1>8, <1>w DEF Owns, Holds, Busy, Spilling
<1>11. \A p \in Pages : Seen(p) => Seen(p)'
  BY <1>6 DEF Seen
<1>12. ThreadInv'
  <2>1. /\ pool'.in \ pool.in \subseteq Moves(th[Writer]) /\ pool.in \ pool'.in = {}
        /\ pool.inflight \ pool'.inflight \subseteq Moves(th[Writer])
        /\ \A p \in Pages : dir'[p] = dir[p]
        /\ \A e \in Extents \ free : file'[e] = file[e]
        /\ free' \subseteq free /\ UNCHANGED <<ver, snap>>
        /\ \A y \in Threads \ {Writer} : Moves(th[y]) \cap Moves(s) = {}
    BY <1>1, <1>8
  <2> QED
    BY <2>1, <1>1, <1>8, <1>10, <1>11, <1>w, <1>i, ThreadStep
<1>13. PoolInv'
  <2>1. \A p \in Pages : pool'.pins[p] = Cardinality(Pinners(p)')
    <3>1. th[Writer].pc # "pinned" /\ s.pc # "pinned" /\ pool'.pins = pool.pins
      BY <1>1, <1>8, <1>9
    <3> QED
      BY <3>1, <1>1, <1>w, <1>i, PinsKept
  <2>2. \A p \in pool.in : Seen(p)' /\ (p \in pool.dirty <=> dir[p] = 0)
    BY <1>11, <1>i DEF PoolInv, PoolType
  <2>3. pool \in PoolType /\ pool.dirty \subseteq pool.in
    BY <1>i DEF PoolInv
  <2> QED
    BY <2>1, <2>2, <2>3, <1>1 DEF PoolInv
<1>14. DiskInv'
  <2>1. th[Writer].pc # "point" /\ s.pc # "point" /\ UNCHANGED <<dir, file, free, fails>>
    BY <1>1, <1>8, <1>9
  <2> QED
    BY <2>1, <1>1, <1>11, <1>w, <1>i, DiskKept
<1>15. ServedInv'
  <2>1. \A p \in Pages : Alive(p)' => Alive(p)
    BY <1>1, <1>3 DEF Alive
  <2>2. \A p \in Pages : Served(p) => Served(p)'
    <3>1. th'[Writer] = s /\ \A y \in Threads : y # Writer => th'[y] = th[y]
      BY <1>1, <1>w, <1>i DEF ThreadInv
    <3>2. pool' = pool /\ dir' = dir /\ file' = file /\ free' = free
      BY <1>1
    <3> QED
      BY <3>1, <3>2, <1>9 DEF Served
  <2>3. dropped' = dropped /\ broken' = broken
    BY <1>1
  <2> QED
    BY <2>1, <2>2, <2>3, <1>i DEF ServedInv
<1> QED
  BY <1>4, <1>5, <1>7, <1>12, <1>13, <1>14, <1>15 DEF PagesInv

\* A page that is freed is nobody's: no thread is in the pool for it, and no
\* version that is pinned has it.  A thread may still be spilling it.
LEMMA FreeIsDead ==
  ASSUME PagesInv, NEW p \in freeing
  PROVE  ~Alive(p) /\ \A x \in Threads : th[x].pc # "idle" => th[x].page # p
<1>i. VersionInv /\ TxInv /\ GarbageInv /\ ThreadInv
  BY Parts
<1>1. Old(p) /\ (\A v \in live : \A t \in Tables : ver[v][t] # p) /\ p \in Nat
  BY <1>i, Bounds DEF GarbageInv
<1>2. tx.stage \in {"open", "built"} => p # made
  BY <1>1, <1>i DEF Old, TxInv
<1>3. ~Alive(p)
  BY <1>1, <1>2, <1>i DEF Alive, TxInv
<1>4. ASSUME NEW x \in Threads, th[x].pc # "idle" PROVE th[x].page # p
  <2>1. Owns(x, th[x])
    BY ThreadFields
  <2>2. CASE x \in Readers \/ tx.page = 0
    <3>1. ~th[x].new
      BY <1>4, <2>1, <2>2 DEF Owns, Threads
    <3> QED
      BY <1>4, <2>2, <3>1, AskedAlive
  <2>3. CASE x \notin Readers /\ tx.page # 0
    <3>1. th[x].page = tx.page /\ tx.stage = "open"
      BY <1>4, <2>1, <2>3 DEF Owns, Threads
    <3> QED
      BY <2>3, <3>1, <1>2, <1>i DEF TxInv
  <2> QED
    BY <2>2, <2>3
<1> QED
  BY <1>3, <1>4

LEMMA FreePageKeeps == ASSUME PagesInv, NEW p \in Pages, FreePage(p) PROVE PagesInv'
<1>i. VersionInv /\ TxInv /\ GarbageInv /\ PoolInv /\ ThreadInv /\ DiskInv /\ ServedInv
  BY Parts
<1>1. /\ p \in freeing /\ freeing' = freeing \ {p} /\ dir' = [dir EXCEPT ![p] = 0]
      /\ pool' = [pool EXCEPT !.in = pool.in \ {p}, !.dirty = pool.dirty \ {p}]
      /\ free' = IF dir[p] = 0 THEN free ELSE free \cup {dir[p]}
      /\ UNCHANGED <<ver, cur, history, snap, tx, live, garbage, file, th, broken, dropped, made, fails>>
  BY DEF FreePage, marks, bounds
<1>2. ~Alive(p) /\ \A x \in Threads : th[x].pc # "idle" => th[x].page # p
  BY <1>1, FreeIsDead
<1>3. /\ pool'.in = pool.in \ {p} /\ pool'.dirty = pool.dirty \ {p} /\ pool'.pins = pool.pins
      /\ pool'.inflight = pool.inflight /\ pool' \in PoolType
  BY <1>1, <1>i DEF PoolInv, PoolType
<1>4. /\ dir \in [Pages -> {0} \cup Extents] /\ dir' \in [Pages -> {0} \cup Extents]
      /\ dir'[p] = 0 /\ \A q \in Pages : q # p => dir'[q] = dir[q]
  BY <1>1, <1>i DEF DiskInv
<1>5. \A q \in Pages : dir[q] # 0 => dir[q] \in Extents \ free /\ file[dir[q]] = q /\ Seen(q)
  BY <1>4, <1>i DEF DiskInv
<1>6. \A q : (Old(q) => Old(q)') /\ (Seen(q) => Seen(q)') /\ (Alive(q)' => Alive(q))
  BY <1>1 DEF Old, Seen, Alive
<1>7. VersionInv' /\ TxInv'
  BY <1>1, <1>i DEF VersionInv, TxInv
<1>8. GarbageInv'
  <2>1. garbage \in [Versions -> SUBSET Pages] /\ freeing' \subseteq Pages
    BY <1>1, <1>i DEF GarbageInv
  <2>2. \A w \in Versions : \A q \in garbage[w] :
          w <= cur /\ Old(q)' /\ \A v \in w..cur : \A t \in Tables : ver[v][t] # q
    BY <1>6, <1>i DEF GarbageInv
  <2>3. \A q \in freeing' : Old(q)' /\ \A v \in live : \A t \in Tables : ver[v][t] # q
    BY <1>1, <1>6, <1>i DEF GarbageInv
  <2>4. \A v \in 1..cur : \A t \in Tables : Old(ver[v][t])'
    <3>1. \A v \in 1..cur : \A t \in Tables : Old(ver[v][t])
      BY <1>i DEF GarbageInv
    <3> QED
      BY <3>1, <1>1 DEF Old
  <2>5. garbage' = garbage /\ cur' = cur /\ ver' = ver /\ live' = live
    BY <1>1
  <2> QED
    BY <2>1, <2>2, <2>3, <2>4, <2>5 DEF GarbageInv
<1>9. PoolInv'
  <2>1. \A q : Pinners(q)' = Pinners(q)
    BY <1>1 DEF Pinners
  <2>2. pool.dirty \subseteq pool.in /\ pool.in \subseteq Pages
        /\ \A q \in pool.in : Seen(q) /\ (q \in pool.dirty <=> dir[q] = 0)
    BY <1>i DEF PoolInv, PoolType
  <2>3. \A q \in pool'.in : Seen(q)' /\ (q \in pool'.dirty <=> dir'[q] = 0)
    BY <2>2, <1>3, <1>4, <1>6
  <2>4. \A q \in Pages : pool'.pins[q] = Cardinality(Pinners(q)')
    BY <2>1, <1>3, <1>i DEF PoolInv
  <2> QED
    BY <2>2, <2>3, <2>4, <1>3 DEF PoolInv
<1>10. ThreadInv'
  <2>1. ASSUME NEW x \in Threads PROVE Owns(x, th[x])' /\ Holds(th[x])'
    <3>1. Owns(x, th[x]) /\ Holds(th[x]) /\ th' = th
      BY <1>1, <1>i DEF ThreadInv
    <3>2. Owns(x, th[x])'
      BY <3>1, <1>1 DEF Owns, Seen
    <3>3. ASSUME th[x].pc # "idle"
          PROVE  /\ (th[x].page \in pool.in <=> th[x].page \in pool'.in)
                 /\ dir'[th[x].page] = dir[th[x].page]
      BY <3>1, <3>3, <1>2, <1>3, <1>4 DEF Owns
    <3>4. ASSUME th[x].pc \in Spilling
          PROVE  /\ th[x].victim \in Pages /\ Seen(th[x].victim)' /\ th[x].victim # th[x].page
                 /\ th[x].victim \notin pool'.in /\ th[x].victim \in pool'.inflight
                 /\ dir[th[x].victim] = 0 /\ dir'[th[x].victim] = 0
      <4>1. /\ th[x].victim \in Pages /\ Seen(th[x].victim) /\ th[x].victim # th[x].page
            /\ th[x].victim \notin pool.in /\ th[x].victim \in pool.inflight /\ dir[th[x].victim] = 0
        BY <3>1, <3>4 DEF Holds
      <4>2. Seen(th[x].victim)'
        BY <4>1, <1>1 DEF Seen
      <4> QED
        BY <4>1, <4>2, <1>3, <1>4
    <3>5. ASSUME th[x].pc = "point" PROVE th[x].ext \in Extents \ free' /\ file'[th[x].ext] = th[x].victim
      <4>1. th[x].ext \in Extents \ free /\ file[th[x].ext] = th[x].victim
        BY <3>1, <3>5 DEF Holds
      <4>2. dir[p] # 0 => file[dir[p]] = p /\ th[x].victim # p
        BY <3>4, <3>5, <1>5 DEF Spilling
      <4> QED
        BY <4>1, <4>2, <1>1
    <3>6. /\ th[x].pc = "pinned" => th[x].page \in pool.in
          /\ th[x].new => th[x].pc \in {"install", "write", "point"}
          /\ th[x].pc \in Busy => th[x].page \notin pool.in /\ (th[x].new \/ th[x].page \in pool.inflight)
          /\ th[x].pc \in Busy \ {"look"} => (th[x].new <=> dir[th[x].page] = 0)
          /\ th[x].pc = "read" => th[x].ext = dir[th[x].page]
      BY <3>1 DEF Holds
    <3>7. "idle" \notin Busy
      BY DEF Busy
    <3>8. Holds(th[x])'
      BY <3>1, <3>3, <3>4, <3>5, <3>6, <3>7, <1>3 DEF Holds
    <3> QED
      BY <3>2, <3>8
  <2>2. th \in [Threads -> ThreadType] /\ \A x, y \in Threads : x # y => Moves(th[x]) \cap Moves(th[y]) = {}
    BY <1>i DEF ThreadInv
  <2> QED
    BY <2>1, <2>2, <1>1 DEF ThreadInv, Moves
<1>11. DiskInv'
  <2>1. \A q \in Pages : dir'[q] # 0 => file[dir'[q]] = q /\ dir'[q] \notin free' /\ Seen(q)'
    <3> SUFFICES ASSUME NEW q \in Pages, dir'[q] # 0 PROVE file[dir'[q]] = q /\ dir'[q] \notin free' /\ Seen(q)'
      OBVIOUS
    <3>1. q # p /\ dir'[q] = dir[q] /\ dir[q] \notin free /\ file[dir[q]] = q /\ Seen(q)'
      BY <1>4, <1>5, <1>6
    <3>2. dir[p] # 0 => dir[p] # dir[q]
      BY <3>1, <1>5
    <3> QED
      BY <3>1, <3>2, <1>1
  <2>2. free' \subseteq Extents /\ DOMAIN file = Extents /\ fails \in 0..MaxFails
    BY <1>1, <1>5, <1>i DEF DiskInv
  <2>3. Cardinality(free) + Cardinality(Stored) + fails = Cardinality(Extents)
    BY <1>i DEF DiskInv
  <2>4. Cardinality(free') + Cardinality(Stored') + fails = Cardinality(Extents)
    <3>1. CASE dir[p] = 0
      <4>1. dir' = dir
        BY <3>1, <1>4
      <4>2. Stored' = Stored /\ free' = free
        BY <3>1, <4>1, <1>1 DEF Stored
      <4> QED
        BY <4>2, <2>3
    <3>2. CASE dir[p] # 0
      <4>1. \A x \in Threads : th[x].pc = "point" => th[x].victim # p
        BY <3>2, <1>i DEF ThreadInv, Holds, Spilling
      <4>2. th' = th
        BY <1>1
      <4>3. Stored' = Stored \ {p} /\ p \in Stored /\ Stored \subseteq Pages
        BY <3>2, <4>1, <4>2, <1>4 DEF Stored
      <4>4. IsFiniteSet(Stored)
        BY <4>3, Bounds, FS_Subset
      <4>5. Cardinality(Stored') = Cardinality(Stored) - 1 /\ Cardinality(Stored) \in Nat
        BY <4>3, <4>4, FS_RemoveElement, FS_CardinalityType
      <4>6. free' = free \cup {dir[p]} /\ dir[p] \notin free
        BY <3>2, <1>1, <1>5
      <4>7. IsFiniteSet(free)
        <5>1. free \subseteq Extents
          BY <1>i DEF DiskInv
        <5> QED
          BY <5>1, Bounds, FS_Subset
      <4>8. Cardinality(free') = Cardinality(free) + 1 /\ Cardinality(free) \in Nat
        BY <4>6, <4>7, FS_AddElement, FS_CardinalityType
      <4>9. fails \in Nat
        BY <2>2, Bounds
      <4> QED
        BY <4>5, <4>8, <4>9, <2>3
    <3> QED
      BY <3>1, <3>2
  <2>5. file' = file /\ fails' = fails
    BY <1>1
  <2> QED
    BY <2>1, <2>2, <2>4, <2>5, <1>4 DEF DiskInv
<1>12. ServedInv'
  <2>1. ASSUME NEW q \in Pages, Alive(q), q \notin dropped PROVE Served(q)'
    <3>1. q # p /\ Served(q)
      BY <2>1, <1>2, <1>i DEF ServedInv
    <3>2. q \in pool.in => q \in pool'.in
      BY <3>1, <1>3
    <3>3. dir[q] # 0 => dir'[q] # 0 /\ file'[dir'[q]] = q /\ dir'[q] \notin free'
      <4>1. ASSUME dir[q] # 0
            PROVE  dir'[q] = dir[q] /\ dir[q] \notin free /\ file[dir[q]] = q /\ (dir[p] # 0 => dir[p] # dir[q])
        BY <4>1, <3>1, <1>4, <1>5
      <4> QED
        BY <4>1, <1>1
    <3>4. th' = th
      BY <1>1
    <3> QED
      BY <3>1, <3>2, <3>3, <3>4 DEF Served
  <2>2. dropped' = dropped /\ broken' = broken
    BY <1>1
  <2> QED
    BY <2>1, <2>2, <1>6, <1>i DEF ServedInv
<1> QED
  BY <1>7, <1>8, <1>9, <1>10, <1>11, <1>12 DEF PagesInv

-----------------------------------------------------------------------------
(* The theorems.                                                           *)

LEMMA StutterKeeps == ASSUME PagesInv, UNCHANGED vars PROVE PagesInv'
<1>i. VersionInv /\ TxInv /\ GarbageInv
  BY Parts
<1>1. UNCHANGED <<ver, cur, history, snap, tx, live, garbage, freeing, made>>
  BY DEF vars
<1>2. UNCHANGED <<pool, dir, file, free, th, broken, dropped, made, fails>>
  BY DEF vars
<1>3. \A p : (Old(p) <=> Old(p)') /\ (Seen(p) <=> Seen(p)') /\ (Alive(p)' <=> Alive(p))
  BY <1>1 DEF Old, Seen, Alive
<1>4. VersionInv' /\ TxInv' /\ GarbageInv'
  <2>1. VersionInv' /\ TxInv'
    BY <1>1, <1>i DEF VersionInv, TxInv
  <2>2. GarbageInv'
    BY <1>1, <1>i DEF GarbageInv, Old
  <2> QED
    BY <2>1, <2>2
<1>5. \A x \in Threads : Owns(x, th[x])'
  <2>1. \A x \in Threads : Owns(x, th[x])
    BY Parts DEF ThreadInv
  <2> QED
    BY <2>1, <1>1, <1>2 DEF Owns, Seen
<1> QED
  BY <1>2, <1>3, <1>4, <1>5, QuietPool DEF PagesInv

LEMMA NextKeeps == PagesInv /\ [Next]_vars => PagesInv'
<1> SUFFICES ASSUME PagesInv, [Next]_vars PROVE PagesInv'
  OBVIOUS
<1>1. ASSUME NEW r \in Readers, Snapshot(r) \/ Release(r) PROVE PagesInv'
  BY <1>1, SnapshotKeeps, ReleaseKeeps
<1>2. ASSUME NEW r \in Readers, NEW t \in Tables, Read(r, t) PROVE PagesInv'
  BY <1>2, ReadKeeps
<1>3. ASSUME NEW t \in Tables, BeginTx(t) PROVE PagesInv'
  BY <1>3, BeginTxKeeps
<1>4. CASE Publish
  BY <1>4, PublishKeeps
<1>5. CASE Retire
  BY <1>5, RetireKeeps
<1>6. CASE EndCommit \/ EndFailed
  BY <1>6, EndKeeps
<1>7. ASSUME NEW p \in Pages, FreePage(p) PROVE PagesInv'
  BY <1>7, FreePageKeeps
<1>8. ASSUME NEW x \in Threads, Step(x) PROVE PagesInv'
  BY <1>8, GetKeeps, LookKeeps, ReadExtentKeeps, InstallKeeps, SpillWriteKeeps, SpillPointKeeps,
     SpillFailsKeeps, UnpinKeeps DEF Step
<1>9. CASE UNCHANGED vars
  BY <1>9, StutterKeeps
<1> QED
  BY <1>1, <1>2, <1>3, <1>4, <1>5, <1>6, <1>7, <1>8, <1>9 DEF Next

\* The invariant of the versions, the pool, the threads in it and the disk.
THEOREM PagesInvariant == Spec => []PagesInv
<1>1. Init => PagesInv
  BY InitInv
<1>2. PagesInv /\ [Next]_vars => PagesInv'
  BY NextKeeps
<1> QED
  BY <1>1, <1>2, PTL DEF Spec

\* What a held version reaches stays readable through evictions, spills,
\* reclamation and extent reuse, and a page that is freed has no pin.
THEOREM LivePagesAreServed == Spec => []LivePagesServed
<1>1. PagesInv => LivePagesServed
  <2> SUFFICES ASSUME PagesInv PROVE LivePagesServed
    OBVIOUS
  <2>i. VersionInv /\ TxInv /\ GarbageInv /\ PoolInv /\ ThreadInv /\ ServedInv
    BY Parts
  <2>1. \A v \in Held(cur, history, snap, tx.base) : v \in live
    <3>1. Range(snap) \ {0} \subseteq live
      BY <2>i DEF VersionInv, Range
    <3> QED
      BY <3>1, <2>i DEF Held, VersionInv, TxInv
  <2>2. ASSUME NEW v \in Held(cur, history, snap, tx.base), NEW t \in Tables, ver[v][t] \notin dropped
        PROVE  Served(ver[v][t])
    <3>1. v \in live /\ v \in 1..cur
      BY <2>1, <2>i DEF VersionInv
    <3>2. ver[v] \in [Tables -> Pages]
      BY <3>1, <2>i DEF VersionInv
    <3>3. ver[v][t] \in Pages /\ Alive(ver[v][t])
      BY <3>1, <3>2 DEF Alive
    <3> QED
      BY <2>2, <3>3, <2>i DEF ServedInv
  <2>3. tx.stage = "built" /\ tx.page \notin dropped => Served(tx.page)
    <3> SUFFICES ASSUME tx.stage = "built", tx.page \notin dropped PROVE Served(tx.page)
      OBVIOUS
    <3>1. Alive(tx.page) /\ tx.page \in Pages
      <4>1. tx.page = made /\ made \in Nat /\ made <= Cardinality(Pages)
        BY <2>i DEF TxInv
      <4>2. \A t \in Tables : Old(ver[cur][t]) /\ ver[cur][t] \in Pages
        <5>1. cur \in 1..cur /\ ver[cur] \in [Tables -> Pages]
          BY <2>i DEF VersionInv
        <5> QED
          BY <5>1, <2>i DEF GarbageInv
      <4>3. made # 0
        <5>1. tx.table \in Tables
          BY <2>i DEF TxInv
        <5>2. ver[cur][tx.table] < made /\ ver[cur][tx.table] \in Nat
          BY <5>1, <4>2, Bounds DEF Old
        <5> QED
          BY <5>2, <4>1
      <4> QED
        BY <4>1, <4>3, Bounds DEF Alive
    <3> QED
      BY <3>1, <2>i DEF ServedInv
  <2>4. \A p \in freeing : pool.pins[p] = 0
    <3> SUFFICES ASSUME NEW p \in freeing PROVE pool.pins[p] = 0
      OBVIOUS
    <3>1. Pinners(p) = {}
      BY FreeIsDead DEF Pinners
    <3>2. Cardinality(Pinners(p)) = 0
      BY <3>1, FS_EmptySet
    <3> QED
      BY <3>2, <2>i DEF PoolInv, GarbageInv
  <2> QED
    BY <2>2, <2>3, <2>4, <2>i DEF LivePagesServed, ServedInv
<1> QED
  BY <1>1, PagesInvariant, PTL

=============================================================================
