---------------------------- MODULE FanOutProofs ----------------------------
(***************************************************************************)
(* Proofs about FanOut, for every set of connections and queries, every    *)
(* ring, queue and window capacity: updates arrive once and in commit      *)
(* order, a registered subscriber misses none, a resume answered from the  *)
(* window is complete, and nothing outlives a closed connection.           *)
(*                                                                         *)
(* The invariant has one part per owner of state.  A step of a session     *)
(* leaves the task and the manager alone (SessionStep), so most actions    *)
(* are dealt with once; what is left are the commit, the steps of the      *)
(* task, and the manager's register and drop.                              *)
(***************************************************************************)
EXTENDS FanOut, FiniteSetTheorems, TLAPS

\* The fan-out task: transports ask for it, one is spawned.
The == fan[1]

FanType == [pc : {"off", "spawned", "recv", "eval", "send"}, next : Nat, off : Nat,
            todo : SUBSET Target, cls : SUBSET Target]

\* The commits, and the one task that runs: its offset is behind its cursor,
\* and while it sends, a connection is the target of one frame at most.
TaskInv ==
  /\ touch \in Seq(SUBSET Queries)
  /\ fan \in [Tasks -> FanType] /\ fan[2] = NoTask
  /\ ~started => The.pc = "off"
  /\ The.pc \in {"off", "spawned"} => The.off = 0
  /\ The.pc \in {"eval", "send"} => 1 <= The.off /\ The.off <= head
  /\ The.off < The.next
  /\ The.pc # "send" => The.todo = {} /\ The.cls = {}
  /\ \A p, r \in The.todo \cup The.cls : p[1] = r[1] => p = r
  /\ The.todo \cap The.cls = {}

\* The manager's offset follows the task's.
OffsetInv ==
  /\ lastOffset \in Nat /\ lastOffset <= The.off /\ lastOffset <= head
  /\ The.pc = "eval" => lastOffset < The.off
  /\ evald \subseteq 1..head /\ \A n \in evald : n <= lastOffset

Updates == [type : {"tx"}, off : Nat, qs : SUBSET Queries]

\* All that was sent to c is of commits before n.
SentBelow(c, n) == \A i \in 1..Len(live[c]) : live[c][i].off < n

\* Nothing is sent of a commit before its evaluation, nor twice.
LiveInv ==
  /\ live \in [Conn -> Seq(Updates)]
  /\ \A c \in Conn : SentBelow(c, The.off + 1)
  /\ The.pc = "eval" => \A c \in Conn : SentBelow(c, The.off)
  /\ \A p \in The.todo \cup The.cls : SentBelow(p[1], The.off)
  /\ DeltasInOrder

Windows == [entries : SUBSET Nat, trimmed : Nat]

\* What a window w of query q holds when last is the manager's offset: deltas
\* of commits that changed q, all after the last one evicted.
WindowOK(w, q, last) ==
  /\ w \in Windows /\ w.trimmed <= last
  /\ \A n \in w.entries : w.trimmed < n /\ n <= last /\ q \in touch[n]

\* ... and everything evaluated since j, but for what was evicted.
Complete(w, q, j) ==
  \A n \in evald : n > j /\ n > w.trimmed /\ q \in touch[n] => n \in w.entries

WindowInv ==
  /\ DOMAIN window = Queries
  /\ joined \in [Conn \X Queries -> Nat]
  /\ \A q \in Queries : WindowOK(window[q], q, lastOffset)
  /\ \A q \in Queries : \A c \in subs[q] : Complete(window[q], q, joined[<<c, q>>])

\* A subscriber of a bucket has a handle that names it.
BucketInv ==
  /\ subs \in [Queries -> SUBSET Conn] /\ DOMAIN handles = Conn
  /\ \A q \in Queries : \A c \in subs[q] : \E h \in handles[c] : h.q = q

\* Where a session r can be in the life s of its connection c.  An HTTP
\* message goes on after its session was evicted; a TCP loop ends between
\* messages.
SessionOK(c, r, s, hs) ==
  /\ DOMAIN r = {"pc", "snap", "todo", "replies"}
  /\ r.pc = "subscribe" => r.todo \in Seq(Queries) /\ r.todo # <<>>
  /\ c \in Tcp /\ s # "open" => r.pc = "idle"
  /\ s \in {"absent", "none"} => r.pc = "idle" /\ hs = {}
  /\ c \in Tcp /\ s = "closed" => hs = {}

Lives == {"absent", "none", "open", "dereg", "drop", "closed"}

ConnInv ==
  /\ registered \subseteq Conn /\ state \in [Conn -> Lives] /\ DOMAIN req = Conn
  /\ \A c \in Conn : SessionOK(c, req[c], state[c], handles[c])
  /\ \A c \in registered : state[c] \notin {"drop", "closed"}

FanOutInv ==
  TaskInv /\ OffsetInv /\ LiveInv /\ WindowInv /\ BucketInv /\ ConnInv /\ LiveMissesNothing

-----------------------------------------------------------------------------
(* The invariant holds initially.                                          *)

LEMMA InitInv == Init => FanOutInv
<1> SUFFICES ASSUME Init PROVE FanOutInv
  OBVIOUS
<1> USE DEF Init
<1>1. fan[1] = NoTask /\ fan[2] = NoTask /\ NoTask \in FanType /\ fan \in [Tasks -> FanType]
  BY DEF NoTask, FanType, Tasks
<1>2. head = 0
  BY DEF head
<1>3. TaskInv
  <2>2. touch \in Seq(SUBSET Queries)
    OBVIOUS
  <2> HIDE DEF Init
  <2>1. The.pc = "off" /\ The.off = 0 /\ The.next = 1 /\ The.todo = {} /\ The.cls = {}
    BY <1>1 DEF The, NoTask
  <2> QED
    BY <1>1, <1>2, <2>1, <2>2 DEF TaskInv
<1>4. OffsetInv
  BY <1>1, <1>2 DEF OffsetInv, The, NoTask
<1>5. LiveInv
  <2>1. \A c \in Conn : live[c] = <<>> /\ Len(live[c]) = 0
    OBVIOUS
  <2>2. live \in [Conn -> Seq(Updates)]
    OBVIOUS
  <2> QED
    BY <1>1, <2>1, <2>2 DEF LiveInv, SentBelow, DeltasInOrder, The, NoTask
<1>6. WindowInv
  <2>1. NoWindow \in Windows /\ NoWindow.trimmed = 0 /\ NoWindow.entries = {}
    BY DEF NoWindow, Windows
  <2> QED
    BY <2>1 DEF WindowInv, WindowOK, Complete
<1>7. BucketInv
  BY DEF BucketInv
<1>8. ConnInv
  BY DEF ConnInv, SessionOK, Lives, IdleReq, Conn
<1>9. LiveMissesNothing
  BY DEF LiveMissesNothing
<1> QED
  BY <1>3, <1>4, <1>5, <1>6, <1>7, <1>8, <1>9 DEF FanOutInv

-----------------------------------------------------------------------------
(* Sessions and transports.                                                *)

\* The manager, the task and what was sent are as before.
SessionStep == UNCHANGED <<touch, started, fan, lastOffset, handles, subs, window, joined, evald, live>>

\* A step of a session can only take registrations away, or add one of a
\* connection that has no subscription yet.
LEMMA SessionKeeps ==
  ASSUME FanOutInv, SessionStep, ConnInv',
         \A c \in registered' : c \in registered \/ \A q \in Queries : c \notin subs[q]
  PROVE  FanOutInv'
<1> USE DEF SessionStep
<1>1. TaskInv' /\ OffsetInv'
  BY DEF FanOutInv, TaskInv, OffsetInv, The, head
<1>2. LiveInv'
  BY DEF FanOutInv, LiveInv, SentBelow, DeltasInOrder, The
<1>3. WindowInv' /\ BucketInv'
  BY DEF FanOutInv, WindowInv, WindowOK, Complete, BucketInv
<1>4. LiveMissesNothing'
  <2>1. \A c, q, n : Pending(c, q, n)' <=> Pending(c, q, n)
    BY DEF Pending
  <2>2. \A q \in Queries : \A c \in subs[q] \cap registered' : c \in subs[q] \cap registered
    OBVIOUS
  <2> QED
    BY <2>1, <2>2 DEF FanOutInv, LiveMissesNothing
<1> QED
  BY <1>1, <1>2, <1>3, <1>4 DEF FanOutInv

\* A step that concerns connection c alone.
LEMMA OneConn ==
  ASSUME ConnInv, NEW c \in Conn, DOMAIN req' = Conn, state' \in [Conn -> Lives],
         \A d \in Conn : d # c => /\ req'[d] = req[d] /\ state'[d] = state[d]
                                 /\ handles'[d] = handles[d],
         SessionOK(c, req'[c], state'[c], handles'[c]),
         registered' \subseteq registered \cup {c},
         c \in registered' => state'[c] \notin {"drop", "closed"}
  PROVE  ConnInv'
<1>1. registered' \subseteq Conn
  BY DEF ConnInv
<1>2. \A d \in Conn : SessionOK(d, req'[d], state'[d], handles'[d])
  BY DEF ConnInv
<1>3. \A d \in registered' : state'[d] \notin {"drop", "closed"}
  BY <1>1 DEF ConnInv
<1> QED
  BY <1>1, <1>2, <1>3 DEF ConnInv

\* The message a session works on, after an update of its fields.
LEMMA ReqFields ==
  ASSUME NEW r, DOMAIN r = {"pc", "snap", "todo", "replies"}, NEW t, NEW a, NEW p
  PROVE  LET n == [r EXCEPT !.todo = t, !.replies = a, !.pc = p] IN
         DOMAIN n = DOMAIN r /\ n.todo = t /\ n.pc = p
  OBVIOUS

\* Steps that change neither a session's message nor its life.
LEMMA QuietSession ==
  ASSUME FanOutInv, SessionStep, req' = req, state' = state, registered' \subseteq registered
  PROVE  FanOutInv'
<1>1. ConnInv'
  BY DEF FanOutInv, ConnInv, SessionStep
<1> QED
  BY <1>1, SessionKeeps

\* Steps of one session that change its message or its life, and leave it
\* where SessionOK says.
LEMMA OneSession ==
  ASSUME FanOutInv, SessionStep, NEW c \in Conn, NEW r, NEW s \in Lives,
         req' = [req EXCEPT ![c] = r], state' = [state EXCEPT ![c] = s],
         SessionOK(c, r, s, handles[c]), registered' \subseteq registered,
         c \in registered' => s \notin {"drop", "closed"}
  PROVE  FanOutInv'
<1>c. ConnInv /\ handles' = handles
  BY DEF FanOutInv, SessionStep
<1>1. /\ DOMAIN req' = Conn /\ state' \in [Conn -> Lives] /\ req'[c] = r /\ state'[c] = s
      /\ \A d \in Conn : d # c => req'[d] = req[d] /\ state'[d] = state[d]
  BY <1>c DEF ConnInv
<1>2. ConnInv'
  BY <1>c, <1>1, OneConn
<1> QED
  BY <1>2, SessionKeeps

\* ... its message only, or its life only.
LEMMA OneMessage ==
  ASSUME FanOutInv, SessionStep, NEW c \in Conn, NEW r, req' = [req EXCEPT ![c] = r],
         state' = state, registered' = registered, SessionOK(c, r, state[c], handles[c])
  PROVE  FanOutInv'
<1>c. ConnInv /\ handles' = handles
  BY DEF FanOutInv, SessionStep
<1>1. /\ DOMAIN req' = Conn /\ req'[c] = r
      /\ \A d \in Conn : d # c => req'[d] = req[d]
  BY <1>c DEF ConnInv
<1>2. ConnInv'
  BY <1>c, <1>1, OneConn DEF ConnInv
<1> QED
  BY <1>2, SessionKeeps

LEMMA OneLife ==
  ASSUME FanOutInv, SessionStep, NEW c \in Conn, NEW s \in Lives,
         state' = [state EXCEPT ![c] = s], req' = req,
         SessionOK(c, req[c], s, handles[c]), registered' \subseteq registered,
         c \in registered' => s \notin {"drop", "closed"}
  PROVE  FanOutInv'
<1>c. ConnInv /\ handles' = handles
  BY DEF FanOutInv, SessionStep
<1>1. /\ state' \in [Conn -> Lives] /\ state'[c] = s
      /\ \A d \in Conn : d # c => state'[d] = state[d]
  BY <1>c DEF ConnInv
<1>2. ConnInv'
  BY <1>c, <1>1, OneConn DEF ConnInv
<1> QED
  BY <1>2, SessionKeeps

\* A connection is made: it has no subscription yet.
LEMMA ConnectKeeps == ASSUME FanOutInv, NEW c \in Conn, Connect(c) PROVE FanOutInv'
<1>1. /\ SessionStep /\ req' = req /\ state[c] = "none" /\ state' = [state EXCEPT ![c] = "open"]
      /\ registered' = registered \cup {c}
  BY DEF Connect, SessionStep, task, manager
<1>2. ConnInv /\ BucketInv /\ SessionOK(c, req[c], state[c], handles[c])
  BY DEF FanOutInv, ConnInv
<1>3. handles[c] = {} /\ SessionOK(c, req[c], "open", handles[c])
  BY <1>1, <1>2 DEF SessionOK
<1>4. /\ state' \in [Conn -> Lives] /\ state'[c] = "open"
      /\ \A d \in Conn : d # c => state'[d] = state[d]
  BY <1>1, <1>2 DEF ConnInv, Lives
<1>5. ConnInv'
  <2>1. DOMAIN req' = Conn /\ SessionOK(c, req'[c], state'[c], handles'[c])
    BY <1>1, <1>2, <1>3, <1>4 DEF ConnInv, SessionStep
  <2>2. \A d \in Conn : d # c => req'[d] = req[d] /\ state'[d] = state[d] /\ handles'[d] = handles[d]
    BY <1>1, <1>4 DEF SessionStep
  <2> QED
    BY <1>1, <1>2, <1>4, <2>1, <2>2, OneConn
<1>6. \A q \in Queries : c \notin subs[q]
  BY <1>2, <1>3 DEF BucketInv
<1> QED
  BY <1>1, <1>5, <1>6, SessionKeeps

\* The messages of a client that only start a session's work.
LEMMA MessageKeeps ==
  ASSUME FanOutInv, NEW c \in Conn,
         \/ \E n \in 1..MaxBatch : \E qs \in [1..n -> Queries] : Subscribe(c, qs)
         \/ \E id \in 1..MaxSubs, from \in 0..lastOffset : Resume(c, id, from)
  PROVE  FanOutInv'
<1>i. state[c] = "open"
  BY DEF Subscribe, Resume, Arrives
<1>1. ASSUME NEW n \in 1..MaxBatch, NEW qs \in [1..n -> Queries], Subscribe(c, qs)
      PROVE  FanOutInv'
  <2> DEFINE r == [pc |-> "subscribe", snap |-> head, todo |-> qs, replies |-> <<>>]
  <2>1. qs \in Seq(Queries) /\ qs # <<>>
    <3>1. n \in Nat /\ n >= 1
      BY BoundAssumption DEF BoundAssumption
    <3>2. qs \in Seq(Queries) /\ Len(qs) = n
      BY <3>1
    <3> QED
      BY <3>1, <3>2
  <2>2. SessionOK(c, r, state[c], handles[c])
    BY <2>1, <1>i DEF SessionOK
  <2>3. /\ SessionStep /\ req' = [req EXCEPT ![c] = r] /\ state' = state
        /\ registered' = registered
    BY <1>1 DEF Subscribe, SessionStep, task, manager, sockets
  <2> HIDE DEF r
  <2> QED
    BY <2>2, <2>3, OneMessage
<1>2. ASSUME NEW id \in 1..MaxSubs, NEW from \in 0..lastOffset, Resume(c, id, from)
      PROVE  FanOutInv'
  <2> DEFINE r == [pc |-> "resume", snap |-> head, todo |-> <<id, from>>, replies |-> <<>>]
  <2>2. SessionOK(c, r, state[c], handles[c])
    BY <1>i DEF SessionOK
  <2>3. /\ SessionStep /\ req' = [req EXCEPT ![c] = r] /\ state' = state
        /\ registered' = registered
    BY <1>2 DEF Resume, SessionStep, task, manager, sockets
  <2> HIDE DEF r
  <2> QED
    BY <2>2, <2>3, OneMessage
<1> QED
  BY <1>1, <1>2

\* A session at work belongs to a connection that was made, and, over TCP,
\* is still open.
LEMMA AtWork ==
  ASSUME FanOutInv, NEW c \in Conn, req[c].pc # "idle", NEW r,
         DOMAIN r = {"pc", "snap", "todo", "replies"},
         r.pc = "subscribe" => r.todo \in Seq(Queries) /\ r.todo # <<>>
  PROVE  /\ SessionOK(c, r, state[c], handles[c])
         /\ state[c] \notin {"absent", "none"} /\ (c \in Tcp => state[c] = "open")
  BY DEF FanOutInv, ConnInv, SessionOK

\* Answers that register nothing.
LEMMA AnswerKeeps ==
  ASSUME FanOutInv, NEW c \in Conn, Refuse(c) \/ AnswerResume(c)
  PROVE  FanOutInv'
<1>i. DOMAIN req[c] = {"pc", "snap", "todo", "replies"}
  BY DEF FanOutInv, ConnInv, SessionOK
<1>1. /\ SessionStep /\ state' = state /\ registered' = registered /\ req[c].pc # "idle"
  BY DEF Refuse, AnswerResume, BatchGoesOn, SessionStep, task, manager, sockets
<1>2. PICK r : req' = [req EXCEPT ![c] = r] /\ DOMAIN r = DOMAIN req[c] /\ r.pc = "reply"
  <2>1. CASE Refuse(c)
    <3> DEFINE n == [req[c] EXCEPT !.todo = <<>>,
                                   !.replies = Append(req[c].replies, [type |-> "error"]),
                                   !.pc = "reply"]
    <3>1. req' = [req EXCEPT ![c] = n]
      BY <2>1 DEF Refuse, BatchGoesOn
    <3>2. DOMAIN n = DOMAIN req[c] /\ n.pc = "reply"
      BY <1>i
    <3> QED
      BY <3>1, <3>2
  <2>2. CASE AnswerResume(c)
    <3>1. PICK a : req' = [req EXCEPT ![c].pc = "reply", ![c].todo = <<>>, ![c].replies = a]
      BY <2>2 DEF AnswerResume
    <3> DEFINE n == [req[c] EXCEPT !.pc = "reply", !.todo = <<>>, !.replies = a]
    <3>2. req' = [req EXCEPT ![c] = n]
      BY <3>1
    <3>3. DOMAIN n = DOMAIN req[c] /\ n.pc = "reply"
      BY <1>i
    <3> QED
      BY <3>2, <3>3
  <2> QED
    BY <2>1, <2>2
<1>5. SessionOK(c, r, state[c], handles[c])
  BY <1>i, <1>1, <1>2, AtWork
<1> QED
  BY <1>1, <1>2, <1>5, OneMessage

\* The TCP loop and its writer.
LEMMA TcpKeeps == ASSUME FanOutInv, NEW c \in Tcp, TcpStep(c) PROVE FanOutInv'
<1> USE DEF SessionStep, task, manager, sockets
<1>t. c \in Conn
  BY DEF Conn
<1>i. SessionOK(c, req[c], state[c], handles[c])
  BY <1>t DEF FanOutInv, ConnInv
<1>1. CASE ReplyTcp(c)
  <2> DEFINE n == [req[c] EXCEPT !.replies = Tail(req[c].replies)]
  <2>1. /\ SessionStep /\ state' = state /\ registered' = registered /\ req[c].pc = "reply"
        /\ req' = [req EXCEPT ![c] = n]
    BY <1>1 DEF ReplyTcp
  <2>2. DOMAIN n = DOMAIN req[c] /\ n.pc = "reply"
    BY <2>1, <1>i DEF SessionOK
  <2> HIDE DEF n
  <2>3. SessionOK(c, n, state[c], handles[c])
    BY <2>1, <2>2, <1>t, <1>i, AtWork DEF SessionOK
  <2> QED
    BY <2>1, <2>3, <1>t, OneMessage
<1>2. CASE ReplyDone(c)
  <2>1. /\ SessionStep /\ state' = state /\ registered' = registered /\ req[c].pc = "reply"
        /\ req' = [req EXCEPT ![c] = IdleReq]
    BY <1>2 DEF ReplyDone
  <2>2. DOMAIN IdleReq = {"pc", "snap", "todo", "replies"} /\ IdleReq.pc = "idle"
    BY DEF IdleReq
  <2>3. SessionOK(c, IdleReq, state[c], handles[c])
    BY <2>1, <2>2, <1>t, AtWork
  <2> QED
    BY <2>1, <2>3, <1>t, OneMessage
<1>3. CASE ReplyFails(c)
  <2>1. /\ SessionStep /\ registered' = registered
        /\ req' = [req EXCEPT ![c] = IdleReq] /\ state' = [state EXCEPT ![c] = "dereg"]
    BY <1>3 DEF ReplyFails
  <2>2. SessionOK(c, IdleReq, "dereg", handles[c])
    BY DEF IdleReq, SessionOK
  <2> QED
    BY <2>1, <2>2, <1>t, OneSession DEF Lives
<1>4. CASE Flush(c) \/ WriterFails(c)
  <2>1. SessionStep /\ req' = req /\ state' = state /\ registered' \subseteq registered
    BY <1>4 DEF Flush, WriterFails
  <2> QED
    BY <2>1, QuietSession
<1>5. CASE CloseTcp(c) \/ IdleTcp(c)
  <2>1. /\ SessionStep /\ req' = req /\ state' = [state EXCEPT ![c] = "dereg"]
        /\ registered' = registered /\ req[c].pc = "idle"
    BY <1>5 DEF CloseTcp, IdleTcp
  <2>2. SessionOK(c, req[c], "dereg", handles[c])
    BY <2>1, <1>i DEF SessionOK
  <2> QED
    BY <2>1, <2>2, <1>t, OneLife DEF Lives
<1> QED
  BY <1>1, <1>2, <1>3, <1>4, <1>5 DEF TcpStep

\* The HTTP session, its POSTs and its GET stream.
LEMMA HttpKeeps == ASSUME FanOutInv, NEW h \in Http, HttpStep(h) PROVE FanOutInv'
<1> USE DEF SessionStep, task, manager, sockets
<1>t. h \in Conn /\ h \notin Tcp
  BY ConnAssumption DEF ConnAssumption, Conn
<1>i. SessionOK(h, req[h], state[h], handles[h])
  BY <1>t DEF FanOutInv, ConnInv
<1>1. CASE ReplyHttp(h)
  <2>1. /\ SessionStep /\ state' = state /\ registered' = registered /\ req[h].pc = "reply"
        /\ req' = [req EXCEPT ![h] = IdleReq]
    BY <1>1 DEF ReplyHttp
  <2>2. DOMAIN IdleReq = {"pc", "snap", "todo", "replies"} /\ IdleReq.pc = "idle"
    BY DEF IdleReq
  <2>3. SessionOK(h, IdleReq, state[h], handles[h])
    BY <2>1, <2>2, <1>t, AtWork
  <2> QED
    BY <2>1, <2>3, <1>t, OneMessage
<1>2. CASE Attach(h) \/ GetRecv(h) \/ GetWrote(h) \/ Detach(h)
  <2>1. SessionStep /\ req' = req /\ state' = state /\ registered' \subseteq registered
    BY <1>2 DEF Attach, GetRecv, GetWrote, Detach
  <2> QED
    BY <2>1, QuietSession
<1>3. CASE Evict(h)
  <2>1. /\ SessionStep /\ req' = req /\ state' = [state EXCEPT ![h] = "dereg"]
        /\ registered' = registered
    BY <1>3 DEF Evict
  <2>2. SessionOK(h, req[h], "dereg", handles[h])
    BY <1>i, <1>t DEF SessionOK
  <2> QED
    BY <2>1, <2>2, <1>t, OneLife DEF Lives
<1> QED
  BY <1>1, <1>2, <1>3 DEF HttpStep

\* A client vanishes; a connection leaves the registry.
LEMMA GoneKeeps ==
  ASSUME FanOutInv, NEW c \in Conn, PeerGone(c) \/ Deregister(c)
  PROVE  FanOutInv'
<1> USE DEF SessionStep, task, manager, sockets
<1>i. SessionOK(c, req[c], state[c], handles[c])
  BY DEF FanOutInv, ConnInv
<1>1. CASE PeerGone(c)
  <2>1. SessionStep /\ req' = req /\ state' = state /\ registered' \subseteq registered
    BY <1>1 DEF PeerGone
  <2> QED
    BY <2>1, QuietSession
<1>2. CASE Deregister(c)
  <2>1. /\ SessionStep /\ req' = req /\ state' = [state EXCEPT ![c] = "drop"]
        /\ registered' = registered \ {c} /\ state[c] = "dereg"
    BY <1>2 DEF Deregister
  <2>2. SessionOK(c, req[c], "drop", handles[c])
    BY <2>1, <1>i DEF SessionOK
  <2> QED
    BY <2>1, <2>2, OneLife DEF Lives
<1> QED
  BY <1>1, <1>2

-----------------------------------------------------------------------------
(* The manager's own operations.                                           *)

\* The parts that read neither the buckets nor the handles.
LEMMA TaskKept ==
  TaskInv /\ OffsetInv /\ LiveInv /\ UNCHANGED <<touch, started, fan, lastOffset, evald, live>>
    => TaskInv' /\ OffsetInv' /\ LiveInv'
  BY DEF TaskInv, OffsetInv, LiveInv, SentBelow, DeltasInOrder, The, head

\* Handles of c are dropped, and c leaves the bucket of each of them; a bucket
\* without subscribers goes with its window.
LEMMA DropKeeps ==
  ASSUME FanOutInv, NEW c \in Conn, NEW hs \in SUBSET handles[c],
         UNCHANGED <<touch, started, fan, lastOffset, joined, evald, live, registered>>,
         handles' = [handles EXCEPT ![c] = handles[c] \ hs],
         DropSubscriber(c, {h.q : h \in hs}), ConnInv'
  PROVE  FanOutInv'
<1> DEFINE qs == {h.q : h \in hs}
<1>i. TaskInv /\ OffsetInv /\ LiveInv /\ WindowInv /\ BucketInv /\ LiveMissesNothing
  BY DEF FanOutInv
<1>1. TaskInv' /\ OffsetInv' /\ LiveInv'
  BY <1>i, TaskKept
<1>2. /\ subs' = [q \in Queries |-> IF q \in qs THEN subs[q] \ {c} ELSE subs[q]]
      /\ window' = [q \in Queries |-> IF q \in qs /\ subs[q] \subseteq {c} THEN NoWindow ELSE window[q]]
  BY DEF DropSubscriber
<1>n. NoWindow \in Windows /\ NoWindow.trimmed = 0 /\ NoWindow.entries = {}
  BY DEF NoWindow, Windows
<1> HIDE DEF qs
<1>3. /\ \A q \in Queries : subs'[q] \subseteq subs[q]
      /\ \A q \in Queries : q \in qs => c \notin subs'[q]
      /\ \A q \in Queries : window'[q] = window[q] \/ (window'[q] = NoWindow /\ subs'[q] = {})
      /\ subs' \in [Queries -> SUBSET Conn]
  BY <1>2, <1>i DEF BucketInv
<1>4. WindowInv'
  <2>1. DOMAIN window' = Queries
    BY <1>2
  <2>2. \A q \in Queries : WindowOK(window'[q], q, lastOffset)
    BY <1>3, <1>n, <1>i DEF WindowInv, WindowOK, OffsetInv
  <2>3. \A q \in Queries : \A d \in subs'[q] : Complete(window'[q], q, joined[<<d, q>>])
    BY <1>3, <1>i DEF WindowInv
  <2>4. (\A w, q, l : WindowOK(w, q, l)' <=> WindowOK(w, q, l)) /\ (\A w, q, j : Complete(w, q, j)' <=> Complete(w, q, j))
    BY DEF WindowOK, Complete
  <2> QED
    BY <2>1, <2>2, <2>3, <1>i DEF WindowInv, WindowOK, Complete
<1>5. BucketInv'
  <2>1. DOMAIN handles' = Conn
    BY <1>i DEF BucketInv
  <2>2. ASSUME NEW q \in Queries, NEW d \in subs'[q] PROVE \E h \in handles'[d] : h.q = q
    <3>1. PICK h \in handles[d] : h.q = q
      BY <1>3, <1>i DEF BucketInv
    <3>2. d \in Conn
      BY <1>3, <1>i DEF BucketInv
    <3>3. CASE d # c
      BY <3>1, <3>2, <3>3, <1>i DEF BucketInv
    <3>4. CASE d = c
      <4>1. q \notin qs
        BY <3>4, <1>3
      <4>2. h \notin hs
        BY <3>1, <4>1 DEF qs
      <4> QED
        BY <3>1, <3>4, <4>2, <1>i DEF BucketInv
    <3> QED
      BY <3>3, <3>4
  <2> QED
    BY <2>1, <2>2, <1>3 DEF BucketInv
<1>6. LiveMissesNothing'
  <2>1. \A d, q, n : Pending(d, q, n)' <=> Pending(d, q, n)
    BY DEF Pending
  <2> QED
    BY <2>1, <1>3, <1>i DEF LiveMissesNothing
<1> QED
  BY <1>1, <1>4, <1>5, <1>6 DEF FanOutInv

LEMMA UnsubscribeKeeps ==
  ASSUME FanOutInv, NEW c \in Conn, NEW ids, Unsubscribe(c, ids)
  PROVE  FanOutInv'
<1> DEFINE hs == {h \in handles[c] : h.id \in ids}
<1>1. /\ UNCHANGED <<touch, started, fan, lastOffset, joined, evald, live, registered>>
      /\ req' = req /\ state' = state /\ state[c] = "open"
      /\ handles' = [handles EXCEPT ![c] = handles[c] \ hs]
      /\ DropSubscriber(c, {h.q : h \in hs})
  BY DEF Unsubscribe, Arrives, task, sockets
<1>2. hs \in SUBSET handles[c]
  OBVIOUS
<1> HIDE DEF hs
<1>i. ConnInv /\ BucketInv
  BY DEF FanOutInv
<1>3. ConnInv'
  <2>1. \A d \in Conn : d # c => handles'[d] = handles[d]
    BY <1>1, <1>i DEF BucketInv
  <2>2. SessionOK(c, req'[c], state'[c], handles'[c])
    BY <1>1, <1>i DEF ConnInv, SessionOK
  <2> QED
    BY <2>1, <2>2, <1>1, <1>i, OneConn DEF ConnInv
<1> QED
  BY <1>1, <1>2, <1>3, DropKeeps

LEMMA DisconnectKeeps == ASSUME FanOutInv, NEW c \in Conn, Disconnect(c) PROVE FanOutInv'
<1>i. ConnInv /\ BucketInv
  BY DEF FanOutInv
<1>1. /\ UNCHANGED <<touch, started, fan, lastOffset, joined, evald, live, registered>>
      /\ req' = req /\ state' = [state EXCEPT ![c] = "closed"] /\ state[c] = "drop"
      /\ handles' = [handles EXCEPT ![c] = {}]
      /\ DropSubscriber(c, {h.q : h \in handles[c]})
  BY DEF Disconnect, task, sockets
<1>2. handles' = [handles EXCEPT ![c] = handles[c] \ handles[c]]
  BY <1>1
<1>3. ConnInv'
  <2>1. \A d \in Conn : d # c => handles'[d] = handles[d] /\ state'[d] = state[d]
    BY <1>1, <1>i DEF BucketInv, ConnInv
  <2>2. state' \in [Conn -> Lives] /\ state'[c] = "closed" /\ handles'[c] = {}
    BY <1>1, <1>i DEF ConnInv, BucketInv, Lives
  <2>3. SessionOK(c, req'[c], state'[c], handles'[c])
    <3>1. SessionOK(c, req[c], state[c], handles[c])
      BY <1>i DEF ConnInv
    <3> QED
      BY <3>1, <2>2, <1>1 DEF SessionOK
  <2>4. c \notin registered'
    BY <1>1, <1>i DEF ConnInv
  <2> QED
    BY <2>1, <2>2, <2>3, <2>4, <1>1, <1>i, OneConn DEF ConnInv
<1> QED
  BY <1>1, <1>2, <1>3, DropKeeps

\* A subscriber joins a bucket: nothing it has to be sent is evaluated yet.
LEMMA RegisterKeeps == ASSUME FanOutInv, NEW c \in Conn, Register(c) PROVE FanOutInv'
<1> DEFINE q == Head(req[c].todo)
           h == [id |-> nextId[c], q |-> q]
<1>i. TaskInv /\ OffsetInv /\ LiveInv /\ WindowInv /\ BucketInv /\ ConnInv /\ LiveMissesNothing
  BY DEF FanOutInv
<1>j. SessionOK(c, req[c], state[c], handles[c])
  BY <1>i DEF ConnInv
<1>1. /\ UNCHANGED <<touch, started, fan, lastOffset, window, evald, live, registered, state>>
      /\ req[c].pc = "subscribe"
      /\ handles' = [handles EXCEPT ![c] = handles[c] \cup {h}]
      /\ subs' = [subs EXCEPT ![q] = subs[q] \cup {c}]
      /\ joined' = IF c \in subs[q] THEN joined ELSE [joined EXCEPT ![<<c, q>>] = lastOffset]
  BY DEF Register, task, sockets
<1>2. req[c].todo \in Seq(Queries) /\ req[c].todo # <<>> /\ q \in Queries
  BY <1>1, <1>j DEF SessionOK
<1>3. PICK a : LET rest == Tail(req[c].todo) IN
        req' = [req EXCEPT ![c].todo = rest, ![c].replies = a,
                           ![c].pc = IF rest = <<>> THEN "reply" ELSE "subscribe"]
  BY DEF Register, BatchGoesOn
<1>4. h.q = q
  OBVIOUS
<1>5. TaskInv' /\ OffsetInv' /\ LiveInv'
  BY <1>1, <1>i, TaskKept
<1>6. ConnInv'
  <2> DEFINE rest == Tail(req[c].todo)
             n == [req[c] EXCEPT !.todo = rest, !.replies = a,
                                 !.pc = IF rest = <<>> THEN "reply" ELSE "subscribe"]
  <2>1. req' = [req EXCEPT ![c] = n]
    BY <1>3
  <2>2. DOMAIN n = DOMAIN req[c] /\ n.todo = rest /\ n.pc = IF rest = <<>> THEN "reply" ELSE "subscribe"
    BY <1>j, ReqFields DEF SessionOK
  <2>3. rest \in Seq(Queries)
    BY <1>2
  <2> HIDE DEF n, rest, h
  <2>4. SessionOK(c, n, state[c], {}) /\ state[c] \notin {"absent", "none"} /\ (c \in Tcp => state[c] = "open")
    <3>1. state[c] \notin {"absent", "none"} /\ (c \in Tcp => state[c] = "open")
      BY <1>1, <1>j DEF SessionOK
    <3> QED
      BY <2>2, <2>3, <3>1, <1>j DEF SessionOK
  <2>5. SessionOK(c, n, state[c], handles'[c])
    BY <2>4 DEF SessionOK
  <2>6. \A d \in Conn : d # c => req'[d] = req[d] /\ handles'[d] = handles[d]
    BY <2>1, <1>1, <1>i DEF ConnInv, BucketInv
  <2>7. DOMAIN req' = Conn /\ req'[c] = n
    BY <2>1, <1>i DEF ConnInv
  <2> QED
    BY <2>5, <2>6, <2>7, <1>1, <1>i, OneConn DEF ConnInv
<1> HIDE DEF h, q
<1>7. BucketInv'
  <2>1. DOMAIN handles' = Conn /\ subs' \in [Queries -> SUBSET Conn]
    BY <1>1, <1>2, <1>i DEF BucketInv
  <2>2. \A d \in Conn : handles[d] \subseteq handles'[d]
    BY <1>1, <1>i DEF BucketInv
  <2>3. h \in handles'[c]
    BY <1>1, <1>i DEF BucketInv
  <2>4. \A r \in Queries : \A d \in subs'[r] : d \in subs[r] \/ (d = c /\ r = q)
    BY <1>1, <1>2, <1>i DEF BucketInv
  <2>5. \A r \in Queries : \A d \in subs'[r] : \E x \in handles'[d] : x.q = r
    BY <2>2, <2>3, <2>4, <1>4, <1>i DEF BucketInv
  <2> QED
    BY <2>1, <2>5 DEF BucketInv
<1>8. /\ joined' \in [Conn \X Queries -> Nat]
      /\ \A r \in Queries : \A d \in subs'[r] :
           \/ d \in subs[r] /\ joined'[<<d, r>>] = joined[<<d, r>>]
           \/ joined'[<<d, r>>] = lastOffset
  <2>1. \A r \in Queries : \A d \in subs'[r] : d \in Conn /\ (d \in subs[r] \/ (d = c /\ r = q))
    BY <1>1, <1>2, <1>i DEF BucketInv
  <2>2. CASE c \in subs[q]
    BY <2>1, <2>2, <1>1, <1>i DEF WindowInv
  <2>3. CASE c \notin subs[q]
    <3>1. joined' = [joined EXCEPT ![<<c, q>>] = lastOffset]
      BY <2>3, <1>1
    <3>2. <<c, q>> \in Conn \X Queries
      BY <1>2
    <3>3. joined' \in [Conn \X Queries -> Nat] /\ joined'[<<c, q>>] = lastOffset
      BY <3>1, <3>2, <1>i DEF WindowInv, OffsetInv
    <3>4. \A p \in Conn \X Queries : p # <<c, q>> => joined'[p] = joined[p]
      BY <3>1, <1>i DEF WindowInv
    <3>5. \A r \in Queries : \A d \in subs'[r] : d \in subs[r] => <<d, r>> # <<c, q>>
      BY <2>3
    <3> QED
      BY <2>1, <3>3, <3>4, <3>5
  <2> QED
    BY <2>2, <2>3
<1>9. \A n \in evald : ~(n > lastOffset)
  BY <1>i DEF OffsetInv
<1>10. WindowInv'
  <2>1. \A r \in Queries : \A d \in subs'[r] : Complete(window[r], r, joined'[<<d, r>>])
    BY <1>8, <1>9, <1>i DEF WindowInv, Complete
  <2> QED
    BY <2>1, <1>1, <1>8, <1>i DEF WindowInv, WindowOK, Complete
<1>11. LiveMissesNothing'
  <2>1. \A d, r, n : Pending(d, r, n)' <=> Pending(d, r, n)
    BY <1>1 DEF Pending
  <2> SUFFICES ASSUME NEW r \in Queries, NEW d \in subs'[r] \cap registered, NEW n \in evald,
                      n > joined'[<<d, r>>], r \in touch[n]
               PROVE  Pending(d, r, n) \/ \E i \in 1..Len(live[d]) : live[d][i].off = n /\ r \in live[d][i].qs
    BY <2>1, <1>1 DEF LiveMissesNothing
  <2>2. d \in subs[r] /\ joined'[<<d, r>>] = joined[<<d, r>>]
    BY <1>8, <1>9
  <2> QED
    BY <2>2, <1>i DEF LiveMissesNothing
<1> QED
  BY <1>5, <1>6, <1>7, <1>10, <1>11 DEF FanOutInv

-----------------------------------------------------------------------------
(* The commit, and the task's moves between commits.                       *)

\* A commit is added behind those there are.
LEMMA CommitKeeps == ASSUME FanOutInv, NEW qs \in SUBSET Queries, Commit(qs) PROVE FanOutInv'
<1>i. TaskInv /\ OffsetInv /\ LiveInv /\ WindowInv /\ BucketInv /\ ConnInv /\ LiveMissesNothing
  BY DEF FanOutInv
<1>1. /\ touch' = Append(touch, qs)
      /\ UNCHANGED <<started, fan, lastOffset, handles, subs, window, joined, state, req,
                     registered, evald, live>>
  BY DEF Commit, task, manager, sockets
<1>2. /\ touch' \in Seq(SUBSET Queries) /\ head' = head + 1 /\ head \in Nat
      /\ \A n \in 1..head : touch'[n] = touch[n]
  BY <1>1, <1>i DEF TaskInv, head
<1>f. The.off \in Nat /\ The' = The
  BY <1>1, <1>i DEF TaskInv, The, FanType, Tasks
<1>3. TaskInv'
  BY <1>1, <1>2, <1>f, <1>i DEF TaskInv
<1>4. OffsetInv'
  <2>1. lastOffset <= head' /\ evald \subseteq 1..head'
    BY <1>2, <1>i DEF OffsetInv
  <2> QED
    BY <2>1, <1>1, <1>f, <1>i DEF OffsetInv
<1>5. LiveInv' /\ BucketInv' /\ ConnInv'
  BY <1>1, <1>i DEF LiveInv, SentBelow, DeltasInOrder, The, BucketInv, ConnInv
<1>6. \A n \in evald : n \in 1..head /\ touch'[n] = touch[n]
  BY <1>2, <1>i DEF OffsetInv
<1>7. WindowInv'
  <2>1. ASSUME NEW q \in Queries PROVE WindowOK(window[q], q, lastOffset)'
    <3>1. \A n \in window[q].entries : touch'[n] = touch[n]
      <4>1. \A n \in window[q].entries : n \in 1..head
        BY <1>i, <1>2 DEF WindowInv, WindowOK, Windows, OffsetInv
      <4> QED
        BY <4>1, <1>2
    <3> QED
      BY <3>1, <1>1, <1>i DEF WindowInv, WindowOK
  <2>2. ASSUME NEW q \in Queries, NEW c \in subs[q] PROVE Complete(window[q], q, joined[<<c, q>>])'
    BY <1>1, <1>6, <1>i DEF WindowInv, Complete
  <2> QED
    BY <2>1, <2>2, <1>1, <1>i DEF WindowInv
<1>8. LiveMissesNothing'
  <2>1. \A c, q, n : Pending(c, q, n)' <=> Pending(c, q, n)
    BY <1>1 DEF Pending
  <2>2. \A q \in Queries : \A c \in subs[q] \cap registered : \A n \in evald :
          n > joined[<<c, q>>] /\ q \in touch'[n] =>
            Pending(c, q, n) \/ \E i \in 1..Len(live[c]) : live[c][i].off = n /\ q \in live[c][i].qs
    BY <1>6, <1>i DEF LiveMissesNothing
  <2>3. \A q \in Queries : \A c \in subs'[q] \cap registered' : \A n \in evald' :
          n > joined'[<<c, q>>] /\ q \in touch'[n] =>
            Pending(c, q, n)' \/ \E i \in 1..Len(live'[c]) : live'[c][i].off = n /\ q \in live'[c][i].qs
    <3>1. subs' = subs /\ registered' = registered /\ evald' = evald /\ joined' = joined /\ live' = live
      BY <1>1
    <3> QED
      BY <2>1, <2>2, <3>1
  <2> QED
    BY <2>3 DEF LiveMissesNothing
<1> QED
  BY <1>3, <1>4, <1>5, <1>7, <1>8 DEF FanOutInv

\* The second task is never spawned.
LEMMA OnlyOneTask == ASSUME FanOutInv, NEW t \in Tasks, fan[t].pc # "off" PROVE t = 1
  BY DEF FanOutInv, TaskInv, NoTask, Tasks

\* What is still to be sent belongs to the one task.
LEMMA PendingIs ==
  ASSUME TaskInv, NEW c, NEW q, NEW n
  PROVE  Pending(c, q, n) <=> /\ The.off = n /\ The.pc = "send"
                              /\ \E p \in The.todo \cup The.cls : p[1] = c /\ q \in p[2]
  BY DEF TaskInv, Pending, NoTask, The, Tasks

\* All but the task's own place is as before.
TaskMoves == UNCHANGED <<touch, lastOffset, handles, subs, window, joined, evald, live,
                         registered, state, req>>

\* Between commits nothing is pending, so the task may move its cursor.
LEMMA MoveKeeps ==
  ASSUME FanOutInv, TaskMoves, TaskInv', The.todo = {}, The.cls = {}, The'.todo = {}, The'.cls = {},
         The.off <= The'.off, The'.pc = "eval" => The.off < The'.off
  PROVE  FanOutInv'
<1> USE DEF TaskMoves
<1>i. TaskInv /\ OffsetInv /\ LiveInv /\ WindowInv /\ BucketInv /\ ConnInv /\ LiveMissesNothing
  BY DEF FanOutInv
<1>n. The.off \in Nat /\ The'.off \in Nat
  BY <1>i DEF TaskInv, The, FanType, Tasks
<1>1. OffsetInv'
  <2>1. head' = head
    BY DEF head
  <2>2. lastOffset <= The'.off /\ (The'.pc = "eval" => lastOffset < The'.off)
    BY <1>i, <1>n DEF OffsetInv
  <2> QED
    BY <2>1, <2>2, <1>i DEF OffsetInv
<1>2. LiveInv'
  <2>1. \A c \in Conn : \A i \in 1..Len(live[c]) : live[c][i].off \in Nat /\ live[c][i].off < The.off + 1
    <3> SUFFICES ASSUME NEW c \in Conn, NEW i \in 1..Len(live[c])
                 PROVE  live[c][i].off \in Nat /\ live[c][i].off < The.off + 1
      OBVIOUS
    <3>1. live[c] \in Seq(Updates) /\ SentBelow(c, The.off + 1)
      BY <1>i DEF LiveInv
    <3>2. live[c][i] \in Updates
      BY <3>1
    <3> QED
      BY <3>1, <3>2 DEF SentBelow, Updates
  <2>2. \A c \in Conn : SentBelow(c, The'.off + 1)
    BY <2>1, <1>n DEF SentBelow
  <2>3. The'.pc = "eval" => \A c \in Conn : SentBelow(c, The'.off)
    BY <2>1, <1>n DEF SentBelow
  <2>4. DeltasInOrder'
    BY <1>i DEF LiveInv, DeltasInOrder
  <2> QED
    BY <2>2, <2>3, <2>4, <1>i DEF LiveInv, SentBelow
<1>3. WindowInv' /\ BucketInv' /\ ConnInv'
  BY <1>i DEF WindowInv, WindowOK, Complete, BucketInv, ConnInv
<1>4. LiveMissesNothing'
  <2>1. \A c, q, n : ~Pending(c, q, n)
    BY <1>i, PendingIs
  <2> QED
    BY <2>1, <1>i DEF LiveMissesNothing
<1> QED
  BY <1>1, <1>2, <1>3, <1>4 DEF FanOutInv

LEMMA SpawnKeeps == ASSUME FanOutInv, SpawnFanout PROVE FanOutInv'
<1>i. TaskInv
  BY DEF FanOutInv
<1>1. ~started /\ started' = TRUE /\ fan' = [fan EXCEPT ![1].pc = "spawned"] /\ TaskMoves
  BY DEF SpawnFanout, TaskMoves, manager, sockets
<1>2. /\ fan' \in [Tasks -> FanType] /\ fan'[2] = fan[2]
      /\ The'.pc = "spawned" /\ The'.off = The.off /\ The'.next = The.next
      /\ The'.todo = The.todo /\ The'.cls = The.cls
  BY <1>1, <1>i DEF TaskInv, The, FanType, Tasks
<1>3. The.pc = "off" /\ The.off \in Nat
  BY <1>1, <1>i DEF TaskInv, The, FanType, Tasks
<1>4. TaskInv'
  BY <1>1, <1>2, <1>3, <1>i DEF TaskInv, TaskMoves
<1> QED
  BY <1>1, <1>2, <1>3, <1>4, <1>i, MoveKeeps DEF TaskInv

LEMMA CursorKeeps ==
  ASSUME FanOutInv, NEW t \in Tasks, FanBegin(t) \/ FanRecv(t) \/ FanLagged(t) \/ FanDone(t)
  PROVE  FanOutInv'
<1>i. TaskInv
  BY DEF FanOutInv
<1>t. t = 1
  BY OnlyOneTask DEF FanBegin, FanRecv, FanLagged, FanDone
<1>m. TaskMoves /\ started' = started /\ head' = head
  BY DEF FanBegin, FanRecv, FanLagged, FanDone, TaskMoves, manager, sockets, head
<1>n. The.off \in Nat /\ The.next \in Nat /\ head \in Nat
  BY <1>i DEF TaskInv, The, FanType, Tasks, head
<1>1. CASE FanBegin(t)
  <2>1. fan' = [fan EXCEPT ![1].pc = "recv", ![1].next = head + 1] /\ The.pc = "spawned"
    BY <1>1, <1>t DEF FanBegin, The
  <2>2. /\ fan' \in [Tasks -> FanType] /\ fan'[2] = fan[2]
        /\ The'.pc = "recv" /\ The'.off = The.off /\ The'.next = head + 1
        /\ The'.todo = The.todo /\ The'.cls = The.cls
    <3> DEFINE n == head + 1
    <3>1. n \in Nat /\ fan' = [fan EXCEPT ![1].pc = "recv", ![1].next = n]
      BY <2>1, <1>n
    <3> HIDE DEF n
    <3>t. fan \in [Tasks -> FanType] /\ fan[1] \in FanType /\ 1 \in Tasks /\ 2 \in Tasks
      BY <1>i DEF TaskInv, Tasks
    <3>3. fan' = [fan EXCEPT ![1] = [fan[1] EXCEPT !.pc = "recv", !.next = n]]
      BY <3>1
    <3>4. [fan[1] EXCEPT !.pc = "recv", !.next = n] \in FanType
      BY <3>1, <3>t DEF FanType
    <3>2. /\ fan' \in [Tasks -> FanType] /\ fan'[2] = fan[2]
          /\ The'.pc = "recv" /\ The'.off = The.off /\ The'.next = n
          /\ The'.todo = The.todo /\ The'.cls = The.cls
      BY <3>3, <3>4, <3>t DEF The, FanType
    <3> QED
      BY <3>2 DEF n
  <2>3. TaskInv'
    BY <2>1, <2>2, <1>m, <1>n, <1>i DEF TaskInv, TaskMoves
  <2> QED
    BY <2>1, <2>2, <2>3, <1>m, <1>n, <1>i, MoveKeeps DEF TaskInv
<1>2. CASE FanRecv(t)
  <2>1. /\ fan' = [fan EXCEPT ![1].pc = "eval", ![1].off = fan[1].next, ![1].next = fan[1].next + 1]
        /\ The.pc = "recv" /\ The.next <= head
    BY <1>2, <1>t DEF FanRecv, The
  <2>2. /\ fan' \in [Tasks -> FanType] /\ fan'[2] = fan[2]
        /\ The'.pc = "eval" /\ The'.off = The.next /\ The'.next = The.next + 1
        /\ The'.todo = The.todo /\ The'.cls = The.cls
    BY <2>1, <1>n, <1>i DEF TaskInv, The, FanType, Tasks
  <2>3. TaskInv'
    BY <2>1, <2>2, <1>m, <1>n, <1>i DEF TaskInv, TaskMoves
  <2> QED
    BY <2>1, <2>2, <2>3, <1>m, <1>n, <1>i, MoveKeeps DEF TaskInv
<1>3. CASE FanLagged(t)
  <2>1. fan' = [fan EXCEPT ![1].next = Oldest] /\ The.pc = "recv" /\ The.next < Oldest
    BY <1>3, <1>t DEF FanLagged, The
  <2>o. Oldest \in Nat
    BY <1>n, BoundAssumption DEF BoundAssumption, Oldest, Max2
  <2>2. /\ fan' \in [Tasks -> FanType] /\ fan'[2] = fan[2]
        /\ The'.pc = "recv" /\ The'.off = The.off /\ The'.next = Oldest
        /\ The'.todo = The.todo /\ The'.cls = The.cls
    BY <2>1, <2>o, <1>n, <1>i DEF TaskInv, The, FanType, Tasks
  <2>3. TaskInv'
    BY <2>1, <2>2, <2>o, <1>m, <1>n, <1>i DEF TaskInv, TaskMoves
  <2> QED
    BY <2>1, <2>2, <2>3, <1>m, <1>n, <1>i, MoveKeeps DEF TaskInv
<1>4. CASE FanDone(t)
  <2>1. fan' = [fan EXCEPT ![1].pc = "recv"] /\ The.pc = "send" /\ The.todo = {} /\ The.cls = {}
    BY <1>4, <1>t DEF FanDone, The
  <2>2. /\ fan' \in [Tasks -> FanType] /\ fan'[2] = fan[2]
        /\ The'.pc = "recv" /\ The'.off = The.off /\ The'.next = The.next
        /\ The'.todo = The.todo /\ The'.cls = The.cls
    BY <2>1, <1>n, <1>i DEF TaskInv, The, FanType, Tasks
  <2>3. TaskInv'
    BY <2>1, <2>2, <1>m, <1>n, <1>i DEF TaskInv, TaskMoves
  <2> QED
    BY <2>1, <2>2, <2>3, <1>m, <1>n, <1>i, MoveKeeps DEF TaskInv
<1> QED
  BY <1>1, <1>2, <1>3, <1>4

-----------------------------------------------------------------------------
(* The task sends what a commit's evaluation asked for.                    *)

\* A record of a task, with what is left to send set.
Left(r, a, b) == [r EXCEPT !.todo = a, !.cls = b]

LEMMA TaskFields ==
  ASSUME NEW r \in FanType, NEW a \in SUBSET Target, NEW b \in SUBSET Target
  PROVE  LET n == Left(r, a, b) IN
         /\ n \in FanType /\ n.pc = r.pc /\ n.off = r.off /\ n.next = r.next
         /\ n.todo = a /\ n.cls = b
  BY DEF FanType, Left

Sends(a, b) == fan' = [fan EXCEPT ![1].todo = a, ![1].cls = b]

LEMMA SendFields ==
  ASSUME TaskInv, NEW a \in SUBSET Target, NEW b \in SUBSET Target, Sends(a, b)
  PROVE  /\ fan' \in [Tasks -> FanType] /\ fan'[2] = fan[2]
         /\ The'.pc = The.pc /\ The'.off = The.off /\ The'.next = The.next
         /\ The'.todo = a /\ The'.cls = b
<1>1. fan \in [Tasks -> FanType] /\ fan[1] \in FanType /\ 1 \in Tasks /\ 2 \in Tasks
  BY DEF TaskInv, Tasks
<1> DEFINE n == Left(fan[1], a, b)
<1>2. fan' = [fan EXCEPT ![1] = n]
  BY DEF Sends, Left
<1>3. /\ n \in FanType /\ n.pc = fan[1].pc /\ n.off = fan[1].off /\ n.next = fan[1].next
      /\ n.todo = a /\ n.cls = b
  BY <1>1, TaskFields
<1> HIDE DEF n
<1>4. fan'[1] = n /\ fan'[2] = fan[2] /\ fan' \in [Tasks -> FanType]
  BY <1>1, <1>2, <1>3
<1> QED
  BY <1>3, <1>4 DEF The

\* What is left to send shrinks; registrations may only be taken away; and
\* what is no longer pending was sent, or its connection is not registered.
LEMMA SendKeeps ==
  ASSUME FanOutInv, The.pc = "send", NEW a \in SUBSET Target, NEW b \in SUBSET Target,
         Sends(a, b), a \cap b = {},
         a \cup b \subseteq The.todo \cup The.cls,
         UNCHANGED <<touch, started, lastOffset, handles, subs, window, joined, evald, state, req>>,
         registered' \subseteq registered, LiveInv',
         \A c \in Conn : \A i \in 1..Len(live[c]) : i \in 1..Len(live'[c]) /\ live'[c][i] = live[c][i],
         \A p \in The.todo \cup The.cls :
           \/ p \in a \cup b \/ p[1] \notin registered'
           \/ \E i \in 1..Len(live'[p[1]]) : live'[p[1]][i].off = The.off /\ live'[p[1]][i].qs = p[2]
  PROVE  FanOutInv'
<1>i. TaskInv /\ OffsetInv /\ WindowInv /\ BucketInv /\ ConnInv /\ LiveMissesNothing
  BY DEF FanOutInv
<1>1. /\ fan' \in [Tasks -> FanType] /\ fan'[2] = fan[2]
      /\ The'.pc = The.pc /\ The'.off = The.off /\ The'.next = The.next
      /\ The'.todo = a /\ The'.cls = b
  BY <1>i, SendFields
<1>2. head' = head
  BY DEF head
<1>3. TaskInv'
  <2>1. \A p, r \in a \cup b : p[1] = r[1] => p = r
    BY <1>i DEF TaskInv
  <2> QED
    BY <1>1, <1>2, <1>i, <2>1 DEF TaskInv
<1>4. OffsetInv'
  BY <1>1, <1>2, <1>i DEF OffsetInv
<1>5. WindowInv' /\ BucketInv' /\ ConnInv'
  BY <1>i DEF WindowInv, WindowOK, Complete, BucketInv, ConnInv
<1>6. LiveMissesNothing'
  <2>1. ASSUME NEW q \in Queries, NEW c \in subs[q] \cap registered', NEW n \in evald,
               n > joined[<<c, q>>], q \in touch[n]
        PROVE  Pending(c, q, n)' \/ \E i \in 1..Len(live'[c]) : live'[c][i].off = n /\ q \in live'[c][i].qs
    <3>c. c \in Conn /\ c \in registered
      BY <1>i DEF ConnInv
    <3>1. Pending(c, q, n) \/ \E i \in 1..Len(live[c]) : live[c][i].off = n /\ q \in live[c][i].qs
      BY <2>1, <3>c, <1>i DEF LiveMissesNothing
    <3>2. CASE \E i \in 1..Len(live[c]) : live[c][i].off = n /\ q \in live[c][i].qs
      BY <3>2, <3>c
    <3>3. CASE Pending(c, q, n)
      <4>1. The.off = n
        BY <3>3, <1>i, PendingIs
      <4>2. PICK p \in The.todo \cup The.cls : p[1] = c /\ q \in p[2]
        BY <3>3, <1>i, PendingIs
      <4>3. CASE p \in a \cup b
        <5>1. Pending(c, q, n)' <=> /\ The'.off = n /\ The'.pc = "send"
                                    /\ \E r \in The'.todo \cup The'.cls : r[1] = c /\ q \in r[2]
          BY <1>3 DEF TaskInv, Pending, NoTask, The, Tasks
        <5> QED
          BY <4>1, <4>2, <4>3, <5>1, <1>1
      <4>4. CASE p \notin a \cup b
        BY <4>1, <4>2, <4>4
      <4> QED
        BY <4>3, <4>4
    <3> QED
      BY <3>1, <3>2, <3>3
  <2>2. subs' = subs /\ evald' = evald /\ joined' = joined /\ touch' = touch
    OBVIOUS
  <2>3. \A q \in Queries : \A c \in subs'[q] \cap registered' : \A n \in evald' :
          n > joined'[<<c, q>>] /\ q \in touch'[n] =>
            Pending(c, q, n)' \/ \E i \in 1..Len(live'[c]) : live'[c][i].off = n /\ q \in live'[c][i].qs
    BY <2>1, <2>2
  <2> QED
    BY <2>3 DEF LiveMissesNothing
<1> QED
  BY <1>3, <1>4, <1>5, <1>6 DEF FanOutInv

\* The parts of LiveInv, when nothing is sent and less is left.
LEMMA LiveKept ==
  ASSUME LiveInv, live' = live, The'.pc = "send", The'.off = The.off,
         The'.todo \cup The'.cls \subseteq The.todo \cup The.cls
  PROVE  LiveInv'
  BY DEF LiveInv, SentBelow, DeltasInOrder

LEMMA LookupKeeps == ASSUME FanOutInv, NEW t \in Tasks, FanLookup(t) PROVE FanOutInv'
<1>i. TaskInv /\ LiveInv
  BY DEF FanOutInv
<1>t. t = 1
  BY OnlyOneTask DEF FanLookup
<1>1. The.pc = "send" /\ The.cls = {}
  BY <1>t DEF FanLookup, The
<1>2. PICK class \in SUBSET The.todo :
        fan' = [fan EXCEPT ![1].todo = The.todo \ class,
                           ![1].cls = {p \in class : p[1] \in registered}]
  BY <1>t DEF FanLookup, The
<1>u. /\ UNCHANGED <<touch, started, lastOffset, handles, subs, window, joined, evald, state, req>>
      /\ registered' = registered /\ live' = live
  BY DEF FanLookup, manager, sockets
<1> DEFINE a == The.todo \ class
           b == {p \in class : p[1] \in registered}
<1>3. a \in SUBSET Target /\ b \in SUBSET Target
  BY <1>i DEF TaskInv, The, FanType, Tasks
<1>4. a \cap b = {} /\ a \cup b \subseteq The.todo \cup The.cls
  BY <1>2
<1>8. Sends(a, b)
  BY <1>2 DEF Sends
<1>5. The'.pc = "send" /\ The'.off = The.off /\ The'.todo = a /\ The'.cls = b
  BY <1>1, <1>3, <1>8, <1>i, SendFields
<1>6. LiveInv'
  BY <1>4, <1>5, <1>i, <1>u, LiveKept
<1>7. \A p \in The.todo \cup The.cls : p \in a \cup b \/ p[1] \notin registered'
  BY <1>1, <1>u
<1> HIDE DEF a, b
<1> QED
  BY <1>1, <1>3, <1>4, <1>6, <1>7, <1>8, <1>u, SendKeeps

\* A full queue or a closed one: the connection leaves the registry.
LEMMA DeliverDropsKeeps ==
  ASSUME FanOutInv, NEW t \in Tasks, NEW p \in fan[t].cls, DeliverFull(t, p) \/ DeliverClosed(t, p)
  PROVE  FanOutInv'
<1>i. TaskInv /\ LiveInv
  BY DEF FanOutInv
<1>t. t = 1
  BY OnlyOneTask DEF DeliverFull, DeliverClosed
<1> DEFINE a == The.todo
           b == The.cls \ {p}
<1>1. The.pc = "send" /\ p \in The.cls
  BY <1>t DEF DeliverFull, DeliverClosed, The
<1>f. fan' = [fan EXCEPT ![1].cls = b]
  BY <1>t DEF DeliverFull, DeliverClosed, The
<1>u. /\ UNCHANGED <<touch, started, lastOffset, handles, subs, window, joined, evald, state, req>>
      /\ registered' = registered \ {p[1]} /\ live' = live
  BY DEF DeliverFull, DeliverClosed, manager, sockets
<1>g. fan \in [Tasks -> FanType] /\ fan[1] \in FanType /\ 1 \in Tasks
  BY <1>i DEF TaskInv, Tasks
<1>3. a \in SUBSET Target /\ b \in SUBSET Target
  BY <1>g DEF The, FanType
<1>4. a \cap b = {} /\ a \cup b \subseteq The.todo \cup The.cls
  BY <1>i DEF TaskInv
<1>8. Sends(a, b)
  BY <1>f, <1>g DEF The, FanType, Sends
<1>5. The'.pc = "send" /\ The'.off = The.off /\ The'.todo = a /\ The'.cls = b
  BY <1>1, <1>8, <1>3, <1>i, SendFields
<1>6. LiveInv'
  BY <1>4, <1>5, <1>i, <1>u, LiveKept
<1>7. \A r \in The.todo \cup The.cls : r \in a \cup b \/ r[1] \notin registered'
  BY <1>u
<1> HIDE DEF a, b
<1> QED
  BY <1>1, <1>3, <1>4, <1>6, <1>7, <1>8, <1>u, SendKeeps

\* A frame is enqueued: the only one of its commit for its connection.
LEMMA DeliverOkKeeps ==
  ASSUME FanOutInv, NEW t \in Tasks, NEW p \in fan[t].cls, DeliverOk(t, p)
  PROVE  FanOutInv'
<1>i. TaskInv /\ LiveInv
  BY DEF FanOutInv
<1>t. t = 1
  BY OnlyOneTask DEF DeliverOk
<1> DEFINE a == The.todo
           b == The.cls \ {p}
           c == p[1]
           frame == [type |-> "tx", off |-> The.off, qs |-> p[2]]
<1>1. The.pc = "send" /\ p \in The.cls
  BY <1>t DEF DeliverOk, The
<1>f. fan' = [fan EXCEPT ![1].cls = b]
  BY <1>t DEF DeliverOk, The
<1>v. live' = [live EXCEPT ![c] = Append(live[c], frame)]
  BY <1>t DEF DeliverOk, The
<1>u. /\ UNCHANGED <<touch, started, lastOffset, handles, subs, window, joined, evald, state, req>>
      /\ registered' = registered
  BY DEF DeliverOk, manager
<1>g. fan \in [Tasks -> FanType] /\ fan[1] \in FanType /\ 1 \in Tasks
  BY <1>i DEF TaskInv, Tasks
<1>3. a \in SUBSET Target /\ b \in SUBSET Target /\ The.off \in Nat
  BY <1>g DEF The, FanType
<1>4. a \cap b = {} /\ a \cup b \subseteq The.todo \cup The.cls
  BY <1>i DEF TaskInv
<1>8. Sends(a, b)
  BY <1>f, <1>g DEF The, FanType, Sends
<1>5. The'.pc = "send" /\ The'.off = The.off /\ The'.todo = a /\ The'.cls = b
  BY <1>1, <1>8, <1>3, <1>i, SendFields
<1>9. c \in Conn /\ p[2] \in SUBSET Queries
  <2>1. p \in Target
    BY <1>1, <1>g DEF The, FanType
  <2> QED
    BY <2>1 DEF Target
<1>10. frame \in Updates /\ frame.off = The.off /\ frame.qs = p[2]
  BY <1>3, <1>9 DEF Updates
<1>11. \A r \in a \cup b : r[1] # c
  <2>1. \A r \in a \cup b : r # p
    BY <1>1, <1>i DEF TaskInv
  <2> QED
    BY <2>1, <1>1, <1>i DEF TaskInv
<1> HIDE DEF a, b, c, frame
<1>12. live \in [Conn -> Seq(Updates)] /\ live[c] \in Seq(Updates)
  BY <1>9, <1>i DEF LiveInv
<1> DEFINE l == Append(live[c], frame)
           k == Len(live[c])
<1>13. /\ k \in Nat /\ l \in Seq(Updates) /\ Len(l) = k + 1 /\ l[k + 1] = frame
       /\ \A i \in 1..k : l[i] = live[c][i]
  BY <1>10, <1>12
<1>14. live' = [live EXCEPT ![c] = l]
  BY <1>v
<1> HIDE DEF l
<1>15. /\ live' \in [Conn -> Seq(Updates)] /\ live'[c] = l
       /\ \A d \in Conn : d # c => live'[d] = live[d]
  BY <1>9, <1>12, <1>13, <1>14
<1>16. SentBelow(c, The.off) /\ \A i \in 1..k : live[c][i].off \in Nat
  <2>1. SentBelow(c, The.off)
    BY <1>1, <1>i DEF LiveInv, c
  <2>2. \A i \in 1..k : live[c][i] \in Updates
    BY <1>12
  <2> QED
    BY <2>1, <2>2 DEF Updates
<1>17. \A i \in 1..(k + 1) : (i \in 1..k /\ l[i] = live[c][i]) \/ (i = k + 1 /\ l[i] = frame)
  BY <1>13
<1>18. \A i \in 1..(k + 1) : l[i].off < The.off + 1
  BY <1>3, <1>10, <1>16, <1>17 DEF SentBelow
<1>19. \A i, j \in 1..(k + 1) : i < j => l[i].off < l[j].off
  <2> SUFFICES ASSUME NEW i \in 1..(k + 1), NEW j \in 1..(k + 1), i < j PROVE l[i].off < l[j].off
    OBVIOUS
  <2>1. i \in 1..k /\ l[i] = live[c][i] /\ l[i].off < The.off
    BY <1>13, <1>16 DEF SentBelow
  <2>2. CASE j = k + 1
    BY <2>1, <2>2, <1>10, <1>13
  <2>3. CASE j # k + 1
    <3>1. j \in 1..k /\ l[j] = live[c][j]
      BY <2>3, <1>17
    <3> QED
      BY <2>1, <3>1, <1>9, <1>i DEF LiveInv, DeltasInOrder
  <2> QED
    BY <2>2, <2>3
<1>6. LiveInv'
  <2>1. \A d \in Conn : SentBelow(d, The.off + 1)'
    <3>1. ASSUME NEW d \in Conn PROVE \A i \in 1..Len(live'[d]) : live'[d][i].off < The.off + 1
      <4>1. CASE d = c
        BY <4>1, <1>13, <1>15, <1>18
      <4>2. CASE d # c
        <5>1. SentBelow(d, The.off + 1)
          BY <1>i DEF LiveInv
        <5> QED
          BY <5>1, <4>2, <1>15 DEF SentBelow
      <4> QED
        BY <4>1, <4>2
    <3> QED
      BY <3>1, <1>5 DEF SentBelow
  <2>2. ASSUME NEW r \in a \cup b PROVE \A i \in 1..Len(live'[r[1]]) : live'[r[1]][i].off < The.off
    <3>1. r[1] \in Conn
      <4>1. r \in Target
        BY <1>3
      <4> QED
        BY <4>1 DEF Target
    <3>2. live'[r[1]] = live[r[1]] /\ SentBelow(r[1], The.off)
      BY <3>1, <1>4, <1>11, <1>15, <1>i DEF LiveInv
    <3> QED
      BY <3>2 DEF SentBelow
  <2>3. DeltasInOrder'
    <3>1. ASSUME NEW d \in Conn, NEW i \in 1..Len(live'[d]), NEW j \in 1..Len(live'[d]), i < j
          PROVE  live'[d][i].off < live'[d][j].off
      <4>1. CASE d = c
        BY <3>1, <4>1, <1>13, <1>15, <1>19
      <4>2. CASE d # c
        BY <3>1, <4>2, <1>15, <1>i DEF LiveInv, DeltasInOrder
      <4> QED
        BY <4>1, <4>2
    <3> QED
      BY <3>1 DEF DeltasInOrder
  <2> QED
    BY <2>1, <2>2, <2>3, <1>5, <1>15 DEF LiveInv, SentBelow
<1>7. \A r \in The.todo \cup The.cls :
        \/ r \in a \cup b
        \/ \E i \in 1..Len(live'[r[1]]) : live'[r[1]][i].off = The.off /\ live'[r[1]][i].qs = r[2]
  <2>1. \A r \in The.todo \cup The.cls : r \in a \cup b \/ r = p
    BY DEF a, b
  <2>2. k + 1 \in 1..Len(live'[c]) /\ live'[c][k + 1].off = The.off /\ live'[c][k + 1].qs = p[2]
    BY <1>10, <1>13, <1>15
  <2>3. \E i \in 1..Len(live'[p[1]]) : live'[p[1]][i].off = The.off /\ live'[p[1]][i].qs = p[2]
    BY <2>2 DEF c
  <2> QED
    BY <2>1, <2>3
<1>20. \A d \in Conn : \A i \in 1..Len(live[d]) : i \in 1..Len(live'[d]) /\ live'[d][i] = live[d][i]
  <2> SUFFICES ASSUME NEW d \in Conn, NEW i \in 1..Len(live[d])
               PROVE  i \in 1..Len(live'[d]) /\ live'[d][i] = live[d][i]
    OBVIOUS
  <2>1. CASE d = c
    BY <2>1, <1>13, <1>15
  <2>2. CASE d # c
    BY <2>2, <1>15
  <2> QED
    BY <2>1, <2>2
<1> QED
  BY <1>1, <1>3, <1>4, <1>6, <1>7, <1>8, <1>20, <1>u, SendKeeps

-----------------------------------------------------------------------------
(* The manager evaluates a commit.                                         *)

\* A window after a push: only the oldest deltas leave it, and they are
\* those up to the mark.
LEMMA PushIs ==
  ASSUME NEW w \in Windows, NEW off \in Nat, w.trimmed < off, \A n \in w.entries : w.trimmed < n
  PROVE  /\ Push(w, off) \in Windows
         /\ w.trimmed <= Push(w, off).trimmed /\ Push(w, off).trimmed <= off
         /\ \A n \in Push(w, off).entries : Push(w, off).trimmed < n /\ (n = off \/ n \in w.entries)
         /\ \A n \in w.entries \cup {off} : n > Push(w, off).trimmed => n \in Push(w, off).entries
<1> DEFINE all == w.entries \cup {off}
           over == IF Cardinality(all) > Max2(WindowCap, 1)
                   THEN {x \in all : \A y \in all : x <= y} ELSE {}
           mark == IF over = {} THEN w.trimmed ELSE CHOOSE x \in over : TRUE
<1>1. Push(w, off) = [entries |-> all \ over, trimmed |-> mark]
  BY DEF Push
<1>2. Push(w, off).entries = all \ over /\ Push(w, off).trimmed = mark
  BY <1>1
<1>3. all \subseteq Nat /\ w.trimmed \in Nat /\ off \in all /\ \A n \in all : w.trimmed < n
  BY DEF Windows
<1>4. over \subseteq all /\ \A x \in over : \A y \in all : x <= y
  OBVIOUS
<1>5. over = {} => mark = w.trimmed
  OBVIOUS
<1>6. over # {} => mark \in over
  OBVIOUS
<1> HIDE DEF mark, over
<1>7. CASE over = {}
  <2>1. [entries |-> all \ over, trimmed |-> mark] \in Windows
    BY <1>3, <1>5, <1>7 DEF Windows
  <2> QED
    BY <2>1, <1>1, <1>2, <1>3, <1>5, <1>7
<1>8. CASE over # {}
  <2>1. mark \in all /\ mark \in Nat /\ w.trimmed < mark /\ \A y \in all : mark <= y
    BY <1>3, <1>4, <1>6, <1>8
  <2>2. [entries |-> all \ over, trimmed |-> mark] \in Windows
    BY <1>3, <2>1 DEF Windows
  <2>3. \A n \in all \ over : mark < n
    <3> SUFFICES ASSUME NEW n \in all \ over PROVE mark < n
      OBVIOUS
    <3>1. n # mark /\ mark <= n /\ n \in Nat
      BY <2>1, <1>3, <1>6, <1>8
    <3> QED
      BY <3>1, <2>1
  <2>4. \A n \in all : n > mark => n \in all \ over
    <3> SUFFICES ASSUME NEW n \in all, n > mark, n \in over PROVE FALSE
      OBVIOUS
    <3>1. n <= mark /\ n \in Nat
      BY <2>1, <1>3, <1>4
    <3> QED
      BY <3>1, <2>1
  <2>5. w.trimmed <= mark /\ mark <= off
    BY <2>1, <1>3
  <2>6. \A n \in all : n = off \/ n \in w.entries
    OBVIOUS
  <2> HIDE DEF all
  <2>7. all = w.entries \cup {off}
    BY DEF all
  <2> QED
    BY <1>1, <1>2, <2>2, <2>3, <2>4, <2>5, <2>6, <2>7
<1> QED
  BY <1>7, <1>8

\* The windows after on_commit pushed the commit off to the buckets in done.
LEMMA EvalWindows ==
  ASSUME OffsetInv, WindowInv, BucketInv, NEW off \in Nat, lastOffset < off, off = The.off,
         NEW done \in SUBSET Matched(off), Matched(off) \subseteq Queries,
         window' = [q \in Queries |-> IF q \in done THEN Push(window[q], off) ELSE window[q]],
         lastOffset' = off, UNCHANGED <<touch, subs, joined>>,
         \/ evald' = evald
         \/ evald' = evald \cup {off} /\ done = Matched(off)
  PROVE  WindowInv'
<1>1. ASSUME NEW q \in Queries
      PROVE  /\ window[q] \in Windows /\ window[q].trimmed \in Nat /\ window[q].trimmed < off
             /\ \A n \in window[q].entries : window[q].trimmed < n /\ n < off /\ q \in touch[n]
             /\ window[q].entries \subseteq Nat
  <2>1. window[q] \in Windows /\ WindowOK(window[q], q, lastOffset) /\ lastOffset \in Nat
    BY DEF WindowInv, WindowOK, OffsetInv
  <2>2. window[q].trimmed \in Nat /\ window[q].entries \subseteq Nat
    BY <2>1 DEF Windows
  <2> QED
    BY <2>1, <2>2 DEF WindowOK
<1>2. ASSUME NEW q \in Queries PROVE WindowOK(window[q], q, lastOffset)'
  <2>1. CASE q \in done
    <3>1. window'[q] = Push(window[q], off) /\ q \in touch[off]
      BY <2>1 DEF Matched
    <3>2. /\ window'[q] \in Windows /\ window'[q].trimmed <= off
          /\ \A n \in window'[q].entries : window'[q].trimmed < n /\ (n = off \/ n \in window[q].entries)
      BY <3>1, <1>1, PushIs
    <3>3. \A n \in window'[q].entries : n <= off /\ q \in touch[n]
      BY <3>1, <3>2, <1>1
    <3> QED
      BY <3>2, <3>3 DEF WindowOK
  <2>2. CASE q \notin done
    <3>1. window'[q] = window[q]
      BY <2>2
    <3>2. window[q].trimmed <= off /\ \A n \in window[q].entries : n <= off
      BY <1>1
    <3> QED
      BY <3>1, <3>2, <1>1 DEF WindowOK
  <2> QED
    BY <2>1, <2>2
<1>3. ASSUME NEW q \in Queries, NEW c \in subs[q] PROVE Complete(window[q], q, joined[<<c, q>>])'
  <2>1. Complete(window[q], q, joined[<<c, q>>]) /\ \A n \in evald : n \in Nat /\ n < off
    BY DEF WindowInv, OffsetInv
  <2>2. SUFFICES ASSUME NEW n \in evald', n > joined[<<c, q>>], n > window'[q].trimmed, q \in touch[n]
                 PROVE  n \in window'[q].entries
    BY DEF Complete
  <2>3. CASE q \in done
    <3>1. window'[q] = Push(window[q], off)
      BY <2>3
    <3>2. /\ window'[q] \in Windows /\ window[q].trimmed <= window'[q].trimmed
          /\ \A m \in window[q].entries \cup {off} : m > window'[q].trimmed => m \in window'[q].entries
      BY <3>1, <1>1, PushIs
    <3>3. window'[q].trimmed \in Nat /\ n \in Nat
      BY <3>2, <2>1 DEF Windows
    <3>4. n = off \/ n \in window[q].entries
      <4>1. CASE n \in evald
        <5>1. n > window[q].trimmed
          BY <3>2, <3>3, <2>2, <1>1
        <5> QED
          BY <4>1, <5>1, <2>1, <2>2 DEF Complete
      <4> QED
        BY <4>1
    <3> QED
      BY <3>2, <3>4, <2>2
  <2>4. CASE q \notin done
    <3>1. window'[q] = window[q]
      BY <2>4
    <3>2. n \in evald
      <4>1. CASE evald' = evald \cup {off} /\ done = Matched(off)
        <5>1. n # off
          BY <4>1, <2>2, <2>4 DEF Matched
        <5> QED
          BY <4>1, <5>1
      <4> QED
        BY <4>1
    <3> QED
      BY <3>1, <3>2, <2>1, <2>2 DEF Complete
  <2> QED
    BY <2>3, <2>4
<1> QED
  BY <1>2, <1>3 DEF WindowInv

\* One frame per connection, and one for every subscriber of a query that
\* the commit changed.
LEMMA TargetsAre ==
  ASSUME BucketInv, NEW off, Matched(off) \subseteq Queries
  PROVE  /\ Targets(off) \in SUBSET Target
         /\ \A p, r \in Targets(off) : p[1] = r[1] => p = r
         /\ \A q \in Matched(off) : \A c \in subs[q] :
              \E p \in Targets(off) : p[1] = c /\ q \in p[2]
<1> DEFINE cs == UNION {subs[q] : q \in Matched(off)}
           Of(c) == {q \in Matched(off) : c \in subs[q]}
<1>1. Targets(off) = {<<c, Of(c)>> : c \in cs}
  BY DEF Targets
<1>2. cs \subseteq Conn /\ \A c \in cs : Of(c) \subseteq Queries
  BY DEF BucketInv
<1>3. \A q \in Matched(off) : \A c \in subs[q] : c \in cs /\ q \in Of(c)
  OBVIOUS
<1> HIDE DEF cs, Of
<1>4. Targets(off) \in SUBSET Target
  BY <1>1, <1>2 DEF Target
<1>5. \A p, r \in Targets(off) : p[1] = r[1] => p = r
  BY <1>1
<1>6. ASSUME NEW q \in Matched(off), NEW c \in subs[q]
      PROVE  \E p \in Targets(off) : p[1] = c /\ q \in p[2]
  <2>1. <<c, Of(c)>> \in Targets(off) /\ q \in Of(c)
    BY <1>1, <1>3
  <2> QED
    BY <2>1
<1> QED
  BY <1>4, <1>5, <1>6

\* What both outcomes of on_commit start from.
LEMMA AtEval ==
  ASSUME FanOutInv, NEW t \in Tasks, fan[t].pc = "eval"
  PROVE  /\ t = 1 /\ The.pc = "eval" /\ The.off \in 1..head /\ The.off \in Nat /\ head \in Nat
         /\ The.todo = {} /\ The.cls = {}
         /\ Max2(lastOffset, The.off) = The.off /\ lastOffset \in Nat /\ lastOffset < The.off
         /\ Matched(The.off) \subseteq Queries
         /\ \A c, q, n : ~Pending(c, q, n)
<1>i. TaskInv /\ OffsetInv
  BY DEF FanOutInv
<1>1. t = 1 /\ The.pc = "eval"
  BY OnlyOneTask DEF The
<1>2. The.off \in Nat /\ head \in Nat
  BY <1>i DEF TaskInv, The, FanType, Tasks, head
<1>3. The.off \in 1..head /\ The.todo = {} /\ The.cls = {}
  BY <1>1, <1>2, <1>i DEF TaskInv
<1>4. lastOffset \in Nat /\ lastOffset < The.off
  BY <1>1, <1>i DEF OffsetInv
<1>5. Max2(lastOffset, The.off) = The.off
  BY <1>2, <1>4 DEF Max2
<1>6. touch[The.off] \in SUBSET Queries
  BY <1>3, <1>i DEF TaskInv, head
<1>7. \A c, q, n : ~Pending(c, q, n)
  BY <1>1, <1>i, PendingIs
<1> QED
  BY <1>1, <1>2, <1>3, <1>4, <1>5, <1>6, <1>7 DEF Matched

\* The commit is evaluated: its frames are pending.
LEMMA EvaluateKeeps == ASSUME FanOutInv, NEW t \in Tasks, Evaluate(t) PROVE FanOutInv'
<1>i. TaskInv /\ OffsetInv /\ LiveInv /\ WindowInv /\ BucketInv /\ ConnInv /\ LiveMissesNothing
  BY DEF FanOutInv
<1> DEFINE off == The.off
<1>e. fan[t].pc = "eval"
  BY DEF Evaluate
<1>a. /\ t = 1 /\ The.pc = "eval" /\ off \in 1..head /\ off \in Nat /\ head \in Nat
      /\ The.todo = {} /\ The.cls = {}
      /\ Max2(lastOffset, off) = off /\ lastOffset \in Nat /\ lastOffset < off
      /\ Matched(off) \subseteq Queries
      /\ \A c, q, n : ~Pending(c, q, n)
  BY <1>e, AtEval
<1>1. /\ lastOffset' = off
      /\ window' = [q \in Queries |-> IF q \in Matched(off) THEN Push(window[q], off) ELSE window[q]]
      /\ fan' = [fan EXCEPT ![1].pc = "send", ![1].todo = Targets(off)]
      /\ evald' = evald \cup {off}
  BY <1>a DEF Evaluate, The
<1>u. UNCHANGED <<touch, started, handles, subs, joined, state, req, registered, live>> /\ head' = head
  BY DEF Evaluate, sockets, head
<1>2. /\ Targets(off) \in SUBSET Target
      /\ \A p, r \in Targets(off) : p[1] = r[1] => p = r
      /\ \A q \in Matched(off) : \A c \in subs[q] :
           \E p \in Targets(off) : p[1] = c /\ q \in p[2]
  BY <1>a, <1>i, TargetsAre
<1>3. /\ fan' \in [Tasks -> FanType] /\ fan'[2] = fan[2]
      /\ The'.pc = "send" /\ The'.off = off /\ The'.next = The.next
      /\ The'.todo = Targets(off) /\ The'.cls = {}
  <2> DEFINE n == [fan[1] EXCEPT !.pc = "send", !.todo = Targets(off)]
  <2>1. fan' = [fan EXCEPT ![1] = n]
    BY <1>1
  <2>2. fan \in [Tasks -> FanType] /\ fan[1] \in FanType /\ 1 \in Tasks /\ 2 \in Tasks
    BY <1>i DEF TaskInv, Tasks
  <2>3. /\ n \in FanType /\ n.pc = "send" /\ n.off = fan[1].off /\ n.next = fan[1].next
        /\ n.todo = Targets(off) /\ n.cls = fan[1].cls
    BY <2>2, <1>2 DEF FanType
  <2> HIDE DEF n
  <2>4. fan'[1] = n /\ fan'[2] = fan[2] /\ fan' \in [Tasks -> FanType]
    BY <2>1, <2>2, <2>3
  <2> QED
    BY <2>3, <2>4, <1>a DEF The
<1> HIDE DEF off
<1>4. TaskInv'
  <2>1. off < The.next
    BY <1>i DEF TaskInv, off
  <2>2. started
    BY <1>a, <1>i DEF TaskInv
  <2>3. 1 <= off /\ off <= head
    BY <1>a
  <2> QED
    BY <2>1, <2>2, <2>3, <1>2, <1>3, <1>u, <1>i DEF TaskInv
<1>5. OffsetInv'
  <2>1. evald' \subseteq 1..head /\ \A n \in evald' : n <= off
    BY <1>1, <1>a, <1>i DEF OffsetInv
  <2> QED
    BY <2>1, <1>1, <1>3, <1>u, <1>a DEF OffsetInv
<1>6. LiveInv'
  <2>1. \A c \in Conn : SentBelow(c, off) /\ SentBelow(c, off + 1)
    BY <1>a, <1>i DEF LiveInv, off
  <2>2. \A p \in Targets(off) : p[1] \in Conn
    BY <1>2 DEF Target
  <2>3. live' = live
    BY <1>u
  <2>4. DeltasInOrder'
    BY <2>3, <1>i DEF LiveInv, DeltasInOrder
  <2> QED
    BY <2>1, <2>2, <2>3, <2>4, <1>3, <1>i DEF LiveInv, SentBelow
<1>7. WindowInv'
  BY <1>1, <1>a, <1>u, <1>i, EvalWindows DEF off
<1>8. BucketInv' /\ ConnInv'
  BY <1>u, <1>i DEF BucketInv, ConnInv
<1>9. LiveMissesNothing'
  <2>1. ASSUME NEW q \in Queries, NEW c \in subs[q] \cap registered, NEW n \in evald \cup {off},
               n > joined[<<c, q>>], q \in touch[n]
        PROVE  Pending(c, q, n)' \/ \E i \in 1..Len(live[c]) : live[c][i].off = n /\ q \in live[c][i].qs
    <3>1. CASE n \in evald
      BY <2>1, <3>1, <1>a, <1>i DEF LiveMissesNothing
    <3>2. CASE n = off
      <4>1. q \in Matched(off)
        BY <2>1, <3>2 DEF Matched
      <4>2. \E p \in The'.todo \cup The'.cls : p[1] = c /\ q \in p[2]
        BY <4>1, <1>2, <1>3
      <4>3. Pending(c, q, n)'
        BY <3>2, <4>2, <1>3 DEF Pending, The, Tasks
      <4> QED
        BY <4>3
    <3> QED
      BY <3>1, <3>2
  <2>2. subs' = subs /\ registered' = registered /\ joined' = joined /\ touch' = touch /\ live' = live
    BY <1>u
  <2>3. \A q \in Queries : \A c \in subs'[q] \cap registered' : \A n \in evald' :
          n > joined'[<<c, q>>] /\ q \in touch'[n] =>
            Pending(c, q, n)' \/ \E i \in 1..Len(live'[c]) : live'[c][i].off = n /\ q \in live'[c][i].qs
    BY <2>1, <2>2, <1>1
  <2> QED
    BY <2>3 DEF LiveMissesNothing
<1> QED
  BY <1>4, <1>5, <1>6, <1>7, <1>8, <1>9 DEF FanOutInv

\* on_commit fails half-way: the commit does not count as evaluated.
LEMMA EvaluateFailsKeeps == ASSUME FanOutInv, NEW t \in Tasks, EvaluateFails(t) PROVE FanOutInv'
<1>i. TaskInv /\ OffsetInv /\ LiveInv /\ WindowInv /\ BucketInv /\ ConnInv /\ LiveMissesNothing
  BY DEF FanOutInv
<1> DEFINE off == The.off
<1>e. fan[t].pc = "eval"
  BY DEF EvaluateFails
<1>a. /\ t = 1 /\ The.pc = "eval" /\ off \in 1..head /\ off \in Nat /\ head \in Nat
      /\ The.todo = {} /\ The.cls = {}
      /\ Max2(lastOffset, off) = off /\ lastOffset \in Nat /\ lastOffset < off
      /\ Matched(off) \subseteq Queries
      /\ \A c, q, n : ~Pending(c, q, n)
  BY <1>e, AtEval
<1>1. /\ lastOffset' = off
      /\ fan' = [fan EXCEPT ![1].pc = "recv"]
  BY <1>a DEF EvaluateFails, The
<1>w. PICK done \in SUBSET Matched(off) :
        window' = [q \in Queries |-> IF q \in done THEN Push(window[q], off) ELSE window[q]]
  BY <1>a DEF EvaluateFails, The
<1>u. UNCHANGED <<touch, started, handles, subs, joined, state, req, registered, live, evald>> /\ head' = head
  BY DEF EvaluateFails, sockets, head
<1>3. /\ fan' \in [Tasks -> FanType] /\ fan'[2] = fan[2]
      /\ The'.pc = "recv" /\ The'.off = off /\ The'.next = The.next
      /\ The'.todo = {} /\ The'.cls = {}
  BY <1>1, <1>a, <1>i DEF TaskInv, The, FanType, Tasks
<1> HIDE DEF off
<1>4. TaskInv'
  <2>1. off < The.next
    BY <1>i DEF TaskInv, off
  <2>2. started
    BY <1>a, <1>i DEF TaskInv
  <2> QED
    BY <2>1, <2>2, <1>3, <1>u, <1>i DEF TaskInv
<1>5. OffsetInv'
  <2>1. \A n \in evald : n <= off
    BY <1>a, <1>i DEF OffsetInv
  <2> QED
    BY <2>1, <1>1, <1>3, <1>u, <1>a, <1>i DEF OffsetInv
<1>6. LiveInv'
  <2>1. \A c \in Conn : SentBelow(c, off + 1)
    BY <1>a, <1>i DEF LiveInv, off
  <2>2. live' = live
    BY <1>u
  <2>3. DeltasInOrder'
    BY <2>2, <1>i DEF LiveInv, DeltasInOrder
  <2> QED
    BY <2>1, <2>2, <2>3, <1>3, <1>i DEF LiveInv, SentBelow
<1>7. WindowInv'
  BY <1>1, <1>w, <1>a, <1>u, <1>i, EvalWindows DEF off
<1>8. BucketInv' /\ ConnInv'
  BY <1>u, <1>i DEF BucketInv, ConnInv
<1>9. LiveMissesNothing'
  <2>1. \A q \in Queries : \A c \in subs[q] \cap registered : \A n \in evald :
          n > joined[<<c, q>>] /\ q \in touch[n] =>
            \E i \in 1..Len(live[c]) : live[c][i].off = n /\ q \in live[c][i].qs
    BY <1>a, <1>i DEF LiveMissesNothing
  <2> QED
    BY <2>1, <1>u DEF LiveMissesNothing
<1> QED
  BY <1>4, <1>5, <1>6, <1>7, <1>8, <1>9 DEF FanOutInv

-----------------------------------------------------------------------------
(* The theorems.                                                           *)

LEMMA FanKeeps == ASSUME FanOutInv, NEW t \in Tasks, FanStep(t) PROVE FanOutInv'
<1>1. CASE FanBegin(t) \/ FanRecv(t) \/ FanLagged(t) \/ FanDone(t)
  BY <1>1, CursorKeeps
<1>2. CASE Evaluate(t)
  BY <1>2, EvaluateKeeps
<1>3. CASE EvaluateFails(t)
  BY <1>3, EvaluateFailsKeeps
<1>4. CASE FanLookup(t)
  BY <1>4, LookupKeeps
<1>5. ASSUME NEW p \in fan[t].cls, DeliverOk(t, p) PROVE FanOutInv'
  BY <1>5, DeliverOkKeeps
<1>6. ASSUME NEW p \in fan[t].cls, DeliverFull(t, p) \/ DeliverClosed(t, p) PROVE FanOutInv'
  BY <1>6, DeliverDropsKeeps
<1> QED
  BY <1>1, <1>2, <1>3, <1>4, <1>5, <1>6 DEF FanStep

LEMMA ConnKeeps ==
  ASSUME FanOutInv, NEW c \in Conn, Connect(c) \/ Message(c) \/ Work(c) \/ PeerGone(c) \/ Leave(c)
  PROVE  FanOutInv'
<1>1. CASE Connect(c)
  BY <1>1, ConnectKeeps
<1>2. CASE Message(c)
  <2>1. ASSUME NEW n \in 1..MaxBatch, NEW qs \in [1..n -> Queries], Subscribe(c, qs) PROVE FanOutInv'
    BY <2>1, MessageKeeps
  <2>2. ASSUME NEW ids \in SUBSET {h.id : h \in handles[c]}, Unsubscribe(c, ids) PROVE FanOutInv'
    BY <2>2, UnsubscribeKeeps
  <2>3. ASSUME NEW id \in 1..MaxSubs, NEW from \in 0..lastOffset, Resume(c, id, from) PROVE FanOutInv'
    BY <2>3, MessageKeeps
  <2> QED
    BY <1>2, <2>1, <2>2, <2>3 DEF Message
<1>3. CASE Register(c)
  BY <1>3, RegisterKeeps
<1>4. CASE Refuse(c) \/ AnswerResume(c)
  BY <1>4, AnswerKeeps
<1>5. CASE PeerGone(c) \/ Deregister(c)
  BY <1>5, GoneKeeps
<1>6. CASE Disconnect(c)
  BY <1>6, DisconnectKeeps
<1> QED
  BY <1>1, <1>2, <1>3, <1>4, <1>5, <1>6 DEF Work, Leave

LEMMA NextKeeps == FanOutInv /\ [Next]_vars => FanOutInv'
<1> SUFFICES ASSUME FanOutInv, [Next]_vars PROVE FanOutInv'
  OBVIOUS
<1>1. ASSUME NEW qs \in SUBSET Queries, Commit(qs) PROVE FanOutInv'
  BY <1>1, CommitKeeps
<1>2. CASE SpawnFanout
  BY <1>2, SpawnKeeps
<1>3. ASSUME NEW t \in Tasks, FanStep(t) PROVE FanOutInv'
  BY <1>3, FanKeeps
<1>4. ASSUME NEW c \in Conn, Connect(c) \/ Message(c) \/ Work(c) \/ PeerGone(c) \/ Leave(c)
      PROVE  FanOutInv'
  BY <1>4, ConnKeeps
<1>5. ASSUME NEW c \in Tcp, TcpStep(c) PROVE FanOutInv'
  BY <1>5, TcpKeeps
<1>6. ASSUME NEW h \in Http, HttpStep(h) PROVE FanOutInv'
  BY <1>6, HttpKeeps
<1>7. CASE UNCHANGED vars
  <2>1. SessionStep /\ req' = req /\ state' = state /\ registered' = registered
    BY <1>7 DEF vars, task, manager, sockets, SessionStep
  <2> QED
    BY <2>1, QuietSession
<1> QED
  BY <1>1, <1>2, <1>3, <1>4, <1>5, <1>6, <1>7 DEF Next

\* What the task, the manager and the sessions know of each other, in every
\* reachable state, for any number of connections, queries and commits.
THEOREM FanOutInvariant == Spec => []FanOutInv
<1>1. Init => FanOutInv
  BY InitInv
<1>2. FanOutInv /\ [Next]_vars => FanOutInv'
  BY NextKeeps
<1> QED
  BY <1>1, <1>2, PTL DEF Spec

\* A connection is given the updates of its queries in commit order and never
\* twice, whatever the ring dropped and the evaluation failed on: there is
\* one task (spawn_fanout), and a frame is the only one of its commit.
THEOREM UpdatesInOrder == Spec => []DeltasInOrder
<1>1. FanOutInv => DeltasInOrder
  BY DEF FanOutInv, LiveInv
<1> QED
  BY <1>1, FanOutInvariant, PTL

\* A registered subscriber was sent, or is about to be, every commit
\* evaluated since it joined: a consumer that is too slow is taken out of the
\* registry (deliver_frame), never skipped.
THEOREM SubscribersMissNothing == Spec => []LiveMissesNothing
<1>1. FanOutInv => LiveMissesNothing
  BY DEF FanOutInv
<1> QED
  BY <1>1, FanOutInvariant, PTL

\* When a resume is answered from the window (DeltaWindow::can_resume), the
\* window has every commit evaluated since the client's offset and nothing
\* else, however often it was trimmed, dropped and created again.
THEOREM ResumesExact == Spec => []ResumeExact
<1>1. FanOutInv => ResumeExact
  <2> SUFFICES ASSUME FanOutInv, NEW q \in Queries, NEW c \in subs[q],
                      NEW from \in joined[<<c, q>>]..lastOffset, CanResume(window[q], from)
               PROVE  /\ {n \in evald : n > from /\ q \in touch[n]} \subseteq Since(window[q], from)
                      /\ \A n \in Since(window[q], from) : q \in touch[n]
    BY DEF ResumeExact
  <2>1. WindowInv /\ OffsetInv /\ BucketInv
    BY DEF FanOutInv
  <2>2. c \in Conn /\ <<c, q>> \in Conn \X Queries
    BY <2>1 DEF BucketInv
  <2>3. joined[<<c, q>>] \in Nat /\ lastOffset \in Nat
    BY <2>1, <2>2 DEF WindowInv, OffsetInv
  <2>4. window[q] \in Windows /\ WindowOK(window[q], q, lastOffset)
    BY <2>1 DEF WindowInv, WindowOK
  <2>5. from \in Int /\ joined[<<c, q>>] <= from /\ window[q].trimmed <= from /\ window[q].trimmed \in Nat
    BY <2>3, <2>4 DEF CanResume, Windows
  <2>6. Complete(window[q], q, joined[<<c, q>>]) /\ \A n \in evald : n \in Nat
    BY <2>1 DEF WindowInv, OffsetInv
  <2>7. \A n \in evald : n > from => n > joined[<<c, q>>] /\ n > window[q].trimmed
    BY <2>3, <2>5, <2>6
  <2>8. \A n \in evald : n > from /\ q \in touch[n] => n \in window[q].entries
    BY <2>6, <2>7 DEF Complete
  <2> QED
    BY <2>4, <2>8 DEF Since, WindowOK
<1> QED
  BY <1>1, FanOutInvariant, PTL

\* A bucket has no subscriber without a handle, so Unsubscribe and Disconnect
\* find all of them; and a closed TCP connection is neither registered nor
\* subscribed to anything.
THEOREM ClosedLeavesNothing == Spec => []NothingOutlivesClose
<1>1. FanOutInv => NothingOutlivesClose
  <2> SUFFICES ASSUME FanOutInv PROVE NothingOutlivesClose
    OBVIOUS
  <2>1. BucketInv /\ ConnInv
    BY DEF FanOutInv
  <2>2. ASSUME NEW c \in Tcp, state[c] = "closed"
        PROVE  c \notin registered /\ handles[c] = {} /\ \A q \in Queries : c \notin subs[q]
    <3>1. c \in Conn /\ SessionOK(c, req[c], state[c], handles[c])
      BY <2>1 DEF ConnInv, Conn
    <3>2. handles[c] = {} /\ c \notin registered
      BY <2>1, <2>2, <3>1 DEF ConnInv, SessionOK
    <3> QED
      BY <2>1, <3>2 DEF BucketInv
  <2> QED
    BY <2>1, <2>2 DEF BucketInv, NothingOutlivesClose
<1> QED
  BY <1>1, FanOutInvariant, PTL

=============================================================================
