------------------------------- MODULE FanOut -------------------------------
(* Live subscriptions of one shard: the commit broadcast, the fan-out task, *)
(* the subscription manager with its resume windows, and the sessions of    *)
(* the two transports.  Sources: fluxum-core/src/subscription, and          *)
(* fluxum-server/src/{lib,session,conn,tcp,http}.rs.                        *)
(*                                                                          *)
(* A query stands for one bucket of the manager (plan and viewer); rows are *)
(* abstracted to which queries a commit touches, so a client's copy of a    *)
(* query is determined by the commits it was given.                         *)
EXTENDS Naturals, Sequences, FiniteSets

CONSTANTS
  Tcp, Http,   \* the connections of either transport; an id is used once
  Fleets,      \* the sets of connections that may be made in one behaviour
  Queries,
  MaxTx,       \* commits
  RingCap,     \* capacity of the commit broadcast
  QueueCap,    \* send_queue_depth
  WindowCap,   \* resume_window_deltas
  MaxSubs,     \* max_subscriptions_per_connection
  MaxPlans,    \* max_compiled_plans
  MaxBatch,    \* queries of one Subscribe message
  MaxMsgs,     \* messages of clients
  MaxFaults,   \* failed evaluations
  Free         \* nobody holds the manager's mutex

Conn == Tcp \cup Http
Tasks == 1..2   \* one per transport that asks
Offsets == 0..MaxTx

ASSUME ConnAssumption == Tcp \cap Http = {} /\ Free \notin Conn /\ Fleets \subseteq SUBSET Conn
ASSUME BoundAssumption ==
  /\ MaxTx \in Nat /\ RingCap \in Nat \ {0} /\ QueueCap \in Nat \ {0}
  /\ WindowCap \in Nat /\ MaxSubs \in Nat /\ MaxPlans \in Nat
  /\ MaxBatch \in Nat /\ MaxMsgs \in Nat /\ MaxFaults \in Nat

VARIABLES
  touch,       \* the commits, stored and broadcast: the queries each one changes
  started,     \* ShardContext.fanout_started
  fan,         \* the fan-out task a transport spawned: [pc, next, off, todo, cls]
  lastOffset,  \* SubscriptionManager.last_offset
  handles,     \* connections: the subscriptions of a connection
  nextId,      \* next_query_id, 1 when the connection has no entry
  subs,        \* queries: the subscribers of a bucket, {} when there is none
  window,      \* windows: [entries, trimmed], no entries when there is none
  mutex,       \* who holds the manager's lock across a batch
  state,       \* life of a connection
  req,         \* the message a session is working on: [pc, snap, todo, replies]
  registered,  \* ConnectionRegistry
  out,         \* a connection's outbound queue
  condemned,   \* TCP connections whose shutdown was notified
  gone,        \* clients that are gone for good
  wdone,       \* TCP connections whose writer ended
  stream,      \* who has the receiver of an HTTP session: the session ("none"),
               \* a GET stream ("recv", "writing"), or nobody any more ("lost")
  evald,       \* history: offsets evaluated
  live,        \* history: TxUpdates enqueued by the fan-out, per connection
  joined,      \* history: last_offset when a connection joined a bucket
  msgs, faults

task == <<started, fan>>
manager == <<lastOffset, handles, nextId, subs, window, joined>>
sockets == <<registered, out, condemned, gone, wdone, stream>>
vars == <<touch, task, manager, mutex, state, req, sockets, evald, live, msgs, faults>>

head == Len(touch)
NoWindow == [entries |-> {}, trimmed |-> 0]
IdleReq == [pc |-> "idle", snap |-> 0, todo |-> <<>>, replies |-> <<>>]
NoTask == [pc |-> "off", next |-> 1, off |-> 0, todo |-> {}, cls |-> {}]
Max2(a, b) == IF a >= b THEN a ELSE b

\* A fan-out target: a connection and the queries its frame updates.
Target == Conn \X SUBSET Queries
Handle == [id : Nat, q : Queries]
Tx == [type : {"tx"}, off : Offsets, qs : SUBSET Queries]
Reply == [type : {"initial"}, id : Nat, q : Queries, base : Offsets, stamp : Offsets,
          reset : BOOLEAN]
         \cup [type : {"replay"}, off : Offsets, q : Queries]
         \cup [type : {"error"}]

\* What a message still has to do: queries to register, or one resume.
Todo == Seq(Queries) \cup (Nat \X Offsets)

TypeOK ==
  /\ touch \in Seq(SUBSET Queries) /\ head <= MaxTx
  /\ started \in BOOLEAN
  /\ fan \in [Tasks -> [pc : {"off", "spawned", "recv", "eval", "send"},
                             next : Nat, off : Offsets, todo : SUBSET Target, cls : SUBSET Target]]
  /\ lastOffset \in Offsets
  /\ handles \in [Conn -> SUBSET Handle] /\ nextId \in [Conn -> Nat]
  /\ subs \in [Queries -> SUBSET Conn]
  /\ window \in [Queries -> [entries : SUBSET Offsets, trimmed : Offsets]]
  /\ mutex \in Conn \cup {Free}
  /\ state \in [Conn -> {"absent", "none", "open", "dereg", "drop", "closed"}]
  /\ \A c \in Conn :
       /\ req[c].pc \in {"idle", "subscribe", "resume", "reply"}
       /\ req[c].snap \in Offsets /\ req[c].replies \in Seq(Reply)
  /\ registered \subseteq Conn /\ out \in [Conn -> Seq(Tx \cup Reply)]
  /\ \A c \in Conn : Len(out[c]) <= QueueCap
  /\ condemned \subseteq Tcp /\ gone \subseteq Conn /\ wdone \subseteq Tcp
  /\ stream \in [Http -> {"none", "recv", "writing", "lost"}]
  /\ evald \subseteq Offsets /\ live \in [Conn -> Seq(Tx)]
  /\ joined \in [Conn \X Queries -> Offsets]
  /\ msgs \in Nat /\ faults \in Nat

Init ==
  /\ touch = <<>>
  /\ started = FALSE /\ fan = [t \in Tasks |-> NoTask]
  /\ lastOffset = 0 /\ handles = [c \in Conn |-> {}] /\ nextId = [c \in Conn |-> 1]
  /\ subs = [q \in Queries |-> {}] /\ window = [q \in Queries |-> NoWindow]
  /\ \E fleet \in Fleets : state = [c \in Conn |-> IF c \in fleet THEN "none" ELSE "absent"]
  /\ mutex = Free /\ req = [c \in Conn |-> IdleReq]
  /\ registered = {} /\ out = [c \in Conn |-> <<>>]
  /\ condemned = {} /\ gone = {} /\ wdone = {}
  /\ stream = [h \in Http |-> "none"]
  /\ evald = {} /\ live = [c \in Conn |-> <<>>]
  /\ joined = [p \in Conn \X Queries |-> 0]
  /\ msgs = 0 /\ faults = 0

-----------------------------------------------------------------------------
(* The single writer merges a commit into the store and its hook            *)
(* (publish_commit_meta) broadcasts the diff, without blocking: a full ring *)
(* drops its oldest.  Nothing here could tell a commit that is not          *)
(* broadcast yet from one that is not evaluated yet, so this is one step.   *)

Commit(qs) ==
  /\ head < MaxTx
  /\ touch' = Append(touch, qs)
  /\ UNCHANGED <<task, manager, mutex, state, req, sockets, evald, live, msgs, faults>>

-----------------------------------------------------------------------------
(* The fan-out task                                                         *)

\* Mutant of SpawnFanout: every transport gets a task of its own.
SpawnAlways ==
  \E t \in Tasks :
  /\ fan[t].pc = "off" /\ \A u \in 1..(t - 1) : fan[u].pc # "off"
  /\ started' = TRUE
  /\ fan' = [fan EXCEPT ![t].pc = "spawned"]
  /\ UNCHANGED <<touch, manager, mutex, state, req, sockets, evald, live, msgs, faults>>

\* serve_tls of either transport requests it; the second request is a no-op.
SpawnFanout ==
  /\ ~started
  /\ started' = TRUE
  /\ fan' = [fan EXCEPT ![1].pc = "spawned"]
  /\ UNCHANGED <<touch, manager, mutex, state, req, sockets, evald, live, msgs, faults>>

\* The task subscribes to the broadcast when it first runs: diffs sent
\* before that are not received.
FanBegin(t) ==
  /\ fan[t].pc = "spawned"
  /\ fan' = [fan EXCEPT ![t].pc = "recv", ![t].next = head + 1]
  /\ UNCHANGED <<touch, started, manager, mutex, state, req, sockets, evald, live, msgs,
                 faults>>

Oldest == Max2(1, head + 1 - RingCap)

FanRecv(t) ==
  /\ fan[t].pc = "recv" /\ fan[t].next <= head /\ fan[t].next >= Oldest
  /\ fan' = [fan EXCEPT ![t].pc = "eval", ![t].off = fan[t].next, ![t].next = @ + 1]
  /\ UNCHANGED <<touch, started, manager, mutex, state, req, sockets, evald, live, msgs,
                 faults>>

\* RecvError::Lagged: the receiver resumes at the oldest diff retained.
FanLagged(t) ==
  /\ fan[t].pc = "recv" /\ fan[t].next < Oldest
  /\ fan' = [fan EXCEPT ![t].next = Oldest]
  /\ UNCHANGED <<touch, started, manager, mutex, state, req, sockets, evald, live, msgs,
                 faults>>

\* Mutant of Push: the evicted delta is not marked.
PushUnmarked(w, off) ==
  LET all == w.entries \cup {off}
      over == IF Cardinality(all) > Max2(WindowCap, 1)
              THEN {x \in all : \A y \in all : x <= y} ELSE {}
  IN [w EXCEPT !.entries = all \ over]

\* DeltaWindow::push: retain the delta, evict the oldest past the bound.
Push(w, off) ==
  LET all == w.entries \cup {off}
      over == IF Cardinality(all) > Max2(WindowCap, 1)
              THEN {x \in all : \A y \in all : x <= y} ELSE {}
  IN [entries |-> all \ over,
      trimmed |-> IF over = {} THEN w.trimmed ELSE CHOOSE x \in over : TRUE]

Matched(off) == {q \in touch[off] : subs[q] # {}}

\* One frame per connection, whatever the number of its queries that matched.
Targets(off) ==
  {<<c, {q \in Matched(off) : c \in subs[q]}>> : c \in UNION {subs[q] : q \in Matched(off)}}

\* on_commit, under the mutex: the cursor advances with every commit, each
\* matched bucket retains its delta, and its subscribers are the targets.
Evaluate(t) ==
  LET off == fan[t].off IN
  /\ fan[t].pc = "eval" /\ mutex = Free
  /\ lastOffset' = Max2(lastOffset, off)
  /\ window' = [q \in Queries |-> IF q \in Matched(off) THEN Push(window[q], off) ELSE window[q]]
  /\ fan' = [fan EXCEPT ![t].pc = "send", ![t].todo = Targets(off)]
  /\ evald' = evald \cup {off}
  /\ UNCHANGED <<touch, started, handles, nextId, subs, joined, mutex, state, req, sockets,
                 live, msgs, faults>>

\* on_commit failed on one bucket: those before it retain the delta, nobody
\* is sent anything, and the task goes on with the next diff.
EvaluateFails(t) ==
  LET off == fan[t].off IN
  /\ fan[t].pc = "eval" /\ mutex = Free
  /\ faults < MaxFaults /\ faults' = faults + 1
  /\ lastOffset' = Max2(lastOffset, off)
  /\ \E done \in SUBSET Matched(off) :
       /\ done # Matched(off)
       /\ window' = [q \in Queries |-> IF q \in done THEN Push(window[q], off) ELSE window[q]]
  /\ fan' = [fan EXCEPT ![t].pc = "recv"]
  /\ UNCHANGED <<touch, started, handles, nextId, subs, joined, mutex, state, req, sockets,
                 evald, live, msgs>>

\* handles_for: one class of targets (same tables, same ids) is looked up in
\* the registry at a time.
FanLookup(t) ==
  /\ fan[t].pc = "send" /\ fan[t].cls = {}
  /\ \E class \in SUBSET fan[t].todo :
       /\ class # {} /\ \A p, r \in class : p[2] = r[2]
       /\ fan' = [fan EXCEPT ![t].todo = @ \ class,
                             ![t].cls = {p \in class : p[1] \in registered}]
  /\ UNCHANGED <<touch, started, manager, mutex, state, req, sockets, evald, live, msgs,
                 faults>>

\* The receiving half: the TCP writer's, or the HTTP session's or stream's.
RxOpen(c) == c \in Tcp \ wdone \/ (c \in Http /\ stream[c] # "lost")

\* Mutants of DeliverFull: the fan-out waits for room; the frame is skipped.
DeliverBlocked(t, p) ==
  /\ fan[t].pc = "send" /\ p \in fan[t].cls /\ RxOpen(p[1])
  /\ Len(out[p[1]]) >= QueueCap
  /\ UNCHANGED vars
DeliverSkipped(t, p) ==
  /\ fan[t].pc = "send" /\ p \in fan[t].cls /\ RxOpen(p[1])
  /\ Len(out[p[1]]) >= QueueCap
  /\ fan' = [fan EXCEPT ![t].cls = @ \ {p}]
  /\ UNCHANGED <<touch, started, manager, mutex, state, req, sockets, evald, live, msgs,
                 faults>>

\* deliver_frame: try_send never blocks.
DeliverOk(t, p) ==
  LET frame == [type |-> "tx", off |-> fan[t].off, qs |-> p[2]] IN
  /\ fan[t].pc = "send" /\ p \in fan[t].cls /\ RxOpen(p[1])
  /\ Len(out[p[1]]) < QueueCap
  /\ out' = [out EXCEPT ![p[1]] = Append(@, frame)]
  /\ live' = [live EXCEPT ![p[1]] = Append(@, frame)]
  /\ fan' = [fan EXCEPT ![t].cls = @ \ {p}]
  /\ UNCHANGED <<touch, started, manager, mutex, state, req, registered, condemned, gone,
                 wdone, stream, evald, msgs, faults>>

\* A full queue: the connection is told to shut down and leaves the registry.
\* The TCP loop holds its notified() from the start; a GET stream creates one
\* per round, so the notice reaches it only while it waits.
DeliverFull(t, p) ==
  /\ fan[t].pc = "send" /\ p \in fan[t].cls /\ RxOpen(p[1])
  /\ Len(out[p[1]]) >= QueueCap
  /\ registered' = registered \ {p[1]}
  /\ condemned' = condemned \cup ({p[1]} \cap Tcp)
  /\ fan' = [fan EXCEPT ![t].cls = @ \ {p}]
  /\ UNCHANGED <<touch, started, manager, mutex, state, req, out, gone, wdone, stream, evald,
                 live, msgs, faults>>

DeliverClosed(t, p) ==
  /\ fan[t].pc = "send" /\ p \in fan[t].cls /\ ~RxOpen(p[1])
  /\ registered' = registered \ {p[1]}
  /\ fan' = [fan EXCEPT ![t].cls = @ \ {p}]
  /\ UNCHANGED <<touch, started, manager, mutex, state, req, out, condemned, gone, wdone,
                 stream, evald, live, msgs, faults>>

FanDone(t) ==
  /\ fan[t].pc = "send" /\ fan[t].todo = {} /\ fan[t].cls = {}
  /\ fan' = [fan EXCEPT ![t].pc = "recv"]
  /\ UNCHANGED <<touch, started, manager, mutex, state, req, sockets, evald, live, msgs,
                 faults>>

-----------------------------------------------------------------------------
(* Sessions: messages of a client.  A session works on one message at a     *)
(* time.  An HTTP message is a POST: it needs the session when it arrives,  *)
(* and goes on when the session is evicted meanwhile.                       *)

\* The first response of an authenticated connection has been sent; the
\* fan-out handle is registered.
Connect(c) ==
  /\ started /\ state[c] = "none"
  /\ state' = [state EXCEPT ![c] = "open"]
  /\ registered' = registered \cup {c}
  /\ UNCHANGED <<touch, task, manager, mutex, req, out, condemned, gone, wdone, stream,
                 evald, live, msgs, faults>>

Arrives(c) ==
  /\ state[c] = "open" /\ req[c].pc = "idle" /\ c \notin gone
  /\ msgs < MaxMsgs /\ msgs' = msgs + 1

\* Session::subscribe: the snapshot is taken before the manager is locked.
Subscribe(c, qs) ==
  /\ Arrives(c)
  /\ req' = [req EXCEPT ![c] = [pc |-> "subscribe", snap |-> head, todo |-> qs, replies |-> <<>>]]
  /\ UNCHANGED <<touch, task, manager, mutex, state, sockets, evald, live, faults>>

Registrable(c, q) ==
  /\ Cardinality(handles[c]) < MaxSubs
  /\ subs[q] = {} => Cardinality({x \in Queries : subs[x] # {}}) < MaxPlans

\* The rest of a batch, and the lock it is registered under.
BatchGoesOn(c, rest, replies) ==
  /\ mutex \in {Free, c}
  /\ mutex' = IF rest = <<>> THEN Free ELSE c
  /\ req' = [req EXCEPT ![c].todo = rest, ![c].replies = replies,
                        ![c].pc = IF rest = <<>> THEN "reply" ELSE "subscribe"]

\* SubscriptionManager::subscribe: join or create the bucket, assign an id,
\* and answer with the snapshot, stamped with the manager's offset.
Register(c) ==
  LET q == Head(req[c].todo)
      h == [id |-> nextId[c], q |-> q]
      initial == [type |-> "initial", id |-> h.id, q |-> q, base |-> req[c].snap,
                  stamp |-> lastOffset, reset |-> FALSE]
  IN
  /\ req[c].pc = "subscribe" /\ Registrable(c, q)
  /\ BatchGoesOn(c, Tail(req[c].todo), Append(req[c].replies, initial))
  /\ handles' = [handles EXCEPT ![c] = @ \cup {h}]
  /\ nextId' = [nextId EXCEPT ![c] = @ + 1]
  /\ subs' = [subs EXCEPT ![q] = @ \cup {c}]
  /\ joined' = IF c \in subs[q] THEN joined ELSE [joined EXCEPT ![<<c, q>>] = lastOffset]
  /\ UNCHANGED <<touch, task, lastOffset, window, state, sockets, evald, live, msgs, faults>>

\* A cap, or any other refusal of the query (SQL, visibility, rate limit):
\* nothing is registered and the rest of the batch is not attempted.
Refuse(c) ==
  /\ req[c].pc = "subscribe"
  /\ BatchGoesOn(c, <<>>, Append(req[c].replies, [type |-> "error"]))
  /\ UNCHANGED <<touch, task, manager, state, sockets, evald, live, msgs, faults>>

\* drop_subscriber of each of `qs`: the last one takes bucket and window along.
DropSubscriber(c, qs) ==
  /\ subs' = [q \in Queries |-> IF q \in qs THEN subs[q] \ {c} ELSE subs[q]]
  /\ window' = [q \in Queries |-> IF q \in qs /\ subs[q] \subseteq {c} THEN NoWindow ELSE window[q]]

\* Session::unsubscribe: no answer.  Without handles left the id counter
\* starts over.
Unsubscribe(c, ids) ==
  LET dropped == {h \in handles[c] : h.id \in ids} IN
  /\ Arrives(c) /\ mutex = Free
  /\ dropped # {}
  /\ handles' = [handles EXCEPT ![c] = @ \ dropped]
  /\ nextId' = [nextId EXCEPT ![c] = IF handles[c] = dropped THEN 1 ELSE @]
  /\ DropSubscriber(c, {h.q : h \in dropped})
  /\ UNCHANGED <<touch, task, lastOffset, joined, mutex, state, req, sockets, evald,
                 live, faults>>

\* Session::resume, again with its snapshot taken before the lock.
Resume(c, id, from) ==
  /\ Arrives(c)
  /\ req' = [req EXCEPT ![c] = [pc |-> "resume", snap |-> head, todo |-> <<id, from>>,
                                replies |-> <<>>]]
  /\ UNCHANGED <<touch, task, manager, mutex, state, sockets, evald, live, faults>>

CanResume(w, from) == from >= w.trimmed
Since(w, from) == {n \in w.entries : n > from}

\* The deltas, ascending, as one message each.
Replay(w, from, q) ==
  LET ns == Since(w, from) IN
  [i \in 1..Cardinality(ns) |->
    [type |-> "replay", q |-> q,
     off |-> CHOOSE n \in ns : Cardinality({m \in ns : m <= n}) = i]]

\* SubscriptionManager::resume: replay from the window, or reset with a
\* snapshot; an unknown handle (or one whose bucket is gone) is an error.
AnswerResume(c) ==
  LET id == req[c].todo[1]
      from == req[c].todo[2]
      known == {h \in handles[c] : h.id = id /\ subs[h.q] # {}}
      Answer(h) ==
        IF CanResume(window[h.q], from) THEN Replay(window[h.q], from, h.q)
        ELSE <<[type |-> "initial", id |-> id, q |-> h.q, base |-> req[c].snap,
                stamp |-> lastOffset, reset |-> TRUE]>>
  IN
  /\ req[c].pc = "resume" /\ mutex = Free
  /\ req' = [req EXCEPT ![c].pc = "reply", ![c].todo = <<>>,
              ![c].replies = IF known = {} THEN <<[type |-> "error"]>>
                             ELSE Answer(CHOOSE h \in known : TRUE)]
  /\ UNCHANGED <<touch, task, manager, mutex, state, sockets, evald, live, msgs, faults>>

-----------------------------------------------------------------------------
(* TCP: answers travel through the outbound queue, the read loop closes.    *)

\* route_frame's send waits for room.
ReplyTcp(c) ==
  /\ req[c].pc = "reply" /\ req[c].replies # <<>>
  /\ c \notin wdone /\ Len(out[c]) < QueueCap
  /\ out' = [out EXCEPT ![c] = Append(@, Head(req[c].replies))]
  /\ req' = [req EXCEPT ![c].replies = Tail(@)]
  /\ UNCHANGED <<touch, task, manager, mutex, state, registered, condemned, gone, wdone,
                 stream, evald, live, msgs, faults>>

ReplyDone(c) ==
  /\ req[c].pc = "reply" /\ req[c].replies = <<>>
  /\ req' = [req EXCEPT ![c] = IdleReq]
  /\ UNCHANGED <<touch, task, manager, mutex, state, sockets, evald, live, msgs, faults>>

\* Mutant of ReplyFails: the answer is dropped, the connection kept waiting.
ReplyStuck(c) ==
  /\ req[c].pc = "reply" /\ req[c].replies # <<>> /\ c \in wdone
  /\ UNCHANGED vars

\* The writer is gone: the send fails and the connection is closed.
ReplyFails(c) ==
  /\ req[c].pc = "reply" /\ req[c].replies # <<>> /\ c \in wdone
  /\ req' = [req EXCEPT ![c] = IdleReq]
  /\ state' = [state EXCEPT ![c] = "dereg"]
  /\ UNCHANGED <<touch, task, manager, mutex, sockets, evald, live, msgs, faults>>

\* The writer task takes what is queued (recv_many) and its peer reads it.
Flush(c) ==
  /\ c \notin gone \cup wdone /\ out[c] # <<>>
  /\ out' = [out EXCEPT ![c] = <<>>]
  /\ UNCHANGED <<touch, task, manager, mutex, state, req, registered, condemned, gone, wdone,
                 stream, evald, live, msgs, faults>>

WriterFails(c) ==
  /\ c \in gone \ wdone /\ out[c] # <<>>
  /\ wdone' = wdone \cup {c} /\ out' = [out EXCEPT ![c] = <<>>]
  /\ UNCHANGED <<touch, task, manager, mutex, state, req, registered, condemned, gone, stream,
                 evald, live, msgs, faults>>

\* The client of either transport goes away and never comes back.
PeerGone(c) ==
  /\ state[c] = "open" /\ c \notin gone
  /\ gone' = gone \cup {c}
  /\ UNCHANGED <<touch, task, manager, mutex, state, req, registered, out, condemned, wdone,
                 stream, evald, live, msgs, faults>>

\* The read loop ends: EOF, or the shutdown it was notified of.
CloseTcp(c) ==
  /\ state[c] = "open" /\ req[c].pc = "idle" /\ c \in condemned \cup gone
  /\ state' = [state EXCEPT ![c] = "dereg"]
  /\ UNCHANGED <<touch, task, manager, mutex, req, sockets, evald, live, msgs, faults>>

\* Idle expiry: the 408 waits for room like any answer, then the loop ends.
IdleTcp(c) ==
  /\ state[c] = "open" /\ req[c].pc = "idle"
  /\ c \notin wdone /\ Len(out[c]) < QueueCap
  /\ out' = [out EXCEPT ![c] = Append(@, [type |-> "error"])]
  /\ state' = [state EXCEPT ![c] = "dereg"]
  /\ UNCHANGED <<touch, task, manager, mutex, req, registered, condemned, gone, wdone, stream,
                 evald, live, msgs, faults>>

-----------------------------------------------------------------------------
(* HTTP: answers are the body of the POST's response; a GET stream drains   *)
(* the queue, detaches when its client vanishes, and may be attached again. *)

ReplyHttp(h) ==
  /\ req[h].pc = "reply"
  /\ req' = [req EXCEPT ![h] = IdleReq]
  /\ UNCHANGED <<touch, task, manager, mutex, state, sockets, evald, live, msgs, faults>>

\* handle_get takes the receiver; without one it answers 409.
Attach(h) ==
  /\ state[h] = "open" /\ stream[h] = "none" /\ h \notin gone
  /\ stream' = [stream EXCEPT ![h] = "recv"]
  /\ UNCHANGED <<touch, task, manager, mutex, state, req, registered, out, condemned,
                 gone, wdone,
                 evald, live, msgs, faults>>

\* The stream takes the frames queued by now.
GetRecv(h) ==
  /\ stream[h] = "recv" /\ out[h] # <<>>
  /\ stream' = [stream EXCEPT ![h] = "writing"]
  /\ out' = [out EXCEPT ![h] = <<>>]
  /\ UNCHANGED <<touch, task, manager, mutex, state, req, registered, condemned, gone, wdone,
                 evald, live, msgs, faults>>

GetWrote(h) ==
  /\ stream[h] = "writing" /\ h \notin gone
  /\ stream' = [stream EXCEPT ![h] = "recv"]
  /\ UNCHANGED <<touch, task, manager, mutex, state, req, registered, out, condemned,
                 gone, wdone,
                 evald, live, msgs, faults>>

\* A failed write, of frames (then lost) or of a keep-alive: the session
\* gets its receiver back for the next GET.
Detach(h) ==
  /\ stream[h] \in {"recv", "writing"}
  /\ stream' = [stream EXCEPT ![h] = "none"]
  /\ UNCHANGED <<touch, task, manager, mutex, state, req, registered, out, condemned,
                 gone, wdone,
                 evald, live, msgs, faults>>

\* Nothing is queued and no sender is left: recv() returns None.
SinkDropped(h) ==
  /\ stream[h] = "recv" /\ out[h] = <<>> /\ h \notin registered
  /\ \A t \in Tasks : h \notin {p[1] : p \in fan[t].cls}

\* evict_session, by a stream that ends for good (its sink is gone, it was
\* notified, or it expired) or by the sweeper while there is no stream; the
\* receiver goes with it.
Evict(h) ==
  /\ state[h] = "open" /\ stream[h] \in {"none", "recv"}
  /\ state' = [state EXCEPT ![h] = "dereg"]
  /\ stream' = [stream EXCEPT ![h] = "lost"]
  /\ out' = [out EXCEPT ![h] = <<>>]
  /\ UNCHANGED <<touch, task, manager, mutex, req, registered, condemned, gone, wdone, evald,
                 live, msgs, faults>>

-----------------------------------------------------------------------------
(* Both: a connection leaves the registry, then the manager.                *)

Deregister(c) ==
  /\ state[c] = "dereg"
  /\ state' = [state EXCEPT ![c] = "drop"]
  /\ registered' = registered \ {c}
  /\ UNCHANGED <<touch, task, manager, mutex, req, out, condemned, gone, wdone, stream, evald,
                 live, msgs, faults>>

\* Mutant of Disconnect: the buckets keep the connection.
DisconnectHandlesOnly(c) ==
  /\ state[c] = "drop" /\ mutex = Free
  /\ state' = [state EXCEPT ![c] = "closed"]
  /\ handles' = [handles EXCEPT ![c] = {}] /\ nextId' = [nextId EXCEPT ![c] = 1]
  /\ UNCHANGED <<touch, task, lastOffset, subs, window, joined, mutex, req, sockets,
                 evald, live,
                 msgs, faults>>

\* SubscriptionManager::disconnect.
Disconnect(c) ==
  /\ state[c] = "drop" /\ mutex = Free
  /\ state' = [state EXCEPT ![c] = "closed"]
  /\ handles' = [handles EXCEPT ![c] = {}] /\ nextId' = [nextId EXCEPT ![c] = 1]
  /\ DropSubscriber(c, {h.q : h \in handles[c]})
  /\ UNCHANGED <<touch, task, lastOffset, joined, mutex, req, sockets, evald, live, msgs,
                 faults>>

-----------------------------------------------------------------------------
FanStep(t) ==
  \/ FanBegin(t) \/ FanRecv(t) \/ FanLagged(t) \/ Evaluate(t) \/ EvaluateFails(t)
  \/ FanLookup(t) \/ FanDone(t)
  \/ \E p \in fan[t].cls : DeliverOk(t, p) \/ DeliverFull(t, p) \/ DeliverClosed(t, p)

Message(c) ==
  \/ \E n \in 1..MaxBatch : \E qs \in [1..n -> Queries] : Subscribe(c, qs)
  \/ \E ids \in SUBSET {h.id : h \in handles[c]} : Unsubscribe(c, ids)
  \/ \E id \in 1..MaxSubs, from \in 0..lastOffset : Resume(c, id, from)

Work(c) == Register(c) \/ Refuse(c) \/ AnswerResume(c)
Leave(c) == Deregister(c) \/ Disconnect(c)

TcpStep(c) ==
  \/ ReplyTcp(c) \/ ReplyDone(c) \/ ReplyFails(c) \/ Flush(c) \/ WriterFails(c)
  \/ CloseTcp(c) \/ IdleTcp(c)

HttpStep(h) ==
  \/ ReplyHttp(h) \/ Attach(h) \/ GetRecv(h) \/ GetWrote(h) \/ Detach(h) \/ Evict(h)

Next ==
  \/ \E qs \in SUBSET Queries : Commit(qs)
  \/ SpawnFanout \/ \E t \in Tasks : FanStep(t)
  \/ \E c \in Conn : Connect(c) \/ Message(c) \/ Work(c) \/ PeerGone(c) \/ Leave(c)
  \/ \E c \in Tcp : TcpStep(c)
  \/ \E h \in Http : HttpStep(h)

Spec == Init /\ [][Next]_vars

\* The runtime runs every task that can run.  Clients, and the peers of
\* sockets, promise nothing; of one that is gone the sockets report it and
\* the idle deadline of its session passes.
Fairness ==
  /\ \A t \in Tasks : WF_vars(FanStep(t))
  /\ \A c \in Conn : WF_vars(Work(c)) /\ WF_vars(Leave(c))
  /\ \A c \in Tcp : WF_vars(ReplyTcp(c) \/ ReplyDone(c) \/ ReplyFails(c) \/ CloseTcp(c))
                    /\ WF_vars(WriterFails(c))
  /\ \A h \in Http :
       /\ WF_vars(ReplyHttp(h)) /\ WF_vars(GetRecv(h))
       /\ WF_vars(SinkDropped(h) /\ Evict(h))
       /\ WF_vars(h \in gone /\ (Detach(h) \/ (stream[h] = "none" /\ Evict(h))))

FairSpec == Spec /\ Fairness

-----------------------------------------------------------------------------
(* Properties                                                               *)

\* A connection gets the updates of its queries once each and in commit
\* order: two fan-out tasks over one broadcast would deliver twice
\* (spawn_fanout's guard).
DeltasInOrder ==
  \A c \in Conn : \A i, j \in 1..Len(live[c]) : i < j => live[c][i].off < live[c][j].off

Pending(c, q, n) ==
  \E t \in Tasks :
    /\ fan[t].off = n /\ fan[t].pc = "send"
    /\ \E p \in fan[t].todo \cup fan[t].cls : p[1] = c /\ q \in p[2]

\* While a subscriber stays registered it is sent every commit evaluated
\* since it joined the query's bucket; a consumer too slow for that is
\* condemned, never skipped (SUB-042).
LiveMissesNothing ==
  \A q \in Queries : \A c \in subs[q] \cap registered : \A n \in evald :
    n > joined[<<c, q>>] /\ q \in touch[n] =>
      Pending(c, q, n) \/ \E i \in 1..Len(live[c]) : live[c][i].off = n /\ q \in live[c][i].qs

\* A resume from an offset a subscriber can hold is answered from the window
\* only when the window has every commit evaluated since, whatever was
\* evicted, dropped and created again meanwhile.
ResumeExact ==
  \A q \in Queries : \A c \in subs[q] : \A from \in joined[<<c, q>>]..lastOffset :
    CanResume(window[q], from) =>
      /\ {n \in evald : n > from /\ q \in touch[n]} \subseteq Since(window[q], from)
      /\ \A n \in Since(window[q], from) : q \in touch[n]

\* A subscriber of a bucket holds a subscription to that query, so the
\* fan-out can name it, and a closed TCP connection has left nothing behind.
NothingOutlivesClose ==
  /\ \A q \in Queries : \A c \in subs[q] : \E h \in handles[c] : h.q = q
  /\ \A c \in Tcp : state[c] = "closed" =>
       c \notin registered /\ handles[c] = {} /\ \A q \in Queries : c \notin subs[q]

\* The fan-out gets past every commit that was broadcast: no reader, however
\* slow, stops it.
FanKeepsUp ==
  \A n \in 1..MaxTx :
    (started /\ head >= n) ~> \E t \in Tasks : fan[t].pc = "recv" /\ fan[t].next > n

\* A client that is gone is forgotten: its connection closes and leaves the
\* manager, whatever its queue holds and wherever its session was.
GoneIsForgotten == \A c \in Conn : c \in gone ~> state[c] = "closed"
=============================================================================
