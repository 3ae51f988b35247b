-------------------------------- MODULE Calls --------------------------------
(* Reducer calls submitted once: the offline queue of the Rust SDK and its  *)
(* replay after a lost connection (sdks/rust/src/{idempotency,client}.rs,   *)
(* client/runtime.rs), the session and the engine that answer them          *)
(* (fluxum-server/src/session.rs, fluxum-core/src/reducer/engine.rs), and   *)
(* the window of applied keys (reducer/idempotency.rs, scheduler/mod.rs).   *)
(*                                                                          *)
(* One client over TCP submits calls of one reducer.  A key is the queue's  *)
(* sequence number (the client_id in front of it is the application's and   *)
(* never changes).  The log holds what the single writer committed; a row   *)
(* of __idempotency__ is in the log entry of the effects it guards.         *)
EXTENDS Naturals, Sequences, FiniteSets

CONSTANTS
  MaxCalls,    \* calls the application makes
  MaxSessions, \* connections established
  QueueCap,    \* reducer queue of the shard
  MaxRecords,  \* IdempotencyOptions.max_records
  MaxEvents    \* refusals, failing bodies, prunes, crashes of either process

Calls == 1..MaxCalls
Sessions == 1..MaxSessions
Sup == 0                    \* the supervisor thread, beside one thread per call
Threads == {Sup} \cup Calls
Keys == 0..MaxCalls

ASSUME CallBounds ==
  /\ MaxCalls \in Nat /\ MaxSessions \in Nat /\ QueueCap \in Nat \ {0} /\ MaxRecords \in Nat
  /\ MaxEvents \in Nat

VARIABLES
  queue,     \* OfflineQueue.pending: [key, call]
  nextSeq,   \* OfflineQueue.next_seq
  inFlight,  \* OptimisticState.in_flight: [id, key]
  nextId,    \* Shared.next_id
  sess,      \* Shared.writer: the session it writes to, 0 when None
  ready,     \* the Connection exists: the first session was established
  disk,      \* the persisted meta: [queue, next]
  pc,        \* where each thread of the client is
  mine,      \* call_optimistic's [id, key]
  todo,      \* replay_offline's attempts still to send
  image,     \* the snapshot a thread's persist_state has taken
  nsess,     \* sessions established so far
  alive,     \* sessions whose connection stands
  wire,      \* per session: what the server can still read
  reply,     \* per session: replies under way
  srv,       \* per session: the server's task: [pc, msg, at]
  jobs,      \* the reducer queue: sessions, and 0 for the prune
  doomed,    \* the keys a prune decided to delete
  log,       \* committed transactions
  written,   \* the log's written mark
  acked,     \* history: calls answered Ok, and by what
  applied,   \* history: calls that were ever applied
  refused,   \* history: calls answered with an Error frame
  events     \* counts towards MaxEvents

client == <<queue, nextSeq, inFlight, nextId, sess, ready, disk, pc, mine, todo, image>>
net == <<nsess, alive, wire, reply>>
server == <<srv, jobs, doomed, log, written, applied>>
vars == <<client, net, server, acked, refused, events>>

Pending == [key : Keys, call : Calls]
Message == [id : Nat, key : Keys, call : Calls]
Result == [type : {"commit", "dedup", "err", "error"}, id : Nat, call : Calls]
Entry == [kind : {"call"}, key : Keys, call : Calls] \cup [kind : {"prune"}, keys : SUBSET Keys]
Image == [queue : Seq(Pending), next : Keys]
Idle == [pc |-> "read", msg |-> <<>>, at |-> 0]
NoImage == [queue |-> <<>>, next |-> 0]

\* One of the events that are bounded.
Event == events < MaxEvents /\ events' = events + 1

TypeOK ==
  /\ queue \in Seq(Pending) /\ nextSeq \in Keys
  /\ inFlight \subseteq [id : Nat, key : Keys] /\ nextId \in Nat
  /\ sess \in 0..nsess /\ ready \in BOOLEAN /\ disk \in Image
  /\ pc \in [Threads -> {"new", "send", "capture", "save", "done",
                         "down", "take", "replay", "read"}]
  /\ mine \in [Calls -> [id : Nat, key : Keys]]
  /\ todo \in Seq(Message) /\ image \in [Threads -> Image]
  /\ nsess \in 0..MaxSessions /\ alive \subseteq 1..nsess
  /\ wire \in [Sessions -> Seq(Message)] /\ reply \in [Sessions -> Seq(Result)]
  /\ \A s \in Sessions :
       /\ srv[s].pc \in {"closed", "read", "job", "wait", "dedup", "err", "error"}
       /\ srv[s].msg \in Message \cup {<<>>} /\ srv[s].at \in 0..Len(log)
  /\ jobs \in Seq(0..MaxSessions) /\ Len(jobs) <= QueueCap
  /\ doomed \subseteq Keys /\ log \in Seq(Entry) /\ written \in 0..Len(log)
  /\ acked \subseteq Calls \X {"commit", "dedup"}
  /\ applied \subseteq Calls /\ refused \subseteq Calls
  /\ events \in 0..MaxEvents

Init ==
  /\ queue = <<>> /\ nextSeq = 0 /\ inFlight = {} /\ nextId = 1
  /\ sess = 0 /\ ready = FALSE /\ disk = NoImage
  /\ pc = [t \in Threads |-> IF t = Sup THEN "down" ELSE "new"]
  /\ mine = [c \in Calls |-> [id |-> 0, key |-> 0]]
  /\ todo = <<>> /\ image = [t \in Threads |-> NoImage]
  /\ nsess = 0 /\ alive = {}
  /\ wire = [s \in Sessions |-> <<>>] /\ reply = [s \in Sessions |-> <<>>]
  /\ srv = [s \in Sessions |-> [Idle EXCEPT !.pc = "closed"]]
  /\ jobs = <<>> /\ doomed = {} /\ log = <<>> /\ written = 0
  /\ acked = {} /\ applied = {} /\ refused = {}
  /\ events = 0

-----------------------------------------------------------------------------
(* The client: call_optimistic on the application's threads                  *)

To(t, where) == pc' = [pc EXCEPT ![t] = where]

\* OfflineQueue::enqueue: the key is minted here, once.
Minted == nextSeq
\* Mutant: the replay mints a key of its own.
FreshKey(p) == nextSeq
\* QueuedCall::to_message: a retry carries the call's own key.
KeyOf(p) == p.key

\* The locked part of call_optimistic; threads are named by their order here.
Enqueue(c) ==
  /\ ready /\ pc[c] = "new" /\ \A d \in Calls : d < c => pc[d] # "new"
  /\ queue' = Append(queue, [key |-> Minted, call |-> c])
  /\ nextSeq' = nextSeq + 1 /\ nextId' = nextId + 1
  /\ inFlight' = inFlight \cup {[id |-> nextId, key |-> Minted]}
  /\ mine' = [mine EXCEPT ![c] = [id |-> nextId, key |-> Minted]]
  /\ To(c, "send")
  /\ UNCHANGED <<sess, ready, disk, todo, image, net, server, acked, refused, events>>

\* send_message puts a frame on the writer's session.  A connection that is
\* lost may still take it: the frame then goes nowhere.
Sent(m) ==
  /\ sess # 0
  /\ wire' = IF sess \in alive THEN [wire EXCEPT ![sess] = Append(@, m)] ELSE wire
SendFails == (sess = 0 \/ sess \notin alive) /\ UNCHANGED wire

\* ... and the rest of call_optimistic: send outside the lock.
Send(c) ==
  /\ pc[c] = "send" /\ To(c, "capture")
  /\ \/ Sent([id |-> mine[c].id, key |-> mine[c].key, call |-> c]) /\ UNCHANGED inFlight
     \/ SendFails /\ inFlight' = {f \in inFlight : f.id # mine[c].id}
  /\ UNCHANGED <<queue, nextSeq, nextId, sess, ready, disk, mine, todo, image, nsess,
                 alive, reply,
                 server, acked, refused, events>>

\* persist_state snapshots the queue under its lock, and writes it after.
Capture(t) ==
  /\ pc[t] = "capture" /\ To(t, "save")
  /\ image' = [image EXCEPT ![t] = [queue |-> queue, next |-> nextSeq]]
  /\ UNCHANGED <<queue, nextSeq, inFlight, nextId, sess, ready, disk, mine, todo, net, server,
                 acked, refused, events>>

Save(t) ==
  /\ pc[t] = "save"
  /\ disk' = image[t] /\ image' = [image EXCEPT ![t] = NoImage]
  /\ To(t, IF t = Sup THEN "read" ELSE "done")
  /\ ready' = (ready \/ t = Sup)
  /\ UNCHANGED <<queue, nextSeq, inFlight, nextId, sess, mine, todo, net, server,
                 acked, refused, events>>

-----------------------------------------------------------------------------
(* The client: its supervisor thread                                         *)

\* try_tcp_session up to set_writer; the first connection does the same.
Establish ==
  /\ pc[Sup] = "down" /\ nsess < MaxSessions
  /\ nsess' = nsess + 1 /\ alive' = alive \cup {nsess + 1} /\ sess' = nsess + 1
  /\ srv' = [srv EXCEPT ![nsess + 1] = Idle]
  /\ To(Sup, "take")
  /\ UNCHANGED <<queue, nextSeq, inFlight, nextId, ready, disk, mine, todo, image, wire, reply,
                 jobs, doomed, log, written, applied,
                 acked, refused, events>>

\* replay_offline's locked part: every queued call, oldest first.
Take ==
  /\ pc[Sup] = "take" /\ To(Sup, "replay")
  /\ todo' = [i \in 1..Len(queue) |->
                [id |-> nextId + i - 1, key |-> KeyOf(queue[i]), call |-> queue[i].call]]
  /\ inFlight' = inFlight \cup {[id |-> todo'[i].id, key |-> todo'[i].key] : i \in DOMAIN todo'}
  /\ nextId' = nextId + Len(queue)
  /\ UNCHANGED <<queue, nextSeq, sess, ready, disk, mine, image, net, server,
                 acked, refused, events>>

\* ... and its loop, left at the first failure.
Replay ==
  /\ pc[Sup] = "replay"
  /\ \/ todo = <<>> /\ To(Sup, "capture") /\ UNCHANGED <<todo, wire>>
     \/ todo # <<>> /\ Sent(Head(todo)) /\ todo' = Tail(todo) /\ UNCHANGED pc
     \/ todo # <<>> /\ SendFails /\ todo' = <<>> /\ To(Sup, "capture")
  /\ UNCHANGED <<queue, nextSeq, inFlight, nextId, sess, ready, disk, mine, image, nsess,
                 alive,
                 reply, server, acked, refused, events>>

\* Mutant: the result of a replayed key does not end the call.
SettledByCommit(r) == r.type \in {"commit", "err"}
\* A ReducerResult ends an optimistic call, Ok, Err or deduplicated.
Settles(r) == r.type # "error"

\* OfflineQueue::acknowledge: no two queued calls have the same key.
Without(q, n) == [i \in 1..Len(q) - 1 |-> IF i < n THEN q[i] ELSE q[i + 1]]

\* route and resolve_optimistic: a result settles the call its id names; an
\* Error frame belongs to no optimistic call.
Receive ==
  /\ pc[Sup] = "read" /\ sess # 0 /\ reply[sess] # <<>>
  /\ reply' = [reply EXCEPT ![sess] = Tail(@)]
  /\ LET r == Head(reply[sess])
         hit == {f \in inFlight : f.id = r.id}
         named == {i \in DOMAIN queue : \E f \in hit : f.key = queue[i].key}
     IN \/ /\ ~Settles(r)
           /\ refused' = IF r.type = "error" THEN refused \cup {r.call} ELSE refused
           /\ UNCHANGED <<queue, inFlight, acked, pc>>
        \/ /\ Settles(r) /\ hit = {}
           /\ UNCHANGED <<queue, inFlight, acked, refused, pc>>
        \/ /\ Settles(r) /\ hit # {}
           /\ inFlight' = inFlight \ hit
           /\ queue' = IF named = {} THEN queue ELSE Without(queue, CHOOSE n \in named : TRUE)
           /\ acked' = acked \cup (IF r.type = "err" THEN {}
                                   ELSE {<<queue[i].call, r.type>> : i \in named})
           /\ To(Sup, "capture") /\ UNCHANGED refused
  /\ UNCHANGED <<nextSeq, nextId, sess, ready, disk, mine, todo, image, nsess, alive,
                 wire, server,
                 events>>

\* supervise reads the end of the stream: no writer, fail_all.
Lost ==
  /\ pc[Sup] = "read" /\ sess # 0 /\ sess \notin alive
  /\ sess' = 0 /\ inFlight' = {} /\ To(Sup, "down")
  /\ UNCHANGED <<queue, nextSeq, nextId, ready, disk, mine, todo, image, net, server,
                 acked, refused, events>>

-----------------------------------------------------------------------------
(* Faults                                                                    *)

Prefixes(q) == {SubSeq(q, 1, n) : n \in 0..Len(q)}

\* The connection of session s breaks: replies are lost, and so is what of the
\* client's frames had not reached the server.
Broken(s) ==
  /\ alive' = alive \ {s} /\ reply' = [reply EXCEPT ![s] = <<>>]
  /\ \E kept \in Prefixes(wire[s]) : wire' = [wire EXCEPT ![s] = kept]

Cut ==
  /\ nsess < MaxSessions
  /\ \E s \in alive : Broken(s)
  /\ UNCHANGED <<client, nsess, server, acked, refused, events>>

\* The server process dies; whatever had been written is replayed.  It may be
\* more than the mark says.
ServerCrash ==
  /\ nsess < MaxSessions /\ Event
  /\ \E n \in written..Len(log) : log' = SubSeq(log, 1, n) /\ written' = n
  /\ alive' = {} /\ jobs' = <<>> /\ doomed' = {}
  /\ wire' = [s \in Sessions |-> <<>>] /\ reply' = [s \in Sessions |-> <<>>]
  /\ srv' = [s \in Sessions |-> [Idle EXCEPT !.pc = "closed"]]
  /\ UNCHANGED <<client, nsess, applied, acked, refused>>

\* The client process dies and starts again: OfflineQueue::restore.
ClientRestart ==
  /\ nsess < MaxSessions /\ Event
  /\ queue' = disk.queue /\ nextSeq' = disk.next
  /\ inFlight' = {} /\ nextId' = nextId /\ ready' = FALSE /\ sess' = 0 /\ todo' = <<>>
  /\ pc' = [t \in Threads |-> IF t = Sup THEN "down" ELSE IF pc[t] = "new" THEN "new" ELSE "done"]
  /\ image' = [t \in Threads |-> NoImage]
  /\ IF sess \in alive THEN Broken(sess) ELSE UNCHANGED <<alive, reply, wire>>
  /\ UNCHANGED <<disk, mine, nsess, server, acked, refused>>

-----------------------------------------------------------------------------
(* The server                                                                *)

\* already_applied, on the committed state: the keys recorded and not pruned.
Records ==
  {log[i].key : i \in {j \in DOMAIN log :
     /\ log[j].kind = "call"
     /\ \A k \in j + 1..Len(log) : log[k].kind = "prune" => log[j].key \notin log[k].keys}}

Answer(s, m, type) ==
  reply' = IF s \notin alive THEN reply
           ELSE [reply EXCEPT ![s] = Append(@, [type |-> type, id |-> m.id, call |-> m.call])]

\* try_send on the reducer queue.
Room == Len(jobs) < QueueCap

\* Session::reducer_call up to the reducer queue.
Admit(s) ==
  /\ srv[s].pc = "read" /\ wire[s] # <<>> /\ Room
  /\ wire' = [wire EXCEPT ![s] = Tail(@)]
  /\ srv' = [srv EXCEPT ![s] = [pc |-> "job", msg |-> Head(wire[s]), at |-> 0]]
  /\ jobs' = Append(jobs, s)
  /\ UNCHANGED <<client, nsess, alive, reply, doomed, log, written, applied, acked,
                 refused, events>>

\* Not the primary, a quota, the rate limit, bad arguments, or a full queue.
Refuse(s) ==
  /\ srv[s].pc = "read" /\ wire[s] # <<>>
  /\ \/ ~Room /\ UNCHANGED events
     \/ Event
  /\ wire' = [wire EXCEPT ![s] = Tail(@)]
  /\ Answer(s, Head(wire[s]), "error")
  /\ UNCHANGED <<client, nsess, alive, srv, jobs, doomed, log, written, applied, acked,
                 refused>>

\* The connection is gone and its last frame handled.
EndSession(s) ==
  /\ srv[s].pc = "read" /\ s \notin alive /\ wire[s] = <<>>
  /\ srv' = [srv EXCEPT ![s].pc = "closed"]
  /\ UNCHANGED <<client, net, jobs, doomed, log, written, applied,
                 acked, refused, events>>

\* call_idempotent's closure on the single writer.  An error, a panic and a
\* replayed key roll back: no entry.
Execute ==
  /\ jobs # <<>> /\ Head(jobs) # 0 /\ jobs' = Tail(jobs)
  /\ LET s == Head(jobs)
         m == srv[s].msg
     IN \/ /\ m.key \in Records
           /\ srv' = [srv EXCEPT ![s].pc = "dedup"]
           /\ UNCHANGED <<log, applied, events>>
        \/ /\ m.key \notin Records
           /\ log' = Append(log, [kind |-> "call", key |-> m.key, call |-> m.call])
           /\ applied' = applied \cup {m.call}
           /\ srv' = [srv EXCEPT ![s].pc = "wait", ![s].at = Len(log) + 1]
           /\ UNCHANGED events
        \/ /\ m.key \notin Records
           /\ Event
           /\ srv' = [srv EXCEPT ![s].pc = "err"]
           /\ UNCHANGED <<log, applied>>
  /\ UNCHANGED <<client, net, doomed, written, acked, refused>>

\* Mutant: the result leaves at commit visibility.
AnswerAtCommit(s) == TRUE
\* What must hold before the result leaves: wait_written, for a commit only.
MayAnswer(s) == srv[s].pc = "wait" => srv[s].at <= written

\* The rest of reducer_call.
Respond(s) ==
  /\ srv[s].pc \in {"wait", "dedup", "err"} /\ MayAnswer(s)
  /\ Answer(s, srv[s].msg, IF srv[s].pc = "wait" THEN "commit" ELSE srv[s].pc)
  /\ srv' = [srv EXCEPT ![s] = Idle]
  /\ UNCHANGED <<client, nsess, alive, wire, jobs, doomed, log, written, applied, acked,
                 refused, events>>

\* The log's writer.
Write ==
  /\ written < Len(log) /\ \E n \in written + 1..Len(log) : written' = n
  /\ UNCHANGED <<client, net, srv, jobs, doomed, log, applied,
                 acked, refused, events>>

\* When a recorded key was created, as a position in the log.
CreatedAt(k) == CHOOSE j \in DOMAIN log :
  log[j].kind = "call" /\ log[j].key = k /\ \A i \in j + 1..Len(log) :
    ~(log[i].kind = "call" /\ log[i].key = k)

\* prunable: an age cuts off the oldest, and then at most max_records stay.
Prunable ==
  {d \in SUBSET Records :
     /\ \A k \in d, l \in Records \ d : CreatedAt(k) < CreatedAt(l)
     /\ Cardinality(Records \ d) <= MaxRecords}

\* prune_idempotency decides on a snapshot and deletes in a transaction.
PruneDecide ==
  /\ Event /\ doomed = {} /\ Room
  /\ doomed' \in Prunable \ {{}}
  /\ jobs' = Append(jobs, 0)
  /\ UNCHANGED <<client, net, srv, log, written, applied, acked, refused>>

Prune ==
  /\ jobs # <<>> /\ Head(jobs) = 0 /\ jobs' = Tail(jobs)
  /\ log' = Append(log, [kind |-> "prune", keys |-> doomed]) /\ doomed' = {}
  /\ UNCHANGED <<client, net, srv, written, applied, acked, refused, events>>

-----------------------------------------------------------------------------
Next ==
  \/ \E c \in Calls : Enqueue(c) \/ Send(c)
  \/ \E t \in Threads : Capture(t) \/ Save(t)
  \/ Establish \/ Take \/ Replay \/ Receive \/ Lost
  \/ Cut \/ ServerCrash \/ ClientRestart
  \/ \E s \in Sessions : Admit(s) \/ Refuse(s) \/ EndSession(s) \/ Respond(s)
  \/ Execute \/ Write \/ PruneDecide \/ Prune

Spec == Init /\ [][Next]_vars

(* Every thread of the client and every task of the server goes on; nothing *)
(* has to fail, be pruned or be called.                                      *)
FairSpec ==
  /\ Spec
  /\ \A c \in Calls : WF_vars(Send(c))
  /\ \A t \in Threads : WF_vars(Capture(t)) /\ WF_vars(Save(t))
  /\ WF_vars(Establish) /\ WF_vars(Take) /\ WF_vars(Replay)
  /\ WF_vars(Receive) /\ WF_vars(Lost)
  /\ \A s \in Sessions : WF_vars(Admit(s)) /\ WF_vars(EndSession(s)) /\ WF_vars(Respond(s))
  /\ WF_vars(Execute) /\ WF_vars(Write) /\ WF_vars(Prune)

-----------------------------------------------------------------------------
(* A call is applied at most once, over lost connections, replays on a new  *)
(* session while the old one still works, and crashes of either process --  *)
(* as long as its key was not pruned from the window in between (CS-030).   *)
AppliedOnce ==
  \A i, j \in DOMAIN log :
    i < j /\ log[i].kind = "call" /\ log[j].kind = "call" /\ log[i].call = log[j].call
      => \E k \in i + 1..j - 1 : log[k].kind = "prune" /\ log[i].key \in log[k].keys

(* What was answered Ok because it committed is there after any number of   *)
(* crashes of the server process: reducer_call's wait_written (TXN-004).    *)
CommitAckKept ==
  \A c \in Calls : <<c, "commit">> \in acked =>
    \E i \in DOMAIN log : log[i].kind = "call" /\ log[i].call = c

Queued(c) == \E i \in DOMAIN queue : queue[i].call = c

(* A queued call leaves the queue, through every loss of a connection and   *)
(* crash of the server, or an Error frame has refused it (the SDK lets such *)
(* a call wait for the next session).                                       *)
CallsSettle == \A c \in Calls : Queued(c) ~> (~Queued(c) \/ c \in refused)

=============================================================================
