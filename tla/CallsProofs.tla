----------------------------- MODULE CallsProofs -----------------------------
(***************************************************************************)
(* For every number of calls, sessions, records and faults: a call is      *)
(* applied once as long as its key is remembered, and an answer to a       *)
(* commit is never lost to a crash of the server.                          *)
(***************************************************************************)
EXTENDS Calls, TLAPS

Elems(q) == {q[i] : i \in 1..Len(q)}

(***************************************************************************)
(* AppliedOnce rests on the key: wherever a call turns up (queued, saved,  *)
(* under way, in the log) it has the key it was given when it was made,    *)
(* and it is made once.  The operators take the variables they read as     *)
(* arguments, so that a step can be described by what it does to them.     *)
(***************************************************************************)

\* Call c was made, and k is its key.
Known(c, k, p, m) == p[c] # "new" /\ k = m[c].key

\* A queue, or an image of one: distinct keys below the next one to mint.
QueueOK(q, n, p, m) ==
    /\ q \in Seq(Pending) /\ n \in Keys
    /\ \A c \in Calls : p[c] = "new" => n < c
    /\ \A i \in 1..Len(q) : q[i].key < n /\ Known(q[i].call, q[i].key, p, m)
    /\ \A i, j \in 1..Len(q) : q[i].key = q[j].key => i = j

QueuesInv ==
    /\ QueueOK(queue, nextSeq, pc, mine)
    /\ QueueOK(disk.queue, disk.next, pc, mine)
    /\ \A t \in Threads : QueueOK(image[t].queue, image[t].next, pc, mine)

\* What carries a call towards the single writer.
Busy == {"job", "wait", "dedup", "err"}
MineMsg(c) == [id |-> mine[c].id, key |-> mine[c].key, call |-> c]
ToSend == {MineMsg(c) : c \in {d \in Calls : pc[d] = "send"}}
InHand == {srv[s].msg : s \in {r \in Sessions : srv[r].pc \in Busy}}
OnAll(channel) == UNION {Elems(channel[s]) : s \in Sessions}
Messages == ToSend \cup Elems(todo) \cup OnAll(wire) \cup InHand
Replies == OnAll(reply)

(***************************************************************************)
(* CommitAckKept rests on the request id: the reply to an attempt settles  *)
(* the queued call that the attempt was made for, and no other.            *)
(***************************************************************************)

\* An attempt of call c: if the client still waits for its id, then the key it
\* waits for is that of c.
Attempt(id, c, n, fl, q) ==
    /\ id \in Nat /\ id < n /\ c \in Calls
    /\ \A f \in fl, i \in 1..Len(q) : f.id = id /\ q[i].key = f.key => q[i].call = c

InFlightInv == \A f \in inFlight : f.id < nextId /\ f.key < nextSeq

MessagesInv ==
    \A m \in Messages :
       /\ m \in Message /\ Known(m.call, m.key, pc, mine)
       /\ Attempt(m.id, m.call, nextId, inFlight, queue)

\* Call c is in the part of the log that survives.
Kept(c, l, w) == \E i \in 1..w : l[i].kind = "call" /\ l[i].call = c

RepliesInv ==
    \A r \in Replies :
       /\ Attempt(r.id, r.call, nextId, inFlight, queue)
       /\ r.type = "commit" => Kept(r.call, log, written)

AckedInv == \A c \in Calls : <<c, "commit">> \in acked => Kept(c, log, written)

\* The reducer queue holds each session that waits for it once; a session that
\* was not established yet has no task.
JobsInv ==
    /\ \A s \in Sessions : s > nsess => srv[s].pc = "closed"
    /\ \A i \in 1..Len(jobs) : jobs[i] # 0 => srv[jobs[i]].pc = "job"
    /\ \A i, j \in 1..Len(jobs) : jobs[i] = jobs[j] /\ jobs[i] # 0 => i = j

\* A session that waits for the log waits for its own entry.
WaitInv ==
    \A s \in Sessions : srv[s].pc = "wait" =>
       /\ srv[s].at \in 1..Len(log)
       /\ log[srv[s].at].kind = "call" /\ log[srv[s].at].call = srv[s].msg.call

LogInv ==
    \A i \in 1..Len(log) : log[i].kind = "call" => Known(log[i].call, log[i].key, pc, mine)

\* Two entries of one key have a prune of it between them.
OnceInv ==
    \A i, j \in 1..Len(log) :
      i < j /\ log[i].kind = "call" /\ log[j].kind = "call" /\ log[i].call = log[j].call
        => \E k \in i + 1..j - 1 : log[k].kind = "prune" /\ log[i].key \in log[k].keys

Task == [pc : {"closed", "read", "job", "wait", "dedup", "err", "error"},
         msg : Message \cup {<<>>}, at : Nat]
ServerTypes == srv \in [Sessions -> Task]

CallsInv ==
    /\ TypeOK /\ ServerTypes
    /\ QueuesInv /\ InFlightInv /\ MessagesInv /\ RepliesInv
    /\ JobsInv /\ WaitInv /\ LogInv /\ OnceInv /\ AckedInv

----------------------------------------------------------------------------
(* Sequences, and the operators above.                                     *)

LEMMA FunctionSeq ==
    ASSUME NEW S, NEW n \in Nat, NEW f \in [1..n -> S]
    PROVE  f \in Seq(S) /\ Len(f) = n
OBVIOUS

LEMMA ElemsAppend ==
    ASSUME NEW S, NEW q \in Seq(S), NEW e \in S
    PROVE  /\ Append(q, e) \in Seq(S) /\ Elems(Append(q, e)) = Elems(q) \cup {e}
           /\ Len(Append(q, e)) = Len(q) + 1 /\ Append(q, e)[Len(q) + 1] = e
           /\ \A i \in 1..Len(q) : Append(q, e)[i] = q[i]
BY DEF Elems

LEMMA ElemsTail ==
    ASSUME NEW S, NEW q \in Seq(S), q # <<>>
    PROVE  /\ Tail(q) \in Seq(S) /\ Elems(Tail(q)) \subseteq Elems(q)
           /\ Head(q) \in Elems(q) /\ Head(q) \in S /\ Head(q) = q[1]
           /\ Len(q) \in Nat \ {0} /\ Len(Tail(q)) = Len(q) - 1
           /\ \A i \in 1..Len(Tail(q)) : Tail(q)[i] = q[i + 1]
BY DEF Elems

LEMMA ElemsPrefix ==
    ASSUME NEW S, NEW q \in Seq(S), NEW n \in 0..Len(q)
    PROVE  /\ SubSeq(q, 1, n) \in Seq(S) /\ Elems(SubSeq(q, 1, n)) \subseteq Elems(q)
           /\ Len(SubSeq(q, 1, n)) = n /\ \A i \in 1..n : SubSeq(q, 1, n)[i] = q[i]
BY DEF Elems

LEMMA ElemsNone == Elems(<<>>) = {} /\ Len(<<>>) = 0 /\ \A S : <<>> \in Seq(S)
BY DEF Elems

\* Taking one call out of a queue leaves the others as they were.
LEMMA WithoutOne ==
    ASSUME NEW q \in Seq(Pending), NEW n \in 1..Len(q)
    PROVE  /\ Without(q, n) \in Seq(Pending) /\ Len(Without(q, n)) = Len(q) - 1
           /\ \A i \in 1..Len(q) - 1 :
                /\ Without(q, n)[i] = IF i < n THEN q[i] ELSE q[i + 1]
                /\ i \in 1..Len(q) /\ i + 1 \in 1..Len(q)
<1>1. Len(q) - 1 \in Nat /\ Without(q, n) \in [1..Len(q) - 1 -> Pending]
  BY DEF Without
<1>2. Without(q, n) \in Seq(Pending) /\ Len(Without(q, n)) = Len(q) - 1
  BY <1>1, FunctionSeq
<1> QED  BY <1>2 DEF Without

LEMMA Bounds ==
    /\ Calls \subseteq Nat \ {0} /\ Keys \subseteq Nat /\ Sessions \subseteq Nat \ {0}
    /\ MaxCalls \in Nat /\ MaxSessions \in Nat /\ MaxEvents \in Nat /\ QueueCap \in Nat
    /\ Sup \in Threads /\ Sup \notin Calls /\ Calls \subseteq Threads
BY CallBounds DEF Calls, Keys, Sessions, Threads, Sup

----------------------------------------------------------------------------
(* What a step of any actor does to the calls that were made and to the    *)
(* attempts the client waits for.                                          *)

ClientStep ==
    /\ \A c \in Calls : pc[c] # "new" => pc'[c] # "new" /\ mine'[c] = mine[c]
    /\ nextId \in Nat /\ nextId' \in Nat /\ nextId <= nextId'
    /\ \A f \in inFlight', i \in 1..Len(queue') :
          f.id < nextId /\ queue'[i].key = f.key
            => f \in inFlight /\ \E j \in 1..Len(queue) : queue[j] = queue'[i]

\* What was known of a call stays known.
LEMMA KnownStays ==
    ASSUME ClientStep, NEW c \in Calls, NEW k, Known(c, k, pc, mine)
    PROVE  Known(c, k, pc', mine')
BY DEF ClientStep, Known

\* An attempt stays an attempt of its call.
LEMMA AttemptStays ==
    ASSUME ClientStep, NEW id, NEW c, Attempt(id, c, nextId, inFlight, queue)
    PROVE  Attempt(id, c, nextId', inFlight', queue')
<1>1. id \in Nat /\ id < nextId /\ id < nextId' /\ c \in Calls
  BY DEF ClientStep, Attempt
<1>2. ASSUME NEW f \in inFlight', NEW i \in 1..Len(queue'), f.id = id, queue'[i].key = f.key
      PROVE  queue'[i].call = c
  <2>1. f \in inFlight /\ \E j \in 1..Len(queue) : queue[j] = queue'[i]
    BY <1>1, <1>2 DEF ClientStep
  <2> QED  BY <1>2, <2>1 DEF Attempt
<1> QED  BY <1>1, <1>2 DEF Attempt

\* A queue stays one while calls are made that it does not hold.
LEMMA QueueStays ==
    ASSUME NEW q, NEW n, NEW p, NEW m, NEW p2, NEW m2, QueueOK(q, n, p, m),
           \A c \in Calls : p[c] # "new" => p2[c] # "new" /\ m2[c] = m[c]
    PROVE  QueueOK(q, n, p2, m2)
<1>1. \A i \in 1..Len(q) : q[i] \in Pending
  BY DEF QueueOK
<1>2. \A i \in 1..Len(q) : q[i].call \in Calls
  BY <1>1 DEF Pending
<1> QED  BY <1>2 DEF QueueOK, Known

\* The client's part of the types, used everywhere below.
LEMMA ClientFacts ==
    ASSUME CallsInv
    PROVE  /\ queue \in Seq(Pending) /\ Len(queue) \in Nat /\ nextSeq \in Nat /\ nextId \in Nat
           /\ \A i \in 1..Len(queue) : queue[i] \in Pending /\ queue[i].key \in Nat
                                       /\ queue[i].key < nextSeq /\ queue[i].call \in Calls
           /\ inFlight \subseteq [id : Nat, key : Keys]
           /\ \A f \in inFlight : f.id \in Nat /\ f.key \in Nat /\ f.id < nextId /\ f.key < nextSeq
           /\ DOMAIN pc = Threads /\ DOMAIN mine = Calls
<1>1. TypeOK /\ QueueOK(queue, nextSeq, pc, mine) /\ InFlightInv
  BY DEF CallsInv, QueuesInv
<1>2. queue \in Seq(Pending) /\ nextSeq \in Nat /\ inFlight \subseteq [id : Nat, key : Keys]
  BY <1>1, Bounds DEF TypeOK
<1>3. \A i \in 1..Len(queue) : queue[i] \in Pending
  BY <1>2
<1>4. \A i \in 1..Len(queue) : queue[i].key \in Nat /\ queue[i].call \in Calls
  BY <1>3, Bounds DEF Pending
<1>5. \A i \in 1..Len(queue) : queue[i].key < nextSeq
  BY <1>1 DEF QueueOK
<1>6. \A f \in inFlight : f.id \in Nat /\ f.key \in Nat /\ f.id < nextId /\ f.key < nextSeq
  BY <1>1, <1>2, Bounds DEF InFlightInv
<1>7. nextId \in Nat /\ DOMAIN pc = Threads /\ DOMAIN mine = Calls /\ Len(queue) \in Nat
  BY <1>1, <1>2 DEF TypeOK
<1> QED  BY <1>2, <1>3, <1>4, <1>5, <1>6, <1>7

\* Every step is one of the client's, or leaves its calls and attempts alone.
LEMMA Framed == ASSUME CallsInv, [Next]_vars PROVE ClientStep
<1> USE Bounds
<1>f. /\ queue \in Seq(Pending) /\ Len(queue) \in Nat /\ nextSeq \in Nat /\ nextId \in Nat
      /\ \A i \in 1..Len(queue) : queue[i].key \in Nat /\ queue[i].key < nextSeq
      /\ \A f \in inFlight : f.id \in Nat /\ f.key \in Nat /\ f.id < nextId /\ f.key < nextSeq
      /\ DOMAIN pc = Threads /\ DOMAIN mine = Calls
  BY ClientFacts
<1>0. ASSUME UNCHANGED <<mine, nextId>>, \A c \in Calls : pc[c] # "new" => pc'[c] # "new",
             inFlight' \subseteq inFlight,
             \A i \in 1..Len(queue') : \E j \in 1..Len(queue) : queue[j] = queue'[i]
      PROVE  ClientStep
  BY <1>f, <1>0 DEF ClientStep
<1>1. ASSUME NEW c \in Calls, Enqueue(c)
      PROVE  ClientStep
  <2> DEFINE e == [key |-> nextSeq, call |-> c]
  <2>1. e \in Pending /\ nextId' = nextId + 1 /\ queue' = Append(queue, e)
    BY <1>1 DEF Enqueue, Minted, Pending, CallsInv, TypeOK
  <2>2. \A d \in Calls : pc[d] # "new" => pc'[d] # "new" /\ mine'[d] = mine[d]
    BY <1>f, <1>1 DEF Enqueue, To
  <2>3. ASSUME NEW f \in inFlight', NEW i \in 1..Len(queue'), f.id < nextId, queue'[i].key = f.key
        PROVE  f \in inFlight /\ \E j \in 1..Len(queue) : queue[j] = queue'[i]
    <3>1. f \in inFlight
      BY <1>f, <1>1, <2>3 DEF Enqueue
    <3>2. /\ Len(queue') = Len(queue) + 1 /\ queue'[Len(queue) + 1] = e
          /\ \A j \in 1..Len(queue) : queue'[j] = queue[j]
      <4> HIDE DEF e
      <4> QED  BY <1>f, <2>1, ElemsAppend
    <3>3. i # Len(queue) + 1
      BY <1>f, <2>3, <3>1, <3>2
    <3>4. i \in 1..Len(queue)
      BY <1>f, <3>2, <3>3
    <3> QED  BY <3>1, <3>2, <3>4
  <2> QED  BY <1>f, <2>1, <2>2, <2>3 DEF ClientStep
<1>2. ASSUME NEW c \in Calls, Send(c)
      PROVE  ClientStep
  BY <1>f, <1>0, <1>2 DEF Send, To
<1>3. ASSUME NEW t \in Threads, Capture(t)
      PROVE  ClientStep
  BY <1>f, <1>0, <1>3 DEF Capture, To
<1>4. ASSUME NEW t \in Threads, Save(t)
      PROVE  ClientStep
  BY <1>f, <1>0, <1>4 DEF Save, To
<1>5. CASE Take
  <2>1. queue' = queue /\ mine' = mine /\ nextId' = nextId + Len(queue)
    BY <1>5 DEF Take
  <2>2. \A c \in Calls : pc[c] # "new" => pc'[c] # "new"
    BY <1>f, <1>5 DEF Take, To
  <2>3. \A f \in inFlight' : f \in inFlight \/ \E i \in 1..Len(queue) : f.id = nextId + i - 1
    <3>1. DOMAIN todo' = 1..Len(queue) /\ \A i \in 1..Len(queue) : todo'[i].id = nextId + i - 1
      BY <1>5 DEF Take
    <3> QED  BY <1>5, <3>1 DEF Take
  <2>4. \A f \in inFlight' : f.id < nextId => f \in inFlight
    BY <1>f, <2>3
  <2> QED  BY <1>f, <2>1, <2>2, <2>4 DEF ClientStep
<1>6. CASE Receive
  <2>1. UNCHANGED <<mine, nextId>> /\ \A c \in Calls : pc[c] # "new" => pc'[c] # "new"
    BY <1>f, <1>6 DEF Receive, To
  <2>2. inFlight' \subseteq inFlight
    BY <1>6 DEF Receive
  <2>3. \A i \in 1..Len(queue') : \E j \in 1..Len(queue) : queue[j] = queue'[i]
    <3>1. CASE queue' = queue
      BY <3>1
    <3>2. CASE \E n \in 1..Len(queue) : queue' = Without(queue, n)
      <4>1. PICK n \in 1..Len(queue) : queue' = Without(queue, n)
        BY <3>2
      <4>2. /\ Len(queue') = Len(queue) - 1
            /\ \A i \in 1..Len(queue) - 1 :
                 /\ queue'[i] = IF i < n THEN queue[i] ELSE queue[i + 1]
                 /\ i \in 1..Len(queue) /\ i + 1 \in 1..Len(queue)
        <5>1. queue \in Seq(Pending)
          BY <1>f
        <5>2. /\ Len(Without(queue, n)) = Len(queue) - 1
              /\ \A i \in 1..Len(queue) - 1 :
                   /\ Without(queue, n)[i] = IF i < n THEN queue[i] ELSE queue[i + 1]
                   /\ i \in 1..Len(queue) /\ i + 1 \in 1..Len(queue)
          BY <5>1, WithoutOne
        <5> QED  BY <5>2, <4>1
      <4> QED  BY <4>2
    <3> DEFINE named == {i \in DOMAIN queue : \E f \in {g \in inFlight : g.id = Head(reply[sess]).id} : f.key = queue[i].key}
    <3>3. named # {} => (CHOOSE n \in named : TRUE) \in 1..Len(queue)
      <4>1. named \subseteq 1..Len(queue)
        OBVIOUS
      <4> QED  BY <4>1
    <3>4. queue' = queue \/ (named # {} /\ queue' = Without(queue, CHOOSE n \in named : TRUE))
      BY <1>6 DEF Receive
    <3> HIDE DEF named
    <3> QED  BY <3>1, <3>2, <3>3, <3>4
  <2> QED  BY <1>0, <2>1, <2>2, <2>3
<1>7. CASE Establish \/ Replay
  <2>1. UNCHANGED <<mine, nextId, inFlight, queue>>
    BY <1>7 DEF Establish, Replay
  <2>2. \A c \in Calls : pc[c] # "new" => pc'[c] # "new"
    BY <1>f, <1>7 DEF Establish, Replay, To
  <2> QED  BY <1>0, <2>1, <2>2
<1>8. CASE Lost
  BY <1>f, <1>0, <1>8 DEF Lost, To
<1>9. CASE ClientRestart
  <2>1. UNCHANGED <<mine, nextId>> /\ inFlight' = {}
    BY <1>f, <1>9 DEF ClientRestart
  <2>2. \A c \in Calls : pc[c] # "new" => pc'[c] # "new"
    BY <1>f, <1>9 DEF ClientRestart
  <2> QED  BY <1>f, <2>1, <2>2 DEF ClientStep
<1>10. CASE UNCHANGED client
  BY <1>0, <1>10 DEF client
<1>11. CASE Cut \/ ServerCrash \/ Execute \/ Write \/ PruneDecide \/ Prune \/ UNCHANGED vars
             \/ \E s \in Sessions : Admit(s) \/ Refuse(s) \/ EndSession(s) \/ Respond(s)
  <2>1. UNCHANGED client
    BY <1>11 DEF Cut, ServerCrash, Execute, Write, PruneDecide, Prune, vars, Admit, Refuse,
                 EndSession, Respond
  <2> QED  BY <1>10, <2>1
<1> QED  BY <1>1, <1>2, <1>3, <1>4, <1>5, <1>6, <1>7, <1>8, <1>9, <1>11 DEF Next

----------------------------------------------------------------------------
(* The queue, its images, and what the client waits for.                   *)

\* Minting takes the next key, and the calls still to be made are later.
LEMMA EnqueueQueue ==
    ASSUME CallsInv, NEW c \in Calls, Enqueue(c)
    PROVE  QueueOK(queue', nextSeq', pc', mine')
<1> DEFINE e == [key |-> nextSeq, call |-> c]
<1>1. QueueOK(queue, nextSeq, pc, mine) /\ nextSeq < c /\ nextSeq \in Keys /\ c \in Nat
  BY Bounds DEF CallsInv, QueuesInv, QueueOK, Enqueue
<1>2. e \in Pending /\ queue' = Append(queue, e) /\ nextSeq' = nextSeq + 1 /\ queue \in Seq(Pending)
  BY <1>1 DEF Enqueue, Minted, Pending, QueueOK
<1>3. /\ queue' \in Seq(Pending) /\ Len(queue') = Len(queue) + 1 /\ queue'[Len(queue) + 1] = e
      /\ \A j \in 1..Len(queue) : queue'[j] = queue[j]
  <2> HIDE DEF e
  <2> QED  BY <1>2, ElemsAppend
<1>4. pc'[c] = "send" /\ mine'[c].key = nextSeq
      /\ \A d \in Calls : d # c => pc'[d] = pc[d] /\ mine'[d] = mine[d]
  BY ClientFacts, Bounds DEF Enqueue, To, Minted
<1>5. nextSeq' \in Keys /\ \A d \in Calls : pc'[d] = "new" => nextSeq' < d
  <2>1. \A d \in Calls : d < c => pc[d] # "new"
    BY DEF Enqueue
  <2>2. \A d \in Calls : pc'[d] = "new" => d > c
    BY <1>4, <2>1, Bounds
  <2> QED  BY <1>1, <1>2, <2>2, CallBounds DEF Keys, Calls
<1>6. \A j \in 1..Len(queue) : /\ queue[j].key \in Nat /\ queue[j].key < nextSeq /\ queue[j].call \in Calls
                               /\ Known(queue[j].call, queue[j].key, pc', mine')
  <2>1. \A d \in Calls : pc[d] # "new" => d # c
    BY DEF Enqueue
  <2>2. ASSUME NEW j \in 1..Len(queue)
        PROVE  /\ queue[j].key \in Nat /\ queue[j].key < nextSeq /\ queue[j].call \in Calls
    BY ClientFacts
  <2>3. ASSUME NEW j \in 1..Len(queue)
        PROVE  pc[queue[j].call] # "new" /\ queue[j].key = mine[queue[j].call].key
    BY <1>1 DEF QueueOK, Known
  <2>4. ASSUME NEW j \in 1..Len(queue)
        PROVE  Known(queue[j].call, queue[j].key, pc', mine')
    <3>1. queue[j].call \in Calls /\ queue[j].call # c
      BY <2>1, <2>2, <2>3
    <3> QED  BY <1>4, <2>3, <3>1 DEF Known
  <2> QED  BY <2>2, <2>4
<1>7. nextSeq \in Nat /\ Len(queue) \in Nat
  BY <1>1, <1>2, Bounds
<1>8. \A j \in 1..Len(queue') : queue'[j].key < nextSeq' /\ Known(queue'[j].call, queue'[j].key, pc', mine')
  BY <1>2, <1>3, <1>4, <1>6, <1>7 DEF Known
<1>9. \A i, j \in 1..Len(queue') : queue'[i].key = queue'[j].key => i = j
  <2> SUFFICES ASSUME NEW i \in 1..Len(queue'), NEW j \in 1..Len(queue'), queue'[i].key = queue'[j].key
               PROVE  i = j
    OBVIOUS
  <2>1. \A k \in 1..Len(queue') : k \in 1..Len(queue) \/ k = Len(queue) + 1
    BY <1>3, <1>7
  <2>2. queue'[Len(queue) + 1].key = nextSeq
    BY <1>3
  <2>3. \A k \in 1..Len(queue) : queue'[k].key = queue[k].key /\ queue[k].key # nextSeq
    BY <1>3, <1>6, <1>7
  <2>4. CASE i \in 1..Len(queue) /\ j \in 1..Len(queue)
    BY <1>1, <2>3, <2>4 DEF QueueOK
  <2> QED  BY <2>1, <2>2, <2>3, <2>4
<1> QED  BY <1>3, <1>5, <1>8, <1>9 DEF QueueOK

\* Dropping a call leaves a queue.
LEMMA WithoutQueue ==
    ASSUME NEW q, NEW n, NEW p, NEW m, NEW x \in 1..Len(q), QueueOK(q, n, p, m)
    PROVE  QueueOK(Without(q, x), n, p, m)
<1>1. q \in Seq(Pending)
  BY DEF QueueOK
<1> DEFINE w == Without(q, x)
<1>2. /\ w \in Seq(Pending) /\ Len(w) = Len(q) - 1
      /\ \A i \in 1..Len(q) - 1 : /\ w[i] = IF i < x THEN q[i] ELSE q[i + 1]
                                  /\ i \in 1..Len(q) /\ i + 1 \in 1..Len(q)
  BY <1>1, WithoutOne
<1> HIDE DEF w
<1>3. \A i \in 1..Len(w) : w[i].key < n /\ Known(w[i].call, w[i].key, p, m)
  BY <1>2 DEF QueueOK
<1>4. ASSUME NEW i \in 1..Len(w), NEW j \in 1..Len(w), w[i].key = w[j].key
      PROVE  i = j
  <2> DEFINE at(k) == IF k < x THEN k ELSE k + 1
  <2>1. w[i] = q[at(i)] /\ w[j] = q[at(j)] /\ at(i) \in 1..Len(q) /\ at(j) \in 1..Len(q)
    BY <1>2
  <2>2. at(i) = at(j)
    BY <1>4, <2>1 DEF QueueOK
  <2> QED  BY <2>2
<1> QED  BY <1>2, <1>3, <1>4 DEF QueueOK, w

\* What the code's named is: the queued calls a result settles.
Hit(r) == {f \in inFlight : f.id = r.id}
Named(r) == {i \in DOMAIN queue : \E f \in Hit(r) : f.key = queue[i].key}

LEMMA ReceiveCases ==
    ASSUME CallsInv, Receive
    PROVE  LET r == Head(reply[sess])
           IN /\ r \in Elems(reply[sess]) /\ r \in Result /\ sess \in Sessions
              /\ \/ queue' = queue
                 \/ \E n \in Named(r) : n \in 1..Len(queue) /\ queue' = Without(queue, n)
              /\ \/ acked' = acked
                 \/ acked' = acked \cup {<<queue[i].call, r.type>> : i \in Named(r)} /\ r.type \in {"commit", "dedup"}
              /\ inFlight' \subseteq inFlight
<1> DEFINE r == Head(reply[sess])
<1>1. sess \in Sessions /\ reply[sess] \in Seq(Result) /\ reply[sess] # <<>>
  <2>1. sess \in 0..nsess /\ nsess \in 0..MaxSessions /\ sess # 0 /\ reply \in [Sessions -> Seq(Result)]
    BY DEF CallsInv, TypeOK, Receive
  <2>2. sess \in Sessions
    BY <2>1, CallBounds DEF Sessions
  <2> QED  BY <2>1, <2>2 DEF Receive
<1>2. r \in Elems(reply[sess]) /\ r \in Result
  BY <1>1, ElemsTail
<1>3. Named(r) # {} => (CHOOSE n \in Named(r) : TRUE) \in Named(r)
  OBVIOUS
<1>4. Named(r) \subseteq 1..Len(queue)
  <2>1. DOMAIN queue = 1..Len(queue)
    <3>1. queue \in Seq(Pending)
      BY ClientFacts
    <3> QED  BY <3>1
  <2> QED  BY <2>1 DEF Named
<1>5. queue' = queue \/ (Named(r) # {} /\ queue' = Without(queue, CHOOSE n \in Named(r) : TRUE))
  BY DEF Receive, Named, Hit
<1>6. \/ acked' = acked
      \/ acked' = acked \cup {<<queue[i].call, r.type>> : i \in Named(r)} /\ r.type \in {"commit", "dedup"}
  <2>1. r.type \in {"commit", "dedup", "err", "error"}
    BY <1>2 DEF Result
  <2>2. CASE acked' = acked \cup (IF r.type = "err" THEN {} ELSE {<<queue[i].call, r.type>> : i \in Named(r)})
             /\ r.type # "error"
    BY <2>1, <2>2
  <2> QED  BY <2>2 DEF Receive, Named, Hit, Settles
<1>7. inFlight' \subseteq inFlight
  BY DEF Receive
<1> QED  BY <1>1, <1>2, <1>3, <1>4, <1>5, <1>6, <1>7

LEMMA QueuesStep == ASSUME CallsInv, [Next]_vars PROVE QueuesInv'
<1>1. ClientStep
  BY Framed
<1>2. /\ QueueOK(queue, nextSeq, pc', mine') /\ QueueOK(disk.queue, disk.next, pc', mine')
      /\ \A t \in Threads : QueueOK(image[t].queue, image[t].next, pc', mine')
  <2>1. \A c \in Calls : pc[c] # "new" => pc'[c] # "new" /\ mine'[c] = mine[c]
    BY <1>1 DEF ClientStep
  <2>2. /\ QueueOK(queue, nextSeq, pc, mine) /\ QueueOK(disk.queue, disk.next, pc, mine)
        /\ \A t \in Threads : QueueOK(image[t].queue, image[t].next, pc, mine)
    BY DEF CallsInv, QueuesInv
  <2> QED  BY <2>1, <2>2, QueueStays
<1>3. image \in [Threads -> Image]
  BY DEF CallsInv, TypeOK
<1>4. QueueOK(<<>>, 0, pc', mine')
  <2>1. 0 \in Keys /\ \A c \in Calls : 0 < c
    BY CallBounds DEF Keys, Calls
  <2> QED  BY <2>1, ElemsNone DEF QueueOK
<1>5. ASSUME UNCHANGED <<queue, nextSeq, disk, image>>
      PROVE  QueuesInv'
  BY <1>2, <1>5 DEF QueuesInv
<1>6. ASSUME NEW c \in Calls, Enqueue(c)
      PROVE  QueuesInv'
  <2>1. UNCHANGED <<disk, image>>
    BY <1>6 DEF Enqueue
  <2> QED  BY <1>2, <1>6, <2>1, EnqueueQueue DEF QueuesInv
<1>7. ASSUME NEW t \in Threads, Capture(t)
      PROVE  QueuesInv'
  <2>1. UNCHANGED <<queue, nextSeq, disk>> /\ image' = [image EXCEPT ![t] = [queue |-> queue, next |-> nextSeq]]
    BY <1>7 DEF Capture
  <2>2. \A u \in Threads : image'[u] = IF u = t THEN [queue |-> queue, next |-> nextSeq] ELSE image[u]
    BY <1>3, <2>1
  <2> QED  BY <1>2, <2>1, <2>2 DEF QueuesInv
<1>8. ASSUME NEW t \in Threads, Save(t)
      PROVE  QueuesInv'
  <2>1. UNCHANGED <<queue, nextSeq>> /\ disk' = image[t] /\ image' = [image EXCEPT ![t] = NoImage]
    BY <1>8 DEF Save
  <2>2. \A u \in Threads : image'[u] = IF u = t THEN NoImage ELSE image[u]
    BY <1>3, <2>1
  <2> QED  BY <1>2, <1>4, <2>1, <2>2 DEF QueuesInv, NoImage
<1>9. CASE Receive
  <2>1. UNCHANGED <<nextSeq, disk, image>>
    BY <1>9 DEF Receive
  <2>2. queue' = queue \/ \E n \in 1..Len(queue) : queue' = Without(queue, n)
    BY <1>9, ReceiveCases
  <2>3. QueueOK(queue', nextSeq', pc', mine')
    BY <1>2, <2>1, <2>2, WithoutQueue
  <2> QED  BY <1>2, <2>1, <2>3 DEF QueuesInv
<1>10. CASE ClientRestart
  <2>1. UNCHANGED disk /\ queue' = disk.queue /\ nextSeq' = disk.next /\ image' = [t \in Threads |-> NoImage]
    BY <1>10 DEF ClientRestart
  <2> QED  BY <1>2, <1>4, <2>1 DEF QueuesInv, NoImage
<1>11. CASE Establish \/ Take \/ Replay \/ Lost \/ \E c \in Calls : Send(c)
  BY <1>5, <1>11 DEF Establish, Take, Replay, Lost, Send
<1>12. CASE Cut \/ ServerCrash \/ Execute \/ Write \/ PruneDecide \/ Prune \/ UNCHANGED vars
             \/ \E s \in Sessions : Admit(s) \/ Refuse(s) \/ EndSession(s) \/ Respond(s)
  BY <1>5, <1>12 DEF Cut, ServerCrash, Execute, Write, PruneDecide, Prune, vars, Admit, Refuse,
                     EndSession, Respond, client
<1> QED  BY <1>6, <1>7, <1>8, <1>9, <1>10, <1>11, <1>12 DEF Next

LEMMA InFlightStep == ASSUME CallsInv, [Next]_vars PROVE InFlightInv'
<1>f. /\ Len(queue) \in Nat /\ nextSeq \in Nat /\ nextId \in Nat
      /\ \A i \in 1..Len(queue) : queue[i].key \in Nat /\ queue[i].key < nextSeq
      /\ \A f \in inFlight : f.id \in Nat /\ f.key \in Nat /\ f.id < nextId /\ f.key < nextSeq
  BY ClientFacts
<1>1. ASSUME inFlight' \subseteq inFlight, UNCHANGED <<nextId, nextSeq>>
      PROVE  InFlightInv'
  BY <1>f, <1>1 DEF InFlightInv
<1>2. ASSUME NEW c \in Calls, Enqueue(c)
      PROVE  InFlightInv'
  <2>1. nextId' = nextId + 1 /\ nextSeq' = nextSeq + 1 /\ inFlight' = inFlight \cup {[id |-> nextId, key |-> nextSeq]}
    BY <1>2 DEF Enqueue, Minted
  <2> QED  BY <1>f, <2>1 DEF InFlightInv
<1>3. CASE Take
  <2>1. nextId' = nextId + Len(queue) /\ nextSeq' = nextSeq
    BY <1>3 DEF Take
  <2>2. \A f \in inFlight' : f \in inFlight \/ \E i \in 1..Len(queue) : f.id = nextId + i - 1 /\ f.key = queue[i].key
    <3>1. DOMAIN todo' = 1..Len(queue)
          /\ \A i \in 1..Len(queue) : todo'[i].id = nextId + i - 1 /\ todo'[i].key = queue[i].key
      BY <1>3 DEF Take, KeyOf
    <3> QED  BY <1>3, <3>1 DEF Take
  <2> QED  BY <1>f, <2>1, <2>2 DEF InFlightInv
<1>4. CASE Receive
  <2>1. UNCHANGED <<nextId, nextSeq>>
    BY <1>4 DEF Receive
  <2> QED  BY <1>1, <1>4, <2>1, ReceiveCases
<1>5. ASSUME NEW c \in Calls, Send(c)
      PROVE  InFlightInv'
  <2>1. UNCHANGED <<nextId, nextSeq>> /\ inFlight' \subseteq inFlight
    BY <1>5 DEF Send
  <2> QED  BY <1>1, <2>1
<1>6. CASE Lost \/ ClientRestart
  <2>1. inFlight' = {}
    BY <1>6 DEF Lost, ClientRestart
  <2> QED  BY <2>1 DEF InFlightInv
<1>7. CASE Establish \/ Replay \/ \E t \in Threads : Capture(t) \/ Save(t)
  <2>1. UNCHANGED <<nextId, nextSeq, inFlight>>
    BY <1>7 DEF Establish, Replay, Capture, Save
  <2> QED  BY <1>1, <2>1
<1>8. CASE Cut \/ ServerCrash \/ Execute \/ Write \/ PruneDecide \/ Prune \/ UNCHANGED vars
             \/ \E s \in Sessions : Admit(s) \/ Refuse(s) \/ EndSession(s) \/ Respond(s)
  <2>1. UNCHANGED <<nextId, nextSeq, inFlight>>
    BY <1>8 DEF Cut, ServerCrash, Execute, Write, PruneDecide, Prune, vars, Admit, Refuse,
                EndSession, Respond, client
  <2> QED  BY <1>1, <2>1
<1> QED  BY <1>2, <1>3, <1>4, <1>5, <1>6, <1>7, <1>8 DEF Next

----------------------------------------------------------------------------
(* Frames and replies under way.                                           *)

\* A channel of one session changes: what is under way afterwards was under
\* way before, or is new.
LEMMA ChannelStep ==
    ASSUME NEW S, NEW w \in [Sessions -> Seq(S)], NEW s \in Sessions, NEW q \in Seq(S), NEW X,
           Elems(q) \subseteq Elems(w[s]) \cup X
    PROVE  /\ [w EXCEPT ![s] = q] \in [Sessions -> Seq(S)]
           /\ OnAll([w EXCEPT ![s] = q]) \subseteq OnAll(w) \cup X
<1> DEFINE v == [w EXCEPT ![s] = q]
<1>1. v \in [Sessions -> Seq(S)] /\ \A r \in Sessions : v[r] = IF r = s THEN q ELSE w[r]
  OBVIOUS
<1> HIDE DEF v
<1>2. \A r \in Sessions : Elems(v[r]) \subseteq OnAll(w) \cup X
  BY <1>1 DEF OnAll
<1>3. OnAll(v) \subseteq OnAll(w) \cup X
  BY <1>2 DEF OnAll
<1> QED  BY <1>1, <1>3 DEF v

LEMMA NothingUnderWay ==
    ASSUME NEW S
    PROVE  /\ [s \in Sessions |-> <<>>] \in [Sessions -> Seq(S)]
           /\ OnAll([s \in Sessions |-> <<>>]) = {}
BY ElemsNone DEF OnAll

\* A reply that was made in this step, to a message in hand or just read.
Answered(r) ==
    \E m \in Messages :
       /\ r.id = m.id /\ r.call = m.call
       /\ r.type = "commit" =>
            \E s \in Sessions : srv[s].pc = "wait" /\ srv[s].at <= written /\ srv[s].msg = m

LEMMA NetFacts ==
    ASSUME CallsInv
    PROVE  /\ wire \in [Sessions -> Seq(Message)] /\ reply \in [Sessions -> Seq(Result)]
           /\ nsess \in 0..MaxSessions /\ alive \subseteq 1..nsess /\ sess \in 0..nsess
           /\ alive \subseteq Sessions /\ (sess # 0 => sess \in Sessions) /\ nsess \in Nat
           /\ todo \in Seq(Message) /\ \A m \in Messages : m \in Message
<1>1. /\ wire \in [Sessions -> Seq(Message)] /\ reply \in [Sessions -> Seq(Result)]
      /\ nsess \in 0..MaxSessions /\ alive \subseteq 1..nsess /\ sess \in 0..nsess
      /\ todo \in Seq(Message)
  BY DEF CallsInv, TypeOK
<1>2. alive \subseteq Sessions /\ (sess # 0 => sess \in Sessions)
  BY <1>1, CallBounds DEF Sessions
<1> QED  BY <1>1, <1>2, CallBounds DEF CallsInv, MessagesInv

\* Answering a message in hand.
LEMMA AnswerStep ==
    ASSUME CallsInv, NEW s \in Sessions, NEW m \in Messages,
           NEW type \in {"commit", "dedup", "err", "error"}, Answer(s, m, type),
           type = "commit" => srv[s].pc = "wait" /\ srv[s].at <= written /\ srv[s].msg = m
    PROVE  reply' \in [Sessions -> Seq(Result)] /\ \A r \in OnAll(reply') : r \in OnAll(reply) \/ Answered(r)
<1> DEFINE a == [type |-> type, id |-> m.id, call |-> m.call]
<1>1. m \in Message /\ reply \in [Sessions -> Seq(Result)]
  BY NetFacts
<1>2. a \in Result
  BY <1>1 DEF Message, Result
<1>3. Answered(a)
  BY DEF Answered
<1>4. CASE reply' = reply
  BY <1>1, <1>4
<1>5. CASE reply' = [reply EXCEPT ![s] = Append(reply[s], a)]
  <2> HIDE DEF a
  <2>1. reply[s] \in Seq(Result)
    BY <1>1
  <2>2. Append(reply[s], a) \in Seq(Result) /\ Elems(Append(reply[s], a)) \subseteq Elems(reply[s]) \cup {a}
    BY <1>2, <2>1, ElemsAppend
  <2>3. reply' \in [Sessions -> Seq(Result)] /\ OnAll(reply') \subseteq OnAll(reply) \cup {a}
    BY <1>1, <1>5, <2>2, ChannelStep
  <2> QED  BY <1>3, <2>3
<1> QED  BY <1>4, <1>5 DEF Answer

\* A frame that is sent was waiting to be.
LEMMA SentStep ==
    ASSUME CallsInv, NEW m \in Message, Sent(m)
    PROVE  wire' \in [Sessions -> Seq(Message)] /\ OnAll(wire') \subseteq OnAll(wire) \cup {m}
<1>1. wire \in [Sessions -> Seq(Message)] /\ sess \in Sessions
  BY NetFacts DEF Sent
<1>2. CASE wire' = [wire EXCEPT ![sess] = Append(wire[sess], m)]
  <2>1. Append(wire[sess], m) \in Seq(Message) /\ Elems(Append(wire[sess], m)) \subseteq Elems(wire[sess]) \cup {m}
    BY <1>1, ElemsAppend
  <2> QED  BY <1>1, <1>2, <2>1, ChannelStep
<1> QED  BY <1>1, <1>2 DEF Sent

LEMMA BrokenStep ==
    ASSUME CallsInv, NEW s \in Sessions, Broken(s)
    PROVE  /\ wire' \in [Sessions -> Seq(Message)] /\ reply' \in [Sessions -> Seq(Result)]
           /\ alive' \subseteq alive
           /\ OnAll(wire') \subseteq OnAll(wire) /\ OnAll(reply') \subseteq OnAll(reply)
<1>1. wire \in [Sessions -> Seq(Message)] /\ reply \in [Sessions -> Seq(Result)]
  BY NetFacts
<1>2. PICK n \in 0..Len(wire[s]) : wire' = [wire EXCEPT ![s] = SubSeq(wire[s], 1, n)]
  BY DEF Broken, Prefixes
<1>3. SubSeq(wire[s], 1, n) \in Seq(Message) /\ Elems(SubSeq(wire[s], 1, n)) \subseteq Elems(wire[s]) \cup {}
  BY <1>1, ElemsPrefix
<1>4. wire' \in [Sessions -> Seq(Message)] /\ OnAll(wire') \subseteq OnAll(wire) \cup {}
  BY <1>1, <1>2, <1>3, ChannelStep
<1>5. reply' = [reply EXCEPT ![s] = <<>>] /\ alive' \subseteq alive
  BY DEF Broken
<1>6. <<>> \in Seq(Result) /\ Elems(<<>>) \subseteq Elems(reply[s]) \cup {}
  BY ElemsNone
<1>7. reply' \in [Sessions -> Seq(Result)] /\ OnAll(reply') \subseteq OnAll(reply) \cup {}
  BY <1>1, <1>5, <1>6, ChannelStep
<1> QED  BY <1>4, <1>5, <1>7

\* The next frame of a session.
LEMMA TailStep ==
    ASSUME CallsInv, NEW s \in Sessions, wire[s] # <<>>, wire' = [wire EXCEPT ![s] = Tail(@)]
    PROVE  /\ wire' \in [Sessions -> Seq(Message)] /\ OnAll(wire') \subseteq OnAll(wire)
           /\ Head(wire[s]) \in OnAll(wire) /\ Head(wire[s]) \in Message
<1>1. wire \in [Sessions -> Seq(Message)] /\ wire[s] \in Seq(Message)
  BY NetFacts
<1>2. Tail(wire[s]) \in Seq(Message) /\ Elems(Tail(wire[s])) \subseteq Elems(wire[s]) \cup {}
      /\ Head(wire[s]) \in Elems(wire[s]) /\ Head(wire[s]) \in Message
  BY <1>1, ElemsTail
<1>3. wire' \in [Sessions -> Seq(Message)] /\ OnAll(wire') \subseteq OnAll(wire) \cup {}
  BY <1>1, <1>2, ChannelStep
<1> QED  BY <1>2, <1>3 DEF OnAll

\* What the network carries after a step, and that it fits its type.
NetOK ==
    /\ wire' \in [Sessions -> Seq(Message)] /\ reply' \in [Sessions -> Seq(Result)]
    /\ nsess' \in 0..MaxSessions /\ alive' \subseteq 1..nsess' /\ sess' \in 0..nsess'
    /\ OnAll(wire') \subseteq OnAll(wire) \cup ToSend \cup Elems(todo)
    /\ \A r \in OnAll(reply') : r \in OnAll(reply) \/ Answered(r)

LEMMA NetStep == ASSUME CallsInv, [Next]_vars PROVE NetOK
<1>f. /\ wire \in [Sessions -> Seq(Message)] /\ reply \in [Sessions -> Seq(Result)]
      /\ nsess \in 0..MaxSessions /\ alive \subseteq 1..nsess /\ sess \in 0..nsess
      /\ alive \subseteq Sessions /\ (sess # 0 => sess \in Sessions) /\ nsess \in Nat
      /\ todo \in Seq(Message) /\ \A m \in Messages : m \in Message
  BY NetFacts
<1>1. ASSUME UNCHANGED <<nsess, alive, wire, reply>>, sess' \in {0, sess}
      PROVE  NetOK
  BY <1>f, <1>1 DEF NetOK
<1>2. ASSUME NEW c \in Calls, Send(c)
      PROVE  NetOK
  <2>1. UNCHANGED <<nsess, alive, reply, sess>>
    BY <1>2 DEF Send
  <2>2. CASE wire' = wire
    BY <1>1, <2>1, <2>2
  <2>3. CASE Sent(MineMsg(c))
    <3>1. MineMsg(c) \in ToSend /\ MineMsg(c) \in Message
      <4>1. MineMsg(c) \in ToSend
        BY <1>2 DEF Send, ToSend
      <4> QED  BY <1>f, <4>1 DEF Messages
    <3>2. wire' \in [Sessions -> Seq(Message)] /\ OnAll(wire') \subseteq OnAll(wire) \cup {MineMsg(c)}
      BY <2>3, <3>1, SentStep
    <3> QED  BY <1>f, <2>1, <3>1, <3>2 DEF NetOK
  <2> QED  BY <1>2, <2>2, <2>3 DEF Send, MineMsg, SendFails
<1>3. CASE Replay
  <2>1. UNCHANGED <<nsess, alive, reply, sess>>
    BY <1>3 DEF Replay
  <2>2. CASE wire' = wire
    BY <1>1, <2>1, <2>2
  <2>3. CASE todo # <<>> /\ Sent(Head(todo))
    <3>1. Head(todo) \in Elems(todo) /\ Head(todo) \in Message
      BY <1>f, <2>3, ElemsTail
    <3>2. wire' \in [Sessions -> Seq(Message)] /\ OnAll(wire') \subseteq OnAll(wire) \cup {Head(todo)}
      BY <2>3, <3>1, SentStep
    <3> QED  BY <1>f, <2>1, <3>1, <3>2 DEF NetOK
  <2> QED  BY <1>3, <2>2, <2>3 DEF Replay, SendFails
<1>4. CASE Establish
  <2>1. UNCHANGED <<wire, reply>> /\ nsess' = nsess + 1 /\ alive' = alive \cup {nsess + 1}
        /\ sess' = nsess + 1 /\ nsess < MaxSessions
    BY <1>4 DEF Establish
  <2>2. nsess' \in 0..MaxSessions /\ alive' \subseteq 1..nsess' /\ sess' \in 0..nsess'
    BY <1>f, <2>1, CallBounds
  <2> QED  BY <1>f, <2>1, <2>2 DEF NetOK
<1>5. CASE Receive
  <2>1. UNCHANGED <<nsess, alive, wire, sess>> /\ reply' = [reply EXCEPT ![sess] = Tail(@)]
        /\ sess \in Sessions /\ reply[sess] # <<>>
    BY <1>f, <1>5 DEF Receive
  <2>2. Tail(reply[sess]) \in Seq(Result) /\ Elems(Tail(reply[sess])) \subseteq Elems(reply[sess]) \cup {}
    BY <1>f, <2>1, ElemsTail
  <2>3. reply' \in [Sessions -> Seq(Result)] /\ OnAll(reply') \subseteq OnAll(reply) \cup {}
    BY <1>f, <2>1, <2>2, ChannelStep
  <2> QED  BY <1>f, <2>1, <2>3 DEF NetOK
<1>6. CASE Lost
  BY <1>1, <1>6 DEF Lost, net
<1>7. CASE Cut
  <2>1. UNCHANGED <<nsess, sess>> /\ \E s \in alive : Broken(s)
    BY <1>7 DEF Cut, client
  <2> QED  BY <1>f, <2>1, BrokenStep DEF NetOK
<1>8. CASE ServerCrash
  <2>1. UNCHANGED <<nsess, sess>> /\ alive' = {}
        /\ wire' = [s \in Sessions |-> <<>>] /\ reply' = [s \in Sessions |-> <<>>]
    BY <1>8 DEF ServerCrash, client
  <2> QED  BY <1>f, <2>1, NothingUnderWay DEF NetOK
<1>9. CASE ClientRestart
  <2>1. UNCHANGED nsess /\ sess' = 0
    BY <1>9 DEF ClientRestart
  <2>2. CASE UNCHANGED <<alive, reply, wire>>
    BY <1>1, <2>1, <2>2
  <2>3. CASE sess \in alive /\ Broken(sess)
    <3>1. /\ wire' \in [Sessions -> Seq(Message)] /\ reply' \in [Sessions -> Seq(Result)]
          /\ alive' \subseteq alive
          /\ OnAll(wire') \subseteq OnAll(wire) /\ OnAll(reply') \subseteq OnAll(reply)
      BY <1>f, <2>3, BrokenStep
    <3> QED  BY <1>f, <2>1, <3>1 DEF NetOK
  <2> QED  BY <1>9, <2>2, <2>3 DEF ClientRestart
<1>10. ASSUME NEW s \in Sessions, Admit(s)
       PROVE  NetOK
  <2>1. UNCHANGED <<nsess, alive, reply, sess>> /\ wire[s] # <<>> /\ wire' = [wire EXCEPT ![s] = Tail(@)]
    BY <1>10 DEF Admit, client
  <2> QED  BY <1>f, <2>1, TailStep DEF NetOK
<1>11. ASSUME NEW s \in Sessions, Refuse(s)
       PROVE  NetOK
  <2>1. UNCHANGED <<nsess, alive, sess>> /\ wire[s] # <<>> /\ wire' = [wire EXCEPT ![s] = Tail(@)]
        /\ Answer(s, Head(wire[s]), "error")
    BY <1>11 DEF Refuse, client
  <2>2. wire' \in [Sessions -> Seq(Message)] /\ OnAll(wire') \subseteq OnAll(wire) /\ Head(wire[s]) \in Messages
    BY <2>1, TailStep DEF Messages
  <2>3. reply' \in [Sessions -> Seq(Result)] /\ \A r \in OnAll(reply') : r \in OnAll(reply) \/ Answered(r)
    BY <2>1, <2>2, AnswerStep
  <2> QED  BY <1>f, <2>1, <2>2, <2>3 DEF NetOK
<1>12. ASSUME NEW s \in Sessions, Respond(s)
       PROVE  NetOK
  <2> DEFINE type == IF srv[s].pc = "wait" THEN "commit" ELSE srv[s].pc
  <2>1. UNCHANGED <<nsess, alive, sess, wire>> /\ Answer(s, srv[s].msg, type)
        /\ srv[s].pc \in {"wait", "dedup", "err"} /\ (srv[s].pc = "wait" => srv[s].at <= written)
    BY <1>12 DEF Respond, client, MayAnswer
  <2>2. srv[s].msg \in Messages
    BY <2>1 DEF Messages, InHand, Busy
  <2>3. type \in {"commit", "dedup", "err", "error"}
        /\ (type = "commit" => srv[s].pc = "wait" /\ srv[s].at <= written)
    BY <2>1
  <2> HIDE DEF type
  <2>4. reply' \in [Sessions -> Seq(Result)] /\ \A r \in OnAll(reply') : r \in OnAll(reply) \/ Answered(r)
    BY <2>1, <2>2, <2>3, AnswerStep
  <2> QED  BY <1>f, <2>1, <2>4 DEF NetOK
<1>13. CASE Take \/ Execute \/ Write \/ PruneDecide \/ Prune \/ UNCHANGED vars
            \/ (\E c \in Calls : Enqueue(c)) \/ (\E t \in Threads : Capture(t) \/ Save(t))
            \/ \E s \in Sessions : EndSession(s)
  <2>1. UNCHANGED <<nsess, alive, wire, reply, sess>>
    BY <1>13 DEF Take, Execute, Write, PruneDecide, Prune, vars, Enqueue, Capture, Save, EndSession,
                 net, client
  <2> QED  BY <1>1, <2>1
<1> QED  BY <1>2, <1>3, <1>4, <1>5, <1>6, <1>7, <1>8, <1>9, <1>10, <1>11, <1>12, <1>13 DEF Next

----------------------------------------------------------------------------
(* The server.                                                             *)

\* What a step does to the log: entries that stay are the same ones, at most
\* one is new, and one of a call has a key that was not recorded.
LogOK ==
    /\ log' \in Seq(Entry) /\ written' \in 0..Len(log') /\ written <= written'
    /\ \A i \in 1..Len(log') : i <= Len(log) => log'[i] = log[i]
    /\ \A i \in 1..Len(log') : i > Len(log) =>
          /\ i = Len(log) + 1
          /\ log'[i].kind = "call" =>
               /\ log'[i].key \notin Records
               /\ \E m \in Messages : log'[i].call = m.call /\ log'[i].key = m.key

\* What a step does to the sessions' tasks and to the reducer queue.
TasksOK ==
    /\ ServerTypes' /\ jobs' \in Seq(0..MaxSessions) /\ Len(jobs') <= QueueCap
    /\ \A s \in Sessions : srv'[s].at \in 0..Len(log')
    /\ InHand' \subseteq InHand \cup OnAll(wire)
    /\ JobsInv' /\ WaitInv'

LEMMA TaskFacts ==
    ASSUME CallsInv
    PROVE  /\ ServerTypes /\ jobs \in Seq(0..MaxSessions) /\ Len(jobs) \in Nat /\ Len(jobs) <= QueueCap
           /\ JobsInv /\ WaitInv
           /\ \A s \in Sessions : srv[s].at \in 0..Len(log)
           /\ log \in Seq(Entry) /\ Len(log) \in Nat /\ written \in 0..Len(log) /\ doomed \subseteq Keys
           /\ \A i \in 1..Len(jobs) : jobs[i] # 0 => jobs[i] \in Sessions
<1>1. jobs \in Seq(0..MaxSessions) /\ log \in Seq(Entry)
  BY DEF CallsInv, TypeOK
<1>2. \A i \in 1..Len(jobs) : jobs[i] \in 0..MaxSessions
  <2> DEFINE S == 0..MaxSessions
  <2>1. jobs \in Seq(S)
    BY <1>1
  <2> HIDE DEF S
  <2>2. \A i \in 1..Len(jobs) : jobs[i] \in S
    BY <2>1
  <2> QED  BY <2>2 DEF S
<1>3. \A i \in 1..Len(jobs) : jobs[i] # 0 => jobs[i] \in Sessions
  BY <1>2, CallBounds DEF Sessions
<1>4. Len(jobs) \in Nat /\ Len(log) \in Nat
  BY <1>1
<1>5. /\ ServerTypes /\ JobsInv /\ WaitInv /\ Len(jobs) <= QueueCap /\ written \in 0..Len(log)
      /\ doomed \subseteq Keys /\ \A s \in Sessions : srv[s].at \in 0..Len(log)
  BY DEF CallsInv, TypeOK
<1> QED  BY <1>1, <1>3, <1>4, <1>5

\* The executing session's message is in hand.
LEMMA ExecuteFacts ==
    ASSUME CallsInv, Execute
    PROVE  LET s == Head(jobs)
           IN s \in Sessions /\ srv[s].pc = "job" /\ srv[s].msg \in Messages /\ srv[s].msg \in Message
<1> DEFINE s == Head(jobs)
<1>1. jobs \in Seq(0..MaxSessions) /\ jobs # <<>> /\ s # 0
  BY TaskFacts DEF Execute
<1>2. s = jobs[1] /\ 1 \in 1..Len(jobs)
  BY <1>1, ElemsTail
<1>3. s \in Sessions /\ srv[s].pc = "job"
  BY <1>1, <1>2, TaskFacts DEF JobsInv
<1>4. srv[s].msg \in Messages
  BY <1>3 DEF Messages, InHand, Busy
<1> QED  BY <1>3, <1>4, NetFacts

LEMMA LogStep == ASSUME CallsInv, [Next]_vars PROVE LogOK
<1>f. log \in Seq(Entry) /\ Len(log) \in Nat /\ written \in 0..Len(log) /\ doomed \subseteq Keys
  BY TaskFacts
<1>1. ASSUME UNCHANGED <<log, written>>
      PROVE  LogOK
  BY <1>f, <1>1 DEF LogOK
<1>2. CASE Execute
  <2> DEFINE m == srv[Head(jobs)].msg
             e == [kind |-> "call", key |-> m.key, call |-> m.call]
  <2>1. m \in Messages /\ m \in Message
    BY <1>2, ExecuteFacts
  <2>2. UNCHANGED written
    BY <1>2 DEF Execute
  <2>3. CASE log' = log
    BY <1>1, <2>2, <2>3
  <2>4. CASE m.key \notin Records /\ log' = Append(log, e)
    <3>1. e \in Entry /\ e.kind = "call" /\ e.key = m.key /\ e.call = m.call
      BY <2>1 DEF Message, Entry
    <3> HIDE DEF e, m
    <3>2. log' \in Seq(Entry) /\ Len(log') = Len(log) + 1 /\ log'[Len(log) + 1] = e
          /\ \A j \in 1..Len(log) : log'[j] = log[j]
      BY <1>f, <2>4, <3>1, ElemsAppend
    <3>3. written' \in 0..Len(log') /\ written <= written'
      BY <1>f, <2>2, <3>2
    <3>4. \A i \in 1..Len(log') : i <= Len(log) => log'[i] = log[i]
      BY <1>f, <3>2
    <3>5. ASSUME NEW i \in 1..Len(log'), i > Len(log)
          PROVE  /\ i = Len(log) + 1 /\ log'[i] = e
      BY <1>f, <3>2, <3>5
    <3> QED  BY <2>1, <2>4, <3>1, <3>2, <3>3, <3>4, <3>5 DEF LogOK
  <2> QED  BY <1>2, <2>3, <2>4 DEF Execute
<1>3. CASE Prune
  <2> DEFINE e == [kind |-> "prune", keys |-> doomed]
  <2>1. e \in Entry /\ e.kind # "call" /\ log' = Append(log, e) /\ written' = written
    BY <1>f, <1>3 DEF Prune, Entry
  <2> HIDE DEF e
  <2>2. log' \in Seq(Entry) /\ Len(log') = Len(log) + 1 /\ log'[Len(log) + 1] = e
        /\ \A j \in 1..Len(log) : log'[j] = log[j]
    BY <1>f, <2>1, ElemsAppend
  <2>3. ASSUME NEW i \in 1..Len(log'), i > Len(log)
        PROVE  /\ i = Len(log) + 1 /\ log'[i] = e
    BY <1>f, <2>2, <2>3
  <2>4. written' \in 0..Len(log') /\ written <= written'
    BY <1>f, <2>1, <2>2
  <2> QED  BY <1>f, <2>1, <2>2, <2>3, <2>4 DEF LogOK
<1>4. CASE Write
  <2>1. log' = log /\ \E n \in written + 1..Len(log) : written' = n
    BY <1>4 DEF Write
  <2> QED  BY <1>f, <2>1 DEF LogOK
<1>5. CASE ServerCrash
  <2>1. PICK n \in written..Len(log) : log' = SubSeq(log, 1, n) /\ written' = n
    BY <1>5 DEF ServerCrash
  <2>2. log' \in Seq(Entry) /\ Len(log') = n /\ \A i \in 1..n : log'[i] = log[i]
    BY <1>f, <2>1, ElemsPrefix
  <2> QED  BY <1>f, <2>1, <2>2 DEF LogOK
<1>6. CASE Establish \/ Take \/ Replay \/ Receive \/ Lost \/ Cut \/ ClientRestart
           \/ (\E c \in Calls : Enqueue(c) \/ Send(c)) \/ (\E t \in Threads : Capture(t) \/ Save(t))
  BY <1>1, <1>6 DEF Establish, Take, Replay, Receive, Lost, Cut, ClientRestart, Enqueue, Send,
                    Capture, Save, server
<1>7. CASE PruneDecide \/ UNCHANGED vars
           \/ \E s \in Sessions : Admit(s) \/ Refuse(s) \/ EndSession(s) \/ Respond(s)
  BY <1>1, <1>7 DEF PruneDecide, vars, Admit, Refuse, EndSession, Respond, server
<1> QED  BY <1>2, <1>3, <1>4, <1>5, <1>6, <1>7 DEF Next

\* One session's task goes on, with nothing in hand.
LEMMA TaskStep ==
    ASSUME CallsInv, NEW s \in Sessions, NEW v, srv' = [srv EXCEPT ![s] = v],
           log' = log, jobs' = jobs, nsess' \in Nat, nsess' >= nsess, s <= nsess', srv[s].pc # "job",
           v \in Task,
           v.at = 0, v.pc \notin Busy
    PROVE  TasksOK
<1>f. /\ ServerTypes /\ jobs \in Seq(0..MaxSessions) /\ Len(jobs) \in Nat /\ Len(jobs) <= QueueCap
      /\ JobsInv /\ WaitInv /\ \A r \in Sessions : srv[r].at \in 0..Len(log)
      /\ Len(log) \in Nat /\ \A i \in 1..Len(jobs) : jobs[i] # 0 => jobs[i] \in Sessions
  BY TaskFacts
<1>1. /\ \A r \in Sessions : srv'[r] = IF r = s THEN v ELSE srv[r]
      /\ ServerTypes'
  BY <1>f DEF ServerTypes
<1>3. \A r \in Sessions : srv'[r].at \in 0..Len(log')
  BY <1>f, <1>1
<1>4. InHand' \subseteq InHand
  BY <1>1 DEF InHand
<1>5. JobsInv'
  <2>1. \A r \in Sessions : r > nsess' => r # s /\ r > nsess
    BY NetFacts, Bounds
  <2> QED  BY <1>f, <1>1, <2>1 DEF JobsInv
<1>6. WaitInv'
  BY <1>f, <1>1 DEF WaitInv, Busy
<1> QED  BY <1>f, <1>1, <1>3, <1>4, <1>5, <1>6 DEF TasksOK

LEMMA TasksStep == ASSUME CallsInv, [Next]_vars PROVE TasksOK
<1>f. /\ ServerTypes /\ jobs \in Seq(0..MaxSessions) /\ Len(jobs) \in Nat /\ Len(jobs) <= QueueCap
      /\ JobsInv /\ WaitInv /\ \A s \in Sessions : srv[s].at \in 0..Len(log)
      /\ log \in Seq(Entry) /\ Len(log) \in Nat
      /\ \A i \in 1..Len(jobs) : jobs[i] # 0 => jobs[i] \in Sessions
  BY TaskFacts
<1>n. nsess \in Nat /\ nsess <= MaxSessions /\ MaxSessions \in Nat
  BY NetFacts, CallBounds
<1>i. /\ Idle \in Task
      /\ Idle.at = 0 /\ Idle.pc \notin Busy
  BY DEF Idle, Busy, Task
<1>1. ASSUME UNCHANGED <<srv, jobs, nsess>>, Len(log') \in Nat, Len(log) <= Len(log'),
             \A i \in 1..Len(log) : log'[i] = log[i]
      PROVE  TasksOK
  <2>1. InHand' = InHand /\ ServerTypes' /\ JobsInv'
    BY <1>f, <1>1 DEF InHand, ServerTypes, JobsInv
  <2>2. WaitInv'
    BY <1>f, <1>1 DEF WaitInv
  <2>3. \A s \in Sessions : srv'[s].at \in 0..Len(log')
    BY <1>f, <1>1
  <2> QED  BY <1>f, <1>1, <2>1, <2>2, <2>3 DEF TasksOK
<1>2. CASE Establish
  <2>1. srv' = [srv EXCEPT ![nsess + 1] = Idle] /\ UNCHANGED <<jobs, log>>
        /\ nsess + 1 \in Sessions /\ nsess' = nsess + 1
    BY <1>n, <1>2 DEF Establish, Sessions
  <2>2. srv[nsess + 1].pc # "job"
    BY <1>f, <1>n, <2>1 DEF JobsInv
  <2>3. nsess' \in Nat /\ nsess' >= nsess /\ nsess + 1 <= nsess'
    BY <1>n, <2>1
  <2> QED  BY <1>i, <2>1, <2>2, <2>3, TaskStep
<1>3. ASSUME NEW s \in Sessions, Respond(s)
      PROVE  TasksOK
  <2>1. srv' = [srv EXCEPT ![s] = Idle] /\ UNCHANGED <<jobs, log, nsess>> /\ srv[s].pc \notin {"job", "closed"}
    BY <1>3 DEF Respond
  <2>2. s <= nsess
    BY <1>f, <1>n, <2>1, Bounds DEF JobsInv
  <2>3. nsess' \in Nat /\ nsess' >= nsess /\ s <= nsess' /\ srv[s].pc # "job"
    BY <1>n, <2>1, <2>2
  <2> QED  BY <1>i, <2>1, <2>3, TaskStep
<1>4. ASSUME NEW s \in Sessions, EndSession(s)
      PROVE  TasksOK
  <2> DEFINE v == [srv[s] EXCEPT !.pc = "closed"]
  <2>1. srv' = [srv EXCEPT ![s] = v] /\ UNCHANGED <<jobs, log, nsess>> /\ srv[s].pc = "read"
    BY <1>4 DEF EndSession, net
  <2>2. v \in Task /\ v.pc = "closed" /\ v.at = srv[s].at
    <3>1. srv[s] \in Task
      BY <1>f DEF ServerTypes
    <3> QED  BY <3>1 DEF Task
  <2> HIDE DEF v
  <2>3. /\ ServerTypes' /\ InHand' \subseteq InHand
        /\ \A r \in Sessions : srv'[r] = IF r = s THEN v ELSE srv[r]
    BY <1>f, <2>1, <2>2 DEF ServerTypes, InHand, Busy
  <2>4. JobsInv' /\ WaitInv' /\ \A r \in Sessions : srv'[r].at \in 0..Len(log')
    BY <1>f, <2>1, <2>2, <2>3 DEF JobsInv, WaitInv
  <2> QED  BY <1>f, <2>1, <2>3, <2>4 DEF TasksOK
<1>5. ASSUME NEW s \in Sessions, Admit(s)
      PROVE  TasksOK
  <2> DEFINE h == Head(wire[s])
             v == [pc |-> "job", msg |-> h, at |-> 0]
  <2>1. /\ srv' = [srv EXCEPT ![s] = v] /\ jobs' = Append(jobs, s) /\ Len(jobs) < QueueCap
        /\ UNCHANGED <<log, nsess>> /\ srv[s].pc = "read"
        /\ h \in OnAll(wire) /\ h \in Message
    BY <1>5, TailStep DEF Admit, Room
  <2>2. v.pc = "job" /\ v.msg = h /\ v.at = 0 /\ v \in Task
    BY <2>1 DEF Task
  <2> HIDE DEF v, h
  <2>3. ServerTypes' /\ \A r \in Sessions : srv'[r] = IF r = s THEN v ELSE srv[r]
    BY <1>f, <2>1, <2>2 DEF ServerTypes
  <2>4. InHand' \subseteq InHand \cup OnAll(wire)
    BY <2>1, <2>2, <2>3 DEF InHand
  <2>5. s \in 0..MaxSessions /\ s <= nsess /\ s # 0
    BY <1>f, <1>n, <2>1 DEF Sessions, JobsInv
  <2>6. /\ jobs' \in Seq(0..MaxSessions) /\ Len(jobs') = Len(jobs) + 1 /\ jobs'[Len(jobs) + 1] = s
        /\ \A i \in 1..Len(jobs) : jobs'[i] = jobs[i]
    BY <1>f, <2>1, <2>5, ElemsAppend
  <2>7. \A i \in 1..Len(jobs) : jobs[i] # s
    BY <1>f, <2>1, <2>5 DEF JobsInv
  <2>8. JobsInv'
    <3>1. \A r \in Sessions : r > nsess' => srv'[r].pc = "closed"
      BY <1>f, <1>n, <2>1, <2>3, <2>5 DEF JobsInv
    <3>2. \A i \in 1..Len(jobs') : jobs'[i] # 0 => srv'[jobs'[i]].pc = "job"
      BY <1>f, <2>2, <2>3, <2>6 DEF JobsInv
    <3>3. \A i, j \in 1..Len(jobs') : jobs'[i] = jobs'[j] /\ jobs'[i] # 0 => i = j
      BY <1>f, <2>6, <2>7 DEF JobsInv
    <3> QED  BY <3>1, <3>2, <3>3 DEF JobsInv
  <2>9. WaitInv' /\ \A r \in Sessions : srv'[r].at \in 0..Len(log')
    BY <1>f, <2>1, <2>2, <2>3 DEF WaitInv
  <2> QED  BY <1>f, <2>1, <2>3, <2>4, <2>6, <2>8, <2>9, Bounds DEF TasksOK
<1>6. CASE PruneDecide
  <2>1. UNCHANGED <<srv, log, nsess>> /\ jobs' = Append(jobs, 0) /\ Len(jobs) < QueueCap
    BY <1>6 DEF PruneDecide, net, Room
  <2>2. /\ jobs' \in Seq(0..MaxSessions) /\ Len(jobs') = Len(jobs) + 1 /\ jobs'[Len(jobs) + 1] = 0
        /\ \A i \in 1..Len(jobs) : jobs'[i] = jobs[i]
    BY <1>f, <1>n, <2>1, ElemsAppend
  <2>3. JobsInv'
    BY <1>f, <2>1, <2>2 DEF JobsInv
  <2>4. WaitInv' /\ InHand' = InHand /\ ServerTypes'
    BY <1>f, <2>1 DEF WaitInv, InHand, ServerTypes
  <2> QED  BY <1>f, <2>1, <2>2, <2>3, <2>4, Bounds DEF TasksOK
<1>7. ASSUME jobs # <<>>, jobs' = Tail(jobs)
      PROVE  /\ jobs' \in Seq(0..MaxSessions) /\ Len(jobs') = Len(jobs) - 1 /\ Len(jobs') <= QueueCap
             /\ 1 \in 1..Len(jobs) /\ Head(jobs) = jobs[1]
             /\ \A i \in 1..Len(jobs') : jobs'[i] = jobs[i + 1] /\ i + 1 \in 1..Len(jobs)
  <2>1. /\ jobs' \in Seq(0..MaxSessions) /\ Len(jobs') = Len(jobs) - 1
        /\ Len(jobs) # 0 /\ Head(jobs) = jobs[1]
        /\ \A i \in 1..Len(jobs') : jobs'[i] = jobs[i + 1]
    <3>1. jobs \in Seq(0..MaxSessions)
      BY <1>f
    <3>2. /\ Tail(jobs) \in Seq(0..MaxSessions) /\ Len(jobs) \in Nat \ {0} /\ Len(Tail(jobs)) = Len(jobs) - 1
          /\ Head(jobs) = jobs[1] /\ \A i \in 1..Len(Tail(jobs)) : Tail(jobs)[i] = jobs[i + 1]
      BY <3>1, <1>7, ElemsTail
    <3> QED  BY <3>2, <1>7
  <2>2. Len(jobs) \in Nat /\ Len(jobs) <= QueueCap /\ QueueCap \in Nat
    BY <1>f, Bounds
  <2> QED  BY <2>1, <2>2
<1>8. CASE Prune
  <2>1. jobs # <<>> /\ jobs' = Tail(jobs) /\ UNCHANGED <<srv, nsess>>
        /\ log' = Append(log, [kind |-> "prune", keys |-> doomed])
    BY <1>8 DEF Prune, net
  <2>2. /\ jobs' \in Seq(0..MaxSessions) /\ Len(jobs') <= QueueCap
        /\ \A i \in 1..Len(jobs') : jobs'[i] = jobs[i + 1] /\ i + 1 \in 1..Len(jobs)
    BY <1>7, <2>1
  <2>3. JobsInv'
    BY <1>f, <2>1, <2>2 DEF JobsInv
  <2>4. Len(log') = Len(log) + 1 /\ \A i \in 1..Len(log) : log'[i] = log[i]
    BY <1>f, <2>1
  <2>5. WaitInv' /\ \A s \in Sessions : srv'[s].at \in 0..Len(log')
    BY <1>f, <2>1, <2>4 DEF WaitInv
  <2>6. InHand' = InHand /\ ServerTypes'
    BY <1>f, <2>1 DEF InHand, ServerTypes
  <2> QED  BY <2>2, <2>3, <2>5, <2>6 DEF TasksOK
<1>9. CASE Execute
  <2> DEFINE s == Head(jobs)
             m == srv[s].msg
  <2>1. s \in Sessions /\ srv[s].pc = "job" /\ s # 0 /\ jobs # <<>> /\ jobs' = Tail(jobs) /\ nsess' = nsess
    BY <1>9, ExecuteFacts DEF Execute, net
  <2>2. /\ jobs' \in Seq(0..MaxSessions) /\ Len(jobs') <= QueueCap /\ 1 \in 1..Len(jobs) /\ s = jobs[1]
        /\ \A i \in 1..Len(jobs') : jobs'[i] = jobs[i + 1] /\ i + 1 \in 1..Len(jobs)
    BY <1>7, <2>1
  <2>3. PICK v \in Task :
          /\ srv' = [srv EXCEPT ![s] = v] /\ v.msg = m
          /\ \/ v.pc \in {"dedup", "err"} /\ v.at = srv[s].at /\ log' = log
             \/ v.pc = "wait" /\ v.at = Len(log) + 1
                /\ log' = Append(log, [kind |-> "call", key |-> m.key, call |-> m.call])
    <3>1. srv[s] \in Task /\ Len(log) + 1 \in Nat
      BY <1>f, <2>1 DEF ServerTypes
    <3>2. ASSUME NEW p \in {"dedup", "err"}, srv' = [srv EXCEPT ![s].pc = p], log' = log
          PROVE  \E v \in Task :
                   /\ srv' = [srv EXCEPT ![s] = v] /\ v.msg = m
                   /\ v.pc \in {"dedup", "err"} /\ v.at = srv[s].at /\ log' = log
      <4> DEFINE D == [srv[s] EXCEPT !.pc = p]
      <4>1. D \in Task /\ D.msg = m /\ D.pc = p /\ D.at = srv[s].at
        BY <3>1 DEF Task
      <4>2. srv' = [srv EXCEPT ![s] = D]
        BY <3>2
      <4> HIDE DEF D
      <4> QED  BY <3>2, <4>1, <4>2
    <3>3. CASE /\ srv' = [srv EXCEPT ![s].pc = "wait", ![s].at = Len(log) + 1]
               /\ log' = Append(log, [kind |-> "call", key |-> m.key, call |-> m.call])
      <4> DEFINE W == [srv[s] EXCEPT !.pc = "wait", !.at = Len(log) + 1]
      <4>1. W \in Task /\ W.msg = m /\ W.pc = "wait" /\ W.at = Len(log) + 1
        BY <3>1 DEF Task
      <4>2. srv' = [srv EXCEPT ![s] = W]
        BY <1>f, <2>1, <3>1, <3>3 DEF ServerTypes, Task
      <4> HIDE DEF W
      <4> QED  BY <3>3, <4>1, <4>2
    <3>4. \/ \E p \in {"dedup", "err"} : srv' = [srv EXCEPT ![s].pc = p] /\ log' = log
          \/ /\ srv' = [srv EXCEPT ![s].pc = "wait", ![s].at = Len(log) + 1]
             /\ log' = Append(log, [kind |-> "call", key |-> m.key, call |-> m.call])
      BY <1>9 DEF Execute
    <3> QED  BY <3>2, <3>3, <3>4
  <2> HIDE DEF s
  <2>4. ServerTypes' /\ \A r \in Sessions : srv'[r] = IF r = s THEN v ELSE srv[r]
    BY <1>f, <2>1, <2>3 DEF ServerTypes
  <2>5. InHand' \subseteq InHand
    BY <2>1, <2>3, <2>4 DEF InHand, Busy
  <2>6. \A i \in 1..Len(jobs') : jobs'[i] # s
    BY <1>f, <2>1, <2>2 DEF JobsInv
  <2>7. JobsInv'
    <3>1. \A r \in Sessions : r > nsess' => srv'[r].pc = "closed"
      BY <1>f, <2>1, <2>4 DEF JobsInv
    <3>2. \A i \in 1..Len(jobs') : jobs'[i] # 0 => srv'[jobs'[i]].pc = "job"
      BY <1>f, <2>2, <2>4, <2>6 DEF JobsInv
    <3>3. \A i, j \in 1..Len(jobs') : jobs'[i] = jobs'[j] /\ jobs'[i] # 0 => i = j
      BY <1>f, <2>2 DEF JobsInv
    <3> QED  BY <3>1, <3>2, <3>3 DEF JobsInv
  <2>8. /\ Len(log') \in Nat /\ Len(log) <= Len(log') /\ \A i \in 1..Len(log) : log'[i] = log[i]
        /\ v.at \in 0..Len(log')
        /\ v.pc = "wait" => /\ v.at \in 1..Len(log') /\ log'[v.at].kind = "call" /\ log'[v.at].call = m.call
    BY <1>f, <2>1, <2>3
  <2>9. WaitInv' /\ \A r \in Sessions : srv'[r].at \in 0..Len(log')
    BY <1>f, <2>3, <2>4, <2>8 DEF WaitInv
  <2> QED  BY <2>2, <2>4, <2>5, <2>7, <2>9 DEF TasksOK
<1>10. CASE ServerCrash
  <2> DEFINE v == [Idle EXCEPT !.pc = "closed"]
  <2>1. jobs' = <<>> /\ srv' = [s \in Sessions |-> v]
    BY <1>10 DEF ServerCrash
  <2>2. v.pc = "closed" /\ v.at = 0 /\ v \in Task
    BY DEF Idle, Task
  <2> HIDE DEF v
  <2>3. ServerTypes' /\ InHand' = {}
    BY <2>1, <2>2 DEF ServerTypes, InHand, Busy
  <2>4. JobsInv' /\ WaitInv'
    BY <2>1, <2>2 DEF JobsInv, WaitInv
  <2>5. Len(log') \in Nat
    BY LogStep DEF LogOK
  <2> QED  BY <2>1, <2>2, <2>3, <2>4, <2>5, Bounds DEF TasksOK
<1>11. CASE Take \/ Replay \/ Receive \/ Lost \/ Cut \/ ClientRestart \/ Write \/ UNCHANGED vars
           \/ (\E c \in Calls : Enqueue(c) \/ Send(c)) \/ (\E t \in Threads : Capture(t) \/ Save(t))
           \/ \E s \in Sessions : Refuse(s)
  <2>1. UNCHANGED <<srv, jobs, log, nsess>>
    BY <1>11 DEF Take, Replay, Receive, Lost, Cut, ClientRestart, Write, vars, Enqueue, Send,
                 Capture, Save, Refuse, server, net
  <2> QED  BY <1>f, <1>1, <2>1
<1> QED  BY <1>2, <1>3, <1>4, <1>5, <1>6, <1>8, <1>9, <1>10, <1>11 DEF Next

----------------------------------------------------------------------------
(* Messages, replies and the log stay true to the calls they are about.    *)

\* What MessagesInv asks of a message, after a step.
Proper(m) ==
    /\ m \in Message /\ Known(m.call, m.key, pc', mine')
    /\ Attempt(m.id, m.call, nextId', inFlight', queue')

LEMMA MessageStays ==
    ASSUME CallsInv, ClientStep, NEW m \in Messages
    PROVE  Proper(m)
<1>1. /\ m \in Message /\ Known(m.call, m.key, pc, mine)
      /\ Attempt(m.id, m.call, nextId, inFlight, queue)
  BY DEF CallsInv, MessagesInv
<1>2. m.call \in Calls
  BY <1>1 DEF Message
<1> QED  BY <1>1, <1>2, KnownStays, AttemptStays DEF Proper

\* A call just made: no other attempt has its id, no other call its key.
LEMMA EnqueueMessage ==
    ASSUME CallsInv, NEW c \in Calls, Enqueue(c)
    PROVE  Proper([id |-> nextId, key |-> nextSeq, call |-> c])
<1> DEFINE m == [id |-> nextId, key |-> nextSeq, call |-> c]
           e == [key |-> nextSeq, call |-> c]
<1>f. /\ queue \in Seq(Pending) /\ Len(queue) \in Nat /\ nextSeq \in Nat /\ nextId \in Nat
      /\ \A i \in 1..Len(queue) : queue[i].key \in Nat /\ queue[i].key < nextSeq
      /\ \A f \in inFlight : f.id \in Nat /\ f.key \in Nat /\ f.id < nextId /\ f.key < nextSeq
      /\ DOMAIN pc = Threads /\ DOMAIN mine = Calls
  BY ClientFacts
<1>1. /\ queue' = Append(queue, e) /\ nextId' = nextId + 1
      /\ inFlight' = inFlight \cup {[id |-> nextId, key |-> nextSeq]}
      /\ mine' = [mine EXCEPT ![c] = [id |-> nextId, key |-> nextSeq]]
      /\ pc' = [pc EXCEPT ![c] = "send"]
  BY DEF Enqueue, Minted, To
<1>2. m \in Message /\ e \in Pending
  BY <1>f DEF Message, Pending, CallsInv, TypeOK
<1>3. Known(c, nextSeq, pc', mine')
  BY <1>f, <1>1, Bounds DEF Known
<1>4. /\ Len(queue') = Len(queue) + 1 /\ queue'[Len(queue) + 1] = e
      /\ \A j \in 1..Len(queue) : queue'[j] = queue[j]
  <2> HIDE DEF e
  <2> QED  BY <1>f, <1>1, <1>2, ElemsAppend
<1>5. \A f \in inFlight' : f.id = nextId => f.key = nextSeq
  BY <1>f, <1>1
<1>6. ASSUME NEW i \in 1..Len(queue'), queue'[i].key = nextSeq
      PROVE  queue'[i].call = c
  <2>1. i = Len(queue) + 1
    BY <1>f, <1>4, <1>6
  <2> QED  BY <1>4, <2>1
<1>7. Attempt(nextId, c, nextId', inFlight', queue')
  BY <1>f, <1>1, <1>5, <1>6 DEF Attempt
<1> QED  BY <1>2, <1>3, <1>7 DEF Proper

\* A replay gives each queued call a new id, and its own key.
LEMMA TakeMessages ==
    ASSUME CallsInv, Take
    PROVE  todo' \in Seq(Message) /\ \A m \in Elems(todo') : Proper(m)
<1>f. /\ queue \in Seq(Pending) /\ Len(queue) \in Nat /\ nextId \in Nat
      /\ \A i \in 1..Len(queue) : queue[i] \in Pending /\ queue[i].call \in Calls
      /\ \A f \in inFlight : f.id \in Nat /\ f.id < nextId
  BY ClientFacts
<1>1. /\ queue' = queue /\ nextId' = nextId + Len(queue) /\ mine' = mine
      /\ todo' = [i \in 1..Len(queue) |->
                    [id |-> nextId + i - 1, key |-> queue[i].key, call |-> queue[i].call]]
      /\ inFlight' = inFlight \cup {[id |-> todo'[i].id, key |-> todo'[i].key] : i \in DOMAIN todo'}
  BY DEF Take, KeyOf
<1>2. \A c \in Calls : pc[c] # "new" => pc'[c] # "new"
  BY ClientFacts, Bounds DEF Take, To
<1>3. \A i \in 1..Len(queue) :
        /\ todo'[i].id = nextId + i - 1 /\ todo'[i].key = queue[i].key /\ todo'[i].call = queue[i].call
        /\ todo'[i] \in Message
  BY <1>f, <1>1 DEF Message, Pending
<1>4. todo' \in Seq(Message) /\ Len(todo') = Len(queue)
  <2>1. todo' \in [1..Len(queue) -> Message]
    BY <1>1, <1>3
  <2> QED  BY <1>f, <2>1, FunctionSeq
<1>5. \A f \in inFlight' : f \in inFlight \/ \E j \in 1..Len(queue) : f.id = nextId + j - 1 /\ f.key = queue[j].key
  <2>1. DOMAIN todo' = 1..Len(queue)
    BY <1>1
  <2> QED  BY <1>1, <1>3, <2>1
<1>6. ASSUME NEW i \in 1..Len(queue)
      PROVE  Proper(todo'[i])
  <2>1. Known(queue[i].call, queue[i].key, pc', mine')
    <3>1. Known(queue[i].call, queue[i].key, pc, mine)
      BY DEF CallsInv, QueuesInv, QueueOK
    <3> QED  BY <1>f, <1>1, <1>2, <3>1 DEF Known
  <2>2. \A f \in inFlight' : f.id = nextId + i - 1 => f.key = queue[i].key
    <3> SUFFICES ASSUME NEW f \in inFlight', f.id = nextId + i - 1
                 PROVE  f.key = queue[i].key
      OBVIOUS
    <3>1. f \notin inFlight
      BY <1>f
    <3>2. PICK j \in 1..Len(queue) : f.id = nextId + j - 1 /\ f.key = queue[j].key
      BY <1>5, <3>1
    <3>3. i = j
      BY <1>f, <3>2
    <3> QED  BY <3>2, <3>3
  <2>3. \A j \in 1..Len(queue) : queue[j].key = queue[i].key => j = i
    BY DEF CallsInv, QueuesInv, QueueOK
  <2>4. Attempt(nextId + i - 1, queue[i].call, nextId', inFlight', queue')
    <3>1. nextId + i - 1 \in Nat /\ nextId + i - 1 < nextId' /\ queue' = queue /\ queue[i].call \in Calls
      BY <1>f, <1>1
    <3>2. ASSUME NEW f \in inFlight', NEW j \in 1..Len(queue'), f.id = nextId + i - 1, queue'[j].key = f.key
          PROVE  queue'[j].call = queue[i].call
      BY <2>2, <2>3, <3>1, <3>2
    <3> QED  BY <3>1, <3>2 DEF Attempt
  <2> QED  BY <1>3, <2>1, <2>4 DEF Proper
<1> QED  BY <1>4, <1>6 DEF Elems

\* The calls to send and the attempts to replay after a step.
LEMMA ToSendStep ==
    ASSUME CallsInv, [Next]_vars
    PROVE  /\ todo' \in Seq(Message)
           /\ \A m \in ToSend' \cup Elems(todo') : m \in Messages \/ Proper(m)
<1>t. todo \in Seq(Message)
  BY NetFacts
<1>d. DOMAIN pc = Threads /\ DOMAIN mine = Calls /\ Calls \subseteq Threads /\ Sup \notin Calls
  BY ClientFacts, Bounds
<1>1. ASSUME ToSend' \subseteq ToSend, todo' = todo
      PROVE  /\ todo' \in Seq(Message)
             /\ \A m \in ToSend' \cup Elems(todo') : m \in Messages \/ Proper(m)
  BY <1>t, <1>1 DEF Messages
<1>2. ASSUME mine' = mine, \A c \in Calls : pc'[c] = "send" => pc[c] = "send"
      PROVE  ToSend' \subseteq ToSend
  BY <1>2 DEF ToSend, MineMsg
<1>3. ASSUME NEW c \in Calls, Enqueue(c)
      PROVE  /\ todo' \in Seq(Message)
             /\ \A m \in ToSend' \cup Elems(todo') : m \in Messages \/ Proper(m)
  <2>1. /\ todo' = todo
        /\ \A d \in Calls : d # c => pc'[d] = pc[d] /\ mine'[d] = mine[d]
        /\ mine'[c].id = nextId /\ mine'[c].key = nextSeq
    BY <1>d, <1>3 DEF Enqueue, To, Minted
  <2>2. ASSUME NEW d \in Calls, pc'[d] = "send"
        PROVE  MineMsg(d)' \in ToSend \/ Proper(MineMsg(d)')
    <3>1. CASE d = c
      BY <1>3, <2>1, <3>1, EnqueueMessage DEF MineMsg
    <3>2. CASE d # c
      BY <2>1, <2>2, <3>2 DEF MineMsg, ToSend
    <3> QED  BY <3>1, <3>2
  <2>3. \A m \in ToSend' : m \in ToSend \/ Proper(m)
    <3>1. \A m \in ToSend' : \E d \in Calls : pc'[d] = "send" /\ m = MineMsg(d)'
      BY DEF ToSend
    <3> QED  BY <2>2, <3>1
  <2> QED  BY <1>t, <2>1, <2>3 DEF Messages
<1>4. CASE Take
  <2>1. mine' = mine /\ \A c \in Calls : pc'[c] = "send" => pc[c] = "send"
    BY <1>d, <1>4 DEF Take, To
  <2> QED  BY <1>2, <1>4, <2>1, TakeMessages DEF Messages
<1>5. CASE Replay
  <2>1. mine' = mine /\ \A c \in Calls : pc'[c] = "send" => pc[c] = "send"
    BY <1>d, <1>5 DEF Replay, To
  <2>2. todo' = todo \/ todo' = <<>> \/ (todo # <<>> /\ todo' = Tail(todo))
    BY <1>5 DEF Replay
  <2>3. todo' \in Seq(Message) /\ Elems(todo') \subseteq Elems(todo)
    <3>1. CASE todo' = <<>>
      <4>1. <<>> \in Seq(Message) /\ Elems(<<>>) = {}
        BY ElemsNone
      <4> QED  BY <3>1, <4>1
    <3>2. CASE todo # <<>> /\ todo' = Tail(todo)
      BY <1>t, <3>2, ElemsTail
    <3> QED  BY <1>t, <2>2, <3>1, <3>2
  <2> QED  BY <1>2, <2>1, <2>3 DEF Messages
<1>6. CASE ClientRestart
  <2>1. mine' = mine /\ todo' = <<>> /\ \A c \in Calls : pc'[c] = "send" => pc[c] = "send"
    BY <1>d, <1>6 DEF ClientRestart
  <2>2. todo' \in Seq(Message) /\ Elems(todo') = {}
    BY <2>1, ElemsNone
  <2> QED  BY <1>2, <2>1, <2>2 DEF Messages
<1>7. CASE Establish \/ Receive \/ Lost \/ (\E c \in Calls : Send(c))
           \/ (\E t \in Threads : Capture(t) \/ Save(t))
  <2>1. mine' = mine /\ todo' = todo
    BY <1>7 DEF Establish, Receive, Lost, Send, Capture, Save
  <2>2. \A c \in Calls : pc'[c] = "send" => pc[c] = "send"
    BY <1>d, <1>7 DEF Establish, Receive, Lost, Send, Capture, Save, To
  <2> QED  BY <1>1, <1>2, <2>1, <2>2
<1>8. CASE Cut \/ ServerCrash \/ Execute \/ Write \/ PruneDecide \/ Prune \/ UNCHANGED vars
             \/ \E s \in Sessions : Admit(s) \/ Refuse(s) \/ EndSession(s) \/ Respond(s)
  <2>1. UNCHANGED <<mine, todo, pc>>
    BY <1>8 DEF Cut, ServerCrash, Execute, Write, PruneDecide, Prune, vars, Admit, Refuse,
                EndSession, Respond, client
  <2> QED  BY <1>1, <1>2, <2>1
<1> QED  BY <1>3, <1>4, <1>5, <1>6, <1>7, <1>8 DEF Next

LEMMA MessagesStep == ASSUME CallsInv, [Next]_vars PROVE MessagesInv'
<1>1. \A m \in Messages : Proper(m)
  BY Framed, MessageStays
<1>2. \A m \in ToSend' \cup Elems(todo') : m \in Messages \/ Proper(m)
  BY ToSendStep
<1>3. OnAll(wire') \subseteq Messages
  BY NetStep DEF NetOK, Messages
<1>4. InHand' \subseteq Messages
  BY TasksStep DEF TasksOK, Messages
<1>5. \A m \in Messages' : Proper(m)
  <2>1. Messages' = ToSend' \cup Elems(todo') \cup OnAll(wire') \cup InHand'
    BY DEF Messages, OnAll, Elems
  <2> QED  BY <1>1, <1>2, <1>3, <1>4, <2>1
<1> QED  BY <1>5 DEF MessagesInv, Proper, Known, Attempt

\* What the log keeps, it keeps.
LEMMA KeptStays ==
    ASSUME CallsInv, LogOK, NEW c, Kept(c, log, written)
    PROVE  Kept(c, log', written')
<1>1. written \in 0..Len(log) /\ written' \in 0..Len(log') /\ written <= written'
      /\ Len(log) \in Nat /\ Len(log') \in Nat
  BY TaskFacts DEF LogOK
<1>2. PICK i \in 1..written : log[i].kind = "call" /\ log[i].call = c
  BY DEF Kept
<1>3. i \in 1..written' /\ log'[i] = log[i]
  BY <1>1 DEF LogOK
<1> QED  BY <1>2, <1>3 DEF Kept

LEMMA RepliesStep == ASSUME CallsInv, [Next]_vars PROVE RepliesInv'
<1>1. ClientStep /\ LogOK /\ NetOK
  BY Framed, LogStep, NetStep
<1>2. ASSUME NEW r \in Replies
      PROVE  /\ Attempt(r.id, r.call, nextId', inFlight', queue')
             /\ r.type = "commit" => Kept(r.call, log', written')
  <2>1. /\ Attempt(r.id, r.call, nextId, inFlight, queue)
        /\ r.type = "commit" => Kept(r.call, log, written)
    BY DEF CallsInv, RepliesInv
  <2> QED  BY <1>1, <2>1, AttemptStays, KeptStays
<1>3. ASSUME NEW r, Answered(r)
      PROVE  /\ Attempt(r.id, r.call, nextId', inFlight', queue')
             /\ r.type = "commit" => Kept(r.call, log', written')
  <2>1. PICK m \in Messages :
          /\ r.id = m.id /\ r.call = m.call
          /\ r.type = "commit" =>
               \E s \in Sessions : srv[s].pc = "wait" /\ srv[s].at <= written /\ srv[s].msg = m
    BY <1>3 DEF Answered
  <2>2. Attempt(r.id, r.call, nextId', inFlight', queue')
    BY <1>1, <2>1, MessageStays DEF Proper
  <2>3. ASSUME r.type = "commit"
        PROVE  Kept(r.call, log, written)
    <3>1. PICK s \in Sessions : srv[s].pc = "wait" /\ srv[s].at <= written /\ srv[s].msg = m
      BY <2>1, <2>3
    <3>2. srv[s].at \in 1..Len(log) /\ log[srv[s].at].kind = "call" /\ log[srv[s].at].call = m.call
      BY <3>1 DEF CallsInv, WaitInv
    <3>3. srv[s].at \in 1..written
      <4>1. written \in 0..Len(log) /\ Len(log) \in Nat
        BY TaskFacts
      <4> QED  BY <3>1, <3>2, <4>1
    <3> QED  BY <2>1, <3>2, <3>3 DEF Kept
  <2> QED  BY <1>1, <2>2, <2>3, KeptStays
<1>4. \A r \in OnAll(reply') : /\ Attempt(r.id, r.call, nextId', inFlight', queue')
                               /\ r.type = "commit" => Kept(r.call, log', written')
  BY <1>1, <1>2, <1>3 DEF NetOK, Replies
<1> QED  BY <1>4 DEF RepliesInv, Replies, Attempt, Kept, OnAll, Elems

LEMMA AckedStep == ASSUME CallsInv, [Next]_vars PROVE AckedInv'
<1>1. LogOK
  BY LogStep
<1>2. \A c \in Calls : <<c, "commit">> \in acked => Kept(c, log', written')
  BY <1>1, KeptStays DEF CallsInv, AckedInv
<1>3. ASSUME acked' = acked
      PROVE  AckedInv'
  BY <1>2, <1>3 DEF AckedInv
<1>4. CASE Receive
  <2> DEFINE r == Head(reply[sess])
  <2>1. r \in Replies
    BY <1>4, ReceiveCases DEF Replies, OnAll
  <2>2. CASE acked' = acked \cup {<<queue[i].call, r.type>> : i \in Named(r)}
    <3>1. ASSUME NEW i \in Named(r)
          PROVE  queue[i].call = r.call
      <4>1. i \in 1..Len(queue) /\ \E f \in inFlight : f.id = r.id /\ queue[i].key = f.key
        BY ClientFacts DEF Named, Hit
      <4>2. Attempt(r.id, r.call, nextId, inFlight, queue)
        BY <2>1 DEF CallsInv, RepliesInv
      <4> QED  BY <4>1, <4>2 DEF Attempt
    <3>2. ASSUME NEW c \in Calls, <<c, "commit">> \in acked'
          PROVE  Kept(c, log', written')
      <4>1. CASE <<c, "commit">> \in acked
        BY <1>2, <4>1
      <4>2. CASE \E i \in Named(r) : <<c, "commit">> = <<queue[i].call, r.type>>
        <5>1. c = r.call /\ r.type = "commit"
          BY <3>1, <4>2
        <5>2. Kept(c, log, written)
          BY <2>1, <5>1 DEF CallsInv, RepliesInv
        <5> QED  BY <1>1, <5>2, KeptStays
      <4> QED  BY <2>2, <3>2, <4>1, <4>2
    <3> QED  BY <3>2 DEF AckedInv
  <2> QED  BY <1>3, <1>4, <2>2, ReceiveCases
<1>5. CASE Establish \/ Take \/ Replay \/ Lost \/ Cut \/ ClientRestart \/ ServerCrash
           \/ (\E c \in Calls : Enqueue(c) \/ Send(c)) \/ (\E t \in Threads : Capture(t) \/ Save(t))
  BY <1>3, <1>5 DEF Establish, Take, Replay, Lost, Cut, ClientRestart, ServerCrash, Enqueue, Send,
                    Capture, Save
<1>6. CASE Execute \/ Write \/ PruneDecide \/ Prune \/ UNCHANGED vars
           \/ \E s \in Sessions : Admit(s) \/ Refuse(s) \/ EndSession(s) \/ Respond(s)
  BY <1>3, <1>6 DEF Execute, Write, PruneDecide, Prune, vars, Admit, Refuse, EndSession, Respond
<1> QED  BY <1>4, <1>5, <1>6 DEF Next

LEMMA LogInvStep == ASSUME CallsInv, [Next]_vars PROVE LogInv' /\ OnceInv'
<1>1. LogOK /\ ClientStep
  BY LogStep, Framed
<1>2. log \in Seq(Entry) /\ Len(log) \in Nat /\ Len(log') \in Nat
  BY <1>1, TaskFacts DEF LogOK
<1>3. \A i \in 1..Len(log) : log[i].kind = "call" => log[i].call \in Calls
  <2>1. \A i \in 1..Len(log) : log[i] \in Entry
    BY <1>2
  <2> QED  BY <2>1 DEF Entry
<1>4. \A i \in 1..Len(log) : log[i].kind = "call" => Known(log[i].call, log[i].key, pc', mine')
  BY <1>1, <1>3, KnownStays DEF CallsInv, LogInv
<1>5. \A i \in 1..Len(log') : log'[i].kind = "call" => Known(log'[i].call, log'[i].key, pc', mine')
  <2> SUFFICES ASSUME NEW i \in 1..Len(log'), log'[i].kind = "call"
               PROVE  Known(log'[i].call, log'[i].key, pc', mine')
    OBVIOUS
  <2>1. CASE i <= Len(log)
    BY <1>1, <1>2, <1>4, <2>1 DEF LogOK
  <2>2. CASE i > Len(log)
    <3>1. PICK m \in Messages : log'[i].call = m.call /\ log'[i].key = m.key
      BY <1>1, <2>2 DEF LogOK
    <3> QED  BY <1>1, <3>1, MessageStays DEF Proper
  <2> QED  BY <1>2, <2>1, <2>2
<1>6. ASSUME NEW i \in 1..Len(log'), NEW j \in 1..Len(log'), i < j,
             log'[i].kind = "call", log'[j].kind = "call", log'[i].call = log'[j].call
      PROVE  \E k \in i + 1..j - 1 : log'[k].kind = "prune" /\ log'[i].key \in log'[k].keys
  <2>1. CASE j <= Len(log)
    <3>1. log'[i] = log[i] /\ log'[j] = log[j] /\ i \in 1..Len(log) /\ j \in 1..Len(log)
      BY <1>1, <1>2, <1>6, <2>1 DEF LogOK
    <3>2. PICK k \in i + 1..j - 1 : log[k].kind = "prune" /\ log[i].key \in log[k].keys
      BY <1>6, <3>1 DEF CallsInv, OnceInv
    <3>3. log'[k] = log[k]
      BY <1>1, <1>2, <2>1 DEF LogOK
    <3> QED  BY <3>1, <3>2, <3>3
  <2>2. CASE j > Len(log)
    <3>1. j = Len(log) + 1 /\ log'[j].key \notin Records
      BY <1>1, <1>6, <2>2 DEF LogOK
    <3>2. log'[i] = log[i] /\ i \in 1..Len(log)
      BY <1>1, <1>2, <1>6, <3>1 DEF LogOK
    <3>3. log[i].key = log'[j].key
      BY <1>5, <1>6, <3>2 DEF Known
    <3>4. PICK k \in i + 1..Len(log) : log[k].kind = "prune" /\ log[i].key \in log[k].keys
      BY <1>2, <1>6, <3>1, <3>2, <3>3 DEF Records
    <3>5. log'[k] = log[k] /\ k \in i + 1..j - 1
      BY <1>1, <1>2, <3>1 DEF LogOK
    <3> QED  BY <3>2, <3>4, <3>5
  <2> QED  BY <1>2, <2>1, <2>2
<1> QED  BY <1>5, <1>6 DEF LogInv, OnceInv, Known

----------------------------------------------------------------------------
(* Types, and the results.                                                 *)

Pcs == {"new", "send", "capture", "save", "done", "down", "take", "replay", "read"}

\* What a step leaves of the client's memory is typed.
LEMMA ClientTypes ==
    ASSUME CallsInv, [Next]_vars
    PROVE  /\ inFlight' \subseteq [id : Nat, key : Keys] /\ nextId' \in Nat /\ ready' \in BOOLEAN
           /\ pc' \in [Threads -> Pcs] /\ mine' \in [Calls -> [id : Nat, key : Keys]]
           /\ disk' \in Image /\ image' \in [Threads -> Image]
<1>f. /\ inFlight \subseteq [id : Nat, key : Keys] /\ nextId \in Nat /\ ready \in BOOLEAN
      /\ pc \in [Threads -> Pcs] /\ mine \in [Calls -> [id : Nat, key : Keys]]
      /\ disk \in Image /\ image \in [Threads -> Image] /\ nextSeq \in Keys /\ queue \in Seq(Pending)
      /\ Len(queue) \in Nat /\ NoImage \in Image
  <2>1. NoImage \in Image
    BY ElemsNone, CallBounds DEF NoImage, Image, Keys
  <2> QED  BY <2>1, ClientFacts DEF CallsInv, TypeOK, Pcs
<1>1. nextId' \in Nat
  BY Framed DEF ClientStep
<1>2. ASSUME NEW t \in Threads, NEW p \in Pcs, To(t, p)
      PROVE  pc' \in [Threads -> Pcs]
  BY <1>f, <1>2 DEF To
<1>3. {"send", "capture", "save", "read", "done", "take", "replay", "down"} \subseteq Pcs
      /\ Sup \in Threads /\ Calls \subseteq Threads
  BY Bounds DEF Pcs
<1>4. ASSUME NEW c \in Calls, Enqueue(c)
      PROVE  /\ inFlight' \subseteq [id : Nat, key : Keys] /\ ready' \in BOOLEAN
             /\ pc' \in [Threads -> Pcs] /\ mine' \in [Calls -> [id : Nat, key : Keys]]
             /\ disk' \in Image /\ image' \in [Threads -> Image]
  <2>1. pc' \in [Threads -> Pcs]
    BY <1>2, <1>3, <1>4 DEF Enqueue
  <2> QED  BY <1>f, <1>4, <2>1 DEF Enqueue, Minted
<1>5. ASSUME NEW c \in Calls, Send(c)
      PROVE  inFlight' \subseteq inFlight /\ pc' \in [Threads -> Pcs] /\ UNCHANGED <<ready, mine, disk, image>>
  BY <1>2, <1>3, <1>5 DEF Send
<1>6. ASSUME NEW t \in Threads, Capture(t)
      PROVE  pc' \in [Threads -> Pcs] /\ UNCHANGED <<ready, mine, disk, inFlight>> /\ image' \in [Threads -> Image]
  <2>1. [queue |-> queue, next |-> nextSeq] \in Image
    BY <1>f DEF Image
  <2> QED  BY <1>f, <1>2, <1>3, <1>6, <2>1 DEF Capture
<1>7. ASSUME NEW t \in Threads, Save(t)
      PROVE  /\ pc' \in [Threads -> Pcs] /\ UNCHANGED <<mine, inFlight>> /\ image' \in [Threads -> Image]
             /\ disk' \in Image /\ ready' \in BOOLEAN
  <2>1. pc' \in [Threads -> Pcs]
    BY <1>2, <1>3, <1>7 DEF Save
  <2> QED  BY <1>f, <1>7, <2>1 DEF Save
<1>8. CASE Take
  <2>1. pc' \in [Threads -> Pcs] /\ UNCHANGED <<ready, mine, disk, image>>
    BY <1>2, <1>3, <1>8 DEF Take
  <2>2. todo' \in Seq(Message)
    BY <1>8, TakeMessages
  <2>3. \A i \in DOMAIN todo' : todo'[i].id \in Nat /\ todo'[i].key \in Keys
    <3>1. \A i \in DOMAIN todo' : todo'[i] \in Message
      BY <2>2
    <3> QED  BY <3>1 DEF Message
  <2> QED  BY <1>f, <1>1, <1>8, <2>1, <2>3 DEF Take
<1>9. CASE Establish \/ Replay \/ Lost \/ Receive
  <2>1. UNCHANGED <<ready, mine, disk, image>> /\ inFlight' \subseteq inFlight
    BY <1>9 DEF Establish, Replay, Lost, Receive
  <2>2. pc' = pc \/ \E p \in Pcs : To(Sup, p)
    BY <1>3, <1>9 DEF Establish, Replay, Lost, Receive
  <2> QED  BY <1>f, <1>1, <1>2, <1>3, <2>1, <2>2
<1>10. CASE ClientRestart
  <2>1. pc' \in [Threads -> Pcs]
    BY <1>f, <1>3, <1>10 DEF ClientRestart, Pcs
  <2> QED  BY <1>f, <1>1, <1>10, <2>1 DEF ClientRestart
<1>11. CASE Cut \/ ServerCrash \/ Execute \/ Write \/ PruneDecide \/ Prune \/ UNCHANGED vars
             \/ \E s \in Sessions : Admit(s) \/ Refuse(s) \/ EndSession(s) \/ Respond(s)
  <2>1. UNCHANGED client
    BY <1>11 DEF Cut, ServerCrash, Execute, Write, PruneDecide, Prune, vars, Admit, Refuse,
                 EndSession, Respond
  <2> QED  BY <1>f, <2>1 DEF client
<1> QED  BY <1>f, <1>1, <1>4, <1>5, <1>6, <1>7, <1>8, <1>9, <1>10, <1>11 DEF Next

\* Only keys in the log can be chosen for a prune.
LEMMA RecordKeys == ASSUME CallsInv PROVE Records \subseteq Keys
<1>1. \A i \in 1..Len(log) : log[i] \in Entry /\ DOMAIN log = 1..Len(log)
  BY DEF CallsInv, TypeOK
<1> QED  BY <1>1 DEF Records, Entry

\* The histories, the prune's choice and the count of events.
LEMMA HistoryTypes ==
    ASSUME CallsInv, [Next]_vars
    PROVE  /\ doomed' \subseteq Keys /\ acked' \subseteq Calls \X {"commit", "dedup"}
           /\ applied' \subseteq Calls /\ refused' \subseteq Calls /\ events' \in 0..MaxEvents
<1>f. /\ doomed \subseteq Keys /\ acked \subseteq Calls \X {"commit", "dedup"}
      /\ applied \subseteq Calls /\ refused \subseteq Calls /\ events \in 0..MaxEvents /\ MaxEvents \in Nat
  BY CallBounds DEF CallsInv, TypeOK
<1>1. Event => events' \in 0..MaxEvents
  BY <1>f DEF Event
<1>2. CASE Receive
  <2> DEFINE r == Head(reply[sess])
  <2>1. UNCHANGED <<doomed, applied, events>>
    BY <1>2 DEF Receive, server
  <2>2. r \in Result /\ Named(r) \subseteq 1..Len(queue)
    <3>1. r \in Result /\ queue \in Seq(Pending)
      BY <1>2, ReceiveCases, ClientFacts
    <3> QED  BY <3>1 DEF Named
  <2>3. refused' \subseteq Calls
    BY <1>f, <1>2, <2>2 DEF Receive, Result
  <2>4. \A i \in Named(r) : queue[i].call \in Calls
    BY <2>2, ClientFacts
  <2>5. CASE acked' = acked
    BY <1>f, <2>1, <2>3, <2>5
  <2>6. CASE acked' = acked \cup {<<queue[i].call, r.type>> : i \in Named(r)} /\ r.type \in {"commit", "dedup"}
    <3>1. acked' \subseteq Calls \X {"commit", "dedup"}
      BY <1>f, <2>4, <2>6
    <3> QED  BY <1>f, <2>1, <2>3, <3>1
  <2> QED  BY <1>2, <2>5, <2>6, ReceiveCases
<1>3. CASE Execute
  <2>1. UNCHANGED <<doomed, acked, refused>> /\ events' \in 0..MaxEvents
    BY <1>f, <1>1, <1>3 DEF Execute
  <2>2. srv[Head(jobs)].msg.call \in Calls
    BY <1>3, ExecuteFacts DEF Message
  <2> QED  BY <1>f, <1>3, <2>1, <2>2 DEF Execute
<1>4. CASE PruneDecide
  <2>1. doomed' \subseteq Records
    BY <1>4 DEF PruneDecide, Prunable
  <2> QED  BY <1>f, <1>1, <1>4, <2>1, RecordKeys DEF PruneDecide
<1>5. CASE Prune
  BY <1>f, <1>5 DEF Prune
<1>6. CASE ServerCrash
  BY <1>f, <1>1, <1>6 DEF ServerCrash
<1>7. CASE ClientRestart
  BY <1>f, <1>1, <1>7 DEF ClientRestart, server
<1>8. CASE \E s \in Sessions : Refuse(s)
  BY <1>f, <1>1, <1>8 DEF Refuse
<1>9. CASE Establish \/ Take \/ Replay \/ Lost \/ Cut
           \/ (\E c \in Calls : Enqueue(c) \/ Send(c)) \/ (\E t \in Threads : Capture(t) \/ Save(t))
  <2>1. UNCHANGED <<doomed, acked, refused, applied, events>>
    BY <1>9 DEF Establish, Take, Replay, Lost, Cut, Enqueue, Send, Capture, Save, server
  <2> QED  BY <1>f, <2>1
<1>10. CASE Write \/ UNCHANGED vars \/ \E s \in Sessions : Admit(s) \/ EndSession(s) \/ Respond(s)
  <2>1. UNCHANGED <<doomed, acked, refused, applied, events>>
    BY <1>10 DEF Write, vars, Admit, EndSession, Respond, server
  <2> QED  BY <1>f, <2>1
<1> QED  BY <1>2, <1>3, <1>4, <1>5, <1>6, <1>7, <1>8, <1>9, <1>10 DEF Next

LEMMA CallTypesStep == ASSUME CallsInv, [Next]_vars PROVE TypeOK' /\ ServerTypes'
<1>1. queue' \in Seq(Pending) /\ nextSeq' \in Keys
  BY QueuesStep DEF QueuesInv, QueueOK
<1>2. /\ inFlight' \subseteq [id : Nat, key : Keys] /\ nextId' \in Nat /\ ready' \in BOOLEAN
      /\ pc' \in [Threads -> Pcs] /\ mine' \in [Calls -> [id : Nat, key : Keys]]
      /\ disk' \in Image /\ image' \in [Threads -> Image]
  BY ClientTypes
<1>3. todo' \in Seq(Message)
  BY ToSendStep
<1>4. /\ wire' \in [Sessions -> Seq(Message)] /\ reply' \in [Sessions -> Seq(Result)]
      /\ nsess' \in 0..MaxSessions /\ alive' \subseteq 1..nsess' /\ sess' \in 0..nsess'
  BY NetStep DEF NetOK
<1>5. ServerTypes' /\ jobs' \in Seq(0..MaxSessions) /\ Len(jobs') <= QueueCap
      /\ \A s \in Sessions : srv'[s].at \in 0..Len(log')
  BY TasksStep DEF TasksOK
<1>6. \A s \in Sessions : /\ srv'[s].pc \in {"closed", "read", "job", "wait", "dedup", "err", "error"}
                          /\ srv'[s].msg \in Message \cup {<<>>}
  BY <1>5 DEF ServerTypes, Task
<1>7. log' \in Seq(Entry) /\ written' \in 0..Len(log')
  BY LogStep DEF LogOK
<1> QED  BY <1>1, <1>2, <1>3, <1>4, <1>5, <1>6, <1>7, HistoryTypes DEF TypeOK, Pcs

LEMMA CallsInvInit == Init => CallsInv
<1> SUFFICES ASSUME Init
             PROVE  CallsInv
  OBVIOUS
<1>n. \A S : <<>> \in Seq(S)
  BY ElemsNone
<1>z. Len(<<>>) = 0 /\ Elems(<<>>) = {} /\ 0 \in Keys /\ Sup \notin Calls /\ \A c \in Calls : c > 0
  BY ElemsNone, Bounds, CallBounds DEF Keys
<1>1. TypeOK
  <2>1. NoImage \in Image /\ disk \in Image /\ image \in [Threads -> Image]
    BY <1>n, <1>z DEF NoImage, Image, Init
  <2>2. pc \in [Threads -> Pcs] /\ mine \in [Calls -> [id : Nat, key : Keys]]
    BY <1>z DEF Init, Pcs
  <2>3. wire \in [Sessions -> Seq(Message)] /\ reply \in [Sessions -> Seq(Result)]
    BY <1>n DEF Init
  <2>4. \A s \in Sessions : srv[s].pc = "closed" /\ srv[s].msg = <<>> /\ srv[s].at = 0
    BY DEF Init, Idle
  <2>5. log = <<>> /\ log \in Seq(Entry) /\ jobs \in Seq(0..MaxSessions) /\ queue \in Seq(Pending)
        /\ todo \in Seq(Message) /\ Len(log) = 0 /\ Len(jobs) = 0
    BY <1>n, <1>z DEF Init
  <2>6. nextSeq \in Keys /\ nextId \in Nat /\ nsess \in 0..MaxSessions /\ sess \in 0..nsess
        /\ written \in 0..Len(log) /\ events \in 0..MaxEvents /\ Len(jobs) <= QueueCap
    BY <1>z, <2>5, CallBounds DEF Init
  <2>7. /\ inFlight = {} /\ ready = FALSE /\ alive = {} /\ doomed = {} /\ acked = {} /\ applied = {}
        /\ refused = {}
    BY DEF Init
  <2>8. \A s \in Sessions :
          /\ srv[s].pc \in {"closed", "read", "job", "wait", "dedup", "err", "error"}
          /\ srv[s].msg \in Message \cup {<<>>} /\ srv[s].at \in 0..Len(log)
    BY <2>4, <2>5
  <2> QED  BY <2>1, <2>2, <2>3, <2>5, <2>6, <2>7, <2>8 DEF TypeOK, Pcs
<1>2. ServerTypes
  BY DEF ServerTypes, Task, Init, Idle
<1>3. QueuesInv
  <2>1. QueueOK(<<>>, 0, pc, mine)
    BY <1>n, <1>z DEF QueueOK
  <2> QED  BY <2>1 DEF QueuesInv, Init, NoImage
<1>4. Messages = {} /\ Replies = {}
  <2>1. ToSend = {} /\ InHand = {}
    BY <1>z, Bounds DEF ToSend, InHand, Init, Idle, Busy
  <2>2. OnAll(wire) = {} /\ OnAll(reply) = {} /\ Elems(todo) = {}
    BY <1>z DEF OnAll, Init
  <2> QED  BY <2>1, <2>2 DEF Messages, Replies
<1>5. InFlightInv /\ MessagesInv /\ RepliesInv /\ AckedInv
  BY <1>4 DEF Init, InFlightInv, MessagesInv, RepliesInv, AckedInv
<1>6. JobsInv /\ WaitInv
  BY <1>z DEF JobsInv, WaitInv, Init, Idle
<1>7. LogInv /\ OnceInv
  BY <1>z DEF LogInv, OnceInv, Init
<1> QED  BY <1>1, <1>2, <1>3, <1>5, <1>6, <1>7 DEF CallsInv

LEMMA CallsInvNext == CallsInv /\ [Next]_vars => CallsInv'
<1> SUFFICES ASSUME CallsInv, [Next]_vars
             PROVE  CallsInv'
  OBVIOUS
<1>1. JobsInv' /\ WaitInv'
  BY TasksStep DEF TasksOK
<1> QED  BY <1>1, CallTypesStep, QueuesStep, InFlightStep, MessagesStep, RepliesStep, LogInvStep,
            AckedStep DEF CallsInv

\* The invariant, for every number of calls, sessions, records and events.
THEOREM CallsInvariant == Spec => []CallsInv
BY CallsInvInit, CallsInvNext, PTL DEF Spec

\* The queues, the sessions and the log of a client and its server fit their
\* types; in particular no key beyond the number of calls is ever minted.
THEOREM CallsTypes == Spec => []TypeOK
BY CallsInvariant, PTL DEF CallsInv

\* A call submitted once is applied once, over replays, lost connections and
\* crashes of either process, unless its key was pruned in between
\* (call_idempotent, replay_offline).
THEOREM CallsAppliedOnce == Spec => []AppliedOnce
<1>1. CallsInv => AppliedOnce
  <2> SUFFICES ASSUME CallsInv
               PROVE  AppliedOnce
    OBVIOUS
  <2>1. log \in Seq(Entry)
    BY TaskFacts
  <2>2. DOMAIN log = 1..Len(log)
    BY <2>1
  <2> QED  BY <2>2 DEF CallsInv, OnceInv, AppliedOnce
<1> QED  BY <1>1, CallsInvariant, PTL

\* A commit that was answered Ok survives every crash of the server
\* (reducer_call waits for the written mark).
THEOREM CommitAcksKept == Spec => []CommitAckKept
<1>1. CallsInv => CommitAckKept
  <2> SUFFICES ASSUME CallsInv, NEW c \in Calls, <<c, "commit">> \in acked
               PROVE  \E i \in DOMAIN log : log[i].kind = "call" /\ log[i].call = c
    BY DEF CommitAckKept
  <2>1. log \in Seq(Entry) /\ Len(log) \in Nat /\ written \in 0..Len(log)
    BY TaskFacts
  <2>2. PICK i \in 1..written : log[i].kind = "call" /\ log[i].call = c
    BY DEF CallsInv, AckedInv, Kept
  <2>3. i \in 1..Len(log) /\ DOMAIN log = 1..Len(log)
    BY <2>1
  <2> QED  BY <2>2, <2>3
<1> QED  BY <1>1, CallsInvariant, PTL

=============================================================================
