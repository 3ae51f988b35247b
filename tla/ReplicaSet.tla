------------------------------ MODULE ReplicaSet ------------------------------
(***************************************************************************)
(* The members of one shard's replica set: the replication sessions that   *)
(* stream the primary's log (fluxum-server replication.rs), the semi-sync  *)
(* barrier, and the election that replaces a primary (election.rs).        *)
(*                                                                         *)
(* log[m] is the durable part of a member's log: every decision here reads *)
(* CommitLog::durable_tx_id (DurableLog's `synced`), so an entry enters    *)
(* log[m] when it is durable there.  An entry's tx_id is its place; the    *)
(* number tx tells apart two transactions given the same tx_id.            *)
(***************************************************************************)
EXTENDS Naturals, Sequences, FiniteSets

CONSTANTS
  Member,
  Boot,        \* the member whose replication.role is `primary`
  Nobody,      \* no member
  Candidates,  \* bound: members whose election timer may expire
  MaxEpoch,    \* bound: highest epoch a candidate proposes
  MaxTx,       \* bound: transactions committed by the set
  MaxCrashes,  \* bound: process crashes
  MaxDials     \* bound: replication sessions opened

ASSUME MembersAssumption ==
  /\ IsFiniteSet(Member) /\ Boot \in Member /\ Nobody \notin Member
  /\ Candidates \subseteq Member

ASSUME BoundsAssumption ==
  MaxEpoch \in Nat /\ MaxTx \in Nat /\ MaxCrashes \in Nat /\ MaxDials \in Nat

VARIABLES
  \* Disk.
  epoch,      \* replication.epoch
  vote,       \* election.vote: [epoch, voted_for]
  log,        \* Seq([epoch, tx])
  \* The process: roles and epochs.
  role,       \* RoleState::primary; "down" while the process is
  svcEpoch,   \* ReplicationPrimary::epoch
  fenced,     \* ReplicationPrimary::fenced
  logEpoch,   \* CommitLog::epoch of the open handle
  ballot,     \* ElectionState::ballot, the cached vote
  \* The election task, the votes being answered, and vote messages.
  pc, round,  \* where run_candidacy is, the epoch it proposes
  answering,  \* what `answer` read before it takes the ballot's lock
  reqs, resps,
  \* Replication sessions.
  conn,       \* each follower's connection
  listed,     \* <<t, f>>: f has an entry in t's sessions map
  durable,    \* <<t, f>> |-> ReplicaSession::durable
  ghosts,     \* <<t, f>>: a stream of a lost connection has not yet ended
  \* Writes.
  admitted,   \* members with a call past the role check, not yet committed
  call,       \* the call at Boot's visibility barrier: [st, tx_id]
  txs,        \* transactions committed so far
  crashes, dials,
  \* History.
  acked,      \* <<tx_id, tx>> acknowledged on a quorum
  won,        \* <<epoch, member>> promoted
  votes,      \* <<epoch, voter, candidate>>
  clobbered   \* members that wrote a ballot over a newer one, or one as new

disk == <<epoch, vote, log>>
standing == <<role, svcEpoch, fenced, logEpoch>>
election == <<ballot, pc, round, answering, reqs, resps>>
sessions == <<conn, listed, durable, ghosts>>
writes == <<admitted, call, txs>>
bounds == <<crashes, dials>>
history == <<acked, won, votes, clobbered>>
vars == <<disk, standing, election, sessions, writes, bounds, history>>

Ballot == [epoch : Nat, voted_for : Member \cup {Nobody}]
NoBallot == [epoch |-> 0, voted_for |-> Nobody]
Position == [epoch : Nat, tx_id : Nat]
Req == [from : Member, to : Member, epoch : Nat, head : Position]
Resp == [from : Member, to : Member, epoch : Nat, granted : BOOLEAN]
NoAnswer == [st |-> "none"]
Answer == [st : {"read"}, req : Req, acting : Nat, head : Position, hears : BOOLEAN]
Entry == [epoch : Nat, tx : Nat]
NoMsg == [type |-> "none"]
Down == {NoMsg}
        \cup [type : {"hello", "heartbeat"}, epoch : Nat]
        \cup [type : {"batch"}, epoch : Nat, tx_id : Nat, entry : Entry]
Up == {NoMsg} \cup [type : {"ack"}, epoch : Nat, durable : Nat]
NoConn == [st |-> "none", to |-> Nobody, sent |-> 0, down |-> NoMsg, up |-> NoMsg]
Conn == {NoConn} \cup
        [st : {"hello", "open", "closed"}, to : Member, sent : Nat, down : Down, up : Up]

DiskTypes ==
  epoch \in [Member -> Nat] /\ vote \in [Member -> Ballot] /\ log \in [Member -> Seq(Entry)]
StandingTypes ==
  /\ role \in [Member -> {"down", "primary", "replica"}]
  /\ svcEpoch \in [Member -> Nat] /\ fenced \in [Member -> BOOLEAN]
  /\ logEpoch \in [Member -> Nat]
ElectionTypes ==
  /\ ballot \in [Member -> Ballot]
  /\ pc \in [Member -> {"idle", "proposed", "persisted", "asking", "promoting"}]
  /\ round \in [Member -> Nat]
  /\ answering \in [Member -> {NoAnswer} \cup Answer]
  /\ reqs \subseteq Req /\ resps \subseteq Resp
SessionTypes ==
  /\ conn \in [Member -> Conn]
  /\ listed \subseteq Member \X Member /\ ghosts \subseteq Member \X Member
  /\ durable \in [Member \X Member -> Nat]
WriteTypes ==
  /\ admitted \subseteq Member /\ txs \in Nat
  /\ call \in [st : {"none", "commit", "wait"}, tx_id : Nat]
  /\ call.st # "none" => call.tx_id \in 1..Len(log[Boot])
BoundTypes == crashes \in Nat /\ dials \in Nat
HistoryTypes ==
  /\ acked \subseteq Nat \X Nat /\ won \subseteq Nat \X Member
  /\ votes \subseteq Nat \X Member \X Member /\ clobbered \subseteq Member

\* The states of the members' parts; the call at the barrier is in Boot's log.
TypeOK ==
  /\ DiskTypes /\ StandingTypes /\ ElectionTypes /\ SessionTypes /\ WriteTypes
  /\ BoundTypes /\ HistoryTypes

Max2(a, b) == IF a >= b THEN a ELSE b
NoCall == [st |-> "none", tx_id |-> 0]
ConfigRole(m) == IF m = Boot THEN "primary" ELSE "replica"

\* Mutant of Majority: half of the members, rounded down.
Half == Cardinality(Member) \div 2

Majority == (Cardinality(Member) \div 2) + 1
LogHead(m) == [epoch |-> logEpoch[m], tx_id |-> Len(log[m])]
Behind(a, b) == a.epoch < b.epoch \/ (a.epoch = b.epoch /\ a.tx_id < b.tx_id)

Init ==
  /\ epoch = [m \in Member |-> 1]
  /\ vote = [m \in Member |-> NoBallot]
  /\ log = [m \in Member |-> <<>>]
  /\ role = [m \in Member |-> ConfigRole(m)]
  /\ svcEpoch = [m \in Member |-> 1]
  /\ fenced = [m \in Member |-> FALSE]
  /\ logEpoch = [m \in Member |-> 1]
  /\ ballot = [m \in Member |-> NoBallot]
  /\ pc = [m \in Member |-> "idle"]
  /\ round = [m \in Member |-> 0]
  /\ answering = [m \in Member |-> NoAnswer]
  /\ reqs = {} /\ resps = {}
  /\ conn = [m \in Member |-> NoConn]
  /\ listed = {} /\ ghosts = {}
  /\ durable = [p \in Member \X Member |-> 0]
  /\ admitted = {} /\ call = NoCall
  /\ txs = 0 /\ crashes = 0 /\ dials = 0
  /\ acked = {} /\ won = {} /\ votes = {} /\ clobbered = {}

-----------------------------------------------------------------------------
(* Writes and the visibility barrier. *)

\* reducer_call: the REP-042 role check, before the engine runs the call.
Admit(m) ==
  /\ role[m] = "primary" /\ m \notin admitted
  /\ txs < MaxTx
  /\ admitted' = admitted \cup {m}
  /\ UNCHANGED <<disk, standing, election, sessions, call, txs, bounds, history>>

\* The engine commits the call under the next tx_id, stamped with the log's
\* epoch.  Only the member configured as primary has a semi_sync block, and
\* one call at a time is followed to its barrier.
Commit(m) ==
  /\ m \in admitted /\ txs < MaxTx
  /\ admitted' = admitted \ {m}
  /\ txs' = txs + 1
  /\ log' = [log EXCEPT ![m] = Append(@, [epoch |-> logEpoch[m], tx |-> txs + 1])]
  /\ call' = IF m = Boot /\ call.st = "none"
             THEN [st |-> "commit", tx_id |-> Len(log[m]) + 1] ELSE call
  /\ UNCHANGED <<epoch, vote, standing, election, sessions, bounds, history>>

\* visibility_barrier's first check; a fenced member refuses.
BarrierEnter ==
  /\ call.st = "commit"
  /\ call' = IF fenced[Boot] THEN NoCall ELSE [call EXCEPT !.st = "wait"]
  /\ UNCHANGED <<disk, standing, election, sessions, admitted, txs, bounds, history>>

\* Mutant of Holders: a replica one entry behind counts.
HoldersNearly(m, i) == {f \in Member : <<m, f>> \in listed /\ durable[<<m, f>>] + 1 >= i}

\* The replicas whose session reports entry i durable.
Holders(m, i) == {f \in Member : <<m, f>> \in listed /\ durable[<<m, f>>] >= i}

\* Enough sessions report the entry durable: the count comes before the
\* loop's look at `fenced`.
BarrierPass ==
  /\ call.st = "wait"
  /\ Cardinality(Holders(Boot, call.tx_id)) >= Majority - 1
  /\ call' = NoCall
  /\ acked' = acked \cup {<<call.tx_id, log[Boot][call.tx_id].tx>>}
  /\ UNCHANGED <<disk, standing, election, sessions, admitted, txs, bounds,
                 won, votes, clobbered>>

\* Fenced, or ack_timeout has passed: an error, or under `degrade` an answer
\* that promises no quorum.
BarrierGiveUp ==
  /\ call.st = "wait"
  /\ Cardinality(Holders(Boot, call.tx_id)) < Majority - 1
  /\ call' = NoCall
  /\ UNCHANGED <<disk, standing, election, sessions, admitted, txs, bounds, history>>

-----------------------------------------------------------------------------
(* Replication sessions.  A connection holds at most one frame each way:   *)
(* more of them only wait longer.                                          *)

Close(f) == conn' = [conn EXCEPT ![f] = NoConn]

\* A connection ended by the follower leaves the primary's stream running
\* until it looks at conn_closed.
Leave(f) ==
  /\ Close(f)
  /\ ghosts' = IF conn[f].st = "open" THEN ghosts \cup {<<conn[f].to, f>>} ELSE ghosts

\* replica_session up to its ReplicaHello.  The hello carries the marker, which
\* nothing changes while it is on its way, and the durable tx_id (`sent`).
Dial(f, t) ==
  /\ role[f] = "replica" /\ pc[f] = "idle" /\ f # t
  /\ conn[f].st = "none" /\ dials < MaxDials
  /\ conn' = [conn EXCEPT ![f] =
       [NoConn EXCEPT !.st = "hello", !.to = t, !.sent = Len(log[f])]]
  /\ dials' = dials + 1
  /\ UNCHANGED <<disk, standing, election, listed, durable, ghosts, writes,
                 crashes, history>>

Fence(t, theirs) ==
  /\ svcEpoch' = [svcEpoch EXCEPT ![t] = Max2(@, theirs)]
  /\ fenced' = [fenced EXCEPT ![t] = TRUE]

\* The hello reaches t: not the primary or down - closed; a higher epoch -
\* t is fenced; a longer log - refused.
Refuse(f) ==
  LET t == conn[f].to IN
  /\ conn[f].st = "hello"
  /\ \/ role[t] # "primary" /\ UNCHANGED <<svcEpoch, fenced>>
     \/ role[t] = "primary" /\ epoch[f] > svcEpoch[t] /\ Fence(t, epoch[f])
     \/ /\ role[t] = "primary" /\ epoch[f] <= svcEpoch[t]
        /\ conn[f].sent > Len(log[t]) /\ UNCHANGED <<svcEpoch, fenced>>
  /\ Close(f)
  /\ UNCHANGED <<disk, role, logEpoch, election, listed, durable, ghosts, writes,
                 bounds, history>>

\* The hello is accepted: a session under f's name, and a PrimaryHello.
Accept(f) ==
  LET t == conn[f].to IN
  /\ conn[f].st = "hello" /\ role[t] = "primary"
  /\ epoch[f] <= svcEpoch[t] /\ conn[f].sent <= Len(log[t])
  /\ conn' = [conn EXCEPT ![f] = [@ EXCEPT
       !.st = "open", !.down = [type |-> "hello", epoch |-> svcEpoch[t]]]]
  /\ listed' = listed \cup {<<t, f>>}
  /\ durable' = [durable EXCEPT ![<<t, f>>] = conn[f].sent]
  /\ UNCHANGED <<disk, standing, election, ghosts, writes, bounds, history>>

\* stream_session sends the next entry; it does not look at its role again.
SendBatch(f) ==
  LET t == conn[f].to i == conn[f].sent + 1 IN
  /\ conn[f].st = "open" /\ conn[f].down = NoMsg
  /\ i <= Len(log[t])
  /\ conn' = [conn EXCEPT ![f] = [@ EXCEPT !.sent = i,
       !.down = [type |-> "batch", epoch |-> svcEpoch[t], tx_id |-> i, entry |-> log[t][i]]]]
  /\ UNCHANGED <<disk, standing, election, listed, durable, ghosts, writes, bounds,
                 history>>

\* ... and a heartbeat when there is nothing to send.
SendHeartbeat(f) ==
  LET t == conn[f].to IN
  /\ conn[f].st = "open" /\ conn[f].down = NoMsg
  /\ conn[f].sent >= Len(log[t])
  /\ conn' = [conn EXCEPT ![f] =
       [@ EXCEPT !.down = [type |-> "heartbeat", epoch |-> svcEpoch[t]]]]
  /\ UNCHANGED <<disk, standing, election, listed, durable, ghosts, writes, bounds,
                 history>>

Received(f) == conn' = [conn EXCEPT ![f] = [@ EXCEPT !.down = NoMsg]]

\* A PrimaryHello or a heartbeat: a higher epoch is written to the marker.
ReceiveEpoch(f) ==
  LET msg == conn[f].down IN
  /\ msg.type \in {"hello", "heartbeat"}
  /\ epoch' = [epoch EXCEPT ![f] = Max2(@, msg.epoch)]
  /\ Received(f)
  /\ UNCHANGED <<vote, log, standing, election, listed, durable, ghosts, writes, bounds,
                 history>>

\* A batch.  One of an older epoch than the marker's ends the session.  The
\* entry's epoch, when the log's is lower, goes to the log and over the marker;
\* then the entry is appended under the log's own epoch, or ends the session
\* if it does not continue the log.
ReceiveBatch(f) ==
  LET msg == conn[f].down
      fresh == msg.epoch >= epoch[f]
      raise == fresh /\ msg.entry.epoch > logEpoch[f]
      applies == fresh /\ msg.tx_id = Len(log[f]) + 1 IN
  /\ msg.type = "batch"
  /\ logEpoch' = [logEpoch EXCEPT ![f] = IF raise THEN msg.entry.epoch ELSE @]
  /\ epoch' = [epoch EXCEPT ![f] = IF raise THEN msg.entry.epoch ELSE @]
  /\ IF applies
     THEN /\ log' = [log EXCEPT ![f] = Append(@, [epoch |-> logEpoch'[f], tx |-> msg.entry.tx])]
          /\ Received(f) /\ UNCHANGED ghosts
     ELSE Leave(f) /\ UNCHANGED log
  /\ UNCHANGED <<vote, role, svcEpoch, fenced, election, listed, durable, writes, bounds,
                 history>>

\* The ack tick.
SendAck(f) ==
  /\ conn[f].st = "open" /\ conn[f].up = NoMsg
  /\ conn' = [conn EXCEPT ![f] =
       [@ EXCEPT !.up = [type |-> "ack", epoch |-> epoch[f], durable |-> Len(log[f])]]]
  /\ UNCHANGED <<disk, standing, election, listed, durable, ghosts, writes, bounds,
                 history>>

\* ReplicationPrimary::ack: fence on a higher epoch; a name with no session is
\* ignored.
ReceiveAck(f) ==
  LET t == conn[f].to ack == conn[f].up IN
  /\ conn[f].st = "open" /\ ack # NoMsg
  /\ IF ack.epoch > svcEpoch[t] THEN Fence(t, ack.epoch) ELSE UNCHANGED <<svcEpoch, fenced>>
  /\ durable' = IF <<t, f>> \in listed
                THEN [durable EXCEPT ![<<t, f>>] = Max2(@, ack.durable)] ELSE durable
  /\ conn' = [conn EXCEPT ![f] = [@ EXCEPT !.up = NoMsg]]
  /\ UNCHANGED <<disk, role, logEpoch, election, listed, ghosts, writes, bounds, history>>

\* The connection is lost; what was in flight goes with it.
Disconnect(f) ==
  /\ conn[f].st # "none"
  /\ Leave(f)
  /\ UNCHANGED <<disk, standing, election, listed, durable, writes, bounds, history>>

\* The stream of a lost connection ends and removes the map's entry under the
\* follower's name, whichever session put it there.
EndStream(t, f) ==
  /\ <<t, f>> \in ghosts
  /\ ghosts' = ghosts \ {<<t, f>>}
  /\ listed' = listed \ {<<t, f>>}
  /\ durable' = [durable EXCEPT ![<<t, f>>] = 0]
  /\ UNCHANGED <<disk, standing, election, conn, writes, bounds, history>>

-----------------------------------------------------------------------------
(* The election. *)

\* follow_until_timeout ends, which drops the replica client; next_epoch.
Propose(c) ==
  LET next == Max2(epoch[c], ballot[c].epoch) + 1 IN
  /\ role[c] = "replica" /\ pc[c] = "idle"
  /\ c \in Candidates /\ next <= MaxEpoch
  /\ pc' = [pc EXCEPT ![c] = "proposed"]
  /\ round' = [round EXCEPT ![c] = next]
  /\ Leave(c)
  /\ UNCHANGED <<disk, standing, ballot, answering, reqs, resps, listed, durable, writes,
                 bounds, history>>

SelfBallot(c) == [epoch |-> round[c], voted_for |-> c]

\* History: v writes ballot b over the ballot `old`.
Clobber(v, old, b) ==
  clobbered' = IF old.epoch >= b.epoch /\ old # b THEN clobbered \cup {v} ELSE clobbered

\* self_ballot writes the file without the ballot's lock ...
PersistSelfBallot(c) ==
  /\ pc[c] = "proposed"
  /\ vote' = [vote EXCEPT ![c] = SelfBallot(c)]
  /\ Clobber(c, vote[c], SelfBallot(c))
  /\ pc' = [pc EXCEPT ![c] = "persisted"]
  /\ UNCHANGED <<epoch, log, standing, ballot, round, answering, reqs, resps, sessions,
                 writes, bounds, acked, won, votes>>

\* ... and then the cached ballot; the request goes to every peer.
RequestVotes(c) ==
  /\ pc[c] = "persisted"
  /\ ballot' = [ballot EXCEPT ![c] = SelfBallot(c)]
  /\ Clobber(c, ballot[c], SelfBallot(c))
  /\ votes' = votes \cup {<<round[c], c, c>>}
  /\ reqs' = reqs \cup {[from |-> c, to |-> v, epoch |-> round[c], head |-> LogHead(c)] :
                         v \in Member \ {c}}
  /\ pc' = [pc EXCEPT ![c] = "asking"]
  /\ UNCHANGED <<disk, standing, round, answering, resps, sessions, writes, bounds,
                 acked, won>>

\* Whether a primary counts as heard.  For a replica that is the age of its
\* contact clock, which says nothing certain about anyone: both are possible.
HearsPrimary(v) == IF role[v] = "primary" THEN {~fenced[v]} ELSE BOOLEAN

\* `answer` reads the marker, the log's head and the contact clock before it
\* locks the ballot; a member answers one request at a time here.
AnswerRead(v, r) ==
  /\ r \in reqs /\ r.to = v /\ role[v] # "down" /\ answering[v] = NoAnswer
  /\ reqs' = reqs \ {r}
  /\ \E hears \in HearsPrimary(v) :
       answering' = [answering EXCEPT ![v] =
         [st |-> "read", req |-> r, acting |-> epoch[v], head |-> LogHead(v), hears |-> hears]]
  /\ UNCHANGED <<disk, standing, ballot, pc, round, resps, sessions, writes, bounds, history>>

\* decide_vote, on what `answer` read (a) and the ballot (b).
DecideVote(a, b) ==
  /\ ~a.hears
  /\ a.req.epoch > a.acting
  /\ b.epoch < a.req.epoch \/ (b.epoch = a.req.epoch /\ b.voted_for = a.req.from)
  /\ ~Behind(a.req.head, a.head)

\* A response to a candidate that no longer waits for it is lost.
Respond(a, e, granted) ==
  LET c == a.req.from IN
  resps' = IF pc[c] = "asking" /\ round[c] = a.req.epoch
           THEN resps \cup {[from |-> a.req.to, to |-> c, epoch |-> e, granted |-> granted]}
           ELSE resps

\* The vote is granted: the ballot is on disk before the answer leaves.
Grant(v) ==
  LET a == answering[v]
      b == [epoch |-> a.req.epoch, voted_for |-> a.req.from] IN
  /\ a # NoAnswer /\ DecideVote(a, ballot[v])
  /\ vote' = [vote EXCEPT ![v] = b]
  /\ ballot' = [ballot EXCEPT ![v] = b]
  /\ votes' = votes \cup {<<b.epoch, v, b.voted_for>>}
  /\ Clobber(v, vote[v], b)
  /\ Respond(a, a.acting, TRUE)
  /\ answering' = [answering EXCEPT ![v] = NoAnswer]
  /\ UNCHANGED <<epoch, log, standing, pc, round, reqs, sessions, writes, bounds, acked, won>>

\* The vote is denied, with the highest epoch the member knows.
Deny(v) ==
  LET a == answering[v] IN
  /\ a # NoAnswer /\ ~DecideVote(a, ballot[v])
  /\ Respond(a, Max2(a.acting, ballot[v].epoch), FALSE)
  /\ answering' = [answering EXCEPT ![v] = NoAnswer]
  /\ UNCHANGED <<disk, standing, ballot, pc, round, reqs, sessions, writes, bounds,
                 history>>

Got(c) == {r \in resps : r.to = c}
Granters(c) == {v \in Member : \E r \in Got(c) : r.from = v /\ r.granted}
Tally(c) == 1 + Cardinality(Granters(c))
NewerSeen(c) == {r \in Got(c) : r.epoch > round[c]}
EndRound(c) == resps' = resps \ Got(c)

\* The round ends, every ask answered or timed out: a newer epoch was seen and
\* goes to the marker ...
StandDown(c) ==
  /\ pc[c] = "asking"
  /\ \E r \in NewerSeen(c) :
       /\ \A q \in NewerSeen(c) : q.epoch <= r.epoch
       /\ epoch' = [epoch EXCEPT ![c] = r.epoch]
  /\ EndRound(c)
  /\ pc' = [pc EXCEPT ![c] = "idle"] /\ round' = [round EXCEPT ![c] = 0]
  /\ UNCHANGED <<vote, log, standing, ballot, answering, reqs, sessions, writes, bounds,
                 history>>

\* ... or there is no majority ...
LoseRound(c) ==
  /\ pc[c] = "asking" /\ NewerSeen(c) = {} /\ Tally(c) < Majority
  /\ EndRound(c)
  /\ pc' = [pc EXCEPT ![c] = "idle"] /\ round' = [round EXCEPT ![c] = 0]
  /\ UNCHANGED <<disk, standing, ballot, answering, reqs, sessions, writes, bounds, history>>

\* Mutant of WinRound: the marker is not written.
WinUnpersisted(c) ==
  /\ pc[c] = "asking" /\ NewerSeen(c) = {} /\ Tally(c) >= Majority
  /\ EndRound(c)
  /\ pc' = [pc EXCEPT ![c] = "promoting"]
  /\ UNCHANGED <<disk, standing, ballot, round, answering, reqs, sessions, writes,
                 bounds, history>>

\* ... or the round is won: the epoch is persisted ...
WinRound(c) ==
  /\ pc[c] = "asking" /\ NewerSeen(c) = {} /\ Tally(c) >= Majority
  /\ epoch' = [epoch EXCEPT ![c] = round[c]]
  /\ EndRound(c)
  /\ pc' = [pc EXCEPT ![c] = "promoting"]
  /\ UNCHANGED <<vote, log, standing, ballot, round, answering, reqs, sessions, writes,
                 bounds, history>>

\* ... and once the log's writer has the epoch the member is primary.
Promote(c) ==
  /\ pc[c] = "promoting" /\ round[c] >= logEpoch[c]
  /\ logEpoch' = [logEpoch EXCEPT ![c] = round[c]]
  /\ svcEpoch' = [svcEpoch EXCEPT ![c] = Max2(@, round[c])]
  /\ role' = [role EXCEPT ![c] = "primary"]
  /\ pc' = [pc EXCEPT ![c] = "idle"] /\ round' = [round EXCEPT ![c] = 0]
  /\ won' = won \cup {<<round[c], c>>}
  /\ UNCHANGED <<disk, fenced, ballot, answering, reqs, resps, sessions, writes,
                 bounds, acked, votes, clobbered>>

\* park_until_fenced sees the fence; demote.  `fenced` stays set.
Demote(m) ==
  /\ role[m] = "primary" /\ fenced[m]
  /\ epoch' = [epoch EXCEPT ![m] = svcEpoch[m]]
  /\ role' = [role EXCEPT ![m] = "replica"]
  /\ UNCHANGED <<vote, log, svcEpoch, fenced, logEpoch, election, sessions, writes,
                 bounds, history>>

-----------------------------------------------------------------------------
(* Crash and restart. *)

\* A process dies.  Its disk stays; frames it has sent can still be read.
Crash(m) ==
  /\ role[m] # "down" /\ crashes < MaxCrashes
  /\ crashes' = crashes + 1
  /\ role' = [role EXCEPT ![m] = "down"]
  /\ pc' = [pc EXCEPT ![m] = "idle"] /\ round' = [round EXCEPT ![m] = 0]
  /\ answering' = [answering EXCEPT ![m] = NoAnswer]
  /\ resps' = {r \in resps : r.to # m}
  /\ conn' = [f \in Member |->
       IF f = m THEN NoConn
       ELSE IF conn[f].to = m THEN [conn[f] EXCEPT !.st = "closed", !.up = NoMsg]
       ELSE conn[f]]
  /\ ghosts' = {g \in ghosts : g[1] # m}
                 \cup (IF conn[m].st = "open" THEN {<<conn[m].to, m>>} ELSE {})
  /\ listed' = {p \in listed : p[1] # m}
  /\ durable' = [p \in Member \X Member |-> IF p[1] = m THEN 0 ELSE durable[p]]
  /\ admitted' = admitted \ {m}
  /\ call' = IF m = Boot THEN NoCall ELSE call
  /\ UNCHANGED <<disk, svcEpoch, fenced, logEpoch, ballot, reqs, txs,
                 dials, history>>

\* Mutant of Restart: the ballot's file is not read.
RestartForgetful(m) ==
  /\ role[m] = "down"
  /\ role' = [role EXCEPT ![m] = ConfigRole(m)]
  /\ svcEpoch' = [svcEpoch EXCEPT ![m] = epoch[m]]
  /\ logEpoch' = [logEpoch EXCEPT ![m] = epoch[m]]
  /\ fenced' = [fenced EXCEPT ![m] = FALSE]
  /\ ballot' = [ballot EXCEPT ![m] = NoBallot]
  /\ UNCHANGED <<disk, pc, round, answering, reqs, resps, sessions, writes, bounds, history>>

\* boot: the persisted epoch for the log and the service, the ballot from its
\* file, and the role the configuration names.
Restart(m) ==
  /\ role[m] = "down"
  /\ role' = [role EXCEPT ![m] = ConfigRole(m)]
  /\ svcEpoch' = [svcEpoch EXCEPT ![m] = epoch[m]]
  /\ logEpoch' = [logEpoch EXCEPT ![m] = epoch[m]]
  /\ fenced' = [fenced EXCEPT ![m] = FALSE]
  /\ ballot' = [ballot EXCEPT ![m] = vote[m]]
  /\ UNCHANGED <<disk, pc, round, answering, reqs, resps, sessions, writes, bounds, history>>

-----------------------------------------------------------------------------
Writing == BarrierEnter \/ BarrierPass \/ BarrierGiveUp \/ \E m \in Member : Admit(m) \/ Commit(m)

Streaming ==
  \/ \E f \in Member :
       \/ \E t \in Member : Dial(f, t) \/ EndStream(t, f)
       \/ Refuse(f) \/ Accept(f) \/ SendBatch(f) \/ SendHeartbeat(f) \/ ReceiveEpoch(f)
       \/ ReceiveBatch(f) \/ SendAck(f) \/ ReceiveAck(f) \/ Disconnect(f)

Electing ==
  \E m \in Member :
    \/ Propose(m) \/ PersistSelfBallot(m) \/ RequestVotes(m)
    \/ \E r \in reqs : AnswerRead(m, r)
    \/ Grant(m) \/ Deny(m) \/ StandDown(m) \/ LoseRound(m) \/ WinRound(m)
    \/ Promote(m) \/ Demote(m)

Failing == \E m \in Member : Crash(m) \/ Restart(m)

Next == Writing \/ Streaming \/ Electing \/ Failing
Spec == Init /\ [][Next]_vars

-----------------------------------------------------------------------------
(* Properties. *)

\* No epoch has two winners, across lost votes, late votes and restarts, as
\* long as no ballot was written over a newer one: next_epoch and self_ballot
\* run beside `answer` without the lock it decides under.
OneWinnerPerEpoch ==
  clobbered = {} => \A w, x \in won : w[1] = x[1] => w[2] = x[2]

\* Ballot b still binds a voter to the vote w.
Binds(b, w) == b.epoch > w[1] \/ (b.epoch = w[1] /\ b.voted_for = w[3])

\* A vote once given is never forgotten: after any crash and restart the
\* ballot on disk, and the cached one decide_vote uses, is that vote or a vote
\* in a later epoch (persist_ballot before the answer, REP-004).
VotesRemembered ==
  \A w \in votes : w[2] \notin clobbered =>
    Binds(vote[w[2]], w) /\ (role[w[2]] # "down" => Binds(ballot[w[2]], w))

\* Whatever the member's part - following, promoted, demoted, restarted - its
\* marker covers its log: the epoch a restart opens the log under is never
\* below an entry's (CommitLog::open would refuse), and entries' epochs never
\* go down along the log.
MarkerCoversLog ==
  \A m \in Member :
    /\ role[m] # "down" => logEpoch[m] <= epoch[m]
    /\ \A i \in 1..Len(log[m]) :
         /\ log[m][i].epoch <= epoch[m]
         /\ \A j \in 1..i : log[m][j].epoch <= log[m][i].epoch

Holds(m, a) == a[1] <= Len(log[m]) /\ log[m][a[1]].tx = a[2]

\* Until a failover, what the barrier acknowledged is on a majority of the
\* members' disks, whatever sessions were lost, replaced or ended late.
QuorumHeld ==
  won = {} => \A a \in acked : Cardinality({m \in Member : Holds(m, a)}) >= Majority

(* Claims of the repository the code does not keep. *)

\* REP-002: at most one member holds the primary role for a given epoch.  Here
\* only behaviours in which no ballot was overwritten count, and of a primary
\* only one that does not know it is fenced.
OnePrimaryPerEpoch ==
  clobbered = {} => \A m, n \in Member :
    /\ role[m] = "primary" /\ ~fenced[m]
    /\ role[n] = "primary" /\ ~fenced[n]
    /\ svcEpoch[m] = svcEpoch[n]
    => m = n

\* election.rs: in semi_sync the winner holds every quorum-acknowledged
\* transaction.
WinnerHoldsAcked ==
  [][\A c \in Member : Promote(c) => \A a \in acked : Holds(c, a)]_vars

\* election.rs: one ballot per epoch, ever.
OneBallotPerEpoch ==
  \A w, x \in votes : w[1] = x[1] /\ w[2] = x[2] => w[3] = x[3]
=============================================================================
